---------------------------- MODULE Admin_proofs ----------------------------
(***************************************************************************)
(* Proofs about what a server keeps of its configuration and of its bans.  *)
(*                                                                         *)
(* LinkConf: nothing points to a link {} or class {} block that was freed, *)
(* and every block counts who refers to it, for any number of blocks,      *)
(* connections, look-ups and REHASHes.  The invariant counts the blocks    *)
(* that are not in memory too: their counters are 0 and nobody refers to   *)
(* them.  A block whose counter is not 0 is in memory, which is all that a *)
(* REHASH or an exit has to keep.                                          *)
(*                                                                         *)
(* Includes: the list of includes is what the server runs with, and a      *)
(* REHASH waits for its downloads, for any includes, versions, failures    *)
(* and crashes.                                                            *)
(*                                                                         *)
(* Tkl: a ban that a server holds is in force there.                       *)
(***************************************************************************)
EXTENDS LinkConf, Includes, Tkl, FiniteSetTheorems, TLAPS

Exact ==
  /\ \A k \in Class : /\ class[k].clients = Cardinality(InClass(k))
                      /\ class[k].xrefcount = Cardinality(LinksIn(k))
  /\ \A b \in Block : link[b].refcount = Cardinality(HeldBy(b)) + Cardinality(AskedFor(b))

Kept ==
  /\ \A k \in Class : class[k].clients # 0 \/ class[k].xrefcount # 0 => class[k].there
  /\ \A b \in Block : /\ link[b].refcount # 0 => link[b].there
                      /\ link[b].there => link[b].class # NULL

(* What a connection points to, by its status.                             *)
ConnOK ==
  \A c \in Conn :
     /\ conn[c].status \in {"none", "unknown", "connecting"} => conn[c].class = NULL
     /\ conn[c].status \in {"none", "unknown", "user"} => conn[c].conf = NULL
     /\ conn[c].status \in {"user", "server"} => conn[c].class # NULL
     /\ conn[c].status \in {"connecting", "server"} => conn[c].conf # NULL

Inv == LinkTypeOK /\ ConnOK /\ Exact /\ Kept

ClassT == [there : BOOLEAN, temporary : BOOLEAN, clients : Int, xrefcount : Int]
LinkT == [there : BOOLEAN, temporary : BOOLEAN, class : Class \cup {NULL}, refcount : Int]
ConnT == [status : {"none", "unknown", "user", "connecting", "server"},
          conf : Block \cup {NULL}, class : Class \cup {NULL}]

(***************************************************************************)
(* Counting.                                                               *)
(***************************************************************************)
Delta(after, before) == IF after /\ ~before THEN 1
                        ELSE IF ~after /\ before THEN -1 ELSE 0

LEMMA CountChange ==
  ASSUME NEW X, IsFiniteSet(X), NEW S \in SUBSET X, NEW T \in SUBSET X, NEW c \in X,
         \A x \in X : x # c => (x \in T <=> x \in S)
  PROVE  Cardinality(T) = Cardinality(S) + Delta(c \in T, c \in S)
<1>1. IsFiniteSet(S) /\ Cardinality(S) \in Nat
  BY FS_Subset, FS_CardinalityType
<1>2. CASE c \in T /\ c \notin S
  <2>1. T = S \cup {c}
    BY <1>2
  <2> QED
    BY <1>1, <1>2, <2>1, FS_AddElement DEF Delta
<1>3. CASE c \notin T /\ c \in S
  <2>1. T = S \ {c}
    BY <1>3
  <2> QED
    BY <1>1, <1>3, <2>1, FS_RemoveElement DEF Delta
<1>4. CASE c \in T <=> c \in S
  <2>1. T = S
    BY <1>4
  <2> QED
    BY <1>1, <1>4, <2>1 DEF Delta
<1> QED
  BY <1>2, <1>3, <1>4

LEMMA Finite ==
  ASSUME LinkConfAssumption
  PROVE  /\ IsFiniteSet(Block)
         /\ \A k : /\ IsFiniteSet(InClass(k)) /\ Cardinality(InClass(k)) \in Nat
                   /\ IsFiniteSet(LinksIn(k)) /\ Cardinality(LinksIn(k)) \in Nat
         /\ \A b : /\ IsFiniteSet(HeldBy(b)) /\ Cardinality(HeldBy(b)) \in Nat
                   /\ IsFiniteSet(AskedFor(b)) /\ Cardinality(AskedFor(b)) \in Nat
<1>1. IsFiniteSet(Block)
  BY FS_Product DEF LinkConfAssumption, Block
<1>2. /\ \A k : InClass(k) \in SUBSET Conn /\ LinksIn(k) \in SUBSET Block
      /\ \A b : HeldBy(b) \in SUBSET Conn /\ AskedFor(b) \in SUBSET Req
  BY DEF InClass, LinksIn, HeldBy, AskedFor
<1> QED
  BY <1>1, <1>2, FS_Subset, FS_CardinalityType DEF LinkConfAssumption

Sizes == /\ \A k : Cardinality(InClass(k)) \in Int /\ Cardinality(LinksIn(k)) \in Int
         /\ \A b : Cardinality(HeldBy(b)) \in Int /\ Cardinality(AskedFor(b)) \in Int

LEMMA SizesHold == ASSUME LinkConfAssumption PROVE Sizes
  BY Finite DEF Sizes

(* One connection, look-up or block is another one.                        *)
LEMMA ConnByOne ==
  ASSUME LinkConfAssumption, NEW c \in Conn,
         \A x \in Conn : x # c => conn'[x] = conn[x]
  PROVE  /\ \A k : Cardinality(InClass(k)') = Cardinality(InClass(k))
                     + Delta(conn'[c].class = k, conn[c].class = k)
         /\ \A b : Cardinality(HeldBy(b)') = Cardinality(HeldBy(b))
                     + Delta(conn'[c].conf = b, conn[c].conf = b)
<1>1. IsFiniteSet(Conn)
  BY DEF LinkConfAssumption
<1>2. ASSUME NEW k
      PROVE  Cardinality(InClass(k)') = Cardinality(InClass(k))
                     + Delta(conn'[c].class = k, conn[c].class = k)
  <2>1. /\ InClass(k) \in SUBSET Conn /\ InClass(k)' \in SUBSET Conn
        /\ \A x \in Conn : /\ x \in InClass(k) <=> conn[x].class = k
                           /\ x \in InClass(k)' <=> conn'[x].class = k
    BY DEF InClass
  <2>2. Cardinality(InClass(k)') = Cardinality(InClass(k))
           + Delta(c \in InClass(k)', c \in InClass(k))
    BY <1>1, <2>1, CountChange
  <2> QED
    BY <2>1, <2>2
<1>3. ASSUME NEW b
      PROVE  Cardinality(HeldBy(b)') = Cardinality(HeldBy(b))
                     + Delta(conn'[c].conf = b, conn[c].conf = b)
  <2>1. /\ HeldBy(b) \in SUBSET Conn /\ HeldBy(b)' \in SUBSET Conn
        /\ \A x \in Conn : /\ x \in HeldBy(b) <=> conn[x].conf = b
                           /\ x \in HeldBy(b)' <=> conn'[x].conf = b
    BY DEF HeldBy
  <2>2. Cardinality(HeldBy(b)') = Cardinality(HeldBy(b))
           + Delta(c \in HeldBy(b)', c \in HeldBy(b))
    BY <1>1, <2>1, CountChange
  <2> QED
    BY <2>1, <2>2
<1> QED
  BY <1>2, <1>3

LEMMA ReqByOne ==
  ASSUME LinkConfAssumption, NEW r \in Req,
         \A x \in Req : x # r => req'[x] = req[x]
  PROVE  \A b : Cardinality(AskedFor(b)') = Cardinality(AskedFor(b))
                     + Delta(req'[r] = b, req[r] = b)
<1>1. IsFiniteSet(Req)
  BY DEF LinkConfAssumption
<1>2. SUFFICES ASSUME NEW b
               PROVE  Cardinality(AskedFor(b)') = Cardinality(AskedFor(b))
                     + Delta(req'[r] = b, req[r] = b)
  OBVIOUS
<1>3. /\ AskedFor(b) \in SUBSET Req /\ AskedFor(b)' \in SUBSET Req
      /\ \A x \in Req : /\ x \in AskedFor(b) <=> req[x] = b
                        /\ x \in AskedFor(b)' <=> req'[x] = b
  BY DEF AskedFor
<1>4. Cardinality(AskedFor(b)') = Cardinality(AskedFor(b))
         + Delta(r \in AskedFor(b)', r \in AskedFor(b))
  BY <1>1, <1>3, CountChange
<1> QED
  BY <1>3, <1>4

LEMMA LinkByOne ==
  ASSUME LinkConfAssumption, NEW b \in Block,
         \A x \in Block : x # b => link'[x] = link[x]
  PROVE  \A k : Cardinality(LinksIn(k)') = Cardinality(LinksIn(k))
                  + Delta(link'[b].there /\ link'[b].class = k,
                          link[b].there /\ link[b].class = k)
<1>1. IsFiniteSet(Block)
  BY Finite
<1>2. SUFFICES ASSUME NEW k
               PROVE  Cardinality(LinksIn(k)') = Cardinality(LinksIn(k))
                        + Delta(link'[b].there /\ link'[b].class = k,
                                link[b].there /\ link[b].class = k)
  OBVIOUS
<1>3. /\ LinksIn(k) \in SUBSET Block /\ LinksIn(k)' \in SUBSET Block
      /\ \A x \in Block : /\ x \in LinksIn(k) <=> link[x].there /\ link[x].class = k
                          /\ x \in LinksIn(k)' <=> link'[x].there /\ link'[x].class = k
  BY DEF LinksIn
<1>4. Cardinality(LinksIn(k)') = Cardinality(LinksIn(k))
         + Delta(b \in LinksIn(k)', b \in LinksIn(k))
  BY <1>1, <1>3, CountChange
<1> QED
  BY <1>3, <1>4

(***************************************************************************)
(* What the invariant gives.                                               *)
(***************************************************************************)
LEMMA PointsTo ==
  ASSUME LinkConfAssumption, Inv
  PROVE  /\ \A c \in Conn, b \in Block : conn[c].conf = b =>
               link[b].there /\ link[b].refcount # 0
         /\ \A c \in Conn, k \in Class : conn[c].class = k =>
               class[k].there /\ class[k].clients # 0
         /\ \A r \in Req, b \in Block : req[r] = b =>
               link[b].there /\ link[b].refcount # 0
         /\ \A b \in Block : link[b].there =>
               /\ link[b].class \in Class /\ class[link[b].class].there
               /\ class[link[b].class].xrefcount # 0
<1>1. ASSUME NEW c \in Conn, NEW b \in Block, conn[c].conf = b
      PROVE  link[b].there /\ link[b].refcount # 0
  <2>1. HeldBy(b) # {}
    BY <1>1 DEF HeldBy
  <2>2. Cardinality(HeldBy(b)) # 0
    BY <2>1, Finite, FS_EmptySet
  <2> QED
    BY <2>2, Finite DEF Inv, Exact, Kept
<1>2. ASSUME NEW c \in Conn, NEW k \in Class, conn[c].class = k
      PROVE  class[k].there /\ class[k].clients # 0
  <2>1. InClass(k) # {}
    BY <1>2 DEF InClass
  <2>2. Cardinality(InClass(k)) # 0
    BY <2>1, Finite, FS_EmptySet
  <2> QED
    BY <2>2 DEF Inv, Exact, Kept
<1>3. ASSUME NEW r \in Req, NEW b \in Block, req[r] = b
      PROVE  link[b].there /\ link[b].refcount # 0
  <2>1. AskedFor(b) # {}
    BY <1>3 DEF AskedFor
  <2>2. Cardinality(AskedFor(b)) # 0
    BY <2>1, Finite, FS_EmptySet
  <2> QED
    BY <2>2, Finite DEF Inv, Exact, Kept
<1>4. ASSUME NEW b \in Block, link[b].there
      PROVE  /\ link[b].class \in Class /\ class[link[b].class].there
             /\ class[link[b].class].xrefcount # 0
  <2>1. link[b].class \in Class
    BY <1>4 DEF Inv, LinkTypeOK, Kept
  <2>2. PICK k \in Class : k = link[b].class
    BY <2>1
  <2>3. LinksIn(k) # {}
    BY <1>4, <2>2 DEF LinksIn
  <2>4. Cardinality(LinksIn(k)) # 0
    BY <2>3, Finite, FS_EmptySet
  <2> QED
    BY <2>2, <2>4 DEF Inv, Exact, Kept
<1> QED
  BY <1>1, <1>2, <1>3, <1>4

LEMMA InvHolds == ASSUME LinkConfAssumption, Inv PROVE BlocksHold
<1>1. /\ \A c \in Conn : conn[c].conf \in Block \cup {NULL} /\ conn[c].class \in Class \cup {NULL}
      /\ \A r \in Req : req[r] \in Block \cup {NULL}
  BY DEF Inv, LinkTypeOK
<1>2. NoneFreed
  BY <1>1, PointsTo DEF NoneFreed, LinkConfAssumption
<1>3. RefsExact
  BY DEF RefsExact, Inv, Exact
<1> QED
  BY <1>2, <1>3 DEF BlocksHold

LEMMA InvInit == ASSUME LinkConfAssumption, LinkInit PROVE Inv
<1>1. ASSUME NEW k \in Class
      PROVE  class[k] \in ClassT /\ class[k].clients = 0 /\ class[k].xrefcount = 0
  <2>1. PICK t \in BOOLEAN : t = (k = DefaultClass)
    OBVIOUS
  <2>2. class[k] = [NoClass EXCEPT !.there = (k = DefaultClass)]
    BY DEF LinkInit
  <2>3. class[k] = [there |-> t, temporary |-> FALSE, clients |-> 0, xrefcount |-> 0]
    BY <2>1, <2>2 DEF NoClass
  <2> QED
    BY <2>3 DEF ClassT
<1>2. class \in [Class -> ClassT]
  <2>1. class = [k \in Class |-> class[k]]
    BY DEF LinkInit
  <2> QED
    BY <1>1, <2>1
<1>3. LinkTypeOK /\ ConnOK /\ Kept
  BY <1>1, <1>2 DEF LinkInit, LinkTypeOK, ClassT, ConnOK, Kept, NoLink, NoConn, LinkConfAssumption
<1>4. /\ \A k \in Class : InClass(k) = {} /\ LinksIn(k) = {}
      /\ \A b \in Block : HeldBy(b) = {} /\ AskedFor(b) = {}
  BY DEF LinkInit, InClass, LinksIn, HeldBy, AskedFor, NoConn, NoLink, LinkConfAssumption
<1>5. \A b \in Block : link[b].refcount = 0
  BY DEF LinkInit, NoLink
<1>6. Cardinality({}) = 0
  BY FS_EmptySet
<1>7. Exact
  <2>1. \A k \in Class : /\ class[k].clients = Cardinality(InClass(k))
                         /\ class[k].xrefcount = Cardinality(LinksIn(k))
    BY <1>1, <1>4, <1>6
  <2>2. \A b \in Block : /\ link[b].refcount = 0
                         /\ Cardinality(HeldBy(b)) = 0 /\ Cardinality(AskedFor(b)) = 0
    BY <1>4, <1>5, <1>6
  <2> QED
    BY <2>1, <2>2 DEF Exact
<1> QED
  BY <1>3, <1>7 DEF Inv

(***************************************************************************)
(* The steps, but for REHASH.                                              *)
(***************************************************************************)
LEMMA DeltaFacts ==
  /\ \A p, q : Delta(p, q) \in Int
  /\ \A p, q : (p <=> q) => Delta(p, q) = 0
  /\ \A p, q : p /\ ~q => Delta(p, q) = 1
  /\ \A p, q : ~p /\ q => Delta(p, q) = -1
  BY DEF Delta

LEMMA StutterStep ==
  ASSUME Inv, UNCHANGED linkVars
  PROVE  Inv'
<1>1. class' = class /\ link' = link /\ conn' = conn /\ req' = req
  BY DEF linkVars
<1>2. /\ \A k : InClass(k)' = InClass(k) /\ LinksIn(k)' = LinksIn(k)
      /\ \A b : HeldBy(b)' = HeldBy(b) /\ AskedFor(b)' = AskedFor(b)
  BY <1>1 DEF InClass, LinksIn, HeldBy, AskedFor
<1>3. LinkTypeOK' /\ ConnOK' /\ Kept'
  BY <1>1 DEF Inv, LinkTypeOK, ConnOK, Kept
<1>4. Exact'
  BY <1>1, <1>2 DEF Inv, Exact
<1> QED
  BY <1>3, <1>4 DEF Inv

(* A step after which no block is new or gone.                             *)
LEMMA SmallStep ==
  ASSUME LinkConfAssumption, Inv, LinkTypeOK', ConnOK',
         \A k \in Class :
            /\ class'[k].there = class[k].there
            /\ class'[k].xrefcount = class[k].xrefcount
            /\ class'[k].clients = class[k].clients
                  + Cardinality(InClass(k)') - Cardinality(InClass(k)),
         \A b \in Block :
            /\ link'[b].there = link[b].there /\ link'[b].class = link[b].class
            /\ link'[b].refcount = link[b].refcount
                  + (Cardinality(HeldBy(b)') - Cardinality(HeldBy(b)))
                  + (Cardinality(AskedFor(b)') - Cardinality(AskedFor(b))),
         \A c \in Conn, k \in Class : conn'[c].class = k => class[k].there,
         \A c \in Conn, b \in Block : conn'[c].conf = b => link[b].there,
         \A r \in Req, b \in Block : req'[r] = b => link[b].there
  PROVE  Inv'
<1>1. LinkTypeOK /\ Exact /\ Kept
  BY DEF Inv
<1>2. \A k : LinksIn(k)' = LinksIn(k)
  BY DEF LinksIn
<1>3. /\ \A k : Cardinality(InClass(k)) \in Int /\ IsFiniteSet(InClass(k)')
                /\ Cardinality(InClass(k)') \in Int
      /\ \A b : /\ Cardinality(HeldBy(b)) \in Int /\ Cardinality(AskedFor(b)) \in Int
                /\ IsFiniteSet(HeldBy(b)') /\ IsFiniteSet(AskedFor(b)')
                /\ Cardinality(HeldBy(b)') \in Int /\ Cardinality(AskedFor(b)') \in Int
  <2>1. /\ \A k : InClass(k)' \in SUBSET Conn
        /\ \A b : HeldBy(b)' \in SUBSET Conn /\ AskedFor(b)' \in SUBSET Req
    BY DEF InClass, HeldBy, AskedFor
  <2> QED
    BY <2>1, Finite, FS_Subset, FS_CardinalityType DEF LinkConfAssumption
<1>4. Exact'
  <2>1. \A k \in Class : /\ class'[k].clients = Cardinality(InClass(k)')
                         /\ class'[k].xrefcount = Cardinality(LinksIn(k)')
    BY <1>1, <1>2, <1>3 DEF Exact
  <2>2. \A b \in Block :
           link'[b].refcount = Cardinality(HeldBy(b)') + Cardinality(AskedFor(b)')
    BY <1>1, <1>3 DEF Exact
  <2> QED
    BY <2>1, <2>2 DEF Exact
<1>5. ASSUME NEW k \in Class, class'[k].clients # 0 \/ class'[k].xrefcount # 0
      PROVE  class'[k].there
  <2>1. CASE class'[k].clients # 0
    <3>1. InClass(k)' # {}
      BY <1>4, <2>1, FS_EmptySet DEF Exact
    <3> QED
      BY <3>1 DEF InClass
  <2>2. CASE class'[k].xrefcount # 0
    BY <1>1, <2>2 DEF Kept
  <2> QED
    BY <1>5, <2>1, <2>2
<1>6. ASSUME NEW b \in Block, link'[b].refcount # 0
      PROVE  link'[b].there
  <2>1. HeldBy(b)' # {} \/ AskedFor(b)' # {}
    <3>1. Cardinality(HeldBy(b)') # 0 \/ Cardinality(AskedFor(b)') # 0
      BY <1>3, <1>4, <1>6 DEF Exact
    <3> QED
      BY <3>1, FS_EmptySet
  <2> QED
    BY <2>1 DEF HeldBy, AskedFor
<1>7. Kept'
  BY <1>1, <1>5, <1>6 DEF Kept
<1> QED
  BY <1>4, <1>7 DEF Inv

LEMMA AcceptStep ==
  ASSUME LinkConfAssumption, Inv, NEW c \in Conn, Accept(c) PROVE Inv'
<1>1. /\ conn[c].status = "none" /\ conn' = [conn EXCEPT ![c].status = "unknown"]
      /\ class' = class /\ link' = link /\ req' = req
  BY DEF Accept
<1>2. LinkTypeOK /\ ConnOK /\ Exact /\ Kept
  BY DEF Inv
<1>3. /\ conn'[c].status = "unknown" /\ conn'[c].conf = conn[c].conf
      /\ conn'[c].class = conn[c].class
      /\ \A x \in Conn : x # c => conn'[x] = conn[x]
  BY <1>1, <1>2 DEF LinkTypeOK
<1>4. LinkTypeOK' /\ ConnOK'
  BY <1>1, <1>2, <1>3 DEF LinkTypeOK, ConnOK
<1>5. \A x \in Conn : conn'[x].conf = conn[x].conf /\ conn'[x].class = conn[x].class
  BY <1>3
<1>6. /\ \A k : InClass(k)' = InClass(k) /\ LinksIn(k)' = LinksIn(k)
      /\ \A b : HeldBy(b)' = HeldBy(b) /\ AskedFor(b)' = AskedFor(b)
  BY <1>1, <1>5 DEF InClass, LinksIn, HeldBy, AskedFor
<1>7. Exact' /\ Kept'
  BY <1>1, <1>2, <1>6 DEF Exact, Kept
<1> QED
  BY <1>4, <1>7 DEF Inv

(* A step that changes one connection and the clients of classes.          *)
LEMMA ClassStep ==
  ASSUME LinkConfAssumption, Inv, NEW c \in Conn, NEW v \in ConnT,
         conn' = [conn EXCEPT ![c] = v], v.conf = conn[c].conf, ConnOK',
         link' = link, req' = req, class' \in [Class -> ClassT],
         \A k \in Class :
            /\ class'[k].clients = class[k].clients
                  + Delta(v.class = k, conn[c].class = k)
            /\ class'[k].xrefcount = class[k].xrefcount
            /\ class'[k].there = class[k].there,
         \A k \in Class : v.class = k => class[k].there
  PROVE  Inv'
<1>1. LinkTypeOK
  BY DEF Inv
<1>2. LinkTypeOK' /\ conn'[c] = v /\ \A x \in Conn : x # c => conn'[x] = conn[x]
  BY <1>1 DEF LinkTypeOK, ConnT, ClassT
<1>3. /\ \A k : Cardinality(InClass(k)') = Cardinality(InClass(k))
                  + Delta(v.class = k, conn[c].class = k)
      /\ \A b : HeldBy(b)' = HeldBy(b) /\ AskedFor(b)' = AskedFor(b)
  BY <1>2, ConnByOne DEF HeldBy, AskedFor
<1>4. \A k \in Class :
            /\ class'[k].there = class[k].there
            /\ class'[k].xrefcount = class[k].xrefcount
            /\ class'[k].clients = class[k].clients
                  + Cardinality(InClass(k)') - Cardinality(InClass(k))
  <2>1. \A k : Cardinality(InClass(k)) \in Int
               /\ Delta(v.class = k, conn[c].class = k) \in Int
    BY Finite, DeltaFacts
  <2>2. \A k \in Class : class[k].clients \in Int
    BY <1>1 DEF LinkTypeOK
  <2> QED
    BY <1>3, <2>1, <2>2
<1>5. \A b \in Block :
            /\ link'[b].there = link[b].there /\ link'[b].class = link[b].class
            /\ link'[b].refcount = link[b].refcount
                  + (Cardinality(HeldBy(b)') - Cardinality(HeldBy(b)))
                  + (Cardinality(AskedFor(b)') - Cardinality(AskedFor(b)))
  <2>1. \A b : Cardinality(HeldBy(b)) \in Int /\ Cardinality(AskedFor(b)) \in Int
    BY Finite
  <2>2. \A b \in Block : link[b].refcount \in Int
    BY <1>1 DEF LinkTypeOK
  <2> QED
    BY <1>3, <2>1, <2>2
<1>6. /\ \A x \in Conn, k \in Class : conn'[x].class = k => class[k].there
      /\ \A x \in Conn, b \in Block : conn'[x].conf = b => link[b].there
      /\ \A r \in Req, b \in Block : req'[r] = b => link[b].there
  BY <1>2, PointsTo
<1> QED
  BY <1>2, <1>4, <1>5, <1>6, SmallStep

LEMMA ConnRegisterStep ==
  ASSUME LinkConfAssumption, Inv, NEW c \in Conn, NEW k \in Class, AttachConf(c, k)
  PROVE  Inv'
<1>1. /\ conn[c].status = "unknown" /\ class[k].there
      /\ conn' = [conn EXCEPT ![c].status = "user", ![c].class = k]
      /\ class' = [class EXCEPT ![k].clients = @ + 1]
      /\ link' = link /\ req' = req
  BY DEF AttachConf, Current, MoreClients
<1>2. LinkTypeOK /\ ConnOK /\ conn[c] \in ConnT /\ conn[c].class = NULL /\ conn[c].conf = NULL
  BY <1>1 DEF Inv, LinkTypeOK, ConnOK, ConnT
<1> DEFINE v == [conn[c] EXCEPT !.status = "user", !.class = k]
<1>3. /\ v \in ConnT /\ v.status = "user" /\ v.class = k /\ v.conf = conn[c].conf
      /\ conn' = [conn EXCEPT ![c] = v]
  BY <1>1, <1>2 DEF ConnT, LinkTypeOK
<1> HIDE DEF v
<1>4. ConnOK'
  BY <1>2, <1>3 DEF ConnOK, LinkTypeOK, LinkConfAssumption
<1>5. /\ class' \in [Class -> ClassT]
      /\ \A j \in Class : /\ class'[j].clients = class[j].clients + (IF j = k THEN 1 ELSE 0)
                          /\ class'[j].xrefcount = class[j].xrefcount
                          /\ class'[j].there = class[j].there
  BY <1>1, <1>2 DEF LinkTypeOK, ClassT
<1>6. \A j \in Class : Delta(v.class = j, conn[c].class = j) = IF j = k THEN 1 ELSE 0
  BY <1>2, <1>3 DEF Delta, LinkConfAssumption
<1>7. \A j \in Class :
            /\ class'[j].clients = class[j].clients
                  + Delta(v.class = j, conn[c].class = j)
            /\ class'[j].xrefcount = class[j].xrefcount
            /\ class'[j].there = class[j].there
  BY <1>5, <1>6
<1>8. \A j \in Class : v.class = j => class[j].there
  BY <1>1, <1>3
<1>9. /\ v \in ConnT /\ conn' = [conn EXCEPT ![c] = v] /\ v.conf = conn[c].conf
      /\ link' = link /\ req' = req /\ class' \in [Class -> ClassT]
  BY <1>1, <1>3, <1>5
<1> QED
  BY <1>4, <1>7, <1>8, <1>9, ClassStep

LEMMA OperUpStep ==
  ASSUME LinkConfAssumption, Inv, NEW c \in Conn, NEW k \in Class, OperUp(c, k)
  PROVE  Inv'
<1>1. /\ conn[c].status = "user" /\ class[k].there
      /\ conn' = [conn EXCEPT ![c].class = k]
      /\ class' = MoreClients(FewerClients(class, conn[c].class), k)
      /\ link' = link /\ req' = req
  BY DEF OperUp, Current
<1>2. LinkTypeOK /\ ConnOK /\ conn[c] \in ConnT /\ conn[c].class \in Class
  BY <1>1 DEF Inv, LinkTypeOK, ConnOK, ConnT
<1> DEFINE v == [conn[c] EXCEPT !.class = k]
<1>3. /\ v \in ConnT /\ v.status = "user" /\ v.class = k /\ v.conf = conn[c].conf
      /\ conn' = [conn EXCEPT ![c] = v]
  BY <1>1, <1>2 DEF ConnT, LinkTypeOK
<1> HIDE DEF v
<1>4. ConnOK'
  BY <1>1, <1>2, <1>3 DEF ConnOK, LinkTypeOK, LinkConfAssumption
<1>5. PICK o \in Class : o = conn[c].class
  BY <1>2
<1>6. /\ class' \in [Class -> ClassT]
      /\ \A j \in Class :
            /\ class'[j].clients = class[j].clients + (IF j = k THEN 1 ELSE 0)
                                                  - (IF j = o THEN 1 ELSE 0)
            /\ class'[j].xrefcount = class[j].xrefcount
            /\ class'[j].there = class[j].there
  <2> DEFINE cl == FewerClients(class, o)
  <2>1. /\ cl \in [Class -> ClassT]
        /\ \A j \in Class :
              /\ cl[j].clients = class[j].clients - (IF j = o THEN 1 ELSE 0)
              /\ cl[j].xrefcount = class[j].xrefcount
              /\ cl[j].there = class[j].there
    BY <1>2 DEF LinkTypeOK, ClassT, FewerClients
  <2>2. class' = MoreClients(cl, k)
    BY <1>1, <1>5
  <2> HIDE DEF cl
  <2>3. /\ class' \in [Class -> ClassT]
        /\ \A j \in Class :
              /\ class'[j].clients = cl[j].clients + (IF j = k THEN 1 ELSE 0)
              /\ class'[j].xrefcount = cl[j].xrefcount
              /\ class'[j].there = cl[j].there
    BY <2>1, <2>2 DEF ClassT, MoreClients
  <2>4. \A j \in Class : class[j].clients \in Int
    BY <1>2 DEF LinkTypeOK
  <2> QED
    BY <2>1, <2>3, <2>4
<1>7. \A j \in Class : /\ class[j].clients \in Int
                       /\ Delta(v.class = j, conn[c].class = j)
                             = (IF j = k THEN 1 ELSE 0) - (IF j = o THEN 1 ELSE 0)
  BY <1>2, <1>3, <1>5 DEF Delta, LinkTypeOK
<1>8. \A j \in Class :
            /\ class'[j].clients = class[j].clients
                  + Delta(v.class = j, conn[c].class = j)
            /\ class'[j].xrefcount = class[j].xrefcount
            /\ class'[j].there = class[j].there
  BY <1>6, <1>7
<1>9. \A j \in Class : v.class = j => class[j].there
  BY <1>1, <1>3
<1> QED
  BY <1>1, <1>3, <1>4, <1>6, <1>8, <1>9, ClassStep, ZenonT(30)

LEMMA LookUpStep ==
  ASSUME LinkConfAssumption, Inv, NEW b \in Block, NEW r \in Req, LookUp(b, r)
  PROVE  Inv'
<1>1. /\ link[b].there /\ req[r] = NULL /\ req' = [req EXCEPT ![r] = b]
      /\ link' = [link EXCEPT ![b].refcount = @ + 1]
      /\ class' = class /\ conn' = conn
  BY DEF LookUp, MoreRefs
<1>2. LinkTypeOK /\ ConnOK
  BY DEF Inv
<1>3. LinkTypeOK' /\ ConnOK'
  BY <1>1, <1>2, SMTT(20) DEF LinkTypeOK, ConnOK
<1>4. req'[r] = b /\ \A x \in Req : x # r => req'[x] = req[x]
  BY <1>1, <1>2 DEF LinkTypeOK
<1>5. /\ \A k : InClass(k)' = InClass(k)
      /\ \A d : HeldBy(d)' = HeldBy(d)
  BY <1>1 DEF InClass, HeldBy
<1>6. \A d : Cardinality(AskedFor(d)') = Cardinality(AskedFor(d)) + Delta(b = d, NULL = d)
  BY <1>1, <1>4, ReqByOne
<1>7. \A d \in Block : Delta(b = d, NULL = d) = IF d = b THEN 1 ELSE 0
  BY DEF Delta, LinkConfAssumption
<1>8. \A d \in Block :
        /\ link'[d].there = link[d].there /\ link'[d].class = link[d].class
        /\ link'[d].refcount = link[d].refcount + (IF d = b THEN 1 ELSE 0)
        /\ link[d].refcount \in Int
  BY <1>1, <1>2 DEF LinkTypeOK
<1>9. Sizes
  BY SizesHold
<1>10. \A k \in Class :
         /\ class'[k].there = class[k].there
         /\ class'[k].xrefcount = class[k].xrefcount
         /\ class'[k].clients = class[k].clients
               + Cardinality(InClass(k)') - Cardinality(InClass(k))
  BY <1>1, <1>2, <1>5, <1>9 DEF LinkTypeOK, Sizes
<1>11. \A d \in Block :
         /\ link'[d].there = link[d].there /\ link'[d].class = link[d].class
         /\ link'[d].refcount = link[d].refcount
               + (Cardinality(HeldBy(d)') - Cardinality(HeldBy(d)))
               + (Cardinality(AskedFor(d)') - Cardinality(AskedFor(d)))
  BY <1>5, <1>6, <1>7, <1>8, <1>9 DEF Sizes
<1>12. /\ \A x \in Conn, k \in Class : conn'[x].class = k => class[k].there
       /\ \A x \in Conn, d \in Block : conn'[x].conf = d => link[d].there
       /\ \A x \in Req, d \in Block : req'[x] = d => link[d].there
  BY <1>1, <1>4, PointsTo
<1> QED
  BY <1>3, <1>10, <1>11, <1>12, SmallStep

LEMMA LookUpFailsStep ==
  ASSUME LinkConfAssumption, Inv, NEW r \in Req, LookUpFails(r)
  PROVE  Inv'
<1>1. /\ req[r] # NULL /\ req' = [req EXCEPT ![r] = NULL]
      /\ link' = FewerRefs(link, req[r])
      /\ class' = class /\ conn' = conn
  BY DEF LookUpFails
<1>2. LinkTypeOK /\ ConnOK
  BY DEF Inv
<1>3. PICK b \in Block : b = req[r]
  BY <1>1, <1>2 DEF LinkTypeOK
<1>4. link' = [link EXCEPT ![b].refcount = @ - 1]
  BY <1>1, <1>3 DEF FewerRefs
<1>5. LinkTypeOK' /\ ConnOK'
  <2>1. link' \in [Block -> LinkT]
    BY <1>2, <1>4 DEF LinkTypeOK, LinkT
  <2>2. req' \in [Req -> Block \cup {NULL}]
    BY <1>1, <1>2 DEF LinkTypeOK
  <2> QED
    BY <1>1, <1>2, <2>1, <2>2 DEF LinkTypeOK, LinkT, ConnOK
<1>6. req'[r] = NULL /\ \A x \in Req : x # r => req'[x] = req[x]
  BY <1>1, <1>2 DEF LinkTypeOK
<1>7. /\ \A k : InClass(k)' = InClass(k)
      /\ \A d : HeldBy(d)' = HeldBy(d)
  BY <1>1 DEF InClass, HeldBy
<1>8. \A d : Cardinality(AskedFor(d)') = Cardinality(AskedFor(d)) + Delta(NULL = d, b = d)
  BY <1>3, <1>6, ReqByOne
<1>9. \A d \in Block : Delta(NULL = d, b = d) = -(IF d = b THEN 1 ELSE 0)
  BY DEF Delta, LinkConfAssumption
<1>10. \A d \in Block :
        /\ link'[d].there = link[d].there /\ link'[d].class = link[d].class
        /\ link'[d].refcount = link[d].refcount - (IF d = b THEN 1 ELSE 0)
        /\ link[d].refcount \in Int
  BY <1>2, <1>4 DEF LinkTypeOK
<1>11. Sizes
  BY SizesHold
<1>12. \A k \in Class :
         /\ class'[k].there = class[k].there
         /\ class'[k].xrefcount = class[k].xrefcount
         /\ class'[k].clients = class[k].clients
               + Cardinality(InClass(k)') - Cardinality(InClass(k))
  BY <1>1, <1>2, <1>7, <1>11 DEF LinkTypeOK, Sizes
<1>13. \A d \in Block :
         /\ link'[d].there = link[d].there /\ link'[d].class = link[d].class
         /\ link'[d].refcount = link[d].refcount
               + (Cardinality(HeldBy(d)') - Cardinality(HeldBy(d)))
               + (Cardinality(AskedFor(d)') - Cardinality(AskedFor(d)))
  BY <1>7, <1>8, <1>9, <1>10, <1>11 DEF Sizes
<1>14. /\ \A x \in Conn, k \in Class : conn'[x].class = k => class[k].there
       /\ \A x \in Conn, d \in Block : conn'[x].conf = d => link[d].there
       /\ \A x \in Req, d \in Block : req'[x] = d => link[d].there
  BY <1>1, <1>6, PointsTo DEF LinkConfAssumption
<1> QED
  BY <1>5, <1>12, <1>13, <1>14, SmallStep

(* connect_server takes a reference to b for the new connection c.         *)
LEMMA ConnectServerStep ==
  ASSUME LinkConfAssumption, Inv, NEW b \in Block, NEW c \in Conn, ConnectServer(b, c)
  PROVE  Inv'
<1>1. /\ link[b].there /\ conn[c].status = "none"
      /\ conn' = [conn EXCEPT ![c] = [status |-> "connecting", conf |-> b, class |-> NULL]]
      /\ link' = [link EXCEPT ![b].refcount = @ + 1]
      /\ class' = class /\ req' = req
  BY DEF ConnectServer, Connects, MoreRefs
<1>2. LinkTypeOK /\ ConnOK
  BY DEF Inv
<1>3. /\ conn'[c] = [status |-> "connecting", conf |-> b, class |-> NULL]
      /\ \A x \in Conn : x # c => conn'[x] = conn[x]
      /\ conn[c].class = NULL /\ conn[c].conf = NULL
  BY <1>1, <1>2 DEF LinkTypeOK, ConnOK
<1>4. LinkTypeOK'
  <2>1. link' \in [Block -> LinkT]
    BY <1>1, <1>2 DEF LinkTypeOK, LinkT
  <2>2. conn' \in [Conn -> ConnT]
    BY <1>1, <1>2 DEF LinkTypeOK, ConnT
  <2> QED
    BY <1>1, <1>2, <2>1, <2>2 DEF LinkTypeOK, LinkT, ConnT
<1>5. ConnOK'
  BY <1>2, <1>3 DEF ConnOK, LinkConfAssumption
<1>6. /\ \A k : Cardinality(InClass(k)') = Cardinality(InClass(k)) + Delta(NULL = k, NULL = k)
      /\ \A d : Cardinality(HeldBy(d)') = Cardinality(HeldBy(d)) + Delta(b = d, NULL = d)
      /\ \A d : AskedFor(d)' = AskedFor(d)
  BY <1>1, <1>3, ConnByOne DEF AskedFor
<1>7. /\ \A d \in Block : Delta(b = d, NULL = d) = IF d = b THEN 1 ELSE 0
      /\ \A k \in Class : Delta(NULL = k, NULL = k) = 0
  BY DEF Delta, LinkConfAssumption
<1>8. \A d \in Block :
        /\ link'[d].there = link[d].there /\ link'[d].class = link[d].class
        /\ link'[d].refcount = link[d].refcount + (IF d = b THEN 1 ELSE 0)
        /\ link[d].refcount \in Int
  BY <1>1, <1>2 DEF LinkTypeOK
<1>9. Sizes
  BY SizesHold
<1>10. \A k \in Class :
         /\ class'[k].there = class[k].there
         /\ class'[k].xrefcount = class[k].xrefcount
         /\ class'[k].clients = class[k].clients
               + Cardinality(InClass(k)') - Cardinality(InClass(k))
  <2>1. \A k \in Class : class[k].clients \in Int
    BY <1>2 DEF LinkTypeOK
  <2> QED
    BY <1>1, <1>6, <1>7, <1>9, <2>1 DEF Sizes
<1>11. \A d \in Block :
         /\ link'[d].there = link[d].there /\ link'[d].class = link[d].class
         /\ link'[d].refcount = link[d].refcount
               + (Cardinality(HeldBy(d)') - Cardinality(HeldBy(d)))
               + (Cardinality(AskedFor(d)') - Cardinality(AskedFor(d)))
  BY <1>6, <1>7, <1>8, <1>9 DEF Sizes
<1>12. /\ \A x \in Conn, k \in Class : conn'[x].class = k => class[k].there
       /\ \A x \in Conn, d \in Block : conn'[x].conf = d => link[d].there
       /\ \A x \in Req, d \in Block : req'[x] = d => link[d].there
  BY <1>1, <1>3, PointsTo DEF LinkConfAssumption
<1> QED
  BY <1>4, <1>5, <1>10, <1>11, <1>12, SmallStep

(* The reference of the look-up ends and that of the connection begins.    *)
LEMMA LookUpDoneStep ==
  ASSUME LinkConfAssumption, Inv, NEW r \in Req, NEW c \in Conn, LookUpDone(r, c)
  PROVE  Inv'
<1>1. /\ req[r] # NULL /\ req' = [req EXCEPT ![r] = NULL] /\ conn[c].status = "none"
      /\ conn' = [conn EXCEPT ![c] = [status |-> "connecting", conf |-> req[r], class |-> NULL]]
      /\ link' = MoreRefs(FewerRefs(link, req[r]), req[r])
      /\ class' = class
  BY DEF LookUpDone, Connects
<1>2. LinkTypeOK /\ ConnOK
  BY DEF Inv
<1>3. PICK b \in Block : b = req[r]
  BY <1>1, <1>2 DEF LinkTypeOK
<1>4. link' = link
  <2> DEFINE li == FewerRefs(link, b)
  <2>1. /\ li \in [Block -> LinkT]
        /\ \A d \in Block : d # b => li[d] = link[d]
        /\ li[b] = [link[b] EXCEPT !.refcount = @ - 1]
        /\ link[b] \in LinkT /\ link \in [Block -> LinkT]
    BY <1>2 DEF FewerRefs, LinkTypeOK, LinkT
  <2>2. link' = [li EXCEPT ![b].refcount = @ + 1]
    BY <1>1, <1>3 DEF MoreRefs
  <2> HIDE DEF li
  <2>3. [li[b] EXCEPT !.refcount = @ + 1] = link[b]
    <3>1. PICK q \in LinkT : q = link[b]
      BY <2>1
    <3>2. q = [there |-> q.there, temporary |-> q.temporary, class |-> q.class,
               refcount |-> q.refcount]
      BY DEF LinkT
    <3>3. li[b] = [there |-> q.there, temporary |-> q.temporary, class |-> q.class,
                   refcount |-> q.refcount - 1]
      BY <2>1, <3>1, <3>2
    <3>4. q.refcount \in Int /\ (q.refcount - 1) + 1 = q.refcount
      BY DEF LinkT
    <3>5. [li[b] EXCEPT !.refcount = @ + 1] = q
      BY <3>2, <3>3, <3>4
    <3> QED
      BY <3>1, <3>5
  <2>4. link' = [li EXCEPT ![b] = link[b]]
    BY <2>2, <2>3
  <2> QED
    BY <2>1, <2>4
<1>5. /\ conn' = [conn EXCEPT ![c] = [status |-> "connecting", conf |-> b, class |-> NULL]]
      /\ conn'[c] = [status |-> "connecting", conf |-> b, class |-> NULL]
      /\ \A x \in Conn : x # c => conn'[x] = conn[x]
      /\ conn[c].class = NULL /\ conn[c].conf = NULL
      /\ req'[r] = NULL /\ \A x \in Req : x # r => req'[x] = req[x]
  BY <1>1, <1>2, <1>3 DEF LinkTypeOK, ConnOK
<1>6. LinkTypeOK'
  <2>1. conn' \in [Conn -> ConnT]
    BY <1>2, <1>5 DEF LinkTypeOK, ConnT
  <2>2. req' \in [Req -> Block \cup {NULL}]
    BY <1>1, <1>2 DEF LinkTypeOK
  <2> QED
    BY <1>1, <1>2, <1>4, <2>1, <2>2 DEF LinkTypeOK, ConnT
<1>7. ConnOK'
  BY <1>2, <1>5 DEF ConnOK, LinkConfAssumption
<1>8. /\ \A k : Cardinality(InClass(k)') = Cardinality(InClass(k)) + Delta(NULL = k, NULL = k)
      /\ \A d : Cardinality(HeldBy(d)') = Cardinality(HeldBy(d)) + Delta(b = d, NULL = d)
  BY <1>5, ConnByOne
<1>9. \A d : Cardinality(AskedFor(d)') = Cardinality(AskedFor(d)) + Delta(NULL = d, b = d)
  BY <1>3, <1>5, ReqByOne
<1>10. /\ \A d \in Block : Delta(b = d, NULL = d) = IF d = b THEN 1 ELSE 0
       /\ \A d \in Block : Delta(NULL = d, b = d) = -(IF d = b THEN 1 ELSE 0)
       /\ \A k \in Class : Delta(NULL = k, NULL = k) = 0
  BY DEF Delta, LinkConfAssumption
<1>11. Sizes
  BY SizesHold
<1>12. \A k \in Class :
         /\ class'[k].there = class[k].there
         /\ class'[k].xrefcount = class[k].xrefcount
         /\ class'[k].clients = class[k].clients
               + Cardinality(InClass(k)') - Cardinality(InClass(k))
  <2>1. \A k \in Class : class[k].clients \in Int
    BY <1>2 DEF LinkTypeOK
  <2> QED
    BY <1>1, <1>8, <1>10, <1>11, <2>1 DEF Sizes
<1>13. \A d \in Block :
         /\ link'[d].there = link[d].there /\ link'[d].class = link[d].class
         /\ link'[d].refcount = link[d].refcount
               + (Cardinality(HeldBy(d)') - Cardinality(HeldBy(d)))
               + (Cardinality(AskedFor(d)') - Cardinality(AskedFor(d)))
  <2>1. \A d \in Block : link[d].refcount \in Int
    BY <1>2 DEF LinkTypeOK
  <2> QED
    BY <1>4, <1>8, <1>9, <1>10, <1>11, <2>1 DEF Sizes
<1>14. /\ \A x \in Conn, k \in Class : conn'[x].class = k => class[k].there
       /\ \A x \in Conn, d \in Block : conn'[x].conf = d => link[d].there
       /\ \A x \in Req, d \in Block : req'[x] = d => link[d].there
  BY <1>3, <1>5, PointsTo DEF LinkConfAssumption
<1> QED
  BY <1>6, <1>7, <1>12, <1>13, <1>14, SmallStep

LEMMA SynchStep ==
  ASSUME LinkConfAssumption, Inv, NEW c \in Conn, NEW b \in Block, Synch(c, b)
  PROVE  Inv'
<1> DEFINE incoming == conn[c].status = "unknown"
           conf == IF conn[c].conf = NULL THEN b ELSE conn[c].conf
<1>1. /\ conn[c].status \in {"unknown", "connecting"} /\ link[b].there
      /\ conn' = [conn EXCEPT ![c] = [status |-> "server", conf |-> conf, class |-> link[conf].class]]
      /\ link' = IF incoming THEN MoreRefs(link, conf) ELSE link
      /\ class' = MoreClients(class, link[conf].class)
      /\ req' = req
  BY DEF Synch
<1>2. LinkTypeOK /\ ConnOK
  BY DEF Inv
<1>3. /\ conf \in Block /\ link[conf].there
      /\ incoming <=> conn[c].conf = NULL
      /\ conn[c].class = NULL
      /\ incoming \/ conn[c].conf = conf
  <2>1. conn[c].conf \in Block \cup {NULL}
    BY <1>2 DEF LinkTypeOK
  <2>2. /\ incoming => conn[c].conf = NULL
        /\ ~incoming => conn[c].conf # NULL
        /\ conn[c].class = NULL
    BY <1>1, <1>2 DEF ConnOK
  <2>3. conf \in Block /\ link[conf].there
    <3>1. CASE conn[c].conf = NULL
      BY <1>1, <3>1
    <3>2. CASE conn[c].conf # NULL
      BY <2>1, <3>2, PointsTo
    <3> QED
      BY <3>1, <3>2
  <2> QED
    BY <2>2, <2>3
<1>4. PICK f \in Block : f = conf
  BY <1>3
<1>5. PICK k \in Class : k = link[conf].class
  BY <1>3, PointsTo
<1>6. PICK in \in BOOLEAN : in = incoming
  OBVIOUS
<1>7. /\ conn' = [conn EXCEPT ![c] = [status |-> "server", conf |-> f, class |-> k]]
      /\ link' = IF in THEN [link EXCEPT ![f].refcount = @ + 1] ELSE link
      /\ class' = [class EXCEPT ![k].clients = @ + 1]
      /\ req' = req
      /\ in => conn[c].conf = NULL
      /\ ~in => conn[c].conf = f
      /\ conn[c].class = NULL
      /\ link[f].there /\ class[k].there
  <2>1. class[k].there
    BY <1>3, <1>4, <1>5, PointsTo
  <2> QED
    BY <1>1, <1>3, <1>4, <1>5, <1>6, <2>1 DEF MoreRefs, MoreClients
<1> HIDE DEF conf, incoming
<1>8. /\ conn'[c] = [status |-> "server", conf |-> f, class |-> k]
      /\ \A x \in Conn : x # c => conn'[x] = conn[x]
  BY <1>2, <1>7 DEF LinkTypeOK
<1>9. LinkTypeOK'
  <2>1. link' \in [Block -> LinkT]
    <3>1. [link EXCEPT ![f].refcount = @ + 1] \in [Block -> LinkT]
      BY <1>2 DEF LinkTypeOK, LinkT
    <3>2. link \in [Block -> LinkT]
      BY <1>2 DEF LinkTypeOK, LinkT
    <3> QED
      BY <1>7, <3>1, <3>2
  <2>2. conn' \in [Conn -> ConnT]
    BY <1>2, <1>7 DEF LinkTypeOK, ConnT
  <2>3. class' \in [Class -> ClassT]
    BY <1>2, <1>7 DEF LinkTypeOK, ClassT
  <2> QED
    BY <1>2, <1>7, <2>1, <2>2, <2>3 DEF LinkTypeOK, LinkT, ConnT, ClassT
<1>10. ConnOK'
  BY <1>2, <1>8 DEF ConnOK, LinkConfAssumption
<1>11. /\ \A j : Cardinality(InClass(j)') = Cardinality(InClass(j)) + Delta(k = j, NULL = j)
       /\ \A d : Cardinality(HeldBy(d)') = Cardinality(HeldBy(d)) + Delta(f = d, conn[c].conf = d)
       /\ \A d : AskedFor(d)' = AskedFor(d)
  BY <1>7, <1>8, ConnByOne DEF AskedFor
<1>12. \A j \in Class : Delta(k = j, NULL = j) = IF j = k THEN 1 ELSE 0
  BY DEF Delta, LinkConfAssumption
<1>13. \A d \in Block : /\ in => Delta(f = d, conn[c].conf = d) = IF d = f THEN 1 ELSE 0
                        /\ ~in => Delta(f = d, conn[c].conf = d) = 0
  BY <1>7 DEF Delta, LinkConfAssumption
<1>14. Sizes
  BY SizesHold
<1>15. \A j \in Class :
         /\ class'[j].there = class[j].there
         /\ class'[j].xrefcount = class[j].xrefcount
         /\ class'[j].clients = class[j].clients + (IF j = k THEN 1 ELSE 0)
         /\ class[j].clients \in Int
  BY <1>2, <1>7 DEF LinkTypeOK
<1>16. \A j \in Class :
         /\ class'[j].there = class[j].there
         /\ class'[j].xrefcount = class[j].xrefcount
         /\ class'[j].clients = class[j].clients
               + Cardinality(InClass(j)') - Cardinality(InClass(j))
  BY <1>11, <1>12, <1>14, <1>15 DEF Sizes
<1>17. \A d \in Block :
         /\ link'[d].there = link[d].there /\ link'[d].class = link[d].class
         /\ in => link'[d].refcount = link[d].refcount + (IF d = f THEN 1 ELSE 0)
         /\ ~in => link'[d].refcount = link[d].refcount
         /\ link[d].refcount \in Int
  BY <1>2, <1>7 DEF LinkTypeOK
<1>18. \A d \in Block :
         /\ link'[d].there = link[d].there /\ link'[d].class = link[d].class
         /\ link'[d].refcount = link[d].refcount
               + (Cardinality(HeldBy(d)') - Cardinality(HeldBy(d)))
               + (Cardinality(AskedFor(d)') - Cardinality(AskedFor(d)))
  <2>1. CASE in
    BY <1>11, <1>13, <1>14, <1>17, <2>1 DEF Sizes
  <2>2. CASE ~in
    BY <1>11, <1>13, <1>14, <1>17, <2>2 DEF Sizes
  <2> QED
    BY <2>1, <2>2
<1>19. /\ \A x \in Conn, j \in Class : conn'[x].class = j => class[j].there
       /\ \A x \in Conn, d \in Block : conn'[x].conf = d => link[d].there
       /\ \A x \in Req, d \in Block : req'[x] = d => link[d].there
  BY <1>7, <1>8, PointsTo
<1> QED
  BY <1>9, <1>10, <1>16, <1>18, <1>19, SmallStep

(***************************************************************************)
(* exit_client.                                                            *)
(***************************************************************************)

(* Wiping a class that is not used leaves every count as it is.            *)
LEMMA WipeFacts ==
  ASSUME NEW cl \in [Class -> ClassT], NEW k \in Class
  PROVE  /\ WipeClass(cl, k) \in [Class -> ClassT]
         /\ \A j \in Class :
              /\ WipeClass(cl, k)[j].clients = cl[j].clients
              /\ WipeClass(cl, k)[j].xrefcount = cl[j].xrefcount
              /\ cl[j].there /\ (cl[j].clients # 0 \/ cl[j].xrefcount # 0)
                   => WipeClass(cl, k)[j].there
<1>1. NoClass \in ClassT /\ NoClass.clients = 0 /\ NoClass.xrefcount = 0
  BY DEF NoClass, ClassT
<1>2. CASE cl[k].temporary /\ Unused(cl, k)
  <2>1. WipeClass(cl, k) = [cl EXCEPT ![k] = NoClass]
    BY <1>2 DEF WipeClass
  <2>2. cl[k].clients = 0 /\ cl[k].xrefcount = 0
    BY <1>2 DEF Unused
  <2> QED
    BY <1>1, <2>1, <2>2
<1>3. CASE ~(cl[k].temporary /\ Unused(cl, k))
  BY <1>3 DEF WipeClass
<1> QED
  BY <1>2, <1>3

(* The class of the client, after he left it.                              *)
LEMMA AfterFacts ==
  ASSUME LinkConfAssumption, Inv, NEW c \in Conn
  PROVE  /\ AfterClient(c) \in [Class -> ClassT]
         /\ \A j \in Class :
              /\ AfterClient(c)[j].clients
                     = class[j].clients - (IF conn[c].class = j THEN 1 ELSE 0)
              /\ AfterClient(c)[j].xrefcount = class[j].xrefcount
              /\ class[j].there /\ (\/ AfterClient(c)[j].clients # 0
                                    \/ AfterClient(c)[j].xrefcount # 0)
                   => AfterClient(c)[j].there
<1>1. LinkTypeOK
  BY DEF Inv
<1>2. CASE conn[c].class = NULL
  <2>1. PICK a : a = AfterClient(c)
    OBVIOUS
  <2>4. a = class /\ class \in [Class -> ClassT]
    BY <1>1, <1>2, <2>1 DEF AfterClient, LinkTypeOK, ClassT
  <2>2. \A j \in Class : conn[c].class # j /\ class[j].clients \in Int
    BY <1>2, <2>4 DEF ClassT, LinkConfAssumption
  <2>3. \A j \in Class :
           class[j].clients = class[j].clients - (IF conn[c].class = j THEN 1 ELSE 0)
    BY <2>2
  <2>5. /\ a \in [Class -> ClassT]
        /\ \A j \in Class : /\ a[j].clients = class[j].clients - (IF conn[c].class = j THEN 1 ELSE 0)
                            /\ a[j].xrefcount = class[j].xrefcount
                            /\ class[j].there => a[j].there
    BY <2>3, <2>4
  <2> QED
    BY <2>1, <2>5
<1>3. CASE conn[c].class # NULL
  <2>1. PICK k \in Class : k = conn[c].class
    BY <1>1, <1>3 DEF LinkTypeOK
  <2> DEFINE cl == FewerClients(class, k)
  <2>2. AfterClient(c) = WipeClass(cl, k)
    BY <1>3, <2>1 DEF AfterClient
  <2>3. /\ cl \in [Class -> ClassT]
        /\ \A j \in Class : /\ cl[j].clients = class[j].clients - (IF k = j THEN 1 ELSE 0)
                            /\ cl[j].xrefcount = class[j].xrefcount
                            /\ cl[j].there = class[j].there
    BY <1>1 DEF LinkTypeOK, ClassT, FewerClients
  <2> HIDE DEF cl
  <2>4. PICK w : w = AfterClient(c)
    OBVIOUS
  <2>5. /\ w \in [Class -> ClassT]
        /\ \A j \in Class :
              /\ w[j].clients = cl[j].clients /\ w[j].xrefcount = cl[j].xrefcount
              /\ cl[j].there /\ (cl[j].clients # 0 \/ cl[j].xrefcount # 0) => w[j].there
    BY <2>2, <2>3, <2>4, WipeFacts
  <2>6. \A j \in Class :
           /\ w[j].clients = class[j].clients - (IF conn[c].class = j THEN 1 ELSE 0)
           /\ w[j].xrefcount = class[j].xrefcount
    BY <2>1, <2>3, <2>5
  <2>7. ASSUME NEW j \in Class, class[j].there, w[j].clients # 0 \/ w[j].xrefcount # 0
        PROVE  w[j].there
    <3>1. cl[j].there /\ (cl[j].clients # 0 \/ cl[j].xrefcount # 0)
      BY <2>3, <2>5, <2>7
    <3> QED
      BY <2>5, <3>1
  <2> QED
    BY <2>4, <2>5, <2>6, <2>7
<1> QED
  BY <1>2, <1>3

LEMMA ExitStep ==
  ASSUME LinkConfAssumption, Inv, NEW c \in Conn, Exit(c)
  PROVE  Inv'
<1> DEFINE after == AfterClient(c)
<1>1. /\ conn' = [conn EXCEPT ![c] = NoConn] /\ req' = req
      /\ LastOf(c) => /\ link' = DeleteLink(link, conn[c].conf)
                      /\ class' = LeaveClass(after, link[conn[c].conf].class)
      /\ ~LastOf(c) => /\ link' = IF conn[c].conf = NULL THEN link
                                  ELSE FewerRefs(link, conn[c].conf)
                       /\ class' = after
  BY DEF Exit
<1>2. LinkTypeOK /\ ConnOK /\ Exact /\ Kept
  BY DEF Inv
<1>3. /\ conn'[c] = NoConn /\ \A x \in Conn : x # c => conn'[x] = conn[x]
      /\ conn[c].conf \in Block \cup {NULL}
  BY <1>1, <1>2 DEF LinkTypeOK
<1>4. /\ after \in [Class -> ClassT]
      /\ \A j \in Class :
           /\ after[j].clients = class[j].clients - (IF conn[c].class = j THEN 1 ELSE 0)
           /\ after[j].xrefcount = class[j].xrefcount
           /\ class[j].there /\ (after[j].clients # 0 \/ after[j].xrefcount # 0)
                => after[j].there
  BY AfterFacts
<1> HIDE DEF after
<1> DEFINE Gone(b) == LastOf(c) /\ b = conn[c].conf
<1>5. ASSUME NEW b \in Block
      PROVE  /\ link'[b] \in LinkT
             /\ link'[b].refcount = link[b].refcount - (IF conn[c].conf = b THEN 1 ELSE 0)
             /\ link'[b].there <=> link[b].there /\ ~Gone(b)
             /\ ~Gone(b) => link'[b].class = link[b].class
  <2>0. link[b] \in LinkT /\ NoLink \in LinkT /\ NoLink.refcount = 0 /\ NoLink.there = FALSE
    BY <1>2 DEF LinkTypeOK, LinkT, NoLink
  <2>1. CASE LastOf(c)
    <3>1. PICK d \in Block : d = conn[c].conf
      BY <1>3, <2>1 DEF LastOf
    <3>2. link' = [link EXCEPT ![d] = NoLink] /\ link[d].refcount = 1
      BY <1>1, <2>1, <3>1 DEF DeleteLink, LastOf
    <3>3. CASE b = d
      <4>1. link'[b] = NoLink
        BY <1>2, <3>2, <3>3 DEF LinkTypeOK
      <4> QED
        BY <2>0, <2>1, <3>1, <3>2, <3>3, <4>1
    <3>4. CASE b # d
      <4>1. link'[b] = link[b]
        BY <1>2, <3>2, <3>4 DEF LinkTypeOK
      <4>2. link[b].there \in BOOLEAN /\ link[b].refcount \in Int
        BY <2>0 DEF LinkT
      <4> QED
        BY <2>0, <3>1, <3>4, <4>1, <4>2
    <3> QED
      BY <3>3, <3>4
  <2>2. CASE ~LastOf(c) /\ conn[c].conf = NULL
    <3>1. link'[b] = link[b] /\ b # NULL
      BY <1>1, <2>2 DEF LinkConfAssumption
    <3>2. link[b].there \in BOOLEAN /\ link[b].refcount \in Int
      BY <2>0 DEF LinkT
    <3> QED
      BY <2>0, <2>2, <3>1, <3>2
  <2>3. CASE ~LastOf(c) /\ conn[c].conf # NULL
    <3>1. PICK d \in Block : d = conn[c].conf
      BY <1>3, <2>3
    <3>2. link' = [link EXCEPT ![d].refcount = @ - 1]
      BY <1>1, <2>3, <3>1 DEF FewerRefs
    <3>3. /\ link'[b] \in LinkT /\ link'[b].there = link[b].there /\ link'[b].class = link[b].class
          /\ link'[b].refcount = link[b].refcount - (IF d = b THEN 1 ELSE 0)
          /\ link[b].there \in BOOLEAN
      BY <1>2, <3>2 DEF LinkTypeOK, LinkT
    <3> QED
      BY <2>3, <3>1, <3>3
  <2> QED
    BY <2>1, <2>2, <2>3
<1>6. link' = [b \in Block |-> link'[b]]
  <2>1. link = [b \in Block |-> link[b]]
    BY <1>2 DEF LinkTypeOK
  <2> QED
    BY <1>1, <2>1 DEF DeleteLink, FewerRefs
(* the class of the block that goes with c                                 *)
<1> DEFINE left(j) == IF LastOf(c) /\ link[conn[c].conf].class = j THEN 1 ELSE 0
<1>7. /\ class' \in [Class -> ClassT]
      /\ \A j \in Class :
           /\ class'[j].clients = class[j].clients - (IF conn[c].class = j THEN 1 ELSE 0)
           /\ class'[j].xrefcount = class[j].xrefcount - left(j)
           /\ class[j].there /\ (class'[j].clients # 0 \/ class'[j].xrefcount # 0)
                => class'[j].there
  <2>1. CASE ~LastOf(c)
    <3>1. \A j \in Class : class[j].xrefcount = class[j].xrefcount - left(j)
      BY <1>2, <2>1 DEF LinkTypeOK
    <3> QED
      BY <1>1, <1>4, <2>1, <3>1
  <2>2. CASE LastOf(c)
    <3>1. link[conn[c].conf].class \in Class
      <4>1. PICK d \in Block : d = conn[c].conf
        BY <1>3, <2>2 DEF LastOf
      <4> QED
        BY <4>1, PointsTo
    <3>2. PICK k \in Class : k = link[conn[c].conf].class
      BY <3>1
    <3> DEFINE cl == [after EXCEPT ![k].xrefcount = @ - 1]
    <3>3. class' = WipeClass(cl, k)
      BY <1>1, <2>2, <3>2 DEF LeaveClass
    <3>4. /\ cl \in [Class -> ClassT]
          /\ \A j \in Class : /\ cl[j].clients = after[j].clients
                              /\ cl[j].xrefcount = after[j].xrefcount - left(j)
                              /\ cl[j].there = after[j].there
      <4>1. /\ cl \in [Class -> ClassT]
            /\ \A j \in Class : /\ cl[j].clients = after[j].clients
                                /\ cl[j].xrefcount = after[j].xrefcount - (IF k = j THEN 1 ELSE 0)
                                /\ cl[j].there = after[j].there
        BY <1>4 DEF ClassT
      <4>2. \A j \in Class : left(j) = IF k = j THEN 1 ELSE 0
        BY <2>2, <3>2
      <4> QED
        BY <4>1, <4>2
    <3> HIDE DEF cl, left
    <3>5. ASSUME NEW j \in Class, class[j].there,
                 class'[j].clients # 0 \/ class'[j].xrefcount # 0
          PROVE  class'[j].there
      <4>1. /\ cl[j].clients # 0 \/ cl[j].xrefcount # 0
            /\ cl[j].there => class'[j].there
        BY <3>3, <3>4, <3>5, WipeFacts
      <4>2. after[j].clients # 0 \/ after[j].xrefcount # 0
        <5>1. after[j].clients = 0 /\ after[j].xrefcount = 0 =>
                 class[j].xrefcount = 0
          BY <1>4
        <5>2. k = j => class[j].xrefcount # 0
          <6>1. PICK d \in Block : d = conn[c].conf
            BY <1>3, <2>2 DEF LastOf
          <6> QED
            BY <3>2, <6>1, PointsTo
        <5>3. k # j => cl[j].xrefcount = after[j].xrefcount
          BY <1>4 DEF cl
        <5> QED
          BY <3>4, <4>1, <5>1, <5>2, <5>3
      <4> QED
        BY <1>4, <3>4, <3>5, <4>1, <4>2
    <3>6. /\ class' \in [Class -> ClassT]
          /\ \A j \in Class : /\ class'[j].clients = cl[j].clients
                              /\ class'[j].xrefcount = cl[j].xrefcount
      BY <3>3, <3>4, WipeFacts
    <3>7. \A j \in Class :
             /\ class'[j].clients = class[j].clients - (IF conn[c].class = j THEN 1 ELSE 0)
             /\ class'[j].xrefcount = class[j].xrefcount - left(j)
      BY <1>4, <3>4, <3>6
    <3> QED
      BY <3>5, <3>6, <3>7
  <2> QED
    BY <2>1, <2>2
<1>8. LinkTypeOK'
  <2>1. link' \in [Block -> LinkT]
    BY <1>5, <1>6
  <2>2. conn' \in [Conn -> ConnT]
    BY <1>1, <1>2 DEF LinkTypeOK, ConnT, NoConn
  <2> QED
    BY <1>1, <1>2, <1>7, <2>1, <2>2 DEF LinkTypeOK, LinkT, ConnT, ClassT
<1>9. ConnOK'
  BY <1>2, <1>3 DEF ConnOK, NoConn
<1>10. /\ \A j \in Class : Cardinality(InClass(j)')
                = Cardinality(InClass(j)) - (IF conn[c].class = j THEN 1 ELSE 0)
       /\ \A b \in Block : Cardinality(HeldBy(b)')
                = Cardinality(HeldBy(b)) - (IF conn[c].conf = b THEN 1 ELSE 0)
  <2>1. Sizes
    BY SizesHold
  <2>2. /\ \A j : Cardinality(InClass(j)') = Cardinality(InClass(j))
                    + Delta(conn'[c].class = j, conn[c].class = j)
        /\ \A b : Cardinality(HeldBy(b)') = Cardinality(HeldBy(b))
                    + Delta(conn'[c].conf = b, conn[c].conf = b)
    BY <1>3, ConnByOne
  <2>3. /\ \A j \in Class : Delta(conn'[c].class = j, conn[c].class = j)
                              = -(IF conn[c].class = j THEN 1 ELSE 0)
        /\ \A b \in Block : Delta(conn'[c].conf = b, conn[c].conf = b)
                              = -(IF conn[c].conf = b THEN 1 ELSE 0)
    BY <1>3 DEF Delta, NoConn, LinkConfAssumption
  <2> QED
    BY <2>1, <2>2, <2>3 DEF Sizes
<1>11. \A b : AskedFor(b)' = AskedFor(b)
  BY <1>1 DEF AskedFor
<1>12. \A j \in Class : Cardinality(LinksIn(j)') = Cardinality(LinksIn(j)) - left(j)
  <2>1. CASE ~LastOf(c)
    <3>1. \A j : LinksIn(j)' = LinksIn(j)
      BY <1>5, <2>1 DEF LinksIn
    <3> QED
      BY <2>1, <3>1, SizesHold DEF Sizes
  <2>2. CASE LastOf(c)
    <3>1. PICK d \in Block : d = conn[c].conf
      BY <1>3, <2>2 DEF LastOf
    <3>2. link' = [link EXCEPT ![d] = NoLink] /\ link[d].there
      BY <1>1, <2>2, <3>1, PointsTo DEF DeleteLink
    <3>3. link'[d] = NoLink /\ \A x \in Block : x # d => link'[x] = link[x]
      BY <1>2, <3>2 DEF LinkTypeOK
    <3>4. \A j : Cardinality(LinksIn(j)') = Cardinality(LinksIn(j))
                    + Delta(link'[d].there /\ link'[d].class = j,
                            link[d].there /\ link[d].class = j)
      BY <3>3, LinkByOne
    <3>5. \A j \in Class : Delta(link'[d].there /\ link'[d].class = j,
                                 link[d].there /\ link[d].class = j) = -left(j)
      BY <2>2, <3>1, <3>2, <3>3 DEF Delta, NoLink
    <3> QED
      BY <3>4, <3>5, SizesHold DEF Sizes
  <2> QED
    BY <2>1, <2>2
<1> HIDE DEF left
<1>13. Exact'
  <2>1. \A j \in Class : /\ class'[j].clients = Cardinality(InClass(j)')
                         /\ class'[j].xrefcount = Cardinality(LinksIn(j)')
    BY <1>2, <1>7, <1>10, <1>12 DEF Exact
  <2>2. \A b \in Block :
           link'[b].refcount = Cardinality(HeldBy(b)') + Cardinality(AskedFor(b)')
    BY <1>2, <1>5, <1>10, <1>11, SizesHold DEF Exact, Sizes
  <2> QED
    BY <2>1, <2>2 DEF Exact
<1>14. ASSUME NEW j \in Class, class'[j].clients # 0 \/ class'[j].xrefcount # 0
       PROVE  class'[j].there
  <2>1. class[j].there
    <3>1. CASE class'[j].clients # 0
      <4>1. InClass(j)' # {}
        BY <1>13, <3>1, FS_EmptySet DEF Exact
      <4>2. PICK x \in Conn : conn'[x].class = j
        BY <4>1 DEF InClass
      <4>3. x # c
        BY <1>3, <4>2 DEF NoConn, LinkConfAssumption
      <4> QED
        BY <1>3, <4>2, <4>3, PointsTo
    <3>2. CASE class'[j].xrefcount # 0
      <4>1. LinksIn(j)' # {}
        BY <1>13, <3>2, FS_EmptySet DEF Exact
      <4>2. PICK b \in Block : link'[b].there /\ link'[b].class = j
        BY <4>1 DEF LinksIn
      <4>3. link[b].there /\ link[b].class = j
        BY <1>5, <4>2
      <4> QED
        BY <4>3, PointsTo
    <3> QED
      BY <1>14, <3>1, <3>2
  <2> QED
    BY <1>7, <1>14, <2>1
<1>15. ASSUME NEW b \in Block
       PROVE  /\ link'[b].refcount # 0 => link'[b].there
              /\ link'[b].there => link'[b].class # NULL
  <2>1. link[b].refcount \in Int
    BY <1>2 DEF LinkTypeOK
  <2>2. CASE Gone(b)
    BY <1>5, <2>1, <2>2 DEF LastOf
  <2>3. CASE ~Gone(b)
    <3>1. conn[c].conf = b => link[b].there
      BY PointsTo
    <3> QED
      BY <1>2, <1>5, <2>1, <2>3, <3>1 DEF Kept
  <2> QED
    BY <2>2, <2>3
<1>16. Kept'
  BY <1>14, <1>15 DEF Kept
<1> QED
  BY <1>8, <1>9, <1>13, <1>16 DEF Inv

(***************************************************************************)
(* REHASH.                                                                 *)
(***************************************************************************)

(* The blocks that go are those that nothing refers to.                    *)
LEMMA OldLinkFacts ==
  ASSUME LinkConfAssumption, Inv, NEW b \in Block
  PROVE  /\ OldLinks[b] \in LinkT
         /\ OldLinks[b].refcount = link[b].refcount
         /\ OldLinks[b].there <=> link[b].there /\ link[b].refcount # 0
         /\ OldLinks[b].there => OldLinks[b].class = link[b].class
<1>1. LinkTypeOK /\ Kept
  BY DEF Inv
<1>2. /\ link[b] \in LinkT /\ NoLink \in LinkT /\ NoLink.refcount = 0 /\ ~NoLink.there
  BY <1>1 DEF LinkTypeOK, LinkT, NoLink
<1>3. CASE link[b].there /\ link[b].refcount # 0
  <2>1. OldLinks[b] = [link[b] EXCEPT !.temporary = TRUE]
    BY <1>3 DEF OldLinks
  <2> QED
    BY <1>2, <1>3, <2>1 DEF LinkT
<1>4. CASE ~(link[b].there /\ link[b].refcount # 0)
  <2>1. OldLinks[b] = NoLink
    BY <1>4 DEF OldLinks
  <2>2. link[b].refcount = 0
    BY <1>1, <1>4 DEF Kept
  <2> QED
    BY <1>2, <1>4, <2>1, <2>2
<1> QED
  BY <1>3, <1>4

LEMMA OldClassFacts ==
  ASSUME LinkConfAssumption, Inv, NEW k \in Class
  PROVE  /\ OldClasses[k] \in ClassT
         /\ OldClasses[k].clients = class[k].clients
         /\ OldClasses[k].xrefcount = class[k].xrefcount - Cardinality(WipedOf(k))
         /\ \/ OldClasses[k].clients # 0
            \/ OldClasses[k].xrefcount # 0
            => OldClasses[k].there
<1>1. LinkTypeOK /\ Exact /\ Kept
  BY DEF Inv
<1>2. WipedOf(k) \in SUBSET LinksIn(k)
  BY DEF WipedOf, LinksIn
<1>3. PICK n \in Nat : n = Cardinality(WipedOf(k)) /\ n <= class[k].xrefcount
  <2>1. /\ IsFiniteSet(LinksIn(k)) /\ class[k].xrefcount = Cardinality(LinksIn(k))
    BY <1>1, Finite DEF Exact
  <2> QED
    BY <1>2, <2>1, FS_Subset, FS_CardinalityType
<1>4. PICK x \in Int : x = class[k].xrefcount - n
  BY <1>1 DEF LinkTypeOK
<1>5. OldClasses[k] = IF k = DefaultClass THEN [class[k] EXCEPT !.xrefcount = x]
                      ELSE IF class[k].clients = 0 /\ x = 0 THEN NoClass
                      ELSE [class[k] EXCEPT !.xrefcount = x, !.temporary = class[k].there]
  BY <1>3, <1>4 DEF OldClasses
<1>6. /\ class[k] \in ClassT /\ NoClass \in ClassT
      /\ NoClass.clients = 0 /\ NoClass.xrefcount = 0
  BY <1>1 DEF LinkTypeOK, ClassT, NoClass
<1>7. class[k].clients # 0 \/ x # 0 => class[k].there
  <2>1. class[k].xrefcount \in Int
    BY <1>6 DEF ClassT
  <2>2. x # 0 => class[k].xrefcount # 0
    BY <1>3, <1>4, <2>1
  <2> QED
    BY <1>1, <2>2 DEF Kept
<1>8. CASE k = DefaultClass
  BY <1>3, <1>4, <1>5, <1>6, <1>7, <1>8 DEF ClassT
<1>9. CASE k # DefaultClass /\ class[k].clients = 0 /\ x = 0
  BY <1>3, <1>4, <1>5, <1>6, <1>9
<1>10. CASE k # DefaultClass /\ ~(class[k].clients = 0 /\ x = 0)
  <2>1. PICK t \in BOOLEAN : t = class[k].there
    BY <1>6 DEF ClassT
  <2>2. OldClasses[k] = [class[k] EXCEPT !.xrefcount = x, !.temporary = t]
    BY <1>5, <1>10, <2>1
  <2> QED
    BY <1>3, <1>4, <1>6, <1>7, <2>2 DEF ClassT
<1> QED
  BY <1>8, <1>9, <1>10

(* One new block for every name that the file gives to a class.            *)
LEMMA NewCount ==
  ASSUME LinkConfAssumption, NEW N \in SUBSET Name, NEW slot
  PROVE  /\ IsFiniteSet(N) /\ IsFiniteSet({<<n, slot[n]>> : n \in N})
         /\ Cardinality({<<n, slot[n]>> : n \in N}) = Cardinality(N)
<1> DEFINE B == {<<n, slot[n]>> : n \in N}
           f == [n \in N |-> <<n, slot[n]>>]
<1>1. IsFiniteSet(N)
  BY FS_Subset DEF LinkConfAssumption
<1>2. f \in Bijection(N, B)
  <2>1. f \in [N -> B] /\ \A m, n \in N : f[m] = f[n] => m = n
    OBVIOUS
  <2>2. \A b \in B : \E n \in N : f[n] = b
    OBVIOUS
  <2> HIDE DEF f, B
  <2> QED
    BY <2>1, <2>2 DEF Bijection, Injection, Surjection, IsInjective
<1>3. ExistsBijection(N, B)
  BY <1>2 DEF ExistsBijection
<1> QED
  BY <1>1, <1>3, FS_Bijection

LEMMA BlocksRehashStep ==
  ASSUME LinkConfAssumption, Inv,
         NEW classes \in SUBSET (Class \ {DefaultClass}), NEW names \in SUBSET Name,
         NEW links \in [names -> Class], NEW slot \in [names -> Mem],
         Rehash(classes, links, slot)
  PROVE  Inv'
<1>1. /\ \A n \in names : ~OldLinks[<<n, slot[n]>>].there
      /\ class' = NewClasses(OldClasses, classes, links)
      /\ link' = NewLinks(OldLinks, classes, links, slot)
      /\ conn' = conn /\ req' = req
  BY DEF Rehash, DelAsyncConnects
<1>2. LinkTypeOK /\ ConnOK /\ Exact /\ Kept /\ DefaultClass \in Class /\ NULL \notin Class
  BY DEF Inv, LinkConfAssumption
<1> DEFINE to(n) == ClassOf(classes, links[n])
           new(b) == b[1] \in names /\ b[2] = slot[b[1]]
           NewIn(k) == NewOf(classes, links, k)
<1>3. \A n \in names : to(n) \in Class /\ to(n) \in classes \cup {DefaultClass}
  BY <1>2 DEF ClassOf
<1>4. ASSUME NEW b \in Block
      PROVE  /\ link'[b] \in LinkT
             /\ link'[b].refcount = link[b].refcount
             /\ link'[b].there <=> new(b) \/ OldLinks[b].there
             /\ new(b) => link'[b].class = to(b[1]) /\ ~OldLinks[b].there
             /\ ~new(b) => link'[b] = OldLinks[b]
  <2>1. CASE new(b)
    <3>1. ~OldLinks[b].there /\ link[b].refcount = 0
      <4>1. b = <<b[1], slot[b[1]]>>
        BY <2>1 DEF Block
      <4>2. ~OldLinks[b].there
        BY <1>1, <2>1, <4>1
      <4> QED
        BY <1>2, <4>2, OldLinkFacts DEF Kept
    <3>2. PICK k \in Class : k = to(b[1])
      BY <1>3, <2>1
    <3>3. link'[b] = [there |-> TRUE, temporary |-> FALSE, class |-> k, refcount |-> 0]
      BY <1>1, <2>1, <3>2 DEF NewLinks, NoLink
    <3> QED
      BY <2>1, <3>1, <3>2, <3>3 DEF LinkT
  <2>2. CASE ~new(b)
    <3>1. link'[b] = OldLinks[b]
      BY <1>1, <2>2 DEF NewLinks
    <3> QED
      BY <2>2, <3>1, OldLinkFacts
  <2> QED
    BY <2>1, <2>2
<1>5. ASSUME NEW k \in Class
      PROVE  /\ class'[k] \in ClassT
             /\ class'[k].clients = class[k].clients
             /\ class'[k].xrefcount
                  = class[k].xrefcount - Cardinality(WipedOf(k)) + Cardinality(NewIn(k))
             /\ class'[k].clients # 0 \/ class'[k].xrefcount # 0 => class'[k].there
  <2>1. PICK o \in ClassT : o = OldClasses[k]
    BY OldClassFacts
  <2>2. /\ o.clients = class[k].clients
        /\ o.xrefcount = class[k].xrefcount - Cardinality(WipedOf(k))
        /\ o.clients # 0 \/ o.xrefcount # 0 => o.there
    BY <2>1, OldClassFacts
  <2>3. /\ NewIn(k) \in SUBSET Name
        /\ k \notin classes \cup {DefaultClass} => NewIn(k) = {}
    BY <1>3 DEF NewOf
  <2>4. PICK m \in Nat : m = Cardinality(NewIn(k))
    BY <2>3, FS_Subset, FS_CardinalityType DEF LinkConfAssumption
  <2>5. class'[k] = IF k \in classes \cup {DefaultClass}
                    THEN [o EXCEPT !.there = TRUE, !.temporary = FALSE,
                                   !.xrefcount = o.xrefcount + m]
                    ELSE o
    BY <1>1, <2>1, <2>4 DEF NewClasses
  <2>6. CASE k \in classes \cup {DefaultClass}
    <3>1. class'[k] = [there |-> TRUE, temporary |-> FALSE, clients |-> o.clients,
                       xrefcount |-> o.xrefcount + m]
      BY <2>5, <2>6 DEF ClassT
    <3>2. o.clients \in Int /\ o.xrefcount + m \in Int
      BY DEF ClassT
    <3> QED
      BY <2>2, <2>4, <3>1, <3>2 DEF ClassT
  <2>7. CASE k \notin classes \cup {DefaultClass}
    <3>1. m = 0
      BY <2>3, <2>4, <2>7, FS_EmptySet
    <3>2. o.xrefcount = o.xrefcount + m
      BY <3>1 DEF ClassT
    <3> QED
      BY <2>2, <2>4, <2>5, <2>7, <3>2
  <2> QED
    BY <2>6, <2>7
<1>6. LinkTypeOK' /\ ConnOK'
  <2>1. link' \in [Block -> LinkT]
    <3>1. link' = [b \in Block |-> link'[b]]
      BY <1>1 DEF NewLinks
    <3> QED
      BY <1>4, <3>1
  <2>2. class' \in [Class -> ClassT]
    <3>1. class' = [k \in Class |-> class'[k]]
      BY <1>1 DEF NewClasses
    <3> QED
      BY <1>5, <3>1
  <2> QED
    BY <1>1, <1>2, <2>1, <2>2 DEF LinkTypeOK, LinkT, ClassT, ConnOK
<1>7. /\ \A k : InClass(k)' = InClass(k)
      /\ \A b : HeldBy(b)' = HeldBy(b) /\ AskedFor(b)' = AskedFor(b)
  BY <1>1 DEF InClass, HeldBy, AskedFor
<1>8. ASSUME NEW k \in Class
      PROVE  Cardinality(LinksIn(k)')
               = Cardinality(LinksIn(k)) - Cardinality(WipedOf(k)) + Cardinality(NewIn(k))
  <2> DEFINE S == LinksIn(k) \ WipedOf(k)
             T == {<<n, slot[n]>> : n \in NewIn(k)}
  <2>1. IsFiniteSet(LinksIn(k)) /\ WipedOf(k) \subseteq LinksIn(k)
    BY Finite DEF WipedOf, LinksIn
  <2>2. /\ IsFiniteSet(S)
        /\ Cardinality(S) = Cardinality(LinksIn(k)) - Cardinality(WipedOf(k))
    <3>1. LinksIn(k) \cap WipedOf(k) = WipedOf(k)
      BY <2>1
    <3> QED
      BY <2>1, <3>1, FS_Difference
  <2>3. NewIn(k) \in SUBSET Name /\ NewIn(k) \in SUBSET names
    BY DEF NewOf
  <2>4. IsFiniteSet(T) /\ Cardinality(T) = Cardinality(NewIn(k))
    BY <2>3, NewCount
  <2>5. \A b \in Block : b \in S <=> OldLinks[b].there /\ OldLinks[b].class = k
    BY OldLinkFacts DEF LinksIn, WipedOf
  <2>6. \A b \in Block : b \in T <=> new(b) /\ to(b[1]) = k
    <3>1. ASSUME NEW b \in Block PROVE b \in T <=> new(b) /\ to(b[1]) = k
      <4>1. b = <<b[1], b[2]>>
        BY DEF Block
      <4>2. b \in T => new(b) /\ to(b[1]) = k
        BY <2>3 DEF NewOf
      <4>3. new(b) /\ to(b[1]) = k => b \in T
        BY <4>1 DEF NewOf
      <4> QED
        BY <4>2, <4>3
    <3> QED
      BY <3>1
  <2>7. S \subseteq Block /\ T \subseteq Block
    <3>1. \A n \in names : <<n, slot[n]>> \in Block
      BY DEF Block
    <3> QED
      BY <2>3, <3>1 DEF LinksIn
  <2> HIDE DEF S, T
  <2>8. LinksIn(k)' = S \cup T
    <3>1. \A b \in Block : link'[b].there /\ link'[b].class = k <=> b \in S \/ b \in T
      BY <1>4, <2>5, <2>6
    <3>2. LinksIn(k)' = {b \in Block : link'[b].there /\ link'[b].class = k}
      BY DEF LinksIn
    <3> QED
      BY <2>7, <3>1, <3>2
  <2>9. S \cap T = {}
    BY <1>4, <2>5, <2>6, <2>7
  <2>10. Cardinality(S \cup T) = Cardinality(S) + Cardinality(T)
    <3>1. /\ Cardinality(S \cup T) = Cardinality(S) + Cardinality(T) - Cardinality(S \cap T)
          /\ Cardinality(S) \in Nat /\ Cardinality(T) \in Nat
      BY <2>2, <2>4, FS_Union, FS_CardinalityType
    <3>2. Cardinality(S \cap T) = 0
      BY <2>9, FS_EmptySet
    <3> QED
      BY <3>1, <3>2
  <2> QED
    BY <2>2, <2>4, <2>8, <2>10
<1>9. Exact'
  <2>1. \A k \in Class : /\ class'[k].clients = Cardinality(InClass(k)')
                         /\ class'[k].xrefcount = Cardinality(LinksIn(k)')
    BY <1>2, <1>5, <1>7, <1>8 DEF Exact
  <2>2. \A b \in Block :
           link'[b].refcount = Cardinality(HeldBy(b)') + Cardinality(AskedFor(b)')
    BY <1>2, <1>4, <1>7 DEF Exact
  <2> QED
    BY <2>1, <2>2 DEF Exact
<1>10. ASSUME NEW b \in Block
       PROVE  /\ link'[b].refcount # 0 => link'[b].there
              /\ link'[b].there => link'[b].class # NULL
  <2>1. link'[b].refcount # 0 => link'[b].there
    BY <1>2, <1>4, OldLinkFacts DEF Kept
  <2>2. link'[b].there => link'[b].class # NULL
    <3>1. CASE new(b)
      BY <1>2, <1>3, <1>4, <3>1
    <3>2. CASE ~new(b)
      BY <1>2, <1>4, <3>2, OldLinkFacts DEF Kept
    <3> QED
      BY <3>1, <3>2
  <2> QED
    BY <2>1, <2>2
<1>11. Kept'
  BY <1>5, <1>10 DEF Kept
<1> QED
  BY <1>6, <1>9, <1>11 DEF Inv

(***************************************************************************)
(* The theorem.                                                            *)
(***************************************************************************)
LEMMA NextStep == ASSUME LinkConfAssumption, Inv, LinkNext PROVE Inv'
<1>1. ASSUME NEW classes \in SUBSET (Class \ {DefaultClass}), NEW names \in SUBSET Name,
             NEW links \in [names -> Class], NEW slot \in [names -> Mem],
             Rehash(classes, links, slot)
      PROVE  Inv'
  BY <1>1, BlocksRehashStep
<1>2. ASSUME NEW c \in Conn,
             \/ Accept(c) \/ Exit(c)
             \/ \E k \in Class : AttachConf(c, k) \/ OperUp(c, k)
             \/ \E b \in Block : ConnectServer(b, c) \/ Synch(c, b)
             \/ \E r \in Req : LookUpDone(r, c)
      PROVE  Inv'
  BY <1>2, AcceptStep, ExitStep, ConnRegisterStep, OperUpStep, ConnectServerStep,
     SynchStep, LookUpDoneStep
<1>3. ASSUME NEW r \in Req, LookUpFails(r) \/ \E b \in Block : LookUp(b, r)
      PROVE  Inv'
  BY <1>3, LookUpFailsStep, LookUpStep
<1> QED
  BY <1>1, <1>2, <1>3 DEF LinkNext

(* Whatever REHASHes come between a reference and its end: no connection,  *)
(* look-up or link block points to a block that was freed, and every block *)
(* counts exactly who refers to it (config_rehash, delete_linkblock,       *)
(* delete_classblock, exit_client, m_server_synch).                        *)
THEOREM BlocksAreHeld == ASSUME LinkConfAssumption PROVE LinkSpec => []BlocksHold
<1>1. LinkInit => Inv
  BY InvInit
<1>2. Inv /\ [LinkNext]_linkVars => Inv'
  BY NextStep, StutterStep
<1>3. Inv => BlocksHold
  BY InvHolds
<1> QED
  BY <1>1, <1>2, <1>3, PTL DEF LinkSpec

----------------------------------------------------------------------------
(***************************************************************************)
(* Includes: what a REHASH waits for, lists and runs with.                 *)
(***************************************************************************)
Listed ==
  /\ IsFiniteSet(conf_include) /\ IsFiniteSet(transfers)
  /\ \A d, e \in conf_include : d.url = e.url => d = e
  /\ \A s, t \in transfers : s.url = t.url => s = t
  /\ \A e \in conf_include : e.loaded /\ (e.file # "own" <=> e.url \in Url)
  /\ {e.url : e \in conf_include} = DOMAIN running

Waiting ==
  /\ ircd_rehashing <=> Queued(conf_include) # {}
  /\ {t.url : t \in transfers} = {e.url : e \in Queued(conf_include)}

(* A download asks for what is newer than the file of its entry.           *)
AsksForNewer ==
  \A t \in transfers : \A e \in conf_include :
     e.url = t.url => t.since = unreal_getfilemodtime(e)

(* What a REHASH under way has fetched is in cache/.                       *)
FetchedIsKept ==
  ircd_rehashing => /\ outcome = "none"
                    /\ \A u \in Url : got[u] <= cache[u].v /\ got[u] <= web[u]

Down == ~up => conf_include = {} /\ transfers = {} /\ ~ircd_rehashing /\ running = <<>>

IncludesInv ==
  IncludesTypeOK /\ Listed /\ Waiting /\ AsksForNewer /\ FetchedIsKept /\ Down /\ FetchedIsUsed

(* The set that a list's entries, or their images, form is finite.         *)
LEMMA FiniteImage ==
  ASSUME NEW S, IsFiniteSet(S), NEW f, NEW T, T = {f[x] : x \in S}
  PROVE  IsFiniteSet(T)
<1> DEFINE g == [x \in S |-> f[x]]
<1>1. g \in Surjection(S, T)
  BY DEF Surjection
<1> QED
  BY <1>1, FS_Surjection

(* Two finite sets in which nothing has its address twice, and the same    *)
(* addresses, have equally many members.                                   *)
LEMMA SameSize ==
  ASSUME NEW S, NEW T, IsFiniteSet(S),
         \A d, e \in S : d.url = e.url => d = e,
         {e.url : e \in S} = T
  PROVE  Cardinality(S) = Cardinality(T)
<1> DEFINE g == [e \in S |-> e.url]
<1>1. g \in [S -> T] /\ \A t \in T : \E e \in S : g[e] = t
  OBVIOUS
<1>2. \A d, e \in S : g[d] = g[e] => d = e
  OBVIOUS
<1> HIDE DEF g
<1>3. g \in Bijection(S, T)
  BY <1>1, <1>2 DEF Bijection, Injection, Surjection, IsInjective
<1> QED
  BY <1>3, FS_Bijection DEF ExistsBijection

-----------------------------------------------------------------------------
LEMMA EntryOfInclude ==
  ASSUME IncludesAssumption, IncludesTypeOK, NEW reached \in SUBSET Url,
         NEW copies \in [Url -> Copies \cup {NoCopy}], NEW i \in Url \cup Local,
         Gets(i, reached, copies)
  PROVE  /\ conf_include_of(i, reached, copies) \in Entries
         /\ conf_include_of(i, reached, copies).url = i
         /\ ~conf_include_of(i, reached, copies).queued
         /\ (conf_include_of(i, reached, copies).file # "own" <=> i \in Url)
         /\ i \in Url =>
              /\ conf_include_of(i, reached, copies).text \in Copies
              /\ \/ conf_include_of(i, reached, copies).text = copies[i]
                 \/ conf_include_of(i, reached, copies).text.v = web[i]
<1>1. CASE i \in Local
  BY <1>1 DEF conf_include_of, add_include, IncludesAssumption, Entries
<1>2. CASE i \in Url
  <2>1. web[i] \in 1..MaxVersion
    BY <1>2 DEF IncludesTypeOK
  <2>2. copies[i] \in Copies \cup {NoCopy}
    BY <1>2
  <2>3. i \notin Local /\ (i \notin reached => copies[i] # NoCopy)
    BY <1>2 DEF IncludesAssumption, Gets
  <2>4. [v |-> web[i], tail |-> FALSE] \in Copies
    BY <2>1 DEF Copies
  <2>5. conf_include_of(i, reached, copies) =
          [url |-> i, loaded |-> FALSE, queued |-> FALSE,
           file |-> IF i \in reached THEN "tmp" ELSE "cache",
           text |-> IF i \in reached THEN [v |-> web[i], tail |-> FALSE] ELSE copies[i]]
    BY <2>3 DEF conf_include_of, remote_include, add_include
  <2> QED
    BY <1>2, <2>2, <2>3, <2>4, <2>5 DEF Entries
<1> QED
  BY <1>1, <1>2

(* The reading of the first n includes.                                   *)
Read(reached, n, end, entries, copies) ==
  LET new == {conf_include_of(wanted[i], reached, copies) : i \in 1..n}
  IN /\ outcome' = end
     /\ IF end = "loaded"
        THEN /\ cache' = unload_includes({e \in entries : e.loaded}, copies)
             /\ conf_include' = {[e EXCEPT !.loaded = TRUE] : e \in new}
             /\ running' = [u \in {e.url : e \in new} |->
                              (CHOOSE e \in new : e.url = u).text]
             /\ up' = TRUE
        ELSE /\ cache' = unload_includes(new, copies)
             /\ conf_include' = entries
             /\ UNCHANGED <<running, up>>

(* A reading either leaves what runs alone, or lists and runs what it read,*)
(* which is as new as what was fetched before (goal).                      *)
LEMMA Reading ==
  ASSUME IncludesAssumption, IncludesTypeOK, NEW entries \in SUBSET Entries,
         NEW copies \in [Url -> Copies \cup {NoCopy}], NEW goal \in [Url -> Nat],
         \A u \in Url : goal[u] <= copies[u].v /\ goal[u] <= web[u],
         init_conf(entries, copies)
  PROVE  /\ cache' \in [Url -> Copies \cup {NoCopy}]
         /\ outcome' \in {"none", "loaded", "refused"} \cup Url
         /\ \/ /\ outcome' # "loaded"
               /\ conf_include' = entries /\ UNCHANGED <<running, up>>
            \/ /\ up' = TRUE /\ conf_include' \subseteq Entries /\ IsFiniteSet(conf_include')
               /\ \A d, e \in conf_include' : d.url = e.url => d = e
               /\ \A e \in conf_include' :
                    e.loaded /\ ~e.queued /\ (e.file # "own" <=> e.url \in Url)
               /\ {e.url : e \in conf_include'} = DOMAIN running'
               /\ \A u \in DOMAIN running' \cap Url :
                    running'[u] \in Copies /\ running'[u].v >= goal[u]
<1>a. PICK reached \in SUBSET Url :
        \E n \in Readable(reached, copies) : \E end \in Ending(n, reached, copies) :
          Read(reached, n, end, entries, copies)
  BY DEF init_conf, Read
<1>b. PICK n \in Readable(reached, copies) :
        \E end \in Ending(n, reached, copies) : Read(reached, n, end, entries, copies)
  BY <1>a
<1>0. PICK end \in Ending(n, reached, copies) : Read(reached, n, end, entries, copies)
  BY <1>b
<1> DEFINE Of(i) == conf_include_of(wanted[i], reached, copies)
           new == {Of(i) : i \in 1..n}
<1>1. wanted \in Seq(Url \cup Local) /\ n \in 0..Len(wanted)
  BY <1>0 DEF IncludesTypeOK, IncludesAssumption, Readable
<1>2. \A i \in 1..n : wanted[i] \in Url \cup Local /\ Gets(wanted[i], reached, copies)
  BY <1>0, <1>1 DEF Readable
<1>3. \A i \in 1..n :
        /\ Of(i) \in Entries /\ Of(i).url = wanted[i] /\ ~Of(i).queued
        /\ (Of(i).file # "own" <=> Of(i).url \in Url)
        /\ Of(i).url \in Url => /\ Of(i).text \in Copies
                                /\ \/ Of(i).text = copies[Of(i).url]
                                   \/ Of(i).text.v = web[Of(i).url]
  BY <1>2, EntryOfInclude
<1>4. \A d, e \in new : d.url = e.url => d = e
  BY <1>3
<1>5. \A e \in new :
        /\ e \in Entries /\ ~e.queued /\ (e.file # "own" <=> e.url \in Url)
        /\ e.url \in Url => e.text \in Copies /\ e.text.v >= goal[e.url]
  <2> TAKE e \in new
  <2>1. /\ e \in Entries /\ ~e.queued /\ (e.file # "own" <=> e.url \in Url)
        /\ e.url \in Url => /\ e.text \in Copies
                            /\ e.text = copies[e.url] \/ e.text.v = web[e.url]
    BY <1>3
  <2> HIDE DEF new
  <2>2. e.url \in Url => goal[e.url] \in Nat /\ web[e.url] \in Nat /\ e.text.v \in Nat
    BY <2>1 DEF IncludesTypeOK, Copies
  <2> QED
    BY <2>1, <2>2
<1>6. IsFiniteSet(new)
  <2> DEFINE I == 1..n
            f == [i \in I |-> Of(i)]
  <2>1. new = {f[i] : i \in I}
    OBVIOUS
  <2>2. IsFiniteSet(I)
    BY <1>1, FS_Interval
  <2> HIDE DEF new, f, I
  <2> QED
    BY <2>1, <2>2, FiniteImage
<1> HIDE DEF new
<1>7. \A S : unload_includes(S, copies) \in [Url -> Copies \cup {NoCopy}]
  BY DEF unload_includes
<1>8. outcome' = end /\ outcome' \in {"none", "loaded", "refused"} \cup Url
  <2>1. wanted[n + 1] \in Url \/ end \in {"loaded", "refused"}
    <3>1. CASE n = Len(wanted) \/ n + 1 \in Readable(reached, copies)
               \/ Gets(wanted[n + 1], reached, copies)
      BY <1>0, <3>1 DEF Ending
    <3>2. CASE n # Len(wanted) /\ ~Gets(wanted[n + 1], reached, copies)
      <4>1. wanted[n + 1] \in Url \cup Local
        BY <1>1, <3>2
      <4> QED
        BY <3>2, <4>1 DEF Gets
    <3> QED
      BY <3>1, <3>2
  <2>2. end \in {"loaded", "refused", wanted[n + 1]}
    BY DEF Ending
  <2> QED
    BY <1>0, <2>1, <2>2 DEF Read
<1>9. CASE end # "loaded"
  BY <1>0, <1>7, <1>8, <1>9 DEF Read
<1>10. CASE end = "loaded"
  <2> DEFINE lift == [e \in new |-> [e EXCEPT !.loaded = TRUE]]
  <2>1. /\ conf_include' = {[e EXCEPT !.loaded = TRUE] : e \in new}
        /\ running' = [u \in {e.url : e \in new} |-> (CHOOSE e \in new : e.url = u).text]
        /\ up' = TRUE
    BY <1>0, <1>10 DEF new, Read
  <2>2. conf_include' = {lift[e] : e \in new}
    BY <2>1
  <2>3. IsFiniteSet(conf_include')
    <3> HIDE DEF lift
    <3> QED
      BY <1>6, <2>2, FiniteImage
  <2>4. \A e \in new :
          /\ [e EXCEPT !.loaded = TRUE] \in Entries /\ [e EXCEPT !.loaded = TRUE].url = e.url
          /\ [e EXCEPT !.loaded = TRUE].loaded /\ ~[e EXCEPT !.loaded = TRUE].queued
          /\ [e EXCEPT !.loaded = TRUE].file = e.file
    BY <1>5 DEF Entries
  <2>5. {e.url : e \in conf_include'} = {e.url : e \in new}
    <3>1. \A e \in new : lift[e].url = e.url
      BY <2>4
    <3> HIDE DEF lift
    <3> QED
      BY <2>2, <3>1
  <2>6. ASSUME NEW u \in DOMAIN running' \cap Url
        PROVE  running'[u] \in Copies /\ running'[u].v >= goal[u]
    <3>1. PICK e \in new : e.url = u
      BY <2>1
    <3>2. (CHOOSE d \in new : d.url = u) = e
      BY <1>4, <3>1
    <3> QED
      BY <1>5, <2>1, <3>1, <3>2
  <2>7. /\ conf_include' \subseteq Entries
        /\ \A d, e \in conf_include' : d.url = e.url => d = e
        /\ \A e \in conf_include' :
             e.loaded /\ ~e.queued /\ (e.file # "own" <=> e.url \in Url)
    <3>1. \A e \in new : /\ lift[e] \in Entries /\ lift[e].url = e.url /\ lift[e].loaded
                          /\ ~lift[e].queued /\ lift[e].file = e.file
      BY <2>4
    <3> HIDE DEF lift
    <3> QED
      BY <1>4, <1>5, <2>2, <3>1
  <2>8. cache' \in [Url -> Copies \cup {NoCopy}]
    BY <1>0, <1>7, <1>10 DEF Read
  <2> QED
    BY <1>8, <2>1, <2>3, <2>5, <2>6, <2>7, <2>8
<1> QED
  BY <1>9, <1>10

(* When a reading ends nothing waits, whether it was refused or not.       *)
LEMMA AfterReading ==
  ASSUME IncludesAssumption, IncludesTypeOK, NEW entries \in SUBSET Entries,
         NEW copies \in [Url -> Copies \cup {NoCopy}],
         IsFiniteSet(entries), \A d, e \in entries : d.url = e.url => d = e,
         \A e \in entries : e.loaded /\ ~e.queued /\ (e.file # "own" <=> e.url \in Url),
         {e.url : e \in entries} = DOMAIN running,
         ~up => entries = {} /\ running = <<>>,
         got' \in [Url -> 0..MaxVersion], kept' \subseteq Url,
         \A u \in Url : got'[u] <= copies[u].v /\ got'[u] <= web[u],
         init_conf(entries, copies),
         transfers' = {}, ircd_rehashing' = FALSE, UNCHANGED <<web, wanted>>
  PROVE  IncludesInv'
<1>1. got' \in [Url -> Nat]
  BY DEF IncludesAssumption
<1>2. /\ cache' \in [Url -> Copies \cup {NoCopy}]
      /\ outcome' \in {"none", "loaded", "refused"} \cup Url
      /\ \/ /\ outcome' # "loaded"
            /\ conf_include' = entries /\ UNCHANGED <<running, up>>
         \/ /\ up' = TRUE /\ conf_include' \subseteq Entries /\ IsFiniteSet(conf_include')
            /\ \A d, e \in conf_include' : d.url = e.url => d = e
            /\ \A e \in conf_include' :
                 e.loaded /\ ~e.queued /\ (e.file # "own" <=> e.url \in Url)
            /\ {e.url : e \in conf_include'} = DOMAIN running'
            /\ \A u \in DOMAIN running' \cap Url :
                 running'[u] \in Copies /\ running'[u].v >= got'[u]
  BY <1>1, Reading
<1>3. /\ conf_include' \subseteq Entries /\ IsFiniteSet(conf_include')
      /\ \A d, e \in conf_include' : d.url = e.url => d = e
      /\ \A e \in conf_include' :
           e.loaded /\ ~e.queued /\ (e.file # "own" <=> e.url \in Url)
      /\ {e.url : e \in conf_include'} = DOMAIN running'
  BY <1>2
<1>4. Queued(conf_include)' = {}
  BY <1>3 DEF Queued
<1>5. /\ up' \in BOOLEAN /\ \A u \in DOMAIN running' \cap Url : running'[u] \in Copies
      /\ outcome' = "loaded" => \A u \in DOMAIN running' \cap Url : running'[u].v >= got'[u]
      /\ ~up' => conf_include' = {} /\ running' = <<>>
  <2>1. CASE /\ outcome' # "loaded"
             /\ conf_include' = entries /\ UNCHANGED <<running, up>>
    BY <2>1 DEF IncludesTypeOK
  <2>2. CASE /\ up' = TRUE
             /\ \A u \in DOMAIN running' \cap Url :
                  running'[u] \in Copies /\ running'[u].v >= got'[u]
    BY <2>2
  <2> QED
    BY <1>2, <2>1, <2>2
<1>6. DOMAIN running' \subseteq Url \cup Local
  BY <1>3 DEF Entries
<1>7. IncludesTypeOK'
  BY <1>2, <1>3, <1>5, <1>6 DEF IncludesTypeOK
<1>8. IsFiniteSet({}) /\ {t.url : t \in transfers'} = {} /\ {e.url : e \in Queued(conf_include)'} = {}
  BY <1>4, FS_EmptySet
<1>9. Listed'
  BY <1>3, <1>8 DEF Listed
<1>10. Waiting'
  BY <1>4, <1>8 DEF Waiting
<1> QED
  BY <1>5, <1>7, <1>9, <1>10 DEF IncludesInv, AsksForNewer, FetchedIsKept, Down, FetchedIsUsed

-----------------------------------------------------------------------------
LEMMA IncludesStarts ==
  ASSUME IncludesAssumption, IncludesInit
  PROVE  IncludesInv
<1>1. Queued({}) = {} /\ {e.url : e \in {}} = {} /\ DOMAIN <<>> = {} /\ IsFiniteSet({})
  BY FS_EmptySet DEF Queued
<1>2. PICK w \in Wanted : IncludesInitWith(w)
  BY DEF IncludesInit
<1>3. /\ conf_include = {} /\ transfers = {} /\ running = <<>> /\ outcome = "none"
      /\ ircd_rehashing = FALSE /\ up = FALSE
  BY <1>2 DEF IncludesInitWith
<1>4. IncludesTypeOK
  <2>1. /\ web = [u \in Url |-> 1] /\ wanted = w /\ cache = [u \in Url |-> NoCopy]
        /\ got = [u \in Url |-> 0] /\ kept = {}
    BY <1>2 DEF IncludesInitWith
  <2>2. 1 \in 1..MaxVersion /\ 0 \in 0..MaxVersion
    BY DEF IncludesAssumption
  <2> QED
    BY <1>1, <1>3, <2>1, <2>2 DEF IncludesTypeOK
<1>5. Listed /\ Waiting /\ AsksForNewer
  BY <1>1, <1>3 DEF Listed, Waiting, AsksForNewer
<1> QED
  BY <1>3, <1>4, <1>5 DEF IncludesInv, FetchedIsKept, Down, FetchedIsUsed

LEMMA PublishStep ==
  ASSUME IncludesAssumption, IncludesInv, NEW u \in Url, Publish(u)
  PROVE  IncludesInv'
<1>1. /\ web' = [web EXCEPT ![u] = @ + 1] /\ web[u] < MaxVersion
      /\ UNCHANGED <<wanted, conf_include, cache, transfers, ircd_rehashing,
                     running, up, outcome, got, kept>>
  BY DEF Publish
<1>2. web' \in [Url -> 1..MaxVersion] /\ \A v \in Url : web'[v] >= web[v]
  BY <1>1 DEF IncludesInv, IncludesTypeOK, IncludesAssumption
<1>3. IncludesTypeOK'
  BY <1>1, <1>2 DEF IncludesInv, IncludesTypeOK
<1>4. FetchedIsKept'
  BY <1>1, <1>2 DEF IncludesInv, FetchedIsKept, IncludesTypeOK
<1>5. Listed' /\ Waiting' /\ AsksForNewer' /\ Down' /\ FetchedIsUsed'
  BY <1>1 DEF IncludesInv, Listed, Waiting, AsksForNewer, Down, FetchedIsUsed,
              Queued, unreal_getfilemodtime
<1> QED
  BY <1>3, <1>4, <1>5 DEF IncludesInv

LEMMA EditConfStep ==
  ASSUME IncludesInv, NEW w \in Wanted, EditConf(w)
  PROVE  IncludesInv'
BY DEF EditConf, IncludesInv, IncludesTypeOK, Listed, Waiting, AsksForNewer, FetchedIsKept,
       Down, FetchedIsUsed, Queued, unreal_getfilemodtime

LEMMA CrashStep ==
  ASSUME IncludesInv, Crash
  PROVE  IncludesInv'
<1>1. Queued({}) = {} /\ {e.url : e \in {}} = {} /\ DOMAIN <<>> = {} /\ IsFiniteSet({})
  BY FS_EmptySet DEF Queued
<1>2. /\ up' = FALSE /\ conf_include' = {} /\ transfers' = {} /\ ircd_rehashing' = FALSE
      /\ running' = <<>> /\ outcome' = "none"
      /\ UNCHANGED <<web, wanted, cache, got, kept>>
  BY DEF Crash
<1>3. IncludesTypeOK'
  BY <1>1, <1>2 DEF IncludesInv, IncludesTypeOK
<1>4. Listed' /\ Waiting' /\ AsksForNewer'
  BY <1>1, <1>2 DEF Listed, Waiting, AsksForNewer
<1> QED
  BY <1>2, <1>3, <1>4 DEF IncludesInv, FetchedIsKept, Down, FetchedIsUsed

(* Nothing was fetched yet, when a server starts or a REHASH begins.       *)
LEMMA NothingFetched ==
  ASSUME IncludesAssumption, IncludesInv, got' = [u \in Url |-> 0]
  PROVE  /\ got' \in [Url -> 0..MaxVersion]
         /\ \A u \in Url : got'[u] <= cache[u].v /\ got'[u] <= web[u]
<1>1. \A u \in Url : web[u] \in Nat /\ cache[u].v \in Nat
  BY DEF IncludesInv, IncludesTypeOK, Copies, NoCopy
<1> QED
  BY <1>1 DEF IncludesAssumption

LEMMA BootStep ==
  ASSUME IncludesAssumption, IncludesInv, Boot
  PROVE  IncludesInv'
<1>1. /\ init_conf({}, cache) /\ got' = [u \in Url |-> 0] /\ ~up
      /\ UNCHANGED <<web, wanted, transfers, ircd_rehashing, kept>>
  BY DEF Boot
<1>2. /\ IncludesTypeOK /\ Down /\ cache \in [Url -> Copies \cup {NoCopy}] /\ kept \subseteq Url
      /\ IsFiniteSet({}) /\ {e.url : e \in {}} = DOMAIN running
  BY <1>1, FS_EmptySet DEF IncludesInv, IncludesTypeOK, Down, Listed
<1>3. /\ conf_include = {} /\ transfers' = {} /\ ircd_rehashing' = FALSE /\ running = <<>>
      /\ UNCHANGED <<web, wanted>> /\ kept' \subseteq Url
  BY <1>1, <1>2 DEF Down, IncludesTypeOK
<1>4. /\ got' \in [Url -> 0..MaxVersion]
      /\ \A u \in Url : got'[u] <= cache[u].v /\ got'[u] <= web[u]
  BY <1>1, NothingFetched
<1> DEFINE none == {}
<1>5. /\ none \in SUBSET Entries /\ IsFiniteSet(none)
      /\ \A d, e \in none : d.url = e.url => d = e
      /\ \A e \in none : e.loaded /\ ~e.queued /\ (e.file # "own" <=> e.url \in Url)
      /\ {e.url : e \in none} = DOMAIN running /\ init_conf(none, cache)
      /\ ~up => none = {} /\ running = <<>>
  BY <1>1, <1>2, <1>3
<1> HIDE DEF none
<1> QED
  BY <1>2, <1>3, <1>4, <1>5, AfterReading

(* A REHASH begins: what was downloaded is downloaded again.               *)
LEMMA RehashStep ==
  ASSUME IncludesAssumption, IncludesInv, rehash
  PROVE  IncludesInv'
<1> DEFINE old == {e \in conf_include : e.loaded /\ e.file # "own"}
<1>1. /\ up /\ ~ircd_rehashing /\ got' = [u \in Url |-> 0]
      /\ IF old = {}
         THEN init_conf(conf_include, cache) /\ UNCHANGED <<transfers, ircd_rehashing>>
         ELSE /\ ircd_rehashing' = TRUE
              /\ conf_include' = {[e EXCEPT !.queued = @ \/ e \in old] : e \in conf_include}
              /\ transfers' = transfers \cup {download_file_async(e) : e \in old}
              /\ outcome' = "none"
              /\ UNCHANGED <<cache, running, up>>
      /\ UNCHANGED <<web, wanted, kept>>
  BY DEF rehash
<1>2. /\ IncludesTypeOK /\ Listed /\ Waiting /\ Queued(conf_include) = {} /\ transfers = {}
  BY <1>1 DEF IncludesInv, Waiting
<1>3. /\ got' \in [Url -> 0..MaxVersion]
      /\ \A u \in Url : got'[u] <= cache[u].v /\ got'[u] <= web[u]
  BY <1>1, NothingFetched
<1>4. \A e \in conf_include :
        /\ e \in Entries /\ e.loaded /\ ~e.queued /\ (e.file # "own" <=> e.url \in Url)
  BY <1>2 DEF IncludesTypeOK, Listed, Queued
<1>5. CASE old = {}
  BY <1>1, <1>2, <1>3, <1>4, <1>5, AfterReading DEF IncludesTypeOK, Listed
<1>6. CASE old # {}
  <2> DEFINE asked == [e \in conf_include |-> [e EXCEPT !.queued = @ \/ e \in old]]
             sent == [e \in old |-> download_file_async(e)]
  <2>1. /\ conf_include' = {asked[e] : e \in conf_include} /\ transfers' = {sent[e] : e \in old}
        /\ ircd_rehashing' = TRUE /\ outcome' = "none" /\ UNCHANGED <<cache, running, up>>
    BY <1>1, <1>2, <1>6
  <2>2. \A e \in conf_include :
          /\ asked[e] \in Entries /\ asked[e].url = e.url /\ asked[e].loaded
          /\ asked[e].file = e.file /\ asked[e].text = e.text /\ (asked[e].queued <=> e \in old)
    BY <1>4 DEF Entries
  <2>3. \A e \in old : /\ sent[e].url = e.url /\ sent[e].since = unreal_getfilemodtime(e)
                       /\ sent[e] \in [url : Url, since : 0..MaxVersion]
    <3> TAKE e \in old
    <3>1. e \in Entries /\ e.url \in Url
      BY <1>4
    <3>2. e.text.v \in 0..MaxVersion /\ cache[e.url].v \in 0..MaxVersion
      BY <1>2, <3>1 DEF Entries, IncludesTypeOK, Copies, NoCopy, IncludesAssumption
    <3> QED
      BY <3>1, <3>2 DEF download_file_async, unreal_getfilemodtime
  <2>4. old \subseteq conf_include
    OBVIOUS
  <2>5. IsFiniteSet(conf_include) /\ IsFiniteSet(old)
    BY <1>2, <2>4, FS_Subset DEF Listed
  <2> HIDE DEF asked, sent, old
  <2>6. IsFiniteSet(conf_include') /\ IsFiniteSet(transfers')
    BY <2>1, <2>5, FiniteImage
  <2>7. {e.url : e \in conf_include'} = DOMAIN running'
    <3>1. {e.url : e \in conf_include'} = {e.url : e \in conf_include}
      BY <2>1, <2>2
    <3> QED
      BY <1>1, <1>2, <1>6, <3>1 DEF Listed
  <2>8. /\ \A d, e \in conf_include' : d.url = e.url => d = e
        /\ \A s, t \in transfers' : s.url = t.url => s = t
        /\ \A e \in conf_include' : e.loaded /\ (e.file # "own" <=> e.url \in Url)
    BY <1>2, <1>4, <2>1, <2>2, <2>3, <2>4 DEF Listed
  <2>9. Listed'
    BY <2>6, <2>7, <2>8 DEF Listed
  <2>10. /\ Queued(conf_include)' = {asked[e] : e \in old}
         /\ {e.url : e \in Queued(conf_include)'} = {e.url : e \in old}
         /\ {t.url : t \in transfers'} = {e.url : e \in old}
    BY <2>1, <2>2, <2>3, <2>4 DEF Queued
  <2>11. Waiting'
    <3>1. Queued(conf_include)' # {}
      BY <1>6, <2>10
    <3> QED
      BY <2>1, <2>10, <3>1 DEF Waiting
  <2>12. IncludesTypeOK'
    BY <1>1, <1>2, <1>3, <1>6, <2>1, <2>2, <2>3 DEF IncludesTypeOK
  <2>13. AsksForNewer'
    <3>1. ASSUME NEW d \in old, NEW e \in conf_include, asked[e].url = sent[d].url
          PROVE  sent[d].since = IF asked[e].file = "tmp" THEN asked[e].text.v
                                 ELSE cache'[asked[e].url].v
      <4>1. d.url = e.url
        BY <2>2, <2>3, <3>1
      <4>2. d = e
        BY <1>2, <2>4, <4>1 DEF Listed
      <4> QED
        BY <2>1, <2>2, <2>3, <4>2 DEF unreal_getfilemodtime
    <3> QED
      BY <2>1, <3>1 DEF AsksForNewer, unreal_getfilemodtime
  <2> QED
    BY <1>1, <1>3, <1>6, <2>9, <2>11, <2>12, <2>13
       DEF IncludesInv, FetchedIsKept, Down, FetchedIsUsed
<1> QED
  BY <1>5, <1>6

(* The entry and the copy of a download that has ended: what it fetched is *)
(* in cache/, or was there already.                                        *)
LEMMA DownloadLeaves ==
  ASSUME IncludesAssumption, IncludesTypeOK, NEW e \in Entries, e.url \in Url, e.file # "own",
         NEW since, since = unreal_getfilemodtime(e)
  PROVE  /\ Downloaded(e, since) \in Entries
         /\ Downloaded(e, since).url = e.url /\ Downloaded(e, since).loaded = e.loaded
         /\ InCache(e, since) \in Copies \cup {NoCopy}
         /\ web[e.url] <= InCache(e, since).v
<1>1. /\ web[e.url] \in 1..MaxVersion /\ cache[e.url] \in Copies \cup {NoCopy}
      /\ e.text \in Copies \cup {NoCopy} /\ NoCopy.v = 0
      /\ \A x \in Copies : x.v \in 1..MaxVersion /\ x.tail \in BOOLEAN
  BY DEF IncludesTypeOK, Entries, Copies, NoCopy
<1>2. [v |-> web[e.url], tail |-> FALSE] \in Copies
  BY <1>1 DEF Copies
<1>3. \A x \in Copies : \A old : /\ unreal_copyfile(x, old) \in Copies
                                  /\ unreal_copyfile(x, old).v = x.v
  BY DEF unreal_copyfile, Copies
<1>4. /\ Downloaded(e, since) \in Entries
      /\ Downloaded(e, since).url = e.url /\ Downloaded(e, since).loaded = e.loaded
  BY <1>1, <1>2 DEF Downloaded, Entries
<1>5. CASE ~(web[e.url] <= since)
  <2>1. Downloaded(e, since).text = [v |-> web[e.url], tail |-> FALSE]
    BY <1>5 DEF Downloaded, Entries
  <2> QED
    BY <1>1, <1>2, <1>3, <1>4, <1>5, <2>1 DEF InCache
<1>6. CASE web[e.url] <= since /\ e.file = "cache"
  BY <1>1, <1>4, <1>6 DEF InCache, unreal_getfilemodtime
<1>7. CASE web[e.url] <= since /\ e.file # "cache"
  <2>1. e.file = "tmp" /\ e.text.v = since
    BY <1>7 DEF unreal_getfilemodtime, Entries
  <2>2. e.text \in Copies
    BY <1>1, <1>7, <2>1
  <2>3. Downloaded(e, since).text = e.text
    BY <1>7 DEF Downloaded, Entries
  <2> QED
    BY <1>1, <1>3, <1>4, <1>7, <2>1, <2>2, <2>3 DEF InCache
<1> QED
  BY <1>5, <1>6, <1>7

LEMMA DownloadStep ==
  ASSUME IncludesAssumption, IncludesInv, NEW t \in transfers, NEW reached \in BOOLEAN,
         conf_download_complete(t, reached)
  PROVE  IncludesInv'
<1>1. IncludesTypeOK /\ Listed /\ Waiting /\ AsksForNewer /\ FetchedIsKept /\ Down
  BY DEF IncludesInv
<1>2. t.url \in Url /\ t.url \in {e.url : e \in Queued(conf_include)}
  BY <1>1 DEF IncludesTypeOK, Waiting
<1>3. PICK e \in conf_include : e.url = t.url /\ e.queued
  BY <1>2 DEF Queued
<1>4. /\ e \in Entries /\ e.loaded /\ e.file # "own" /\ t.since = unreal_getfilemodtime(e)
      /\ \A d \in conf_include : d.url = t.url => d = e
  BY <1>1, <1>2, <1>3 DEF IncludesTypeOK, Listed, AsksForNewer
<1>5. EntryOf(t.url) = {e}
  BY <1>3, <1>4 DEF EntryOf
<1>6. /\ up /\ ircd_rehashing /\ outcome = "none"
      /\ \A u \in Url : got[u] <= cache[u].v /\ got[u] <= web[u]
  BY <1>1, <1>3 DEF Down, Waiting, FetchedIsKept, Queued
<1> DEFINE new == [(IF reached THEN Downloaded(e, t.since) ELSE e) EXCEPT !.queued = FALSE]
           entries == (conf_include \ {e}) \cup {new}
           copies == IF reached THEN [cache EXCEPT ![t.url] = InCache(e, t.since)] ELSE cache
<1>7. /\ transfers' = transfers \ {t} /\ UNCHANGED <<web, wanted>>
      /\ InternalIfDone(entries, copies)
      /\ got' = IF reached THEN [got EXCEPT ![t.url] = web[t.url]] ELSE got
      /\ kept' = IF reached THEN kept \cup {t.url} ELSE kept
  <2>1. (CHOOSE d \in EntryOf(t.url) : TRUE) = e /\ EntryOf(t.url) # {}
    BY <1>5
  <2> QED
    BY <2>1 DEF conf_download_complete
<1>8. /\ new \in Entries /\ new.url = t.url /\ new.loaded /\ ~new.queued
      /\ new.file # "own"
  <2>1. reached => /\ Downloaded(e, t.since) \in Entries /\ Downloaded(e, t.since).url = t.url
                   /\ Downloaded(e, t.since).loaded /\ Downloaded(e, t.since).file = "tmp"
    BY <1>1, <1>2, <1>3, <1>4, DownloadLeaves DEF Downloaded, Entries
  <2> QED
    BY <1>3, <1>4, <2>1 DEF Entries
<1>9. /\ copies \in [Url -> Copies \cup {NoCopy}]
      /\ got' \in [Url -> 0..MaxVersion] /\ kept' \subseteq Url
      /\ \A u \in Url : got'[u] <= copies[u].v /\ got'[u] <= web[u]
      /\ \A u \in Url : u # t.url => copies[u] = cache[u]
  <2>1. /\ cache \in [Url -> Copies \cup {NoCopy}] /\ got \in [Url -> 0..MaxVersion]
        /\ kept \subseteq Url /\ web \in [Url -> 1..MaxVersion]
    BY <1>1 DEF IncludesTypeOK
  <2>2. CASE ~reached
    BY <1>6, <1>7, <2>1, <2>2
  <2>3. CASE reached
    <3>1. InCache(e, t.since) \in Copies \cup {NoCopy} /\ web[t.url] <= InCache(e, t.since).v
      BY <1>1, <1>2, <1>3, <1>4, DownloadLeaves
    <3>2. web[t.url] \in 0..MaxVersion /\ web[t.url] <= web[t.url]
      BY <1>2, <2>1 DEF IncludesAssumption
    <3> QED
      BY <1>2, <1>6, <1>7, <2>1, <2>3, <3>1, <3>2
  <2> QED
    BY <2>2, <2>3
<1> HIDE DEF new
<1>10. /\ entries \subseteq Entries
       /\ \A d, x \in entries : d.url = x.url => d = x
       /\ \A x \in entries : x.loaded /\ (x.file # "own" <=> x.url \in Url)
       /\ {x.url : x \in entries} = DOMAIN running
       /\ Queued(entries) = Queued(conf_include) \ {e}
  <2>1. {x.url : x \in entries} = {x.url : x \in conf_include}
    BY <1>3, <1>8
  <2> QED
    BY <1>1, <1>2, <1>3, <1>4, <1>8, <2>1 DEF IncludesTypeOK, Listed, Queued
<1>11. IsFiniteSet(entries) /\ IsFiniteSet(transfers')
  <2>1. IsFiniteSet(conf_include) /\ IsFiniteSet(transfers)
    BY <1>1 DEF Listed
  <2> QED
    BY <1>7, <2>1, FS_RemoveElement, FS_AddElement
<1>12. {s.url : s \in transfers'} = {x.url : x \in Queued(entries)}
  <2>1. {s.url : s \in transfers'} = {s.url : s \in transfers} \ {t.url}
    BY <1>1, <1>7 DEF Listed
  <2>2. {x.url : x \in Queued(conf_include) \ {e}}
           = {x.url : x \in Queued(conf_include)} \ {t.url}
    BY <1>3, <1>4 DEF Queued
  <2> QED
    BY <1>1, <1>10, <2>1, <2>2 DEF Waiting
<1>13. CASE Queued(entries) = {}
  <2>1. transfers' = {}
    BY <1>12, <1>13
  <2>2. \A x \in entries : ~x.queued
    BY <1>13 DEF Queued
  <2>3. init_conf(entries, copies) /\ ircd_rehashing' = FALSE
    BY <1>7, <1>13 DEF InternalIfDone
  <2> HIDE DEF entries, copies
  <2> QED
    BY <1>1, <1>6, <1>7, <1>9, <1>10, <1>11, <2>1, <2>2, <2>3, AfterReading
<1>14. CASE Queued(entries) # {}
  <2>1. /\ conf_include' = entries /\ cache' = copies
        /\ UNCHANGED <<ircd_rehashing, running, up, outcome>>
    BY <1>7, <1>14 DEF InternalIfDone
  <2>2. AsksForNewer'
    <3>1. ASSUME NEW s \in transfers', NEW x \in entries, x.url = s.url
          PROVE  x \in conf_include /\ x.url # t.url /\ s \in transfers /\ s.url \in Url
      BY <1>1, <1>3, <1>4, <1>7, <1>8, <3>1 DEF Listed, IncludesTypeOK
    <3>2. ASSUME NEW s \in transfers', NEW x \in entries, x.url = s.url
          PROVE  s.since = IF x.file = "tmp" THEN x.text.v ELSE copies[x.url].v
      BY <1>1, <1>9, <3>1, <3>2 DEF AsksForNewer, unreal_getfilemodtime
    <3> HIDE DEF entries, copies
    <3> QED
      BY <2>1, <3>2 DEF AsksForNewer, unreal_getfilemodtime
  <2> HIDE DEF entries, copies
  <2>3. IncludesTypeOK'
    BY <1>1, <1>7, <1>9, <1>10, <2>1 DEF IncludesTypeOK
  <2>4. Listed'
    BY <1>1, <1>7, <1>10, <1>11, <2>1 DEF Listed
  <2>5. Waiting'
    BY <1>6, <1>12, <1>14, <2>1 DEF Waiting
  <2>6. FetchedIsKept' /\ Down' /\ FetchedIsUsed'
    BY <1>6, <1>7, <1>9, <2>1 DEF FetchedIsKept, Down, FetchedIsUsed
  <2> QED
    BY <2>2, <2>3, <2>4, <2>5, <2>6 DEF IncludesInv
<1> QED
  BY <1>13, <1>14

LEMMA IncludesSteps ==
  ASSUME IncludesAssumption, IncludesInv, [IncludesNext]_includesVars
  PROVE  IncludesInv'
<1>1. CASE UNCHANGED includesVars
  BY <1>1 DEF includesVars, IncludesInv, IncludesTypeOK, Listed, Waiting, AsksForNewer, FetchedIsKept,
              Down, FetchedIsUsed, Queued, unreal_getfilemodtime
<1> QED
  BY <1>1, PublishStep, EditConfStep, BootStep, CrashStep, RehashStep, DownloadStep
     DEF IncludesNext

(* Whatever fails, the server never waits for a download that is not under *)
(* way, lists what it runs with and nothing else, and loses nothing that a *)
(* REHASH has fetched (s_conf.c: rehash, conf_download_complete).          *)
THEOREM RehashKeepsIncludes ==
  ASSUME IncludesAssumption
  PROVE  IncludesSpec => []IncludesTypeOK /\ []IncludesSound
<1>1. IncludesInit => IncludesInv
  BY IncludesStarts
<1>2. IncludesInv /\ [IncludesNext]_includesVars => IncludesInv'
  BY IncludesSteps
<1>3. IncludesInv => IncludesTypeOK /\ IncludesSound
  <2> SUFFICES ASSUME IncludesInv PROVE IncludesTypeOK /\ IncludesSound
    OBVIOUS
  <2>1. Listed /\ Waiting
    BY DEF IncludesInv
  <2> DEFINE queue == Queued(conf_include)
             urls == {e.url : e \in queue}
             all == DOMAIN running
  <2>2. /\ queue \subseteq conf_include /\ IsFiniteSet(queue) /\ IsFiniteSet(transfers)
        /\ \A d, e \in queue : d.url = e.url => d = e
        /\ \A s, u \in transfers : s.url = u.url => s = u
        /\ {t.url : t \in transfers} = urls /\ {e.url : e \in conf_include} = all
    BY <2>1, FS_Subset DEF Listed, Waiting, Queued
  <2> HIDE DEF queue, urls, all
  <2>3. Cardinality(queue) = Cardinality(urls) /\ Cardinality(transfers) = Cardinality(urls)
    BY <2>2, SameSize DEF urls
  <2>4. Cardinality(conf_include) = Cardinality(all)
    BY <2>1, <2>2, SameSize DEF Listed
  <2>5. WaitsForDownloads
    BY <2>1, <2>3 DEF queue, WaitsForDownloads, Waiting
  <2>6. ListIsWhatRuns
    BY <2>1, <2>4 DEF all, ListIsWhatRuns, Listed
  <2> QED
    BY <2>5, <2>6 DEF IncludesInv, IncludesSound
<1> QED
  BY <1>1, <1>2, <1>3, PTL DEF IncludesSpec

----------------------------------------------------------------------------
(***************************************************************************)
(* Tkl: bans and shuns in force, where no mask is a CIDR mask.             *)
(***************************************************************************)
NoCidr == \A u \in Client : Glob[u] = Hits[u]

BanEntry == [set_at : Nat, expire_at : Nat, by : Nat]
BanMessage == [type : {"server"}] \cup [type : {"+"}, key : Key, entry : BanEntry]
                                  \cup [type : {"-"}, key : Key]
BanType ==
  /\ clock \in Nat
  /\ tklines \in [Ircd -> [Key -> BanEntry \cup {None}]]
  /\ do_bancheck \subseteq Ircd
  /\ wire \in [Ircd -> [Ircd -> Seq(BanMessage)]]
  /\ user \in [Client -> {"off", "on", "shunned"}] /\ temp \subseteq Client

Bite ==
  \A u \in Client : user[u] # "off" /\ ServerOf[u] \notin do_bancheck =>
    \A k \in Hits[u] : Valid(ServerOf[u], k) => k \in Shun /\ (u \in temp \/ user[u] = "shunned")

Silenced ==
  \A u \in Client : user[u] = "shunned" /\ u \notin temp =>
    \E k \in Hits[u] \cap Shun : tklines[ServerOf[u]][k] # None

BansInv == BanType /\ Bite /\ Silenced

LEMMA TwoNumbers ==
  ASSUME NEW x \in Nat, NEW y \in Nat
  PROVE  Max({x, y}) \in Nat /\ Min({x, y}) \in Nat
<1>1. \E m \in {x, y} : \A z \in {x, y} : m >= z
  OBVIOUS
<1>2. \E m \in {x, y} : \A z \in {x, y} : m =< z
  OBVIOUS
<1> QED
  BY <1>1, <1>2 DEF Max, Min

LEMMA Merged ==
  ASSUME NEW old \in BanEntry, NEW new \in BanEntry
  PROVE  Merge(old, new) \in BanEntry
<1>1. /\ Min({old.set_at, new.set_at}) \in Nat /\ Max({old.by, new.by}) \in Nat
      /\ Longest(old.expire_at, new.expire_at) \in Nat
  BY TwoNumbers DEF BanEntry, Longest
<1> QED
  BY <1>1 DEF Merge, BanEntry

LEMMA NoneIsNone == None \notin BanEntry
BY DEF None, BanEntry

(* Another list for server s: what it does not have any more is in gone,   *)
(* and it bans nobody who was not banned, or everyone is to be checked.    *)
LacksOnly(s, list, gone) ==
  \A k \in Key : tklines[s][k] # None /\ list[k] = None => k \in gone
BansNoMore(s, list) ==
  \A k \in Key : list[k] # None /\ list[k].expire_at \notin 1..clock => Valid(s, k)

(* A server is left with another list.  Everyone is to be checked when it  *)
(* bans more than before; who is silenced by nothing in it speaks again.   *)
LEMMA ListChanges ==
  ASSUME TklAssumption, NoCidr, BansInv, NEW s \in Ircd,
         NEW list \in [Key -> BanEntry \cup {None}], NEW gone,
         LacksOnly(s, list, gone),
         BansNoMore(s, list) \/ (\A u \in Client : ServerOf[u] = s => s \in do_bancheck'),
         do_bancheck \subseteq do_bancheck', clock' = clock,
         SetList(s, list, gone)
  PROVE  /\ tklines' \in [Ircd -> [Key -> BanEntry \cup {None}]]
         /\ user' \in [Client -> {"off", "on", "shunned"}] /\ temp' \subseteq Client
         /\ Bite' /\ Silenced'
<1> DEFINE free == Unshun(s, gone, list)
<1>1. /\ tklines' = [tklines EXCEPT ![s] = list]
      /\ user' = [u \in Client |-> IF u \in free THEN "on" ELSE user[u]]
      /\ temp' = temp \ free
  BY DEF SetList
<1>2. /\ tklines \in [Ircd -> [Key -> BanEntry \cup {None}]]
      /\ user \in [Client -> {"off", "on", "shunned"}] /\ temp \subseteq Client
      /\ Bite /\ Silenced
  BY DEF BansInv, BanType
<1>3. \A u \in Client : /\ ServerOf[u] \in Ircd /\ Hits[u] \subseteq Key
                        /\ Glob[u] = Hits[u]
  BY DEF TklAssumption, NoCidr
<1>4. \A u \in Client : u \in free <=>
        /\ ServerOf[u] = s /\ user[u] = "shunned" /\ \E k \in Hits[u] \cap Shun : k \in gone
        /\ \A k \in Hits[u] \cap Shun : list[k] = None
  BY <1>3 DEF Unshun, Present
<1> HIDE DEF free
<1>5. /\ tklines' \in [Ircd -> [Key -> BanEntry \cup {None}]]
      /\ user' \in [Client -> {"off", "on", "shunned"}] /\ temp' \subseteq Client
  BY <1>1, <1>2
<1>6. \A t \in Ircd : tklines'[t] = IF t = s THEN list ELSE tklines[t]
  BY <1>1, <1>2
<1>7. Bite'
  <2> SUFFICES ASSUME NEW u \in Client, user'[u] # "off", ServerOf[u] \notin do_bancheck',
                      NEW k \in Hits[u], tklines'[ServerOf[u]][k] # None,
                      tklines'[ServerOf[u]][k].expire_at \notin 1..clock
               PROVE  k \in Shun /\ (u \in temp' \/ user'[u] = "shunned")
    BY DEF Bite, Valid
  <2>1. k \in Key /\ ServerOf[u] \in Ircd
    BY <1>3
  <2>2. Valid(ServerOf[u], k)
    BY <1>6, <2>1 DEF Valid, BansNoMore
  <2>3. user[u] # "off" /\ ServerOf[u] \notin do_bancheck
    BY <1>1, <1>4
  <2>4. k \in Shun /\ (u \in temp \/ user[u] = "shunned")
    BY <1>2, <2>2, <2>3 DEF Bite
  <2>5. u \notin free
    BY <1>4, <1>6, <2>1, <2>4
  <2> QED
    BY <1>1, <2>4, <2>5
<1>8. Silenced'
  <2> SUFFICES ASSUME NEW u \in Client, user'[u] = "shunned", u \notin temp'
               PROVE  \E k \in Hits[u] \cap Shun : tklines'[ServerOf[u]][k] # None
    BY DEF Silenced
  <2>1. u \notin free /\ user[u] = "shunned" /\ u \notin temp
    BY <1>1
  <2>2. PICK k \in Hits[u] \cap Shun : tklines[ServerOf[u]][k] # None
    BY <1>2, <2>1 DEF Silenced
  <2>3. CASE ServerOf[u] # s
    BY <1>3, <1>6, <2>2, <2>3
  <2>4. CASE ServerOf[u] = s
    BY <1>3, <1>4, <1>6, <2>1, <2>2, <2>4 DEF LacksOnly
  <2> QED
    BY <2>3, <2>4
<1> QED
  BY <1>5, <1>7, <1>8

(* What is left when what has expired was taken out, and keys besides.     *)
LEMMA Pruned ==
  ASSUME BansInv, NEW s \in Ircd, NEW list, NEW gone,
         gone = Expired(tklines[s]), list = Without(tklines[s], gone)
  PROVE  /\ list \in [Key -> BanEntry \cup {None}] /\ gone \subseteq Key
         /\ \A k \in Key : /\ list[k] = IF k \in gone THEN None ELSE tklines[s][k]
                           /\ list[k] # None => Valid(s, k)
BY DEF BansInv, BanType, Expired, Without, Present, Valid

LEMMA OnTheWire ==
  ASSUME NEW w \in [Ircd -> [Ircd -> Seq(BanMessage)]], NEW s \in Ircd, NEW from,
         NEW m \in BanMessage
  PROVE  SendOn(w, s, from, m) \in [Ircd -> [Ircd -> Seq(BanMessage)]]
<1>1. \A b \in Ircd : w[s][b] \in Seq(BanMessage) /\ Append(w[s][b], m) \in Seq(BanMessage)
  OBVIOUS
<1> QED
  BY <1>1 DEF SendOn

LEMMA AdditionStep ==
  ASSUME TklAssumption, NoCidr, BansInv, NEW s \in Ircd, NEW from,
         NEW k \in Key, NEW e \in BanEntry,
         NEW w \in [Ircd -> [Ircd -> Seq(BanMessage)]],
         Addition(s, from, k, e, w), clock' = clock
  PROVE  BansInv'
<1> DEFINE gone == Expired(tklines[s])
           list == Without(tklines[s], gone)
           had == k \in Present(list)
           now == IF had THEN Merge(list[k], e) ELSE e
           next == [list EXCEPT ![k] = now]
<1>1. /\ SetList(s, next, gone)
      /\ do_bancheck' = IF had THEN do_bancheck ELSE do_bancheck \cup ({s} \cap Busy)
      /\ wire' = IF had /\ list[k] = e THEN w
                 ELSE SendOn(w, s, from, [type |-> "+", key |-> k, entry |-> now])
  BY DEF Addition
<1>2. /\ list \in [Key -> BanEntry \cup {None}] /\ gone \subseteq Key
      /\ \A x \in Key : /\ list[x] = IF x \in gone THEN None ELSE tklines[s][x]
                        /\ list[x] # None => Valid(s, x)
  BY Pruned
<1> HIDE DEF gone, list
<1>3. had <=> list[k] # None
  BY DEF Present
<1>4. now \in BanEntry
  BY <1>2, <1>3, Merged
<1>5. wire' \in [Ircd -> [Ircd -> Seq(BanMessage)]]
  <2>1. [type |-> "+", key |-> k, entry |-> now] \in BanMessage
    BY <1>4 DEF BanMessage
  <2> HIDE DEF now, had
  <2> QED
    BY <1>1, <2>1, OnTheWire
<1> HIDE DEF now, had
<1>6. /\ next \in [Key -> BanEntry \cup {None}] /\ now # None
      /\ \A x \in Key : next[x] = IF x = k THEN now ELSE list[x]
  BY <1>2, <1>4, NoneIsNone
<1> HIDE DEF next
<1>7. LacksOnly(s, next, gone)
  BY <1>2, <1>6 DEF LacksOnly
<1>8. BansNoMore(s, next) \/ (\A u \in Client : ServerOf[u] = s => s \in do_bancheck')
  <2>1. CASE had
    BY <1>2, <1>3, <1>6, <2>1 DEF BansNoMore
  <2>2. CASE ~had
    BY <1>1, <2>2 DEF Busy
  <2> QED
    BY <2>1, <2>2
<1>9. do_bancheck \subseteq do_bancheck' /\ do_bancheck' \subseteq Ircd
  BY <1>1 DEF BansInv, BanType
<1>10. /\ tklines' \in [Ircd -> [Key -> BanEntry \cup {None}]]
       /\ user' \in [Client -> {"off", "on", "shunned"}] /\ temp' \subseteq Client
       /\ Bite' /\ Silenced'
  BY <1>1, <1>6, <1>7, <1>8, <1>9, ListChanges
<1> QED
  BY <1>5, <1>9, <1>10 DEF BansInv, BanType

LEMMA RemovalStep ==
  ASSUME TklAssumption, NoCidr, BansInv, NEW s \in Ircd, NEW from, NEW k \in Key,
         NEW w \in [Ircd -> [Ircd -> Seq(BanMessage)]],
         Removal(s, from, k, w), clock' = clock
  PROVE  BansInv'
<1> DEFINE old == Expired(tklines[s])
           list == Without(tklines[s], old)
           had == k \in Present(list)
           next == Without(list, {k})
           gone == old \cup (IF had THEN {k} ELSE {})
<1>1. /\ SetList(s, next, gone) /\ do_bancheck' = do_bancheck
      /\ wire' = IF had THEN SendOn(w, s, from, [type |-> "-", key |-> k]) ELSE w
  BY DEF Removal
<1>2. /\ list \in [Key -> BanEntry \cup {None}] /\ old \subseteq Key
      /\ \A x \in Key : /\ list[x] = IF x \in old THEN None ELSE tklines[s][x]
                        /\ list[x] # None => Valid(s, x)
  BY Pruned
<1> HIDE DEF old, list
<1>3. /\ next \in [Key -> BanEntry \cup {None}]
      /\ \A x \in Key : next[x] = IF x = k THEN None ELSE list[x]
      /\ had <=> list[k] # None
  BY <1>2 DEF Without, Present
<1>4. wire' \in [Ircd -> [Ircd -> Seq(BanMessage)]]
  <2>1. [type |-> "-", key |-> k] \in BanMessage
    BY DEF BanMessage
  <2> QED
    BY <1>1, <2>1, OnTheWire
<1> HIDE DEF next, had
<1>5. LacksOnly(s, next, gone)
  BY <1>2, <1>3 DEF LacksOnly
<1>6. BansNoMore(s, next)
  BY <1>2, <1>3 DEF BansNoMore
<1> HIDE DEF gone
<1>7. SetList(s, next, gone) /\ do_bancheck \subseteq do_bancheck'
  BY <1>1
<1>8. /\ tklines' \in [Ircd -> [Key -> BanEntry \cup {None}]]
      /\ user' \in [Client -> {"off", "on", "shunned"}] /\ temp' \subseteq Client
      /\ Bite' /\ Silenced'
  BY <1>3, <1>5, <1>6, <1>7, ListChanges
<1> QED
  BY <1>1, <1>4, <1>8 DEF BansInv, BanType

(* A burst is a sequence of the entries of the list.                       *)
LEMMA BurstIsMessages ==
  ASSUME TklAssumption, BansInv, NEW a \in Ircd
  PROVE  tkl_synch(a) \in Seq(BanMessage)
<1> DEFINE keys == Present(tklines[a])
           n == Cardinality(keys)
           q == SetToSeq(keys)
<1>1. keys \subseteq Key /\ \A k \in keys : tklines[a][k] \in BanEntry
  BY DEF BansInv, BanType, Present
<1>2. IsFiniteSet(keys) /\ n \in Nat
  BY <1>1, FS_Subset, FS_CardinalityType DEF TklAssumption
<1>3. \E f \in [1..n -> keys] : IsInjective(f)
  <2>1. ExistsBijection(1..n, keys)
    BY <1>2, FS_NatBijection, FS_CountingElements
  <2> QED
    BY <2>1 DEF ExistsBijection, Bijection, Injection
<1>4. q \in [1..n -> keys]
  BY <1>3 DEF SetToSeq
<1>5. \A i \in 1..n : [type |-> "+", key |-> q[i], entry |-> tklines[a][q[i]]] \in BanMessage
  BY <1>1, <1>4 DEF BanMessage
<1>6. tkl_synch(a) = [i \in 1..n |-> [type |-> "+", key |-> q[i], entry |-> tklines[a][q[i]]]]
  BY <1>4 DEF tkl_synch
<1> HIDE DEF q, n, keys
<1> QED
  BY <1>2, <1>5, <1>6

-----------------------------------------------------------------------------
LEMMA BansInit ==
  ASSUME TklAssumption, TklInit
  PROVE  BansInv
<1>1. /\ clock = 1 /\ tklines = [s \in Ircd |-> [k \in Key |-> None]]
      /\ do_bancheck = {} /\ wire = [a \in Ircd |-> [b \in Ircd |-> <<>>]]
      /\ user = [u \in Client |-> "off"] /\ temp = {}
  BY DEF TklInit
<1>2. BanType
  BY <1>1 DEF BanType
<1> QED
  BY <1>1, <1>2 DEF BansInv, Bite, Silenced

LEMMA TickStep ==
  ASSUME BansInv, TklTick
  PROVE  BansInv'
<1>1. clock' = clock + 1 /\ UNCHANGED <<tklines, do_bancheck, wire, user, temp>>
  BY DEF TklTick
<1>2. BanType'
  BY <1>1 DEF BansInv, BanType
<1>3. \A s, k : Valid(s, k)' => Valid(s, k)
  <2>1. \A n : n \in 1..clock => n \in 1..clock'
    BY <1>1 DEF BansInv, BanType
  <2> QED
    BY <1>1, <2>1 DEF Valid
<1>4. Bite'
  BY <1>1, <1>3 DEF BansInv, Bite
<1> QED
  BY <1>1, <1>2, <1>4 DEF BansInv, Silenced

LEMMA ExpireStep ==
  ASSUME TklAssumption, NoCidr, BansInv, NEW s \in Ircd, Expire(s)
  PROVE  BansInv'
<1> DEFINE gone == Expired(tklines[s])
           list == Without(tklines[s], gone)
<1>1. SetList(s, list, gone) /\ UNCHANGED <<clock, do_bancheck, wire>>
  BY DEF Expire
<1>2. /\ list \in [Key -> BanEntry \cup {None}]
      /\ \A x \in Key : /\ list[x] = IF x \in gone THEN None ELSE tklines[s][x]
                        /\ list[x] # None => Valid(s, x)
  BY Pruned
<1> HIDE DEF gone, list
<1>3. LacksOnly(s, list, gone) /\ BansNoMore(s, list)
  BY <1>2 DEF LacksOnly, BansNoMore
<1>4. do_bancheck \subseteq do_bancheck' /\ clock' = clock
  BY <1>1
<1>5. /\ tklines' \in [Ircd -> [Key -> BanEntry \cup {None}]]
      /\ user' \in [Client -> {"off", "on", "shunned"}] /\ temp' \subseteq Client
      /\ Bite' /\ Silenced'
  BY <1>1, <1>2, <1>3, <1>4, ListChanges
<1> QED
  BY <1>1, <1>5 DEF BansInv, BanType

(* The check of all clients: who is banned goes, who is shunned is silent. *)
LEMMA CheckPingsStep ==
  ASSUME TklAssumption, BansInv, NEW s \in Ircd, CheckPings(s)
  PROVE  BansInv'
<1>1. /\ do_bancheck' = do_bancheck \ {s}
      /\ user' = [u \in Client |-> IF ServerOf[u] = s /\ user[u] # "off"
                                 THEN Checked(u, tklines[s]) ELSE user[u]]
      /\ temp' = {u \in temp : user'[u] # "off"}
      /\ UNCHANGED <<clock, tklines, wire>>
  BY DEF CheckPings
<1>2. /\ user \in [Client -> {"off", "on", "shunned"}] /\ temp \subseteq Client
      /\ Bite /\ Silenced /\ BanType
  BY DEF BansInv, BanType
<1>3. \A u \in Client : ServerOf[u] \in Ircd /\ Hits[u] \subseteq Key
  BY DEF TklAssumption
<1>4. \A u \in Client : ServerOf[u] = s /\ user[u] # "off" =>
        /\ user'[u] \in {"off", "on", "shunned"}
        /\ user'[u] # "off" => \A k \in Hits[u] :
             tklines[s][k] # None => k \in Shun /\ user'[u] = "shunned"
        /\ user'[u] = "shunned" =>
             user[u] = "shunned" \/ \E k \in Hits[u] \cap Shun : tklines[s][k] # None
  <2> TAKE u \in Client
  <2> HAVE ServerOf[u] = s /\ user[u] # "off"
  <2>1. user'[u] = Checked(u, tklines[s]) /\ user[u] \in {"on", "shunned"}
    BY <1>1, <1>2
  <2>2. Banned(u, tklines[s]) <=> \E k \in Hits[u] \ Shun : tklines[s][k] # None
    BY <1>3 DEF Banned, Present
  <2>3. Shunned(u, tklines[s]) <=> \E k \in Hits[u] \cap Shun : tklines[s][k] # None
    BY <1>3 DEF Shunned, Present
  <2> QED
    BY <2>1, <2>2, <2>3 DEF Checked
<1>5. \A u \in Client : ~(ServerOf[u] = s /\ user[u] # "off") => user'[u] = user[u]
  BY <1>1
<1>6. \A u \in Client : user'[u] # "off" => user[u] # "off" /\ (u \in temp' <=> u \in temp)
  BY <1>1, <1>2, <1>5
<1>7. BanType'
  BY <1>1, <1>2, <1>4, <1>5 DEF BanType
<1>8. Bite'
  <2> SUFFICES ASSUME NEW u \in Client, user'[u] # "off", ServerOf[u] \notin do_bancheck',
                      NEW k \in Hits[u], tklines[ServerOf[u]][k] # None,
                      tklines[ServerOf[u]][k].expire_at \notin 1..clock
               PROVE  k \in Shun /\ (u \in temp' \/ user'[u] = "shunned")
    BY <1>1 DEF Bite, Valid
  <2>1. CASE ServerOf[u] = s
    BY <1>4, <1>6, <2>1
  <2>2. CASE ServerOf[u] # s
    BY <1>1, <1>2, <1>5, <1>6, <2>2 DEF Bite, Valid
  <2> QED
    BY <2>1, <2>2
<1>9. Silenced'
  <2> SUFFICES ASSUME NEW u \in Client, user'[u] = "shunned", u \notin temp'
               PROVE  \E k \in Hits[u] \cap Shun : tklines[ServerOf[u]][k] # None
    BY <1>1 DEF Silenced
  <2> QED
    BY <1>2, <1>4, <1>5, <1>6 DEF Silenced
<1> QED
  BY <1>7, <1>8, <1>9 DEF BansInv

LEMMA AddBanStep ==
  ASSUME TklAssumption, NoCidr, BansInv, NEW s \in Ircd, NEW k \in Key,
         NEW d \in Duration, AddBan(s, k, d)
  PROVE  BansInv'
<1> DEFINE e == [set_at |-> clock, expire_at |-> IF d = 0 THEN 0 ELSE clock + d, by |-> By[s]]
<1>1. Addition(s, s, k, e, wire) /\ clock' = clock
  BY DEF AddBan
<1>2. e \in BanEntry /\ wire \in [Ircd -> [Ircd -> Seq(BanMessage)]]
  BY DEF BanEntry, BansInv, BanType, TklAssumption
<1> HIDE DEF e
<1> QED
  BY <1>1, <1>2, AdditionStep

LEMMA RemoveBanStep ==
  ASSUME TklAssumption, NoCidr, BansInv, NEW s \in Ircd, NEW k \in Key, RemoveBan(s, k)
  PROVE  BansInv'
<1>1. Removal(s, s, k, wire) /\ clock' = clock
  BY DEF RemoveBan
<1>2. wire \in [Ircd -> [Ircd -> Seq(BanMessage)]]
  BY DEF BansInv, BanType
<1> QED
  BY <1>1, <1>2, RemovalStep

(* Only what is on the wire changes.                                       *)
LEMMA OnlyTheWire ==
  ASSUME BansInv, wire' \in [Ircd -> [Ircd -> Seq(BanMessage)]],
         UNCHANGED <<clock, tklines, do_bancheck, user, temp>>
  PROVE  BansInv'
BY DEF BansInv, BanType, Bite, Silenced, Valid

LEMMA LinkSteps ==
  ASSUME TklAssumption, BansInv, NEW a \in Ircd, NEW b \in Ircd,
         LinkUp(a, b) \/ LinkDown(a, b)
  PROVE  BansInv'
<1>1. wire \in [Ircd -> [Ircd -> Seq(BanMessage)]]
  BY DEF BansInv, BanType
<1>2. CASE LinkUp(a, b)
  <2> DEFINE hello == [type |-> "server"]
             sent == <<hello>> \o tkl_synch(a)
  <2>1. /\ wire' = [wire EXCEPT ![a][b] = sent]
        /\ UNCHANGED <<clock, tklines, do_bancheck, user, temp>>
    BY <1>2 DEF LinkUp
  <2>2. sent \in Seq(BanMessage)
    <3>1. hello \in BanMessage
      BY DEF BanMessage
    <3> HIDE DEF hello
    <3> QED
      BY <3>1, BurstIsMessages
  <2> HIDE DEF sent
  <2> QED
    BY <1>1, <2>1, <2>2, OnlyTheWire
<1>3. CASE LinkDown(a, b)
  <2> DEFINE one == [wire EXCEPT ![a][b] = <<>>]
             both == [one EXCEPT ![b][a] = <<>>]
  <2>1. wire' = both /\ UNCHANGED <<clock, tklines, do_bancheck, user, temp>>
    BY <1>3 DEF LinkDown
  <2>2. wire' \in [Ircd -> [Ircd -> Seq(BanMessage)]]
    <3>1. one \in [Ircd -> [Ircd -> Seq(BanMessage)]]
      BY <1>1
    <3> HIDE DEF one
    <3>2. both \in [Ircd -> [Ircd -> Seq(BanMessage)]]
      BY <3>1
    <3> QED
      BY <2>1, <3>2
  <2> QED
    BY <2>1, <2>2, OnlyTheWire
<1> QED
  BY <1>2, <1>3

LEMMA ReceiveStep ==
  ASSUME TklAssumption, NoCidr, BansInv, NEW a \in Ircd, NEW b \in Ircd, ReadTkl(a, b)
  PROVE  BansInv'
<1> DEFINE m == Head(wire[a][b])
           rest == [wire EXCEPT ![a][b] = Tail(@)]
<1>1. /\ wire[a][b] # <<>> /\ clock' = clock
      /\ \/ /\ m.type = "server"
            /\ wire' = [rest EXCEPT ![b][a] = @ \o tkl_synch(b)]
            /\ UNCHANGED <<tklines, do_bancheck, user, temp>>
         \/ m.type = "+" /\ Addition(b, a, m.key, m.entry, rest)
         \/ m.type = "-" /\ Removal(b, a, m.key, rest)
  BY DEF ReadTkl
<1>2. wire \in [Ircd -> [Ircd -> Seq(BanMessage)]]
  BY DEF BansInv, BanType
<1>3. m \in BanMessage /\ Tail(wire[a][b]) \in Seq(BanMessage)
  BY <1>1, <1>2
<1>4. rest \in [Ircd -> [Ircd -> Seq(BanMessage)]]
  BY <1>2, <1>3
<1> HIDE DEF m, rest
<1>5. CASE /\ m.type = "server" /\ wire' = [rest EXCEPT ![b][a] = @ \o tkl_synch(b)]
           /\ UNCHANGED <<tklines, do_bancheck, user, temp>>
  <2>1. rest[b][a] \o tkl_synch(b) \in Seq(BanMessage)
    BY <1>4, BurstIsMessages
  <2>2. wire' \in [Ircd -> [Ircd -> Seq(BanMessage)]]
    BY <1>4, <1>5, <2>1
  <2> QED
    BY <1>1, <1>5, <2>2, OnlyTheWire
<1>6. CASE m.type = "+" /\ Addition(b, a, m.key, m.entry, rest)
  <2>1. m.key \in Key /\ m.entry \in BanEntry
    BY <1>3, <1>6 DEF BanMessage
  <2> QED
    BY <1>1, <1>4, <1>6, <2>1, AdditionStep
<1>7. CASE m.type = "-" /\ Removal(b, a, m.key, rest)
  <2>1. m.key \in Key
    BY <1>3, <1>7 DEF BanMessage
  <2> QED
    BY <1>1, <1>4, <1>7, <2>1, RemovalStep
<1> QED
  BY <1>1, <1>5, <1>6, <1>7

(* A client that registers is looked up in the list as it is then.         *)
LEMMA RegisterStep ==
  ASSUME TklAssumption, NoCidr, BansInv, NEW u \in Client, Register(u)
  PROVE  BansInv'
<1> DEFINE s == ServerOf[u]
           gone == Expired(tklines[s])
           list == Without(tklines[s], gone)
           free == Unshun(s, gone, list)
<1>1. /\ user[u] = "off" /\ ~Banned(u, list)
      /\ tklines' = [tklines EXCEPT ![s] = list]
      /\ user' = [v \in Client |-> IF v = u THEN IF Shunned(u, list) THEN "shunned" ELSE "on"
                                 ELSE IF v \in free THEN "on" ELSE user[v]]
      /\ temp' = temp \ free
      /\ UNCHANGED <<clock, do_bancheck, wire>>
  BY DEF Register
<1>2. s \in Ircd /\ Hits[u] \subseteq Key
  BY DEF TklAssumption
<1>3. /\ list \in [Key -> BanEntry \cup {None}]
      /\ \A x \in Key : /\ list[x] = IF x \in gone THEN None ELSE tklines[s][x]
                        /\ list[x] # None => Valid(s, x)
  BY <1>2, Pruned
<1>4. \A v \in Client : v \in free <=>
        /\ ServerOf[v] = s /\ user[v] = "shunned" /\ \E k \in Hits[v] \cap Shun : k \in gone
        /\ \A k \in Hits[v] \cap Shun : list[k] = None
  BY DEF Unshun, Present, TklAssumption, NoCidr
<1>5. /\ \A k \in Hits[u] : list[k] # None => k \in Shun
      /\ Shunned(u, list) <=> \E k \in Hits[u] \cap Shun : list[k] # None
  BY <1>1, <1>2 DEF Banned, Shunned, Present
<1> HIDE DEF list, free, gone
<1>6. /\ BanType /\ Bite /\ Silenced
      /\ \A v \in Client : /\ ServerOf[v] \in Ircd /\ Hits[v] \subseteq Key
                           /\ tklines'[ServerOf[v]] =
                                IF ServerOf[v] = s THEN list ELSE tklines[ServerOf[v]]
  BY <1>1 DEF BansInv, BanType, TklAssumption
<1>7. BanType'
  <2>1. user' \in [Client -> {"off", "on", "shunned"}]
    BY <1>1, <1>6 DEF BanType
  <2> QED
    BY <1>1, <1>2, <1>3, <1>6, <2>1 DEF BanType
<1>8. Bite'
  <2> SUFFICES ASSUME NEW v \in Client, user'[v] # "off", ServerOf[v] \notin do_bancheck',
                      NEW k \in Hits[v], tklines'[ServerOf[v]][k] # None,
                      tklines'[ServerOf[v]][k].expire_at \notin 1..clock
               PROVE  k \in Shun /\ (v \in temp' \/ user'[v] = "shunned")
    BY <1>1 DEF Bite, Valid
  <2>1. CASE v = u
    BY <1>1, <1>5, <1>6, <2>1
  <2>2. CASE v # u
    <3>1. k \in Key /\ Valid(ServerOf[v], k)
      BY <1>3, <1>6 DEF Valid
    <3>2. user[v] # "off" /\ ServerOf[v] \notin do_bancheck
      BY <1>1, <1>4, <2>2
    <3>3. k \in Shun /\ (v \in temp \/ user[v] = "shunned")
      BY <1>6, <3>1, <3>2 DEF Bite
    <3>4. v \notin free
      BY <1>4, <1>6, <3>1, <3>3
    <3> QED
      BY <1>1, <2>2, <3>3, <3>4
  <2> QED
    BY <2>1, <2>2
<1>9. Silenced'
  <2> SUFFICES ASSUME NEW v \in Client, user'[v] = "shunned", v \notin temp'
               PROVE  \E k \in Hits[v] \cap Shun : tklines'[ServerOf[v]][k] # None
    BY DEF Silenced
  <2>1. CASE v = u
    BY <1>1, <1>5, <1>6, <2>1
  <2>2. CASE v # u
    <3>1. v \notin free /\ user[v] = "shunned" /\ v \notin temp
      BY <1>1, <2>2
    <3>2. PICK k \in Hits[v] \cap Shun : tklines[ServerOf[v]][k] # None
      BY <1>6, <3>1 DEF Silenced
    <3>3. CASE ServerOf[v] # s
      BY <1>6, <3>2, <3>3
    <3>4. CASE ServerOf[v] = s
      BY <1>3, <1>4, <1>6, <3>1, <3>2, <3>4
    <3> QED
      BY <3>3, <3>4
  <2> QED
    BY <2>1, <2>2
<1> QED
  BY <1>7, <1>8, <1>9 DEF BansInv

LEMMA QuitStep ==
  ASSUME BansInv, NEW u \in Client, Quit(u)
  PROVE  BansInv'
<1>1. /\ user' = [user EXCEPT ![u] = "off"] /\ temp' = temp \ {u}
      /\ UNCHANGED <<clock, tklines, do_bancheck, wire>>
  BY DEF Quit
<1>2. BanType /\ Bite /\ Silenced
  BY DEF BansInv
<1>3. \A v \in Client : user'[v] = IF v = u THEN "off" ELSE user[v]
  BY <1>1, <1>2 DEF BanType
<1>4. BanType'
  BY <1>1, <1>2 DEF BanType
<1>5. Bite' /\ Silenced'
  BY <1>1, <1>2, <1>3 DEF Bite, Silenced, Valid
<1> QED
  BY <1>4, <1>5 DEF BansInv

LEMMA TempShunStep ==
  ASSUME BansInv, NEW u \in Client, TempShun(u)
  PROVE  BansInv'
<1>1. /\ user' = [user EXCEPT ![u] = IF @ = "on" THEN "shunned" ELSE "on"]
      /\ user[u] # "off" /\ temp' = temp \cup {u}
      /\ UNCHANGED <<clock, tklines, do_bancheck, wire>>
  BY DEF TempShun
<1>2. BanType /\ Bite /\ Silenced
  BY DEF BansInv
<1>3. \A v \in Client : v # u => user'[v] = user[v]
  BY <1>1, <1>2 DEF BanType
<1>4. BanType'
  BY <1>1, <1>2 DEF BanType
<1>5. Bite' /\ Silenced'
  BY <1>1, <1>2, <1>3 DEF Bite, Silenced, Valid
<1> QED
  BY <1>4, <1>5 DEF BansInv

LEMMA BansNext ==
  ASSUME TklAssumption, NoCidr, BansInv, [TklNext]_tklVars
  PROVE  BansInv'
<1>1. CASE UNCHANGED tklVars
  BY <1>1, OnlyTheWire DEF tklVars, BansInv, BanType
<1> QED
  BY <1>1, TickStep, ExpireStep, CheckPingsStep, AddBanStep, RemoveBanStep, LinkSteps,
     ReceiveStep, RegisterStep, QuitStep, TempShunStep DEF TklNext

(* Where no ban is a CIDR mask: whatever servers add, remove, merge, lose  *)
(* and send again, a client that a ban in force matches goes or is to be   *)
(* checked, one that a shun in force matches is silent, and nobody stays   *)
(* shunned without a shun (m_tkl.c, check_pings, register_user).           *)
THEOREM BansAreInForce ==
  ASSUME TklAssumption, NoCidr
  PROVE  TklSpec => []BansBite
<1>1. TklInit => BansInv
  BY BansInit
<1>2. BansInv /\ [TklNext]_tklVars => BansInv'
  BY BansNext
<1>3. BansInv => BansBite
  <2> SUFFICES ASSUME BansInv PROVE BansBite
    OBVIOUS
  <2>1. NoStaleShun
    <3> SUFFICES ASSUME NEW u \in Client \ temp, user[u] = "shunned"
                 PROVE  Shunned(u, tklines[ServerOf[u]])
      BY DEF NoStaleShun
    <3>1. PICK k \in Hits[u] \cap Shun : tklines[ServerOf[u]][k] # None
      BY DEF BansInv, Silenced
    <3> QED
      BY <3>1 DEF Shunned, Present, TklAssumption
  <2> QED
    BY <2>1 DEF BansInv, Bite, BansBite
<1> QED
  BY <1>1, <1>2, <1>3, PTL DEF TklSpec
=============================================================================
