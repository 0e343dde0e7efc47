---------------------------- MODULE Linked_proofs ----------------------------
(***************************************************************************)
(* Proofs about linked lists with two ends.                                *)
(*                                                                         *)
(* DBuf implements ByteQueues, for blocks of any size and any pool.  The   *)
(* blocks of a queue form a sequence, its chain, that no other queue       *)
(* shares.  One round of the loops of dbuf_put and dbuf_delete works at    *)
(* one end of the chain and leaves the blocks of other queues alone; what  *)
(* it makes of the bytes is stated with the position of each of them.      *)
(*                                                                         *)
(* WatchList: an entry of WATCH is on the list of its user and on that of  *)
(* its nick, and its user was told last what is so.                        *)
(***************************************************************************)
EXTENDS DBuf, WatchList, Lists_proofs

----------------------------------------------------------------------------
(* Positions in a chain of blocks: p is byte p % D of block p \div D.      *)
LEMMA Division ==
  ASSUME NEW D \in Nat \ {0}, NEW p \in Nat
  PROVE  /\ p \div D \in Nat /\ p % D \in 0..D-1
         /\ p = (p \div D) * D + (p % D)
OBVIOUS

LEMMA TakenOff ==
  ASSUME NEW o \in Int, NEW l \in Int, NEW m \in Int, NEW j \in Int, NEW k \in Int
  PROVE  o + (j + k) - 1 = o + k + j - 1 /\ m - l + (j + k) = m - (l - k) + j
OBVIOUS

LEMMA DivisionIs ==
  ASSUME NEW D \in Nat \ {0}, NEW a \in Nat, NEW r \in 0..D-1
  PROVE  (a * D + r) \div D = a /\ (a * D + r) % D = r
OBVIOUS

LEMMA Before ==
  ASSUME NEW D \in Nat \ {0}, NEW a \in Nat, NEW b \in Nat, NEW r \in 0..D-1,
         a * D + r < b * D
  PROVE  a < b
OBVIOUS

LEMMA More ==
  ASSUME NEW D \in Nat \ {0}, NEW a \in Nat, NEW b \in Nat, a <= b
  PROVE  a * D <= b * D
OBVIOUS

LEMMA Times ==
  ASSUME NEW D \in Nat \ {0}, NEW a \in Nat
  PROVE  (a - 1) * D = a * D - D /\ (a + 1) * D = a * D + D /\ a * D \in Nat
OBVIOUS

----------------------------------------------------------------------------
(* Chains.  Linked: the blocks c, in this order, are what head leads to.   *)
Linked(m, head, c) ==
  /\ head = IF c = << >> THEN NULL ELSE c[1]
  /\ \A i \in 1..Len(c) : m.next[c[i]] = IF i = Len(c) THEN NULL ELSE c[i+1]

LEMMA ShortChain ==
  ASSUME DBufAssumption, NEW c \in Seq(Block), IsInjective(c)
  PROVE  Len(c) \in 0..Pool
<1>1. Len(c) \in Nat /\ DOMAIN c = 1..Len(c) /\ Pool \in Nat
  BY LenProperties DEF DBufAssumption
<1>2. /\ IsFiniteSet(1..Len(c)) /\ Cardinality(1..Len(c)) = Len(c)
      /\ IsFiniteSet(Block) /\ Cardinality(Block) = Pool
  <2>1. 1 \in Int /\ Len(c) \in Int /\ Pool \in Int
    BY <1>1
  <2>2. /\ IsFiniteSet(1..Len(c)) /\ IsFiniteSet(1..Pool)
        /\ Cardinality(1..Len(c)) = IF 1 > Len(c) THEN 0 ELSE Len(c) - 1 + 1
        /\ Cardinality(1..Pool) = IF 1 > Pool THEN 0 ELSE Pool - 1 + 1
    BY <2>1, FS_Interval
  <2> QED
    BY <1>1, <2>2 DEF Block
<1>3. c \in [1..Len(c) -> Block]
  BY <1>1, ElementOfSeq
<1>4. \A i, j \in 1..Len(c) : c[i] = c[j] => i = j
  BY <1>1 DEF IsInjective
<1>5. Len(c) <= Pool
  <2>1. SUFFICES ASSUME ~(Len(c) <= Pool) PROVE FALSE
    OBVIOUS
  <2>2. Cardinality(Block) < Cardinality(1..Len(c))
    BY <1>1, <1>2, <2>1
  <2>3. \E i, j \in 1..Len(c) : i # j /\ c[i] = c[j]
    BY <1>2, <1>3, <2>2, FS_PigeonHole
  <2> QED
    BY <1>4, <2>3
<1> QED
  BY <1>1, <1>5

(* The function that Chain defines.                                        *)
Next1(m, b) == IF b = NULL THEN NULL ELSE m.next[b]
Steps(f, m, b, l) == f = [n \in 0..l |-> IF n = 0 THEN b ELSE Next1(m, f[n-1])]

LEMMA StepsExist ==
  ASSUME NEW m, NEW b, NEW l \in Nat
  PROVE  \E f : Steps(f, m, b, l)
<1> DEFINE Bad == {k \in Nat : ~\E f : Steps(f, m, b, k)}
<1>1. SUFFICES ASSUME Bad # {} PROVE FALSE
  OBVIOUS
<1>2. PICK k \in Bad : \A j \in Bad : k <= j
  BY <1>1, LeastOfNaturals
<1>3. k # 0
  <2> DEFINE f0 == [n \in 0..0 |-> b]
  <2>1. Steps(f0, m, b, 0)
    BY DEF Steps
  <2> QED
    BY <2>1
<1>4. PICK g : Steps(g, m, b, k - 1)
  <2>1. k \in Nat /\ k - 1 \in Nat /\ ~(k <= k - 1)
    BY <1>2, <1>3
  <2>2. k - 1 \notin Bad
    BY <1>2, <2>1
  <2> QED
    BY <2>1, <2>2
<1> DEFINE h == [n \in 0..k |-> IF n = k THEN Next1(m, g[k-1]) ELSE g[n]]
<1>5. \A n \in 0..k : h[n] = IF n = 0 THEN b ELSE Next1(m, h[n-1])
  <2> SUFFICES ASSUME NEW n \in 0..k
               PROVE  h[n] = IF n = 0 THEN b ELSE Next1(m, h[n-1])
    OBVIOUS
  <2>1. CASE n = k
    BY <1>2, <1>3, <2>1
  <2>2. CASE n # k
    <3>1. n \in 0..(k-1)
      BY <1>2, <2>2
    <3>2. g[n] = IF n = 0 THEN b ELSE Next1(m, g[n-1])
      BY <1>4, <3>1 DEF Steps
    <3>3. h[n] = g[n] /\ (n # 0 => h[n-1] = g[n-1])
      BY <1>2, <2>2
    <3> QED
      BY <3>2, <3>3
  <2> QED
    BY <2>1, <2>2
<1>6. Steps(h, m, b, k)
  BY <1>5 DEF Steps
<1> QED
  BY <1>2, <1>6

LEMMA ChainIs ==
  ASSUME DBufAssumption, NEW m, NEW b, NEW c \in Seq(Block), IsInjective(c), Linked(m, b, c)
  PROVE  Chain(m, b) = c
<1> DEFINE f == CHOOSE f : Steps(f, m, b, Pool)
           len == CHOOSE n \in 0..Pool : f[n] = NULL /\ \A i \in 0..n-1 : f[i] # NULL
<1>1. Steps(f, m, b, Pool)
  BY StepsExist DEF DBufAssumption
<1>2. Chain(m, b) = [i \in 1..len |-> f[i-1]]
  BY DEF Chain, Steps, Next1
<1> HIDE DEF f
<1>3. /\ Len(c) \in 0..Pool /\ Pool \in Nat /\ DOMAIN c = 1..Len(c)
      /\ \A i \in 1..Len(c) : c[i] \in Block /\ c[i] # NULL
      /\ c = << >> <=> Len(c) = 0
  BY ShortChain, LenProperties, ElementOfSeq, EmptySeq DEF DBufAssumption, Block, NULL
<1>4. \A n \in 0..Pool : f[n] = IF n = 0 THEN b ELSE Next1(m, f[n-1])
  BY <1>1 DEF Steps
<1> DEFINE Bad == {n \in 0..Len(c) : f[n] # IF n < Len(c) THEN c[n+1] ELSE NULL}
<1>5. Bad = {}
  <2>1. SUFFICES ASSUME Bad # {} PROVE FALSE
    OBVIOUS
  <2>2. PICK n \in Bad : \A k \in Bad : n <= k
    <3>1. Bad \subseteq Nat
      BY <1>3
    <3> HIDE DEF Bad
    <3> QED
      BY <2>1, <3>1, LeastOfNaturals
  <2>3. n # 0
    <3>1. b = IF 0 < Len(c) THEN c[0+1] ELSE NULL
      <4>1. b = IF c = << >> THEN NULL ELSE c[1]
        BY DEF Linked
      <4>2. CASE c = << >>
        BY <1>3, <4>1, <4>2
      <4>3. CASE c # << >>
        <5>1. 0 < Len(c) /\ 0 + 1 = 1
          BY <1>3, <4>3
        <5> QED
          BY ONLY <4>1, <4>3, <5>1
      <4> QED
        BY <4>2, <4>3
    <3>2. f[0] = b
      BY <1>3, <1>4
    <3>3. f[n] # IF n < Len(c) THEN c[n+1] ELSE NULL
      BY <2>2
    <3> QED
      BY ONLY <3>1, <3>2, <3>3
  <2>4. n \in 1..Len(c) /\ n - 1 \in 0..Len(c) /\ n - 1 \notin Bad /\ n \in 0..Pool
    BY <1>3, <2>2, <2>3
  <2>5. f[n-1] = c[n] /\ c[n] # NULL
    BY <1>3, <2>4
  <2>6. f[n] = m.next[c[n]]
    BY <1>4, <2>3, <2>4, <2>5 DEF Next1
  <2>7. m.next[c[n]] = IF n = Len(c) THEN NULL ELSE c[n+1]
    BY <2>4 DEF Linked
  <2>8. f[n] = IF n < Len(c) THEN c[n+1] ELSE NULL
    <3>1. n \in Int /\ Len(c) \in Int /\ n <= Len(c)
      BY <1>3, <2>4
    <3> QED
      BY ONLY <3>1, <2>6, <2>7
  <2> QED
    BY <2>2, <2>8
<1>6. \A n \in 0..Len(c) : f[n] = IF n < Len(c) THEN c[n+1] ELSE NULL
  BY <1>5
<1>7. len = Len(c)
  <2>1. f[Len(c)] = NULL /\ \A i \in 0..Len(c)-1 : f[i] # NULL
    BY <1>3, <1>6
  <2>2. ASSUME NEW n \in 0..Pool, f[n] = NULL, \A i \in 0..n-1 : f[i] # NULL
        PROVE  n = Len(c)
    <3>1. ~(n < Len(c))
      <4>1. SUFFICES ASSUME n < Len(c) PROVE FALSE
        OBVIOUS
      <4>2. n \in 0..Len(c) /\ n + 1 \in 1..Len(c)
        BY <1>3, <4>1
      <4>3. f[n] = c[n+1] /\ c[n+1] # NULL
        BY <1>3, <1>6, <4>1, <4>2
      <4> QED
        BY <2>2, <4>3
    <3>2. ~(n > Len(c))
      <4>1. n > Len(c) => Len(c) \in 0..n-1
        BY <1>3
      <4> QED
        BY <2>1, <2>2, <4>1
    <3>3. n \in Int /\ Len(c) \in Int
      BY <1>3
    <3> QED
      BY ONLY <3>1, <3>2, <3>3
  <2>3. len \in 0..Pool /\ f[len] = NULL /\ \A i \in 0..len-1 : f[i] # NULL
    BY <1>3, <2>1
  <2> HIDE DEF len
  <2> QED
    BY <2>2, <2>3
<1> HIDE DEF len
<1>8. Chain(m, b) = [i \in 1..Len(c) |-> c[i]]
  BY <1>2, <1>3, <1>6, <1>7
<1> QED
  BY <1>3, <1>8

----------------------------------------------------------------------------
(* Lists without repetition.                                               *)
LEMMA TailOf ==
  ASSUME NEW S, NEW c \in Seq(S), IsInjective(c), c # << >>
  PROVE  /\ Len(c) \in Nat \ {0} /\ DOMAIN c = 1..Len(c) /\ c[1] \in S
         /\ Tail(c) \in Seq(S) /\ Len(Tail(c)) = Len(c) - 1
         /\ \A i \in 1..Len(c)-1 : Tail(c)[i] = c[i+1]
         /\ IsInjective(Tail(c)) /\ Range(Tail(c)) = Range(c) \ {c[1]}
<1> DEFINE t == Tail(c)
<1>1. /\ Len(c) \in Nat \ {0} /\ DOMAIN c = 1..Len(c) /\ c[1] \in S
      /\ t \in Seq(S) /\ Len(t) = Len(c) - 1
      /\ \A i \in 1..Len(c)-1 : t[i] = c[i+1]
  BY EmptySeq, LenProperties, HeadTailProperties, ElementOfSeq
<1> HIDE DEF t
<1>2. DOMAIN t = 1..Len(c)-1
  BY <1>1, LenProperties
<1>3. IsInjective(t)
  BY <1>1, <1>2, SMTT(20) DEF IsInjective
<1>4. ASSUME NEW x \in Range(t) PROVE x \in Range(c) \ {c[1]}
  <2>1. PICK i \in 1..Len(c)-1 : x = c[i+1]
    BY <1>1, <1>2, <1>4 DEF Range
  <2>2. i + 1 \in DOMAIN c /\ 1 \in DOMAIN c /\ i + 1 # 1
    BY <1>1
  <2> QED
    BY <2>1, <2>2 DEF Range, IsInjective
<1>5. ASSUME NEW x \in Range(c) \ {c[1]} PROVE x \in Range(t)
  <2>1. PICK i \in 1..Len(c) : x = c[i] /\ i # 1
    BY <1>1, <1>5 DEF Range
  <2>2. i - 1 \in DOMAIN t /\ t[i-1] = c[i]
    BY <1>1, <1>2, <2>1
  <2> QED
    BY <2>1, <2>2 DEF Range
<1> QED
  BY <1>1, <1>3, <1>4, <1>5 DEF t

LEMMA ConsOf ==
  ASSUME NEW S, NEW c \in Seq(S), IsInjective(c), NEW x \in S, x \notin Range(c)
  PROVE  /\ <<x>> \o c \in Seq(S) /\ Len(<<x>> \o c) = Len(c) + 1
         /\ IsInjective(<<x>> \o c) /\ Range(<<x>> \o c) = Range(c) \cup {x}
<1> DEFINE t == <<x>> \o c
<1>1. /\ Len(t) = Len(c) + 1 /\ Len(c) \in Nat /\ t \in Seq(S)
      /\ DOMAIN c = 1..Len(c) /\ DOMAIN t = 1..(Len(c) + 1)
      /\ t[1] = x /\ \A n \in 1..Len(c) : t[n + 1] = c[n]
  BY ConcatProperties, LenProperties
<1> HIDE DEF t
<1>2. \A n \in DOMAIN t : n = 1 \/ (n - 1 \in DOMAIN c /\ t[n] = c[n - 1])
  BY <1>1
<1>3. ASSUME NEW i \in DOMAIN t, NEW j \in DOMAIN t, t[i] = t[j] PROVE i = j
  <2>1. CASE i = 1 \/ j = 1
    BY <1>1, <1>2, <1>3, <2>1 DEF Range
  <2>2. CASE i # 1 /\ j # 1
    <3>1. i - 1 = j - 1
      BY <1>2, <1>3, <2>2 DEF IsInjective
    <3> QED
      BY <1>1, <3>1
  <2> QED
    BY <2>1, <2>2
<1>4. \A y : y \in Range(t) <=> y = x \/ y \in Range(c)
  <2> SUFFICES ASSUME NEW y PROVE y \in Range(t) <=> y = x \/ y \in Range(c)
    OBVIOUS
  <2>1. ASSUME y \in Range(t) PROVE y = x \/ y \in Range(c)
    BY <1>1, <1>2, <2>1 DEF Range
  <2>2. ASSUME y = x PROVE y \in Range(t)
    <3>1. 1 \in DOMAIN t
      BY <1>1
    <3> QED
      BY <1>1, <2>2, <3>1 DEF Range
  <2>3. ASSUME y \in Range(c) PROVE y \in Range(t)
    <3>1. PICK n \in 1..Len(c) : y = c[n]
      BY <1>1, <2>3 DEF Range
    <3>2. n + 1 \in DOMAIN t /\ t[n+1] = c[n]
      BY <1>1
    <3> QED
      BY <3>1, <3>2 DEF Range
  <2> QED
    BY <2>1, <2>2, <2>3
<1>5. Range(t) = Range(c) \cup {x}
  BY <1>4
<1> QED
  BY <1>1, <1>3, <1>5 DEF t, IsInjective

LEMMA AppendOf ==
  ASSUME NEW S, NEW c \in Seq(S), IsInjective(c), NEW x \in S, x \notin Range(c)
  PROVE  /\ Append(c, x) \in Seq(S) /\ Len(Append(c, x)) = Len(c) + 1
         /\ \A i \in 1..Len(c) : Append(c, x)[i] = c[i]
         /\ Append(c, x)[Len(c) + 1] = x
         /\ IsInjective(Append(c, x)) /\ Range(Append(c, x)) = Range(c) \cup {x}
<1> DEFINE t == Append(c, x)
<1>1. /\ Len(t) = Len(c) + 1 /\ Len(c) \in Nat /\ t \in Seq(S)
      /\ DOMAIN c = 1..Len(c) /\ DOMAIN t = 1..(Len(c) + 1)
      /\ t[Len(c) + 1] = x /\ \A n \in 1..Len(c) : t[n] = c[n]
  BY AppendProperties, LenProperties
<1> HIDE DEF t
<1>2. IsInjective(t)
  BY <1>1 DEF IsInjective, Range
<1>3. \A y : y \in Range(t) <=> y = x \/ y \in Range(c)
  <2>1. \A n \in DOMAIN t : n = Len(c) + 1 \/ (n \in DOMAIN c /\ t[n] = c[n])
    BY <1>1
  <2>2. DOMAIN c \subseteq DOMAIN t /\ Len(c) + 1 \in DOMAIN t
    BY <1>1
  <2> QED
    BY <1>1, <2>1, <2>2 DEF Range
<1>4. Range(t) = Range(c) \cup {x}
  BY <1>3
<1> QED
  BY <1>1, <1>2, <1>4 DEF t

----------------------------------------------------------------------------
(* The memory, a queue with its chain c, and the blocks O of the others.   *)
Mem == [next : [Block -> 0..Pool], data : [Block -> [0..DBUFSIZ-1 -> Byte]],
        freelist : Seq(Block), dbufalloc : Int, dbufblocks : 0..Pool]
Desc == [length : Nat, offset : 0..DBUFSIZ-1, head : 0..Pool, tail : 0..Pool]

Owns(m, c, O) ==
  /\ m \in Mem /\ c \in Seq(Block) /\ IsInjective(c) /\ IsInjective(m.freelist)
  /\ O \cup Range(c) \cup Range(m.freelist) = 1..m.dbufblocks
  /\ Range(c) \cap O = {} /\ Range(m.freelist) \cap O = {}
  /\ Range(m.freelist) \cap Range(c) = {}
  /\ m.dbufalloc = m.dbufblocks - Len(m.freelist)
Same(m, n, O) == \A b \in O : n.next[b] = m.next[b] /\ n.data[b] = m.data[b]

(* l blocks are what w bytes need.                                         *)
Fits(l, w) == (l - 1) * DBUFSIZ < w /\ w <= l * DBUFSIZ
Held(d, m, c, O) ==
  /\ d \in Desc /\ Owns(m, c, O) /\ Linked(m, d.head, c)
  /\ Fits(Len(c), d.offset + d.length) /\ (d.length = 0 => d.offset = 0)
  /\ c # << >> => d.tail = c[Len(c)]

At(m, c, p) == m.data[c[p \div DBUFSIZ + 1]][p % DBUFSIZ]
Stream(d, m, c) == [k \in 1..d.length |-> At(m, c, d.offset + k - 1)]

LEMMA FreeIs ==
  ASSUME NEW m \in Mem, NEW b \in Block
  PROVE  /\ Free(m, b) \in Mem
         /\ Free(m, b).next = m.next /\ Free(m, b).data = m.data
         /\ Free(m, b).dbufblocks = m.dbufblocks
         /\ Free(m, b).freelist = <<b>> \o m.freelist
         /\ Free(m, b).dbufalloc = m.dbufalloc - 1
<1>1. <<b>> \o m.freelist \in Seq(Block) /\ m.dbufalloc - 1 \in Int
  BY DEF Mem
<1> QED
  BY <1>1 DEF Free, Mem

(* dbuf_free of the first block.                                           *)
LEMMA FreeFirst ==
  ASSUME NEW m, NEW c, NEW O, Owns(m, c, O), c # << >>, Linked(m, c[1], c)
  PROVE  /\ Owns(Free(m, c[1]), Tail(c), O) /\ Same(m, Free(m, c[1]), O)
         /\ Linked(Free(m, c[1]), m.next[c[1]], Tail(c))
         /\ Free(m, c[1]).data = m.data /\ m.next[c[1]] \in 0..Pool
<1> DEFINE n == Free(m, c[1])
<1>1. /\ m \in Mem /\ c \in Seq(Block) /\ IsInjective(c) /\ IsInjective(m.freelist)
      /\ m.freelist \in Seq(Block) /\ m.dbufalloc \in Int /\ m.dbufblocks \in 0..Pool
  BY DEF Owns, Mem
<1>2. /\ Len(c) \in Nat \ {0} /\ DOMAIN c = 1..Len(c) /\ c[1] \in Block
      /\ Tail(c) \in Seq(Block) /\ Len(Tail(c)) = Len(c) - 1
      /\ \A i \in 1..Len(c)-1 : Tail(c)[i] = c[i+1]
      /\ IsInjective(Tail(c)) /\ Range(Tail(c)) = Range(c) \ {c[1]}
  BY <1>1, TailOf
<1>3. c[1] \in Range(c) /\ c[1] \notin Range(m.freelist) /\ c[1] \notin O
  BY <1>2 DEF Range, Owns
<1>4. /\ <<c[1]>> \o m.freelist \in Seq(Block)
      /\ Len(<<c[1]>> \o m.freelist) = Len(m.freelist) + 1 /\ Len(m.freelist) \in Nat
      /\ IsInjective(<<c[1]>> \o m.freelist)
      /\ Range(<<c[1]>> \o m.freelist) = Range(m.freelist) \cup {c[1]}
  BY <1>1, <1>2, <1>3, ConsOf, LenProperties
<1>5. /\ n \in Mem /\ n.next = m.next /\ n.data = m.data /\ n.dbufblocks = m.dbufblocks
      /\ n.freelist = <<c[1]>> \o m.freelist /\ n.dbufalloc = m.dbufalloc - 1
  BY <1>1, <1>2, FreeIs
<1> HIDE DEF n
<1>6. Owns(n, Tail(c), O)
  BY <1>1, <1>2, <1>3, <1>4, <1>5, SMTT(20) DEF Owns
<1>7. m.next[c[1]] \in 0..Pool
  BY <1>1, <1>2 DEF Mem
<1>8. Linked(n, m.next[c[1]], Tail(c))
  <2>1. Tail(c) = << >> <=> Len(c) = 1
    BY <1>2, EmptySeq
  <2>2. m.next[c[1]] = IF Len(c) = 1 THEN NULL ELSE c[2]
    <3>1. 1 \in 1..Len(c) /\ 1 + 1 = 2
      BY <1>2
    <3>2. m.next[c[1]] = IF 1 = Len(c) THEN NULL ELSE c[1+1]
      BY <3>1 DEF Linked
    <3> QED
      BY ONLY <3>1, <3>2
  <2>3. m.next[c[1]] = IF Tail(c) = << >> THEN NULL ELSE Tail(c)[1]
    BY <1>2, <2>1, <2>2
  <2>4. ASSUME NEW i \in 1..Len(Tail(c))
        PROVE  n.next[Tail(c)[i]] = IF i = Len(Tail(c)) THEN NULL ELSE Tail(c)[i+1]
    <3>1. i + 1 \in 1..Len(c) /\ Tail(c)[i] = c[i+1]
      BY <1>2
    <3>2. m.next[c[i+1]] = IF i + 1 = Len(c) THEN NULL ELSE c[i+1+1]
      BY <3>1 DEF Linked
    <3>3. i # Len(Tail(c)) => Tail(c)[i+1] = c[i+1+1]
      <4>1. i # Len(Tail(c)) => i + 1 \in 1..Len(c)-1
        <5>1. Len(Tail(c)) = Len(c) - 1 /\ Len(c) \in Nat
          BY <1>2
        <5> QED
          BY ONLY <5>1, i \in 1..Len(Tail(c))
      <4> QED
        BY <1>2, <4>1
    <3>4. i = Len(Tail(c)) <=> i + 1 = Len(c)
      BY <1>2
    <3> QED
      BY ONLY <1>5, <3>1, <3>2, <3>3, <3>4
  <2> QED
    BY <2>3, <2>4 DEF Linked
<1>9. Same(m, n, O)
  BY <1>5 DEF Same
<1> QED
  BY <1>5, <1>6, <1>7, <1>8, <1>9 DEF n

(* The bytes of a queue are in its blocks.                                 *)
LEMMA AtIs ==
  ASSUME DBufAssumption, NEW m, NEW c, NEW O, Owns(m, c, O),
         NEW p \in Nat, p < Len(c) * DBUFSIZ
  PROVE  /\ p \div DBUFSIZ + 1 \in 1..Len(c) /\ p % DBUFSIZ \in 0..DBUFSIZ-1
         /\ At(m, c, p) \in Byte
<1>1. Len(c) \in Nat /\ \A i \in 1..Len(c) : c[i] \in Block
  BY LenProperties, ElementOfSeq DEF Owns
<1>2. DBUFSIZ \in Nat \ {0}
  BY DEF DBufAssumption
<1> DEFINE a == p \div DBUFSIZ
           r == p % DBUFSIZ
<1>3. a \in Nat /\ r \in 0..DBUFSIZ-1 /\ p = a * DBUFSIZ + r
  BY <1>2, Division
<1> HIDE DEF a, r
<1>4. a < Len(c)
  BY <1>1, <1>2, <1>3, Before
<1>5. a + 1 \in 1..Len(c)
  BY <1>1, <1>3, <1>4
<1>6. m.data \in [Block -> [0..DBUFSIZ-1 -> Byte]]
  BY DEF Owns, Mem
<1>7. m.data[c[a+1]][r] \in Byte
  BY <1>1, <1>3, <1>5, <1>6
<1> QED
  BY <1>3, <1>5, <1>7 DEF At, a, r

LEMMA StreamIs ==
  ASSUME DBufAssumption, NEW d, NEW m, NEW c, NEW O, Held(d, m, c, O)
  PROVE  /\ Stream(d, m, c) \in Seq(Byte) /\ Len(Stream(d, m, c)) = d.length
         /\ \A k \in 1..d.length : /\ d.offset + k - 1 \in Nat
                                   /\ d.offset + k - 1 < Len(c) * DBUFSIZ
                                   /\ Stream(d, m, c)[k] = At(m, c, d.offset + k - 1)
<1>1. d.length \in Nat /\ d.offset \in Nat /\ Len(c) * DBUFSIZ \in Nat
  BY LenProperties DEF Held, Owns, Desc, DBufAssumption
<1>2. d.offset + d.length <= Len(c) * DBUFSIZ
  BY DEF Held, Fits
<1>3. \A k \in 1..d.length : d.offset + k - 1 \in Nat /\ d.offset + k - 1 < Len(c) * DBUFSIZ
  BY <1>1, <1>2
<1>4. \A k \in 1..d.length : At(m, c, d.offset + k - 1) \in Byte
  BY <1>3, AtIs DEF Held
<1>5. Stream(d, m, c) \in [1..d.length -> Byte]
  BY <1>4 DEF Stream
<1>6. Stream(d, m, c) \in Seq(Byte) /\ Len(Stream(d, m, c)) = d.length
  <2> DEFINE x == Stream(d, m, c)
             l == d.length
  <2>1. x \in [1..l -> Byte] /\ l \in Nat
    BY <1>1, <1>5
  <2> HIDE DEF x, l
  <2>2. x \in Seq(Byte) /\ Len(x) = l
    BY ONLY <2>1
  <2> QED
    BY <2>2 DEF x, l
<1> QED
  BY <1>3, <1>6 DEF Stream

----------------------------------------------------------------------------
(* The loop of dbuf_delete.  Going: n bytes are to go of a queue of which   *)
(* the last bytes of s are left.                                           *)
Going == [d : Desc, m : Mem, n : Nat]
Left(st, c, O, m, s, n) ==
  /\ st \in Going /\ Held(st.d, st.m, c, O) /\ Same(m, st.m, O)
  /\ st.n <= st.d.length /\ st.d.length - st.n = Len(s) - n
  /\ \A k \in 1..st.d.length :
        Stream(st.d, st.m, c)[k] = s[Len(s) - st.d.length + k]

LEMMA DeleteChunkKeeps ==
  ASSUME DBufAssumption, NEW st \in Going, NEW k \in Nat,
         k = Least(DBUFSIZ - st.d.offset, st.n), k <= st.d.length,
         ~(st.d.offset + k = DBUFSIZ \/ st.d.length - k = 0)
  PROVE  LET t == DeleteChunk(st) IN
         /\ t \in Going /\ t.n = st.n - k /\ t.m = st.m
         /\ t.d.length = st.d.length - k /\ t.d.offset = st.d.offset + k
         /\ t.d.head = st.d.head /\ t.d.tail = st.d.tail
<1> DEFINE d1 == [st.d EXCEPT !.offset = @ + k, !.length = @ - k]
<1>1. k <= st.n /\ k <= DBUFSIZ - st.d.offset
  BY DEF Least, Going, Desc, DBufAssumption
<1>2. st.d.offset + k \in 0..DBUFSIZ-1 /\ st.d.length - k \in Nat /\ st.n - k \in Nat
  BY <1>1 DEF Going, Desc, DBufAssumption
<1>3. /\ d1 \in Desc /\ d1.length = st.d.length - k /\ d1.offset = st.d.offset + k
      /\ d1.head = st.d.head /\ d1.tail = st.d.tail
  BY <1>2 DEF Going, Desc
<1>4. DeleteChunk(st) = [st EXCEPT !.d = d1, !.n = @ - k]
  BY <1>3 DEF DeleteChunk
<1> HIDE DEF d1
<1> QED
  BY <1>2, <1>3, <1>4 DEF Going

LEMMA DeleteChunkFrees ==
  ASSUME DBufAssumption, NEW st \in Going, NEW k \in Nat,
         k = Least(DBUFSIZ - st.d.offset, st.n), k <= st.d.length,
         st.d.offset + k = DBUFSIZ \/ st.d.length - k = 0,
         st.d.head \in Block
  PROVE  LET t == DeleteChunk(st) IN
         /\ t \in Going /\ t.n = st.n - k /\ t.m = Free(st.m, st.d.head)
         /\ t.d.length = st.d.length - k /\ t.d.offset = 0
         /\ t.d.head = st.m.next[st.d.head] /\ t.d.tail = st.d.tail
<1> DEFINE d1 == [st.d EXCEPT !.offset = @ + k, !.length = @ - k]
           d2 == [d1 EXCEPT !.head = st.m.next[st.d.head], !.offset = 0]
<1>1. k <= st.n
  BY DEF Least, Going, Desc, DBufAssumption
<1>2. st.d.length - k \in Nat /\ st.n - k \in Nat /\ 0 \in 0..DBUFSIZ-1
  BY <1>1 DEF Going, Desc, DBufAssumption
<1>3. /\ d1.length = st.d.length - k /\ d1.offset = st.d.offset + k
      /\ d1.head = st.d.head /\ d1.tail = st.d.tail
  BY DEF Going, Desc
<1>4. st.m.next[st.d.head] \in 0..Pool
  BY DEF Going, Mem
<1>5. /\ d2 \in Desc /\ d2.length = st.d.length - k /\ d2.offset = 0
      /\ d2.head = st.m.next[st.d.head] /\ d2.tail = st.d.tail
  BY <1>2, <1>4 DEF Going, Desc
<1>6. DeleteChunk(st) = [d |-> d2, m |-> Free(st.m, st.d.head), n |-> st.n - k]
  BY <1>3 DEF DeleteChunk
<1>7. Free(st.m, st.d.head) \in Mem
  BY FreeIs DEF Going
<1> HIDE DEF d1, d2
<1> QED
  BY <1>2, <1>5, <1>6, <1>7 DEF Going

(* One round: the chain keeps its first block or loses it.                 *)
LEMMA DeleteRound ==
  ASSUME DBufAssumption, NEW O, NEW m, NEW n, NEW s \in Seq(Byte), NEW st, NEW c,
         Left(st, c, O, m, s, n), st.n # 0
  PROVE  \E c2 : Left(DeleteChunk(st), c2, O, m, s, n) /\ DeleteChunk(st).n < st.n
<1> DEFINE D == DBUFSIZ
           k == Least(D - st.d.offset, st.n)
           t == DeleteChunk(st)
<1>1. /\ st \in Going /\ Held(st.d, st.m, c, O) /\ Same(m, st.m, O)
      /\ st.n <= st.d.length /\ st.d.length - st.n = Len(s) - n
      /\ D \in Nat \ {0} /\ Len(s) \in Nat
  BY LenProperties DEF Left, DBufAssumption
<1>2. /\ st.d.length \in Nat /\ st.d.offset \in 0..D-1 /\ st.n \in Nat \ {0}
      /\ st.d.length # 0
  BY <1>1 DEF Going, Desc
<1>3. k \in Nat \ {0} /\ k <= st.n /\ k <= D - st.d.offset /\ k <= st.d.length
      /\ (k = D - st.d.offset \/ k = st.n)
  BY <1>1, <1>2 DEF Least
<1>4. /\ Owns(st.m, c, O) /\ Linked(st.m, st.d.head, c) /\ Len(c) \in Nat
      /\ Fits(Len(c), st.d.offset + st.d.length)
  BY <1>1, LenProperties DEF Held, Owns
<1>5. c # << >> /\ st.d.head = c[1] /\ Len(c) \in Nat \ {0} /\ c[1] \in Block
  <2>1. Len(c) # 0
    BY <1>1, <1>2, <1>4 DEF Fits
  <2>2. c # << >>
    BY <1>4, <2>1, EmptySeq DEF Owns
  <2>3. c[1] \in Block
    BY <1>4, <2>1, ElementOfSeq DEF Owns
  <2> QED
    BY <1>4, <2>1, <2>2, <2>3 DEF Linked
<1> HIDE DEF k
<1>6. \A j \in 1..st.d.length - k :
        /\ j + k \in 1..st.d.length
        /\ At(st.m, c, st.d.offset + k + j - 1) = s[Len(s) - (st.d.length - k) + j]
  <2> SUFFICES ASSUME NEW j \in 1..st.d.length - k
               PROVE  /\ j + k \in 1..st.d.length
                      /\ At(st.m, c, st.d.offset + k + j - 1)
                           = s[Len(s) - (st.d.length - k) + j]
    OBVIOUS
  <2>1. j + k \in 1..st.d.length
    BY <1>2, <1>3
  <2>2. Stream(st.d, st.m, c)[j + k] = s[Len(s) - st.d.length + (j + k)]
    BY <2>1 DEF Left
  <2>3. Stream(st.d, st.m, c)[j + k] = At(st.m, c, st.d.offset + (j + k) - 1)
    BY <1>1, <2>1, StreamIs
  <2>4. /\ st.d.offset + (j + k) - 1 = st.d.offset + k + j - 1
        /\ Len(s) - st.d.length + (j + k) = Len(s) - (st.d.length - k) + j
    <3> DEFINE o == st.d.offset
               l == st.d.length
               m0 == Len(s)
    <3>1. o \in Int /\ l \in Int /\ m0 \in Int /\ j \in Int /\ k \in Int
      BY <1>1, <1>2, <1>3
    <3> HIDE DEF o, l, m0
    <3>2. o + (j + k) - 1 = o + k + j - 1 /\ m0 - l + (j + k) = m0 - (l - k) + j
      BY <3>1, TakenOff
    <3> QED
      BY <3>2 DEF o, l, m0
  <2> QED
    BY <2>1, <2>2, <2>3, <2>4
<1>7. CASE ~(st.d.offset + k = D \/ st.d.length - k = 0)
  <2>1. /\ t \in Going /\ t.n = st.n - k /\ t.m = st.m
        /\ t.d.length = st.d.length - k /\ t.d.offset = st.d.offset + k
        /\ t.d.head = st.d.head /\ t.d.tail = st.d.tail
    BY <1>1, <1>3, <1>7, DeleteChunkKeeps DEF k
  <2> HIDE DEF t
  <2>2. Held(t.d, t.m, c, O)
    <3>1. t.d.offset + t.d.length = st.d.offset + st.d.length /\ t.d.length # 0
      BY <1>2, <1>3, <1>7, <2>1
    <3>2. t.d \in Desc
      BY <2>1 DEF Going
    <3> QED
      BY <1>1, <2>1, <3>1, <3>2 DEF Held
  <2>3. \A j \in 1..t.d.length : Stream(t.d, t.m, c)[j] = s[Len(s) - t.d.length + j]
    <3> SUFFICES ASSUME NEW j \in 1..t.d.length
                 PROVE  Stream(t.d, t.m, c)[j] = s[Len(s) - t.d.length + j]
      OBVIOUS
    <3>1. Stream(t.d, t.m, c)[j] = At(t.m, c, t.d.offset + j - 1)
      BY <2>2, StreamIs
    <3> QED
      BY <1>6, <2>1, <3>1
  <2>4. /\ t.n <= t.d.length /\ t.d.length - t.n = Len(s) - n /\ t.n < st.n
    BY <1>1, <1>2, <1>3, <2>1, SMTT(20)
  <2>5. Left(t, c, O, m, s, n)
    BY <1>1, <2>1, <2>2, <2>3, <2>4 DEF Left
  <2> QED
    BY <2>4, <2>5 DEF t
<1>8. CASE st.d.offset + k = D \/ st.d.length - k = 0
  <2>1. /\ t \in Going /\ t.n = st.n - k /\ t.m = Free(st.m, c[1])
        /\ t.d.length = st.d.length - k /\ t.d.offset = 0
        /\ t.d.head = st.m.next[c[1]] /\ t.d.tail = st.d.tail
    BY <1>1, <1>3, <1>5, <1>8, DeleteChunkFrees DEF k
  <2>2. Linked(st.m, c[1], c)
    BY <1>4, <1>5
  <2>3. /\ Owns(Free(st.m, c[1]), Tail(c), O) /\ Same(st.m, Free(st.m, c[1]), O)
        /\ Linked(Free(st.m, c[1]), st.m.next[c[1]], Tail(c))
        /\ Free(st.m, c[1]).data = st.m.data
    BY <1>4, <1>5, <2>2, FreeFirst
  <2>4. /\ Len(Tail(c)) = Len(c) - 1 /\ Len(Tail(c)) \in Nat
        /\ \A i \in 1..Len(c)-1 : Tail(c)[i] = c[i+1]
    BY <1>4, <1>5, TailOf DEF Owns
  <2> HIDE DEF t
  <2>5. Fits(Len(Tail(c)), t.d.offset + t.d.length)
    <3>1. (Len(c) - 1) * D < st.d.offset + st.d.length
          /\ st.d.offset + st.d.length <= Len(c) * D
      BY <1>4 DEF Fits
    <3>2. (Len(c) - 1) * D = Len(c) * D - D /\ Len(c) * D \in Nat
      BY <1>1, <1>4, Times
    <3>3. Len(c) - 1 \in Nat /\ (Len(c) - 1 - 1) * D = (Len(c) - 1) * D - D
      BY <1>1, <1>5, Times
    <3>4. CASE st.d.offset + k = D
      <4>1. t.d.offset + t.d.length = st.d.offset + st.d.length - D
        BY <1>1, <1>2, <1>3, <2>1, <3>4, SMTT(20)
      <4> DEFINE w == t.d.offset + t.d.length
                 a == (Len(c) - 1) * D
                 b == (Len(c) - 1 - 1) * D
      <4>2. b < w /\ w <= a
        BY <1>1, <1>2, <3>1, <3>2, <3>3, <4>1
      <4> QED
        BY <2>4, <4>2 DEF Fits
    <3>5. CASE st.d.offset + k # D
      <4>1. st.d.length = k /\ st.d.offset + st.d.length <= D
        BY <1>1, <1>2, <1>3, <1>8, <3>5
      <4>2. Len(c) = 1
        <5>1. SUFFICES ASSUME Len(c) - 1 # 0 PROVE FALSE
          BY <1>4
        <5>2. (Len(c) - 2) * D \in Nat /\ (Len(c) - 1) * D = (Len(c) - 2) * D + D
          <6>1. Len(c) - 2 \in Nat /\ Len(c) - 2 + 1 = Len(c) - 1
            BY <1>5, <5>1
          <6> QED
            BY <1>1, <6>1, Times
        <5> QED
          BY <1>1, <1>2, <3>1, <4>1, <5>2
      <4>3. t.d.offset + t.d.length = 0 /\ Len(Tail(c)) = 0
        BY <1>2, <1>3, <2>1, <2>4, <4>1, <4>2
      <4>4. (0 - 1) * D < 0 /\ 0 <= 0 * D
        BY <1>1
      <4> QED
        BY <4>3, <4>4 DEF Fits
    <3> QED
      BY <3>4, <3>5
  <2>6. Tail(c) # << >> => t.d.tail = Tail(c)[Len(Tail(c))]
    <3>1. SUFFICES ASSUME Tail(c) # << >> PROVE t.d.tail = Tail(c)[Len(Tail(c))]
      OBVIOUS
    <3>2. Tail(c) \in Seq(Block)
      BY <2>3 DEF Owns
    <3>3. Len(Tail(c)) # 0
      BY <2>4, <3>1, <3>2, EmptySeq
    <3>4. Len(c) - 1 \in 1..Len(c)-1 /\ Len(c) - 1 + 1 = Len(c)
      <4>1. \A l \in Nat : l # 0 => l \in 1..l
        OBVIOUS
      <4>2. Len(c) - 1 \in Nat /\ Len(c) - 1 # 0 /\ Len(c) - 1 + 1 = Len(c)
        BY <1>5, <2>4, <3>3
      <4> QED
        BY ONLY <4>1, <4>2
    <3>5. Tail(c)[Len(c) - 1] = c[Len(c)]
      BY <2>4, <3>4
    <3>6. st.d.tail = c[Len(c)]
      BY <1>1, <1>5 DEF Held
    <3> QED
      BY <2>1, <2>4, <3>5, <3>6
  <2>7. Held(t.d, t.m, Tail(c), O)
    <3>1. t.d \in Desc /\ t.d.offset = 0
      BY <2>1 DEF Going
    <3> QED
      BY <2>1, <2>3, <2>5, <2>6, <3>1 DEF Held
  <2>8. \A j \in 1..t.d.length :
           Stream(t.d, t.m, Tail(c))[j] = s[Len(s) - t.d.length + j]
    <3> SUFFICES ASSUME NEW j \in 1..t.d.length
                 PROVE  Stream(t.d, t.m, Tail(c))[j] = s[Len(s) - t.d.length + j]
      OBVIOUS
    <3>1. /\ Stream(t.d, t.m, Tail(c))[j] = At(t.m, Tail(c), t.d.offset + j - 1)
          /\ t.d.offset + j - 1 \in Nat
          /\ t.d.offset + j - 1 < Len(Tail(c)) * DBUFSIZ
      BY <2>7, StreamIs
    <3> DEFINE p == j - 1
               a == p \div D
               r == p % D
    <3>2. t.d.offset + j - 1 = p /\ p \in Nat /\ p < (Len(c) - 1) * D
      BY <2>1, <2>4, <3>1
    <3>3. a \in Nat /\ r \in 0..D-1 /\ p = a * D + r
      BY <1>1, <3>2, Division
    <3>4. st.d.offset + k + j - 1 = D + p
      <4>1. st.d.offset + k = D
        BY <1>2, <1>3, <1>8, <2>1
      <4> QED
        BY <1>1, <1>2, <1>3, <4>1
    <3> HIDE DEF p, a, r
    <3>5. a < Len(c) - 1
      <4>1. Len(c) - 1 \in Nat
        BY <1>5
      <4> QED
        BY <1>1, <3>2, <3>3, <4>1, Before
    <3>6. D + p = (a + 1) * D + r /\ a + 1 \in Nat
      BY <1>1, <3>3, Times
    <3>7. (D + p) \div D = a + 1 /\ (D + p) % D = r
      BY <1>1, <3>3, <3>6, DivisionIs, ZenonT(30)
    <3>8. Tail(c)[a + 1] = c[a + 1 + 1]
      BY <1>5, <2>4, <3>3, <3>5
    <3>9. At(t.m, Tail(c), p) = At(st.m, c, D + p)
      <4>1. p \div D = a /\ p % D = r
        BY DEF a, r
      <4>2. t.m.data = st.m.data
        BY <2>1, <2>3
      <4> QED
        BY <3>7, <3>8, <4>1, <4>2 DEF At
    <3>10. At(st.m, c, D + p) = s[Len(s) - t.d.length + j]
      BY <1>6, <2>1, <3>4
    <3> QED
      BY <3>1, <3>2, <3>9, <3>10
  <2>9. t.n <= t.d.length /\ t.d.length - t.n = Len(s) - n /\ t.n < st.n
    BY <1>1, <1>2, <1>3, <2>1, SMTT(20)
  <2>10. Same(m, t.m, O)
    BY <1>1, <2>1, <2>3 DEF Same
  <2>11. Left(t, Tail(c), O, m, s, n)
    BY <2>1, <2>7, <2>8, <2>9, <2>10 DEF Left
  <2> QED
    BY <2>9, <2>11 DEF t
<1> QED
  BY <1>7, <1>8

(* The function that Deleting defines.                                     *)
Goes(x) == IF x.n = 0 THEN x ELSE DeleteChunk(x)
GoSteps(f, st, l) == f = [i \in 0..l |-> IF i = 0 THEN st ELSE Goes(f[i-1])]

LEMMA GoStepsExist ==
  ASSUME NEW st, NEW l \in Nat
  PROVE  \E f : GoSteps(f, st, l)
<1> DEFINE Bad == {k \in Nat : ~\E f : GoSteps(f, st, k)}
<1>1. SUFFICES ASSUME Bad # {} PROVE FALSE
  OBVIOUS
<1>2. PICK k \in Bad : \A j \in Bad : k <= j
  BY <1>1, LeastOfNaturals
<1>3. k # 0
  <2> DEFINE f0 == [i \in 0..0 |-> st]
  <2>1. GoSteps(f0, st, 0)
    BY DEF GoSteps
  <2> QED
    BY <2>1
<1>4. PICK g : GoSteps(g, st, k - 1)
  <2>1. k \in Nat /\ k - 1 \in Nat /\ ~(k <= k - 1)
    BY <1>2, <1>3
  <2>2. k - 1 \notin Bad
    BY <1>2, <2>1
  <2> QED
    BY <2>1, <2>2
<1> DEFINE h == [i \in 0..k |-> IF i = k THEN Goes(g[k-1]) ELSE g[i]]
<1>5. \A i \in 0..k : h[i] = IF i = 0 THEN st ELSE Goes(h[i-1])
  <2> SUFFICES ASSUME NEW i \in 0..k
               PROVE  h[i] = IF i = 0 THEN st ELSE Goes(h[i-1])
    OBVIOUS
  <2>1. CASE i = k
    BY <1>2, <1>3, <2>1
  <2>2. CASE i # k
    <3>1. i \in 0..(k-1)
      BY <1>2, <2>2
    <3>2. g[i] = IF i = 0 THEN st ELSE Goes(g[i-1])
      BY <1>4, <3>1 DEF GoSteps
    <3>3. h[i] = g[i] /\ (i # 0 => h[i-1] = g[i-1])
      BY <1>2, <2>2
    <3> QED
      BY <3>2, <3>3
  <2> QED
    BY <2>1, <2>2
<1>6. GoSteps(h, st, k)
  BY <1>5 DEF GoSteps
<1> QED
  BY <1>2, <1>6

LEMMA DeletingLeaves ==
  ASSUME DBufAssumption, NEW O, NEW m, NEW n, NEW s \in Seq(Byte), NEW st, NEW c,
         Left(st, c, O, m, s, n), NEW l \in Nat, st.n <= l
  PROVE  \E c2 : Left(Deleting(st, l), c2, O, m, s, n) /\ Deleting(st, l).n = 0
<1> DEFINE f == CHOOSE f : GoSteps(f, st, l)
           Good(i) == \E c2 : /\ Left(f[i], c2, O, m, s, n)
                              /\ f[i].n = 0 \/ f[i].n <= l - i
<1>1. GoSteps(f, st, l)
  BY GoStepsExist
<1>2. Deleting(st, l) = f[l]
  BY DEF Deleting, GoSteps, Goes
<1> HIDE DEF f
<1>3. \A i \in 0..l : f[i] = IF i = 0 THEN st ELSE Goes(f[i-1])
  BY <1>1 DEF GoSteps
<1> DEFINE Bad == {i \in 0..l : ~Good(i)}
<1>4. Bad = {}
  <2>1. SUFFICES ASSUME Bad # {} PROVE FALSE
    OBVIOUS
  <2>2. PICK i \in Bad : \A j \in Bad : i <= j
    <3>1. Bad \subseteq Nat
      OBVIOUS
    <3> HIDE DEF Bad
    <3> QED
      BY <2>1, <3>1, LeastOfNaturals
  <2>3. i # 0
    <3>1. f[0] = st /\ l - 0 = l
      BY <1>3
    <3>2. Good(0)
      BY <3>1
    <3> QED
      BY <2>2, <3>2
  <2>4. i \in 1..l /\ i - 1 \in 0..l /\ i - 1 \notin Bad
    BY <2>2, <2>3
  <2>5. PICK c1 : /\ Left(f[i-1], c1, O, m, s, n)
                  /\ f[i-1].n = 0 \/ f[i-1].n <= l - (i-1)
    BY <2>4
  <2>6. f[i] = Goes(f[i-1])
    BY <1>3, <2>3, <2>4
  <2>7. CASE f[i-1].n = 0
    <3>1. f[i] = f[i-1]
      BY <2>6, <2>7 DEF Goes
    <3>2. Good(i)
      BY <2>5, <2>7, <3>1
    <3> QED
      BY <2>2, <3>2
  <2>8. CASE f[i-1].n # 0
    <3>1. f[i] = DeleteChunk(f[i-1])
      BY <2>6, <2>8 DEF Goes
    <3>2. PICK c2 : Left(f[i], c2, O, m, s, n) /\ f[i].n < f[i-1].n
      BY <2>5, <2>8, <3>1, DeleteRound
    <3>3. f[i].n \in Nat /\ f[i-1].n \in Nat
      BY <2>5, <3>2 DEF Left, Going
    <3>4. f[i].n <= l - i
      BY <2>4, <2>5, <2>8, <3>2, <3>3
    <3>5. Good(i)
      BY <3>2, <3>4
    <3> QED
      BY <2>2, <3>5
  <2> QED
    BY <2>7, <2>8
<1>5. Good(l)
  BY <1>4
<1>6. PICK c2 : Left(f[l], c2, O, m, s, n) /\ (f[l].n = 0 \/ f[l].n <= l - l)
  BY <1>5
<1>7. f[l].n = 0
  BY <1>6 DEF Left, Going
<1> QED
  BY <1>2, <1>6, <1>7

(* dbuf_delete.  Good: a queue between two calls.                          *)
Good(d, m, c, O) == Held(d, m, c, O) /\ (c = << >> => d.tail = NULL)

LEMMA DeletedIs ==
  ASSUME DBufAssumption, NEW d, NEW m, NEW c, NEW O, Good(d, m, c, O),
         NEW n \in Nat, NEW k, k = Least(n, d.length)
  PROVE  \E c2 : /\ Good(Deleted(d, m, n).d, Deleted(d, m, n).m, c2, O)
                 /\ Same(m, Deleted(d, m, n).m, O)
                 /\ Stream(Deleted(d, m, n).d, Deleted(d, m, n).m, c2)
                      = SubSeq(Stream(d, m, c), k + 1, d.length)
<1> DEFINE s == Stream(d, m, c)
           x == [d |-> d, m |-> m, n |-> k]
           y == Deleting(x, n)
           z == Deleted(d, m, n)
<1>1. /\ Held(d, m, c, O) /\ d \in Desc /\ m \in Mem /\ d.length \in Nat
      /\ (c = << >> => d.tail = NULL)
  BY DEF Good, Held, Owns, Desc
<1>2. s \in Seq(Byte) /\ Len(s) = d.length
  BY <1>1, StreamIs
<1>3. k \in Nat /\ k <= n /\ k <= d.length
  BY <1>1 DEF Least
<1> HIDE DEF s
<1>4. Left(x, c, O, m, s, k)
  <2>1. x \in Going
    BY <1>1, <1>3 DEF Going
  <2>2. Same(m, m, O)
    BY DEF Same
  <2>3. \A j \in 1..d.length : s[j] = s[Len(s) - d.length + j]
    BY <1>1, <1>2
  <2> QED
    BY <1>1, <1>2, <1>3, <2>1, <2>2, <2>3 DEF Left, s
<1>5. PICK c2 : Left(y, c2, O, m, s, k) /\ y.n = 0
  BY <1>2, <1>3, <1>4, DeletingLeaves
<1>6. z = IF y.d.head = NULL
          THEN [y EXCEPT !.d = [y.d EXCEPT !.length = 0, !.tail = NULL]] ELSE y
  BY DEF Deleted
<1> HIDE DEF x, y, z
<1>7. /\ y \in Going /\ Held(y.d, y.m, c2, O) /\ Same(m, y.m, O)
      /\ y.d.length = d.length - k
      /\ \A j \in 1..y.d.length : Stream(y.d, y.m, c2)[j] = s[Len(s) - y.d.length + j]
  BY <1>1, <1>2, <1>3, <1>5 DEF Left, Going, Desc
<1>8. c2 = << >> <=> y.d.head = NULL
  <2>1. c2 \in Seq(Block) /\ Linked(y.m, y.d.head, c2)
    BY <1>7 DEF Held, Owns
  <2>2. c2 # << >> => c2[1] \in Block
    BY <2>1, EmptySeq, LenProperties, ElementOfSeq
  <2> QED
    BY <2>1, <2>2 DEF Linked, Block, NULL
<1>9. c2 = << >> => y.d.length = 0
  <2>1. SUFFICES ASSUME c2 = << >> PROVE y.d.length = 0
    OBVIOUS
  <2>2. Len(c2) = 0
    BY <2>1
  <2>3. y.d.offset + y.d.length <= 0 * DBUFSIZ /\ 0 * DBUFSIZ = 0
    BY <1>7, <2>2 DEF Held, Fits, DBufAssumption
  <2> QED
    BY <1>7, <2>3 DEF Going, Desc
<1>10. /\ z.m = y.m /\ z.d \in Desc /\ z.d.length = y.d.length /\ z.d.offset = y.d.offset
       /\ z.d.head = y.d.head /\ z.d.tail = IF y.d.head = NULL THEN NULL ELSE y.d.tail
  <2>1. CASE y.d.head = NULL
    <3> DEFINE e == [y.d EXCEPT !.length = 0, !.tail = NULL]
    <3>1. /\ e \in Desc /\ e.length = 0 /\ e.offset = y.d.offset
          /\ e.head = y.d.head /\ e.tail = NULL
      <4>1. NULL \in 0..Pool /\ 0 \in Nat /\ y.d \in Desc
        BY <1>7 DEF Going, NULL, DBufAssumption
      <4> QED
        BY <4>1 DEF Desc
    <3>2. z = [y EXCEPT !.d = e]
      BY <1>6, <2>1
    <3> HIDE DEF e
    <3>3. z.m = y.m /\ z.d = e
      BY <1>7, <3>2 DEF Going
    <3> QED
      BY <1>8, <1>9, <2>1, <3>1, <3>3
  <2>2. CASE y.d.head # NULL
    BY <1>6, <1>7, <2>2 DEF Going
  <2> QED
    BY <2>1, <2>2
<1>11. Good(z.d, z.m, c2, O)
  BY <1>7, <1>8, <1>10 DEF Good, Held
<1>12. Stream(z.d, z.m, c2) = SubSeq(s, k + 1, d.length)
  <2>1. Stream(z.d, z.m, c2) = Stream(y.d, y.m, c2)
    BY <1>10 DEF Stream
  <2>2. \A j \in 1..y.d.length : Len(s) - y.d.length + j = j + k + 1 - 1
    BY <1>1, <1>2, <1>3, <1>7
  <2>3. SubSeq(s, k + 1, d.length) = [j \in 1..(d.length - k) |-> s[j + k]]
    BY <1>1, <1>2, <1>3
  <2>4. \A j \in 1..y.d.length : Stream(y.d, y.m, c2)[j] = s[j + k]
    BY <1>1, <1>2, <1>3, <1>7
  <2>5. Stream(y.d, y.m, c2) = [j \in 1..y.d.length |-> Stream(y.d, y.m, c2)[j]]
    BY DEF Stream
  <2> QED
    BY <1>7, <2>1, <2>3, <2>4, <2>5
<1> QED
  BY <1>7, <1>10, <1>11, <1>12 DEF s, z

----------------------------------------------------------------------------
(* dbuf_alloc: a block that no queue has, or none when the pool is empty.  *)
Gets(a, m, c, O) ==
  /\ a.mem \in Mem /\ a.mem.next = m.next /\ a.mem.data = m.data
  /\ a.block \in 1..a.mem.dbufblocks /\ a.block \in Block
  /\ a.block \notin Range(c) /\ a.block \notin O /\ a.block \notin Range(a.mem.freelist)
  /\ IsInjective(a.mem.freelist) /\ Range(a.mem.freelist) = Range(m.freelist) \ {a.block}
  /\ 1..a.mem.dbufblocks = (1..m.dbufblocks) \cup {a.block}
  /\ a.mem.dbufalloc = a.mem.dbufblocks - Len(a.mem.freelist)

LEMMA AllocIs ==
  ASSUME DBufAssumption, NEW m, NEW c, NEW O, Owns(m, c, O)
  PROVE  Alloc(m).block = NULL \/ Gets(Alloc(m), m, c, O)
<1> DEFINE a == Alloc(m)
<1>1. /\ m \in Mem /\ m.freelist \in Seq(Block) /\ m.dbufalloc \in Int
      /\ m.dbufblocks \in 0..Pool /\ IsInjective(m.freelist)
      /\ m.dbufalloc = m.dbufblocks - Len(m.freelist) /\ Pool \in Nat
  BY DEF Owns, Mem, DBufAssumption
<1>2. CASE m.freelist # << >>
  <2> DEFINE f == m.freelist
             n == [m EXCEPT !.dbufalloc = @ + 1, !.freelist = Tail(@)]
  <2>1. a = [block |-> Head(f), mem |-> n]
    BY <1>2 DEF Alloc
  <2>2. /\ Len(f) \in Nat \ {0} /\ DOMAIN f = 1..Len(f) /\ f[1] \in Block
        /\ Tail(f) \in Seq(Block) /\ Len(Tail(f)) = Len(f) - 1
        /\ IsInjective(Tail(f)) /\ Range(Tail(f)) = Range(f) \ {f[1]} /\ Head(f) = f[1]
    BY <1>1, <1>2, TailOf, HeadTailProperties
  <2>3. /\ n \in Mem /\ n.next = m.next /\ n.data = m.data /\ n.freelist = Tail(f)
        /\ n.dbufblocks = m.dbufblocks /\ n.dbufalloc = m.dbufalloc + 1
    <3>1. m.dbufalloc + 1 \in Int
      BY <1>1
    <3> QED
      BY <1>1, <2>2, <3>1 DEF Mem
  <2>4. f[1] \in Range(f)
    BY <2>2 DEF Range
  <2> HIDE DEF a, n
  <2>5. a.block = f[1] /\ a.mem = n
    BY <2>1, <2>2
  <2>6. /\ f[1] \in 1..m.dbufblocks /\ f[1] \notin Range(c) /\ f[1] \notin O
        /\ f[1] \notin Range(Tail(f)) /\ Range(Tail(f)) = Range(f) \ {f[1]}
    BY <2>2, <2>4 DEF Owns
  <2>7. n.dbufalloc = n.dbufblocks - Len(n.freelist)
    BY <1>1, <2>2, <2>3
  <2>8. 1..n.dbufblocks = (1..m.dbufblocks) \cup {f[1]}
    BY <2>3, <2>6
  <2>9. Gets(a, m, c, O)
    BY <2>2, <2>3, <2>5, <2>6, <2>7, <2>8 DEF Gets
  <2> QED
    BY <2>9 DEF a
<1>3. CASE m.freelist = << >> /\ m.dbufalloc + 1 > Pool
  BY <1>3 DEF Alloc
<1>4. CASE m.freelist = << >> /\ ~(m.dbufalloc + 1 > Pool)
  <2> DEFINE n == [m EXCEPT !.dbufalloc = @ + 1, !.dbufblocks = @ + 1]
  <2>1. a = [block |-> m.dbufblocks + 1, mem |-> n]
    BY <1>4 DEF Alloc
  <2>2. m.dbufalloc = m.dbufblocks /\ m.dbufblocks + 1 \in 1..Pool /\ Len(m.freelist) = 0
    BY <1>1, <1>4
  <2>3. /\ n \in Mem /\ n.next = m.next /\ n.data = m.data /\ n.freelist = m.freelist
        /\ n.dbufblocks = m.dbufblocks + 1 /\ n.dbufalloc = m.dbufalloc + 1
    <3>1. m.dbufalloc + 1 \in Int /\ m.dbufblocks + 1 \in 0..Pool
      BY <1>1, <2>2
    <3> QED
      BY <1>1, <3>1 DEF Mem
  <2>4. m.dbufblocks + 1 \notin 1..m.dbufblocks
    BY <1>1
  <2> HIDE DEF a, n
  <2>5. a.block = m.dbufblocks + 1 /\ a.mem = n
    BY <2>1
  <2>6. /\ m.dbufblocks + 1 \in 1..(m.dbufblocks + 1) /\ m.dbufblocks + 1 \in Block
        /\ 1..(m.dbufblocks + 1) = (1..m.dbufblocks) \cup {m.dbufblocks + 1}
    BY <1>1, <2>2 DEF Block
  <2>7. /\ O \subseteq 1..m.dbufblocks /\ Range(c) \subseteq 1..m.dbufblocks
        /\ Range(m.freelist) \subseteq 1..m.dbufblocks
    BY DEF Owns
  <2>8. /\ Range(m.freelist) = Range(m.freelist) \ {m.dbufblocks + 1}
        /\ m.dbufblocks + 1 \notin Range(m.freelist)
    BY <2>4, <2>7
  <2>9. n.dbufalloc = n.dbufblocks - Len(n.freelist)
    BY <1>1, <2>2, <2>3
  <2>10. Gets(a, m, c, O)
    BY <1>1, <2>3, <2>4, <2>5, <2>6, <2>7, <2>8, <2>9 DEF Gets
  <2> QED
    BY <2>10 DEF a
<1> QED
  BY <1>2, <1>3, <1>4

(* The block becomes the last of the chain: prev, which pointed nowhere,   *)
(* points to it.                                                           *)
LEMMA OwnsMore ==
  ASSUME DBufAssumption, NEW m, NEW c, NEW O, Owns(m, c, O), NEW a, Gets(a, m, c, O),
         NEW n \in Mem, n.freelist = a.mem.freelist, n.dbufalloc = a.mem.dbufalloc,
         n.dbufblocks = a.mem.dbufblocks
  PROVE  Owns(n, Append(c, a.block), O)
<1>1. /\ Append(c, a.block) \in Seq(Block) /\ IsInjective(Append(c, a.block))
      /\ Range(Append(c, a.block)) = Range(c) \cup {a.block}
  BY AppendOf DEF Owns, Gets
<1>2. /\ O \cup Range(c) \cup Range(m.freelist) = 1..m.dbufblocks
      /\ a.block \in 1..n.dbufblocks /\ 1..n.dbufblocks = (1..m.dbufblocks) \cup {a.block}
      /\ Range(n.freelist) = Range(m.freelist) \ {a.block}
  BY DEF Owns, Gets
<1>3. O \cup Range(Append(c, a.block)) \cup Range(n.freelist) = 1..n.dbufblocks
  BY ONLY <1>1, <1>2
<1> QED
  BY <1>1, <1>2, <1>3 DEF Owns, Gets

LEMMA LinkedMore ==
  ASSUME DBufAssumption, NEW m, NEW c, NEW O, Owns(m, c, O), NEW a, Gets(a, m, c, O),
         NEW n, NEW head, Linked(m, head, c), n.next[a.block] = NULL,
         c # << >> => n.next[c[Len(c)]] = a.block,
         \A b \in Block : /\ b # a.block
                          /\ c # << >> => b # c[Len(c)]
                          => n.next[b] = m.next[b]
  PROVE  Linked(n, IF c = << >> THEN a.block ELSE head, Append(c, a.block))
<1> DEFINE b == a.block
           e == Append(c, b)
<1>1. /\ c \in Seq(Block) /\ IsInjective(c) /\ b \in Block /\ b \notin Range(c)
      /\ Len(c) \in Nat /\ DOMAIN c = 1..Len(c)
      /\ \A i \in 1..Len(c) : c[i] \in Block
  BY LenProperties, ElementOfSeq DEF Owns, Gets
<1>2. /\ e \in Seq(Block) /\ Len(e) = Len(c) + 1
      /\ \A i \in 1..Len(c) : e[i] = c[i]
      /\ e[Len(c) + 1] = b
  BY <1>1, AppendOf
<1>3. c = << >> <=> Len(c) = 0
  BY <1>1, EmptySeq
<1> HIDE DEF b, e
<1>4. e # << >> /\ e[1] = IF c = << >> THEN b ELSE c[1]
  <2>1. e # << >>
    BY <1>1, <1>2, EmptySeq
  <2>2. CASE c = << >>
    <3>1. Len(c) + 1 = 1
      BY <1>3, <2>2
    <3> QED
      BY <1>2, <2>1, <2>2, <3>1
  <2>3. CASE c # << >>
    <3>1. 1 \in 1..Len(c)
      BY <1>1, <1>3, <2>3
    <3> QED
      BY <1>2, <2>1, <2>3, <3>1
  <2> QED
    BY <2>2, <2>3
<1>5. ASSUME NEW i \in 1..Len(e)
      PROVE  n.next[e[i]] = IF i = Len(e) THEN NULL ELSE e[i+1]
  <2>1. CASE i = Len(e)
    <3>1. e[i] = b
      BY <1>2, <2>1
    <3> QED
      BY <2>1, <3>1 DEF b
  <2>2. CASE i = Len(c)
    <3>1. i # Len(e) /\ i \in 1..Len(c) /\ c # << >> /\ i + 1 = Len(c) + 1
      <4>1. Len(e) = Len(c) + 1 /\ Len(c) \in Nat /\ i \in 1..Len(e)
        BY <1>1, <1>2
      <4>2. i # Len(e) /\ i \in 1..Len(c) /\ Len(c) # 0 /\ i + 1 = Len(c) + 1
        BY ONLY <2>2, <4>1
      <4> QED
        BY <1>3, <4>2
    <3>2. e[i] = c[Len(c)] /\ e[i+1] = b
      BY <1>2, <2>2, <3>1
    <3> QED
      BY <3>1, <3>2 DEF b
  <2>3. CASE i # Len(e) /\ i # Len(c)
    <3>1. i \in 1..Len(c) /\ i + 1 \in 1..Len(c) /\ i # Len(c)
      <4>1. Len(e) = Len(c) + 1 /\ Len(c) \in Nat /\ i \in 1..Len(e)
        BY <1>1, <1>2
      <4> QED
        BY ONLY <2>3, <4>1
    <3>2. e[i] = c[i] /\ e[i+1] = c[i+1] /\ c[i] \in Block
      BY <1>1, <1>2, <3>1
    <3>3. c[i] # b
      BY <1>1, <3>1 DEF Range
    <3>4. c[i] # c[Len(c)]
      <4>1. Len(c) \in 1..Len(c)
        BY <1>1, <3>1
      <4> QED
        BY <1>1, <3>1, <4>1 DEF IsInjective
    <3>5. n.next[c[i]] = m.next[c[i]]
      BY <3>2, <3>3, <3>4 DEF b
    <3>6. m.next[c[i]] = c[i+1]
      BY <3>1 DEF Linked
    <3> QED
      BY <2>3, <3>2, <3>5, <3>6
  <2> QED
    BY <2>1, <2>2, <2>3
<1>6. (IF c = << >> THEN a.block ELSE head) = e[1]
  BY <1>4 DEF Linked, b
<1>7. Linked(n, e[1], e)
  BY <1>4, <1>5 DEF Linked
<1> QED
  BY <1>6, <1>7 DEF e, b

----------------------------------------------------------------------------
(* The loop of dbuf_put.  s is what the queue will hold, the bytes up to   *)
(* position Done are there already, and the rest follow.                   *)
PutState == [d : Desc, m : Mem, h : [at : {"head", "tail", "next"}, of : 0..Pool],
             off : 0..DBUFSIZ-1, rest : Seq(Byte), failed : BOOLEAN]
Done(st) == st.d.offset + st.d.length - Len(st.rest)
Partly(st, c, O, m, s) ==
  /\ st \in PutState /\ st.failed = FALSE
  /\ Owns(st.m, c, O) /\ Linked(st.m, st.d.head, c) /\ Same(m, st.m, O)
  /\ c # << >> => st.d.tail = c[Len(c)]
  /\ st.d.length = Len(s) /\ Len(st.rest) <= Len(s) /\ Done(st) <= Len(c) * DBUFSIZ
  /\ \A i \in 1..Len(st.rest) : st.rest[i] = s[Len(s) - Len(st.rest) + i]
  /\ \A k \in 1..Len(s) - Len(st.rest) : At(st.m, c, st.d.offset + k - 1) = s[k]

(* Where h points when there are bytes left.                               *)
Points(st, c) ==
  \/ c = << >> /\ st.h.at = "head" /\ st.off = 0 /\ Done(st) = 0
  \/ c # << >> /\ st.h.at = "tail" /\ (Len(c) - 1) * DBUFSIZ + st.off = Done(st)
  \/ /\ c # << >> /\ st.h.at = "next" /\ st.h.of = c[Len(c)] /\ st.off = 0
     /\ Len(c) * DBUFSIZ = Done(st)

(* The block for the next bytes is there, the last of the chain.           *)
Ready(st, c) == c # << >> /\ (Len(c) - 1) * DBUFSIZ + st.off = Done(st)

LEMMA GrowIs ==
  ASSUME DBufAssumption, NEW st \in PutState, NEW b \in Block, NEW n \in Mem,
         st.h.at = "head" \/ st.h.of \in Block
  PROVE  LET t == Grow(st, b, n) IN
         /\ t \in PutState /\ t.off = st.off /\ t.rest = st.rest /\ t.failed = st.failed
         /\ t.d.length = st.d.length /\ t.d.offset = st.d.offset /\ t.d.tail = b
         /\ t.d.head = IF st.h.at = "head" THEN b ELSE st.d.head
         /\ t.m.freelist = n.freelist /\ t.m.dbufalloc = n.dbufalloc
         /\ t.m.dbufblocks = n.dbufblocks /\ t.m.data = n.data
         /\ \A x \in Block : t.m.next[x] = IF st.h.at # "head" /\ x = st.h.of THEN b
                                           ELSE IF x = b THEN NULL ELSE n.next[x]
<1> DEFINE m1 == [n EXCEPT !.next[b] = NULL]
           d1 == [st.d EXCEPT !.tail = b]
<1>1. b \in 0..Pool /\ NULL \in 0..Pool
  BY DEF Block, NULL, DBufAssumption
<1>2. /\ m1 \in Mem /\ m1.freelist = n.freelist /\ m1.dbufalloc = n.dbufalloc
      /\ m1.dbufblocks = n.dbufblocks /\ m1.data = n.data
      /\ \A x \in Block : m1.next[x] = IF x = b THEN NULL ELSE n.next[x]
  BY <1>1 DEF Mem
<1>3. /\ d1 \in Desc /\ d1.length = st.d.length /\ d1.offset = st.d.offset
      /\ d1.tail = b /\ d1.head = st.d.head
  BY <1>1 DEF PutState, Desc
<1>4. CASE st.h.at = "head"
  <2> DEFINE d2 == [d1 EXCEPT !.head = b]
  <2>1. /\ d2 \in Desc /\ d2.length = st.d.length /\ d2.offset = st.d.offset
        /\ d2.tail = b /\ d2.head = b
    BY <1>1, <1>3 DEF Desc
  <2>2. Grow(st, b, n) = [st EXCEPT !.d = d2, !.m = m1]
    BY <1>4 DEF Grow
  <2> HIDE DEF m1, d1, d2
  <2> QED
    BY <1>2, <1>4, <2>1, <2>2 DEF PutState
<1>5. CASE st.h.at # "head"
  <2> DEFINE m2 == [m1 EXCEPT !.next[st.h.of] = b]
  <2>1. /\ m2 \in Mem /\ m2.freelist = n.freelist /\ m2.dbufalloc = n.dbufalloc
        /\ m2.dbufblocks = n.dbufblocks /\ m2.data = n.data
        /\ \A x \in Block : m2.next[x] = IF x = st.h.of THEN b ELSE m1.next[x]
    <3> HIDE DEF m1
    <3> QED
      BY <1>1, <1>2, <1>5 DEF Mem
  <2>2. Grow(st, b, n) = [st EXCEPT !.d = d1, !.m = m2]
    BY <1>5 DEF Grow
  <2> HIDE DEF m1, d1, m2
  <2>3. /\ Grow(st, b, n).d = d1 /\ Grow(st, b, n).m = m2 /\ Grow(st, b, n) \in PutState
        /\ Grow(st, b, n).off = st.off /\ Grow(st, b, n).rest = st.rest
        /\ Grow(st, b, n).failed = st.failed
    BY <1>3, <2>1, <2>2 DEF PutState
  <2>4. \A x \in Block : m2.next[x] = IF st.h.at # "head" /\ x = st.h.of THEN b
                                     ELSE IF x = b THEN NULL ELSE n.next[x]
    BY <1>2, <1>5, <2>1
  <2> QED
    BY <1>2, <1>3, <1>5, <2>1, <2>3, <2>4
<1> QED
  BY <1>4, <1>5

LEMMA GrowReady ==
  ASSUME DBufAssumption, NEW st, NEW c, NEW O, NEW m, NEW s \in Seq(Byte),
         Partly(st, c, O, m, s), Points(st, c), st.h.at # "tail",
         NEW a, Gets(a, st.m, c, O)
  PROVE  /\ Partly(Grow(st, a.block, a.mem), Append(c, a.block), O, m, s)
         /\ Ready(Grow(st, a.block, a.mem), Append(c, a.block))
<1> DEFINE t == Grow(st, a.block, a.mem)
           e == Append(c, a.block)
           b == a.block
<1>1. /\ st \in PutState /\ st.failed = FALSE /\ Owns(st.m, c, O)
      /\ Linked(st.m, st.d.head, c) /\ Same(m, st.m, O)
      /\ c \in Seq(Block) /\ IsInjective(c) /\ Len(c) \in Nat /\ DBUFSIZ \in Nat \ {0}
      /\ Range(c) \cap O = {}
  BY LenProperties DEF Partly, Owns, DBufAssumption
<1>2. /\ b \in Block /\ b \notin Range(c) /\ b \notin O /\ a.mem \in Mem
      /\ a.mem.next = st.m.next /\ a.mem.data = st.m.data
  BY DEF Gets
<1>3. /\ e \in Seq(Block) /\ Len(e) = Len(c) + 1 /\ e[Len(c) + 1] = b
      /\ \A i \in 1..Len(c) : e[i] = c[i]
  BY <1>1, <1>2, AppendOf
<1>4. c # << >> => /\ Len(c) \in 1..Len(c) /\ c[Len(c)] \in Block
                   /\ c[Len(c)] \in Range(c) /\ st.h.at = "next" /\ st.h.of = c[Len(c)]
  <2>1. SUFFICES ASSUME c # << >>
                 PROVE  /\ Len(c) \in 1..Len(c) /\ c[Len(c)] \in Block
                        /\ c[Len(c)] \in Range(c) /\ st.h.at = "next"
                        /\ st.h.of = c[Len(c)]
    OBVIOUS
  <2>2. Len(c) \in 1..Len(c) /\ DOMAIN c = 1..Len(c)
    BY <1>1, <2>1, EmptySeq, LenProperties
  <2> QED
    BY <1>1, <2>1, <2>2, ElementOfSeq DEF Points, Range
<1>5. c = << >> <=> st.h.at = "head"
  BY <1>4 DEF Points
<1>6. /\ t \in PutState /\ t.off = st.off /\ t.rest = st.rest /\ t.failed = st.failed
      /\ t.d.length = st.d.length /\ t.d.offset = st.d.offset /\ t.d.tail = b
      /\ t.d.head = IF st.h.at = "head" THEN b ELSE st.d.head
      /\ t.m.freelist = a.mem.freelist /\ t.m.dbufalloc = a.mem.dbufalloc
      /\ t.m.dbufblocks = a.mem.dbufblocks /\ t.m.data = a.mem.data
      /\ \A x \in Block : t.m.next[x] = IF st.h.at # "head" /\ x = st.h.of THEN b
                                        ELSE IF x = b THEN NULL ELSE a.mem.next[x]
  <2>1. st.h.at = "head" \/ st.h.of \in Block
    BY <1>4, <1>5
  <2> QED
    BY <1>1, <1>2, <2>1, GrowIs
<1> HIDE DEF t, e
<1>7. Owns(t.m, e, O)
  <2>1. t.m \in Mem
    BY <1>6 DEF PutState
  <2> QED
    BY <1>1, <1>6, <2>1, OwnsMore DEF e
<1>8. Linked(t.m, t.d.head, e)
  <2>1. t.m.next[b] = NULL
    BY <1>2, <1>4, <1>5, <1>6
  <2>2. c # << >> => t.m.next[c[Len(c)]] = b
    BY <1>4, <1>5, <1>6
  <2>3. \A x \in Block : /\ x # b
                         /\ c # << >> => x # c[Len(c)]
                         => t.m.next[x] = st.m.next[x]
    BY <1>2, <1>4, <1>5, <1>6
  <2>4. Linked(t.m, IF c = << >> THEN b ELSE st.d.head, e)
    BY <1>1, <2>1, <2>2, <2>3, LinkedMore DEF e
  <2> QED
    BY <1>5, <1>6, <2>4
<1>9. Same(m, t.m, O)
  <2>1. \A x \in O : x \in Block /\ x # b /\ (st.h.at # "head" => x # st.h.of)
    <3>1. O \subseteq Block
      <4>1. st.m.dbufblocks \in 0..Pool /\ Pool \in Nat /\ O \subseteq 1..st.m.dbufblocks
        BY <1>1 DEF Owns, Mem, DBufAssumption
      <4> QED
        BY ONLY <4>1 DEF Block
    <3> QED
      BY <1>1, <1>2, <1>4, <1>5, <3>1
  <2> QED
    BY <1>1, <1>2, <1>6, <2>1 DEF Same
<1>10. e # << >> /\ t.d.tail = e[Len(e)]
  BY <1>1, <1>3, <1>6, EmptySeq
<1>11. Done(t) = Done(st) /\ (Len(e) - 1) * DBUFSIZ + t.off = Done(t)
       /\ st.off = 0 /\ Len(c) * DBUFSIZ = Done(st)
  <2>1. Done(t) = Done(st)
    BY <1>6 DEF Done
  <2>2. Len(c) * DBUFSIZ = Done(st) /\ st.off = 0
    <3>1. CASE c = << >>
      <4>1. Len(c) = 0 /\ Done(st) = 0 /\ st.off = 0 /\ 0 * DBUFSIZ = 0
        BY <1>1, <3>1 DEF Points
      <4> QED
        BY <4>1
    <3>2. CASE c # << >>
      BY <1>4, <3>2 DEF Points
    <3> QED
      BY <3>1, <3>2
  <2>3. Len(e) - 1 = Len(c)
    BY <1>1, <1>3
  <2>4. Len(c) * DBUFSIZ + 0 = Len(c) * DBUFSIZ
    BY <1>1
  <2> QED
    BY <1>6, <2>1, <2>2, <2>3, <2>4
<1>12. /\ st.d.length = Len(s) /\ Len(st.rest) <= Len(s) /\ Len(s) \in Nat
       /\ Len(st.rest) \in Nat /\ st.d.offset \in Nat
       /\ \A i \in 1..Len(st.rest) : st.rest[i] = s[Len(s) - Len(st.rest) + i]
  <2>1. st.rest \in Seq(Byte) /\ st.d \in Desc
    BY <1>1 DEF PutState
  <2>2. Len(s) \in Nat /\ Len(st.rest) \in Nat /\ st.d.offset \in Nat
    BY <2>1, LenProperties DEF Desc
  <2> QED
    BY <2>2 DEF Partly
<1>13. ASSUME NEW k \in 1..Len(s) - Len(t.rest)
       PROVE  At(t.m, e, t.d.offset + k - 1) = s[k]
  <2> DEFINE p == st.d.offset + k - 1
             j == p \div DBUFSIZ
  <2>1. k \in 1..Len(s) - Len(st.rest) /\ t.d.offset + k - 1 = p
    BY <1>6
  <2>2. At(st.m, c, p) = s[k]
    BY <2>1 DEF Partly
  <2>3. p \in Nat /\ p < Done(st)
    BY <1>12, <2>1 DEF Done
  <2>4. j + 1 \in 1..Len(c)
    BY <1>1, <1>11, <2>3, AtIs
  <2>5. At(t.m, e, p) = At(st.m, c, p)
    <3>1. e[j + 1] = c[j + 1]
      BY <1>3, <2>4
    <3>2. t.m.data = st.m.data
      BY <1>2, <1>6
    <3> HIDE DEF p
    <3> QED
      BY <3>1, <3>2 DEF At
  <2> QED
    BY <2>1, <2>2, <2>5
<1>14. Done(t) <= Len(e) * DBUFSIZ
  <2>1. (Len(c) + 1) * DBUFSIZ = Len(c) * DBUFSIZ + DBUFSIZ /\ Len(c) * DBUFSIZ \in Nat
    BY <1>1, Times
  <2> QED
    BY <1>1, <1>3, <1>11, <2>1
<1>15. Partly(t, e, O, m, s)
  BY <1>1, <1>6, <1>7, <1>8, <1>9, <1>10, <1>12, <1>13, <1>14 DEF Partly
<1>16. Ready(t, e)
  BY <1>10, <1>11 DEF Ready
<1> QED
  BY <1>15, <1>16 DEF t, e

(* The bytes go into the last block.                                       *)
Filled(st, b, k) ==
  [i \in 0..DBUFSIZ-1 |-> IF i \in st.off..st.off+k-1 THEN st.rest[i-st.off+1]
                          ELSE st.m.data[b][i]]
Fill(st, b, k) ==
  [st EXCEPT !.m.data[b] = Filled(st, b, k), !.off = 0,
             !.h = [at |-> "next", of |-> b],
             !.rest = SubSeq(@, k + 1, Len(@))]

LEMMA FillIs ==
  ASSUME DBufAssumption, NEW st \in PutState, NEW b \in Block, NEW k \in 1..Len(st.rest),
         k <= DBUFSIZ - st.off
  PROVE  LET t == Fill(st, b, k) IN
         /\ t \in PutState /\ t.d = st.d /\ t.failed = st.failed
         /\ t.m.next = st.m.next /\ t.m.freelist = st.m.freelist
         /\ t.m.dbufalloc = st.m.dbufalloc /\ t.m.dbufblocks = st.m.dbufblocks
         /\ \A x \in Block : t.m.data[x] = IF x = b THEN Filled(st, b, k) ELSE st.m.data[x]
         /\ t.off = 0 /\ t.h.at = "next" /\ t.h.of = b
         /\ Len(t.rest) = Len(st.rest) - k
         /\ \A i \in 1..Len(st.rest) - k : t.rest[i] = st.rest[i + k]
<1>1. /\ st.rest \in Seq(Byte) /\ Len(st.rest) \in Nat /\ st.off \in 0..DBUFSIZ-1
      /\ st.m \in Mem /\ DBUFSIZ \in Nat \ {0}
  BY LenProperties DEF PutState, DBufAssumption
<1>2. Filled(st, b, k) \in [0..DBUFSIZ-1 -> Byte]
  <2> SUFFICES ASSUME NEW i \in 0..DBUFSIZ-1
               PROVE  (IF i \in st.off..st.off+k-1 THEN st.rest[i-st.off+1]
                       ELSE st.m.data[b][i]) \in Byte
    BY DEF Filled
  <2>1. CASE i \in st.off..st.off+k-1
    <3>1. i - st.off + 1 \in 1..Len(st.rest)
      BY <1>1, <2>1
    <3>2. st.rest[i - st.off + 1] \in Byte
      BY <1>1, <3>1, ElementOfSeq
    <3> QED
      BY <2>1, <3>2
  <2>2. CASE i \notin st.off..st.off+k-1
    BY <1>1, <2>2 DEF Mem
  <2> QED
    BY <2>1, <2>2
<1> DEFINE r == SubSeq(st.rest, k + 1, Len(st.rest))
           f == Filled(st, b, k)
           m1 == [st.m EXCEPT !.data[b] = f]
<1>3. /\ r \in Seq(Byte) /\ Len(r) = Len(st.rest) - k
      /\ \A i \in 1..Len(st.rest) - k : r[i] = st.rest[i + k]
  <2>1. k + 1 \in 1..Len(st.rest) + 1 /\ Len(st.rest) \in Nat
    BY <1>1
  <2>2. r = [i \in 1..Len(st.rest) - k |-> st.rest[i + k]]
    BY <1>1, <2>1
  <2>3. \A i \in 1..Len(st.rest) - k : i + k \in 1..Len(st.rest)
    BY <1>1
  <2>4. \A i \in 1..Len(st.rest) - k : st.rest[i + k] \in Byte
    BY <1>1, <2>3, ElementOfSeq
  <2>5. Len(st.rest) - k \in Nat
    BY <1>1
  <2> DEFINE l == Len(st.rest) - k
  <2> HIDE DEF r, l
  <2>6. r \in [1..l -> Byte] /\ l \in Nat
    BY <2>2, <2>4, <2>5 DEF l
  <2>7. r \in Seq(Byte) /\ Len(r) = l
    BY ONLY <2>6
  <2> QED
    BY <2>2, <2>7 DEF l
<1> HIDE DEF f, r
<1>4. /\ m1 \in Mem /\ m1.next = st.m.next /\ m1.freelist = st.m.freelist
      /\ m1.dbufalloc = st.m.dbufalloc /\ m1.dbufblocks = st.m.dbufblocks
      /\ \A x \in Block : m1.data[x] = IF x = b THEN f ELSE st.m.data[x]
  BY <1>1, <1>2 DEF Mem, f
<1>5. b \in 0..Pool
  BY DEF Block, DBufAssumption
<1>6. Fill(st, b, k) = [st EXCEPT !.m = m1, !.off = 0, !.h = [at |-> "next", of |-> b],
                                  !.rest = r]
  BY DEF Fill, PutState, f, r
<1> DEFINE h == [at |-> "next", of |-> b]
<1>7. h \in [at : {"head", "tail", "next"}, of : 0..Pool] /\ h.at = "next" /\ h.of = b
  BY <1>5
<1> DEFINE t == Fill(st, b, k)
<1>8. t = [st EXCEPT !.m = m1, !.off = 0, !.h = h, !.rest = r]
  BY <1>6
<1>9. 0 \in 0..DBUFSIZ-1
  BY <1>1
<1> HIDE DEF m1, h, t
<1>10. /\ t \in PutState /\ t.d = st.d /\ t.failed = st.failed /\ t.m = m1 /\ t.off = 0
       /\ t.h = h /\ t.rest = r
  BY <1>3, <1>4, <1>7, <1>8, <1>9 DEF PutState
<1> QED
  BY <1>3, <1>4, <1>7, <1>10 DEF t, f

LEMMA FillReady ==
  ASSUME DBufAssumption, NEW st, NEW c, NEW O, NEW m, NEW s \in Seq(Byte),
         Partly(st, c, O, m, s), Ready(st, c), st.rest # << >>, NEW k,
         k = Least(DBUFSIZ - st.off, Len(st.rest))
  PROVE  LET t == Fill(st, c[Len(c)], k) IN
         /\ Partly(t, c, O, m, s) /\ Fits(Len(c), Done(t))
         /\ t.rest # << >> => Points(t, c)
         /\ Len(t.rest) < Len(st.rest)
<1> DEFINE b == c[Len(c)]
           t == Fill(st, b, k)
           D == DBUFSIZ
           a == Len(c) - 1
<1>1. /\ st \in PutState /\ st.failed = FALSE /\ Owns(st.m, c, O)
      /\ Linked(st.m, st.d.head, c) /\ Same(m, st.m, O) /\ c \in Seq(Block)
      /\ IsInjective(c) /\ Range(c) \cap O = {} /\ c # << >>
  BY DEF Partly, Owns, Ready
<1>2. /\ Len(c) \in Nat \ {0} /\ D \in Nat \ {0} /\ a \in Nat /\ DOMAIN c = 1..Len(c)
      /\ Len(c) \in 1..Len(c) /\ b \in Block /\ b \in Range(c)
  <2>1. Len(c) \in Nat \ {0} /\ DOMAIN c = 1..Len(c)
    BY <1>1, EmptySeq, LenProperties
  <2>2. Len(c) \in 1..Len(c) /\ a \in Nat
    BY <2>1
  <2> QED
    BY <1>1, <2>1, <2>2, ElementOfSeq DEF Range, DBufAssumption
<1>3. /\ st.rest \in Seq(Byte) /\ Len(st.rest) \in Nat \ {0} /\ st.off \in 0..D-1
      /\ st.d.offset \in Nat /\ Len(s) \in Nat
  <2>1. st.rest \in Seq(Byte) /\ st.off \in 0..D-1 /\ st.d.offset \in Nat
    BY <1>1 DEF PutState, Desc
  <2> QED
    BY <2>1, EmptySeq, LenProperties
<1>4. k \in 1..Len(st.rest) /\ k <= D - st.off /\ (k = D - st.off \/ k = Len(st.rest))
  BY <1>2, <1>3 DEF Least
<1>5. /\ t \in PutState /\ t.d = st.d /\ t.failed = st.failed
      /\ t.m.next = st.m.next /\ t.m.freelist = st.m.freelist
      /\ t.m.dbufalloc = st.m.dbufalloc /\ t.m.dbufblocks = st.m.dbufblocks
      /\ \A x \in Block : t.m.data[x] = IF x = b THEN Filled(st, b, k) ELSE st.m.data[x]
      /\ t.off = 0 /\ t.h.at = "next" /\ t.h.of = b
      /\ Len(t.rest) = Len(st.rest) - k
      /\ \A i \in 1..Len(st.rest) - k : t.rest[i] = st.rest[i + k]
  <2>1. st \in PutState /\ b \in Block /\ k \in 1..Len(st.rest) /\ k <= DBUFSIZ - st.off
    BY <1>1, <1>2, <1>4
  <2> HIDE DEF b
  <2> QED
    BY ONLY DBufAssumption, <2>1, FillIs
<1>6. /\ st.d.length = Len(s) /\ Len(st.rest) <= Len(s)
      /\ \A i \in 1..Len(st.rest) : st.rest[i] = s[Len(s) - Len(st.rest) + i]
      /\ \A j \in 1..Len(s) - Len(st.rest) : At(st.m, c, st.d.offset + j - 1) = s[j]
      /\ a * D + st.off = Done(st)
  BY DEF Partly, Ready
<1> HIDE DEF t, b
<1>7. Done(t) = Done(st) + k /\ Done(st) = st.d.offset + Len(s) - Len(st.rest)
  BY <1>3, <1>4, <1>5, <1>6 DEF Done
<1>8. a * D \in Nat /\ Len(c) * D = a * D + D
  <2>1. a + 1 = Len(c)
    BY <1>2
  <2>2. (a + 1) * D = a * D + D /\ a * D \in Nat
    BY <1>2, Times
  <2> QED
    BY <2>1, <2>2
<1> HIDE DEF a
<1>9. a * D < Done(t) /\ Done(t) <= Len(c) * D
  <2>1. /\ a * D + st.off = Done(st) /\ Done(t) = Done(st) + k /\ a * D \in Nat
        /\ Len(c) * D = a * D + D /\ k \in Nat \ {0} /\ k <= D - st.off
        /\ st.off \in Nat /\ D \in Nat
    BY <1>2, <1>3, <1>4, <1>6, <1>7, <1>8
  <2> DEFINE x == a * D
             y == Len(c) * D
  <2> HIDE DEF x, y
  <2>2. x + st.off = Done(st) /\ Done(t) = Done(st) + k /\ x \in Nat /\ y = x + D
    BY <2>1 DEF x, y
  <2>3. x < Done(t) /\ Done(t) <= y
    BY ONLY <2>1, <2>2
  <2> QED
    BY <2>3 DEF x, y
<1>10. Fits(Len(c), Done(t))
  BY <1>9 DEF Fits, a
<1>11. t.rest # << >> => Points(t, c)
  <2>1. SUFFICES ASSUME t.rest # << >> PROVE Points(t, c)
    OBVIOUS
  <2>2. Len(t.rest) # 0
    <3>1. t.rest \in Seq(Byte)
      BY <1>5 DEF PutState
    <3> QED
      BY <2>1, <3>1, EmptySeq
  <2>3. k = D - st.off
    BY <1>3, <1>4, <1>5, <2>2
  <2>4. Len(c) * D = Done(t)
    BY <1>2, <1>3, <1>6, <1>7, <1>8, <2>3
  <2> QED
    BY <1>1, <1>5, <2>4 DEF Points, b
<1>12. Owns(t.m, c, O)
  <2>1. t.m \in Mem
    BY <1>5 DEF PutState
  <2> QED
    BY <1>1, <1>5, <2>1 DEF Owns
<1>13. Linked(t.m, t.d.head, c)
  BY <1>1, <1>5 DEF Linked
<1>14. Same(m, t.m, O)
  <2>1. \A x \in O : x \in Block /\ x # b
    <3>1. O \subseteq Block
      <4>1. st.m.dbufblocks \in 0..Pool /\ Pool \in Nat /\ O \subseteq 1..st.m.dbufblocks
        BY <1>1 DEF Owns, Mem, DBufAssumption
      <4> QED
        BY ONLY <4>1 DEF Block
    <3> QED
      BY <1>1, <1>2, <3>1
  <2> QED
    BY <1>1, <1>5, <2>1 DEF Same
<1>15. t.d.tail = c[Len(c)]
  BY <1>1, <1>5 DEF Partly
<1>16. ASSUME NEW i \in 1..Len(t.rest)
       PROVE  t.rest[i] = s[Len(s) - Len(t.rest) + i]
  <2>1. i \in 1..Len(st.rest) - k /\ i + k \in 1..Len(st.rest)
    BY <1>3, <1>4, <1>5
  <2>2. t.rest[i] = s[Len(s) - Len(st.rest) + (i + k)]
    BY <1>5, <1>6, <2>1
  <2>3. Len(s) - Len(st.rest) + (i + k) = Len(s) - Len(t.rest) + i
    BY <1>3, <1>4, <1>5, <2>1
  <2> QED
    BY <2>2, <2>3
<1>17. ASSUME NEW j \in 1..Len(s) - Len(t.rest)
       PROVE  At(t.m, c, t.d.offset + j - 1) = s[j]
  <2> DEFINE p == st.d.offset + j - 1
             u == p \div D
             r == p % D
  <2>1. /\ p \in Nat /\ p < Done(t) /\ t.d.offset + j - 1 = p
        /\ p < Done(st) => j \in 1..Len(s) - Len(st.rest)
        /\ j \in Nat /\ p = st.d.offset + j - 1
    BY <1>3, <1>4, <1>5, <1>6, <1>7, SMTT(20)
  <2> HIDE DEF p
  <2>2. u \in Nat /\ r \in 0..D-1 /\ p = u * D + r
    BY <1>2, <2>1, Division
  <2>3. p < Len(c) * D
    BY <1>2, <1>3, <1>4, <1>7, <1>8, <1>9, <2>1, SMTT(20)
  <2>4. u + 1 \in 1..Len(c)
    BY <1>1, <2>1, <2>3, AtIs
  <2>5. At(t.m, c, p) = t.m.data[c[u+1]][r] /\ At(st.m, c, p) = st.m.data[c[u+1]][r]
    BY DEF At
  <2> HIDE DEF u, r
  <2>6. c[u+1] \in Block
    BY <1>1, <1>2, <2>4, ElementOfSeq
  <2>7. CASE u # a
    <3>1. c[u+1] # b
      <4>1. u + 1 # Len(c)
        <5>1. a + 1 = Len(c) /\ a \in Nat
          BY <1>2 DEF a
        <5> QED
          BY <2>2, <2>7, <5>1
      <4> QED
        BY <1>1, <1>2, <2>4, <4>1 DEF IsInjective, b
    <3>2. At(t.m, c, p) = At(st.m, c, p)
      BY <1>5, <2>5, <2>6, <3>1
    <3>3. p < Done(st)
      <4>1. u + 1 <= a /\ u + 1 \in Nat
        <5>1. a + 1 = Len(c) /\ a \in Nat
          BY <1>2 DEF a
        <5> QED
          BY <2>2, <2>4, <2>7, <5>1
      <4>2. (u + 1) * D = u * D + D
        BY <1>2, <2>2, Times
      <4>3. (u + 1) * D <= a * D
        BY <1>2, <4>1
      <4> DEFINE x == a * D
                 y == u * D
      <4> HIDE DEF x, y
      <4>4. y + D <= x
        BY <4>2, <4>3 DEF x, y
      <4>5. p = y + r /\ r \in 0..D-1 /\ st.off \in Nat /\ D \in Nat
        BY <1>2, <1>3, <2>2 DEF y
      <4>6. x + st.off = Done(st) /\ x \in Nat
        BY <1>6, <1>8 DEF x
      <4>7. y \in Int
        BY <1>2, <2>2 DEF y
      <4> QED
        BY ONLY <4>4, <4>5, <4>6, <4>7
    <3> QED
      BY <1>6, <2>1, <3>2, <3>3
  <2>8. CASE u = a
    <3>1. c[u+1] = b
      BY <1>2, <2>8 DEF a, b
    <3>2. At(t.m, c, p) = Filled(st, b, k)[r] /\ At(st.m, c, p) = st.m.data[b][r]
      BY <1>5, <2>5, <2>6, <3>1
    <3>3. Filled(st, b, k)[r] = IF r \in st.off..st.off+k-1 THEN st.rest[r-st.off+1]
                                ELSE st.m.data[b][r]
      BY <2>2 DEF Filled
    <3>4. p = a * D + r
      BY <2>2, <2>8
    <3>5. CASE r < st.off
      <4>1. p < Done(st) /\ r \notin st.off..st.off+k-1
        BY <1>2, <1>3, <1>6, <1>8, <2>2, <3>4, <3>5
      <4> QED
        BY <1>6, <2>1, <3>2, <3>3, <4>1
    <3>6. CASE ~(r < st.off)
      <4>1. r \in st.off..st.off+k-1 /\ r - st.off + 1 \in 1..Len(st.rest)
            /\ Len(s) - Len(st.rest) + (r - st.off + 1) = j
        <5>1. p < a * D + st.off + k /\ a * D + st.off = st.d.offset + Len(s) - Len(st.rest)
          BY <1>6, <1>7, <2>1
        <5>2. r < st.off + k
          BY <1>3, <1>4, <1>8, <2>2, <3>4, <5>1
        <5> DEFINE x == a * D
        <5> HIDE DEF x
        <5>3. /\ p = x + r /\ x + st.off = st.d.offset + Len(s) - Len(st.rest)
              /\ p = st.d.offset + j - 1 /\ x \in Nat /\ r \in Nat /\ st.off \in Nat
              /\ j \in Nat /\ Len(s) \in Nat /\ Len(st.rest) \in Nat /\ st.d.offset \in Nat
          BY <1>3, <1>8, <2>1, <2>2, <3>4, <5>1 DEF x
        <5>4. k \in Nat /\ k <= Len(st.rest)
          BY <1>3, <1>4
        <5>5. PICK e \in Nat, f \in Nat, g \in Nat, h \in Nat :
                e = Len(s) /\ f = Len(st.rest) /\ g = st.d.offset /\ h = st.off
          BY <5>3
        <5>6. /\ p = x + r /\ x + h = g + e - f /\ p = g + j - 1 /\ k <= f
              /\ r < h + k /\ ~(r < h)
          BY <3>6, <5>2, <5>3, <5>4, <5>5
        <5>7. x \in Nat /\ r \in Nat /\ j \in Nat /\ k \in Nat
          BY <5>3, <5>4
        <5>8. e - f + (r - h + 1) = j /\ r - h + 1 \in 1..f /\ r \in h..h+k-1
          BY ONLY <5>6, <5>7, e \in Nat, f \in Nat, g \in Nat, h \in Nat
        <5> QED
          BY <5>5, <5>8
      <4>2. st.rest[r - st.off + 1] = s[j]
        BY <1>6, <4>1
      <4> QED
        BY <2>1, <3>2, <3>3, <4>1, <4>2
    <3> QED
      BY <3>5, <3>6
  <2> QED
    BY <2>7, <2>8
<1>18. Len(t.rest) < Len(st.rest) /\ Len(t.rest) <= Len(s)
  BY <1>3, <1>4, <1>5, <1>6
<1>19. Partly(t, c, O, m, s)
  BY <1>1, <1>5, <1>6, <1>9, <1>12, <1>13, <1>14, <1>15, <1>16, <1>17, <1>18 DEF Partly
<1> QED
  BY <1>10, <1>11, <1>18, <1>19 DEF t, b

----------------------------------------------------------------------------
(* dbuf_malloc_error: the blocks of the queue go back to the pool.         *)
LEMMA ReverseOf ==
  ASSUME NEW S, NEW c \in Seq(S), IsInjective(c)
  PROVE  /\ Reverse(c) \in Seq(S) /\ Len(Reverse(c)) = Len(c)
         /\ IsInjective(Reverse(c)) /\ Range(Reverse(c)) = Range(c)
<1> DEFINE r == Reverse(c)
           l == Len(c)
<1>1. l \in Nat /\ DOMAIN c = 1..l /\ \A i \in 1..l : c[i] \in S
  BY LenProperties, ElementOfSeq
<1>2. r = [i \in 1..l |-> c[(l - i) + 1]]
  BY DEF Reverse
<1> HIDE DEF r, l
<1>3. \A i \in 1..l : l - i + 1 \in 1..l /\ l - (l - i + 1) + 1 = i
  BY <1>1
<1>4. r \in [1..l -> S]
  BY <1>1, <1>2, <1>3
<1>5. r \in Seq(S) /\ Len(r) = l /\ DOMAIN r = 1..l
  BY <1>1, <1>4
<1>6. ASSUME NEW i \in 1..l, NEW j \in 1..l, r[i] = r[j] PROVE i = j
  <2>1. c[l - i + 1] = c[l - j + 1]
    BY <1>2, <1>6
  <2>2. l - i + 1 = l - j + 1
    BY <1>1, <1>3, <2>1 DEF IsInjective
  <2> QED
    BY <1>1, <2>2
<1>7. \A x : x \in Range(r) <=> x \in Range(c)
  <2>1. ASSUME NEW x, x \in Range(r) PROVE x \in Range(c)
    <3>1. PICK i \in 1..l : x = r[i]
      BY <1>5, <2>1 DEF Range
    <3> QED
      BY <1>1, <1>2, <1>3, <3>1 DEF Range
  <2>2. ASSUME NEW x, x \in Range(c) PROVE x \in Range(r)
    <3>1. PICK i \in 1..l : x = c[i]
      BY <1>1, <2>2 DEF Range
    <3>2. r[l - i + 1] = c[i] /\ l - i + 1 \in 1..l
      BY <1>2, <1>3
    <3> QED
      BY <1>5, <3>1, <3>2 DEF Range
  <2> QED
    BY <2>1, <2>2
<1>8. Range(r) = Range(c)
  BY <1>7
<1>9. IsInjective(r)
  BY <1>5, <1>6 DEF IsInjective
<1> QED
  BY <1>5, <1>8, <1>9 DEF r, l

LEMMA JoinOf ==
  ASSUME NEW S, NEW a \in Seq(S), NEW b \in Seq(S), IsInjective(a), IsInjective(b),
         Range(a) \cap Range(b) = {}
  PROVE  /\ a \o b \in Seq(S) /\ Len(a \o b) = Len(a) + Len(b)
         /\ IsInjective(a \o b) /\ Range(a \o b) = Range(a) \cup Range(b)
<1> DEFINE t == a \o b
           l == Len(a)
           n == Len(b)
<1>1. /\ t \in Seq(S) /\ Len(t) = l + n
      /\ \A i \in 1..l + n : t[i] = IF i <= l THEN a[i] ELSE b[i - l]
  BY ConcatProperties
<1>2. l \in Nat /\ n \in Nat /\ DOMAIN a = 1..l /\ DOMAIN b = 1..n
  BY LenProperties
<1>3. DOMAIN t = 1..l + n
  BY <1>1, LenProperties
<1> HIDE DEF t, l, n
<1>4. \A i \in DOMAIN t : \/ i \in DOMAIN a /\ t[i] = a[i]
                          \/ i - l \in DOMAIN b /\ t[i] = b[i - l] /\ i > l
  BY <1>1, <1>2, <1>3
<1>5. ASSUME NEW i \in DOMAIN t, NEW j \in DOMAIN t, t[i] = t[j] PROVE i = j
  <2>1. CASE i \in DOMAIN a /\ t[i] = a[i]
    <3>1. j \in DOMAIN a /\ t[j] = a[j]
      BY <1>4, <1>5, <2>1 DEF Range
    <3> QED
      BY <1>5, <2>1, <3>1 DEF IsInjective
  <2>2. CASE i - l \in DOMAIN b /\ t[i] = b[i - l]
    <3>1. j - l \in DOMAIN b /\ t[j] = b[j - l]
      BY <1>4, <1>5, <2>2 DEF Range
    <3>2. i - l = j - l
      BY <1>5, <2>2, <3>1 DEF IsInjective
    <3>3. i \in Int /\ j \in Int /\ l \in Int
      BY <1>2, <1>3
    <3> QED
      BY ONLY <3>2, <3>3
  <2> QED
    BY <1>4, <2>1, <2>2
<1>6. \A x : x \in Range(t) <=> x \in Range(a) \/ x \in Range(b)
  <2>1. ASSUME NEW x, x \in Range(t) PROVE x \in Range(a) \/ x \in Range(b)
    BY <1>4, <2>1 DEF Range
  <2>2. ASSUME NEW x, x \in Range(a) PROVE x \in Range(t)
    <3>1. PICK i \in 1..l : x = a[i]
      BY <1>2, <2>2 DEF Range
    <3>2. i \in 1..l + n /\ i <= l
      BY <1>2
    <3> QED
      BY <1>1, <1>3, <3>1, <3>2 DEF Range
  <2>3. ASSUME NEW x, x \in Range(b) PROVE x \in Range(t)
    <3>1. PICK i \in 1..n : x = b[i]
      BY <1>2, <2>3 DEF Range
    <3>2. i + l \in 1..l + n /\ ~(i + l <= l) /\ (i + l) - l = i
      BY <1>2
    <3>3. t[i + l] = b[i]
      BY <1>1, <3>2
    <3> QED
      BY <1>3, <3>1, <3>2, <3>3 DEF Range
  <2> QED
    BY <2>1, <2>2, <2>3
<1>7. Range(t) = Range(a) \cup Range(b)
  BY <1>6
<1>8. IsInjective(t)
  BY <1>5 DEF IsInjective
<1> QED
  BY <1>1, <1>7, <1>8 DEF t, l, n

(* What a failed put leaves.                                               *)
Scrapped(t, O, m) ==
  /\ t.d = Empty /\ t.rest = << >> /\ t.failed = TRUE
  /\ Owns(t.m, << >>, O) /\ Same(m, t.m, O)

LEMMA MallocErrorIs ==
  ASSUME DBufAssumption, NEW st, NEW c, NEW O, NEW m, NEW s, Partly(st, c, O, m, s)
  PROVE  Scrapped(MallocError(st), O, m)
<1> DEFINE n == st.m
           f == n.freelist
           g == Reverse(c) \o f
           m1 == [n EXCEPT !.freelist = g, !.dbufalloc = n.dbufalloc - Len(c)]
           t == MallocError(st)
<1>1. /\ st \in PutState /\ Owns(n, c, O) /\ Linked(n, st.d.head, c) /\ Same(m, n, O)
      /\ c \in Seq(Block) /\ IsInjective(c) /\ f \in Seq(Block) /\ IsInjective(f)
      /\ n \in Mem /\ n.dbufalloc \in Int /\ Range(c) \cap Range(f) = {}
  BY DEF Partly, Owns, Mem
<1>2. Chain(n, st.d.head) = c
  BY <1>1, ChainIs
<1>3. /\ Reverse(c) \in Seq(Block) /\ Len(Reverse(c)) = Len(c)
      /\ IsInjective(Reverse(c)) /\ Range(Reverse(c)) = Range(c)
      /\ Len(c) \in Nat /\ Len(f) \in Nat
  BY <1>1, ReverseOf, LenProperties
<1>4. /\ g \in Seq(Block) /\ Len(g) = Len(c) + Len(f) /\ IsInjective(g)
      /\ Range(g) = Range(c) \cup Range(f)
  BY <1>1, <1>3, JoinOf, SMTT(20)
<1> HIDE DEF g
<1>5. /\ m1 \in Mem /\ m1.next = n.next /\ m1.data = n.data /\ m1.freelist = g
      /\ m1.dbufalloc = n.dbufalloc - Len(c) /\ m1.dbufblocks = n.dbufblocks
  <2>1. n.dbufalloc - Len(c) \in Int
    BY <1>1, <1>3
  <2> QED
    BY <1>1, <1>4, <2>1 DEF Mem
<1>6. t = [st EXCEPT !.d = Empty, !.rest = << >>, !.failed = TRUE, !.m = m1]
  BY <1>2 DEF MallocError, g
<1> HIDE DEF m1, t
<1>7. t.d = Empty /\ t.rest = << >> /\ t.failed = TRUE /\ t.m = m1
  BY <1>1, <1>6 DEF PutState
<1>8. Owns(m1, << >>, O)
  <2>1. << >> \in Seq(Block) /\ IsInjective(<< >>) /\ Range(<< >>) = {}
    BY DEF IsInjective, Range
  <2>2. m1.dbufalloc = m1.dbufblocks - Len(m1.freelist)
    <3>1. n.dbufalloc = n.dbufblocks - Len(f) /\ n.dbufblocks \in Int
      BY <1>1 DEF Owns, Mem
    <3>2. PICK i \in Int, j \in Nat, k \in Nat :
            i = n.dbufblocks /\ j = Len(f) /\ k = Len(c)
      BY <1>3, <3>1
    <3>3. (i - j) - k = i - (k + j)
      BY ONLY i \in Int, j \in Nat, k \in Nat
    <3> QED
      BY <1>4, <1>5, <3>1, <3>2, <3>3
  <2> QED
    BY <1>1, <1>4, <1>5, <2>1, <2>2 DEF Owns
<1>9. Same(m, m1, O)
  BY <1>1, <1>5 DEF Same
<1> QED
  BY <1>7, <1>8, <1>9 DEF Scrapped, t

----------------------------------------------------------------------------
(* One round of dbuf_put: into the block where h points, or into a new one.*)
Filling(st, c, O, m, s) ==
  /\ Partly(st, c, O, m, s) /\ Fits(Len(c), Done(st))
  /\ st.rest # << >> => Points(st, c)

LEMMA DerefIs ==
  ASSUME DBufAssumption, NEW st, NEW c, NEW O, NEW m, NEW s,
         Partly(st, c, O, m, s), Points(st, c)
  PROVE  /\ st.h.at # "tail" => Deref(st) = NULL
         /\ st.h.at = "tail" => c # << >> /\ Deref(st) = c[Len(c)] /\ Deref(st) # NULL
<1>1. /\ Linked(st.m, st.d.head, c) /\ c \in Seq(Block) /\ st \in PutState
      /\ c # << >> => st.d.tail = c[Len(c)]
  BY DEF Partly, Owns
<1>2. c # << >> => Len(c) \in 1..Len(c) /\ c[Len(c)] \in Block
  <2>1. SUFFICES ASSUME c # << >> PROVE Len(c) \in 1..Len(c) /\ c[Len(c)] \in Block
    OBVIOUS
  <2>2. Len(c) \in 1..Len(c)
    BY <1>1, <2>1, EmptySeq, LenProperties
  <2> QED
    BY <1>1, <2>2, ElementOfSeq
<1>3. CASE st.h.at = "head"
  <2>1. c = << >>
    BY <1>3 DEF Points
  <2>2. Deref(st) = st.d.head /\ st.d.head = NULL
    BY <1>1, <1>3, <2>1 DEF Deref, Linked
  <2> QED
    BY <1>3, <2>2
<1>4. CASE st.h.at = "tail"
  <2>1. c # << >>
    BY <1>4 DEF Points
  <2>2. Deref(st) = c[Len(c)] /\ c[Len(c)] \in Block
    BY <1>1, <1>2, <1>4, <2>1 DEF Deref
  <2> QED
    BY <1>4, <2>1, <2>2 DEF Block, NULL
<1>5. CASE st.h.at = "next"
  <2>1. c # << >> /\ st.h.of = c[Len(c)]
    BY <1>5 DEF Points
  <2>2. Deref(st) = st.m.next[c[Len(c)]]
    BY <1>5, <2>1 DEF Deref
  <2>3. st.m.next[c[Len(c)]] = NULL
    BY <1>1, <1>2, <2>1 DEF Linked
  <2> QED
    BY <1>5, <2>2, <2>3
<1> QED
  BY <1>3, <1>4, <1>5 DEF Points

LEMMA PutRound ==
  ASSUME DBufAssumption, NEW st, NEW c, NEW O, NEW m, NEW s \in Seq(Byte),
         Filling(st, c, O, m, s), st.rest # << >>
  PROVE  \/ Scrapped(PutChunk(st), O, m)
         \/ \E c2 : /\ Filling(PutChunk(st), c2, O, m, s)
                    /\ Len(PutChunk(st).rest) < Len(st.rest)
<1> DEFINE a == Alloc(st.m)
           k == Least(DBUFSIZ - st.off, Len(st.rest))
<1>1. Partly(st, c, O, m, s) /\ Points(st, c) /\ Owns(st.m, c, O) /\ st \in PutState
  BY DEF Filling, Partly
<1>2. a.block = NULL \/ Gets(a, st.m, c, O)
  BY <1>1, AllocIs
<1>3. /\ st.h.at # "tail" => Deref(st) = NULL
      /\ st.h.at = "tail" => c # << >> /\ Deref(st) = c[Len(c)] /\ Deref(st) # NULL
  BY <1>1, DerefIs
<1> HIDE DEF a, k
<1>4. CASE st.h.at = "tail"
  <2> DEFINE b == c[Len(c)]
  <2>1. Deref(st) # NULL /\ Deref(st) = b /\ c # << >>
    BY <1>3, <1>4
  <2>2. Ready(st, c)
    BY <1>1, <1>4, <2>1 DEF Points, Ready
  <2> HIDE DEF b
  <2>3. PutChunk(st) = Fill(st, b, k)
    BY <2>1 DEF PutChunk, Fill, Filled, k
  <2>4. /\ Partly(Fill(st, b, k), c, O, m, s) /\ Fits(Len(c), Done(Fill(st, b, k)))
        /\ Fill(st, b, k).rest # << >> => Points(Fill(st, b, k), c)
        /\ Len(Fill(st, b, k).rest) < Len(st.rest)
    BY <1>1, <2>2, FillReady DEF k, b
  <2> QED
    BY <2>3, <2>4 DEF Filling
<1>5. CASE st.h.at # "tail" /\ a.block = NULL
  <2>1. PutChunk(st) = MallocError(st)
    BY <1>3, <1>5 DEF PutChunk, a
  <2> QED
    BY <1>1, <2>1, MallocErrorIs
<1>6. CASE st.h.at # "tail" /\ a.block # NULL
  <2> DEFINE g == Grow(st, a.block, a.mem)
             e == Append(c, a.block)
             b == a.block
  <2>1. Gets(a, st.m, c, O)
    BY <1>2, <1>6
  <2>2. Partly(g, e, O, m, s) /\ Ready(g, e)
    BY <1>1, <1>6, <2>1, GrowReady
  <2>3. g.off = st.off /\ g.rest = st.rest /\ g.m.data = st.m.data
    <3>1. st.h.at = "head" \/ st.h.of \in Block
      <4>1. SUFFICES ASSUME st.h.at # "head" PROVE st.h.of \in Block
        OBVIOUS
      <4>2. c # << >> /\ st.h.of = c[Len(c)] /\ c \in Seq(Block)
        BY <1>1, <1>6, <4>1 DEF Points, Owns
      <4>3. Len(c) \in 1..Len(c)
        BY <4>2, EmptySeq, LenProperties
      <4> QED
        BY <4>2, <4>3, ElementOfSeq
    <3>2. b \in Block /\ a.mem \in Mem /\ a.mem.data = st.m.data
      BY <2>1 DEF Gets
    <3> QED
      BY <1>1, <3>1, <3>2, GrowIs
  <2>4. e[Len(e)] = b
    BY <1>1, <2>1, AppendOf DEF Owns, Gets
  <2> HIDE DEF g, e, b
  <2>5. PutChunk(st) = Fill(g, b, k)
    <3> DEFINE f == [i \in 0..DBUFSIZ-1 |->
                       IF i \in st.off..st.off+k-1 THEN st.rest[i-st.off+1]
                       ELSE st.m.data[b][i]]
    <3>1. PutChunk(st) = [g EXCEPT !.m.data[b] = f, !.off = 0,
                                   !.h = [at |-> "next", of |-> b],
                                   !.rest = SubSeq(@, k + 1, Len(@))]
      BY <1>3, <1>6 DEF PutChunk, a, g, b, k
    <3>2. f = Filled(g, b, k)
      BY <2>3 DEF Filled
    <3> HIDE DEF f
    <3> QED
      BY <3>1, <3>2 DEF Fill
  <2>6. g.rest # << >> /\ k = Least(DBUFSIZ - g.off, Len(g.rest))
    BY <2>3 DEF k
  <2>7. /\ Partly(Fill(g, b, k), e, O, m, s) /\ Fits(Len(e), Done(Fill(g, b, k)))
        /\ Fill(g, b, k).rest # << >> => Points(Fill(g, b, k), e)
        /\ Len(Fill(g, b, k).rest) < Len(g.rest)
    BY <2>2, <2>4, <2>6, FillReady
  <2> QED
    BY <2>3, <2>5, <2>7 DEF Filling
<1> QED
  BY <1>4, <1>5, <1>6

(* The function that Putting defines.                                      *)
Puts(x) == IF x.rest = << >> THEN x ELSE PutChunk(x)
PutSteps(f, st, l) == f = [i \in 0..l |-> IF i = 0 THEN st ELSE Puts(f[i-1])]

LEMMA PutStepsExist ==
  ASSUME NEW st, NEW l \in Nat
  PROVE  \E f : PutSteps(f, st, l)
<1> DEFINE Bad == {k \in Nat : ~\E f : PutSteps(f, st, k)}
<1>1. SUFFICES ASSUME Bad # {} PROVE FALSE
  OBVIOUS
<1>2. PICK k \in Bad : \A j \in Bad : k <= j
  BY <1>1, LeastOfNaturals
<1>3. k # 0
  <2> DEFINE f0 == [i \in 0..0 |-> st]
  <2>1. PutSteps(f0, st, 0)
    BY DEF PutSteps
  <2> QED
    BY <2>1
<1>4. PICK g : PutSteps(g, st, k - 1)
  <2>1. k \in Nat /\ k - 1 \in Nat /\ ~(k <= k - 1)
    BY <1>2, <1>3
  <2>2. k - 1 \notin Bad
    BY <1>2, <2>1
  <2> QED
    BY <2>1, <2>2
<1> DEFINE h == [i \in 0..k |-> IF i = k THEN Puts(g[k-1]) ELSE g[i]]
<1>5. \A i \in 0..k : h[i] = IF i = 0 THEN st ELSE Puts(h[i-1])
  <2> SUFFICES ASSUME NEW i \in 0..k
               PROVE  h[i] = IF i = 0 THEN st ELSE Puts(h[i-1])
    OBVIOUS
  <2>1. CASE i = k
    BY <1>2, <1>3, <2>1
  <2>2. CASE i # k
    <3>1. i \in 0..(k-1)
      BY <1>2, <2>2
    <3>2. g[i] = IF i = 0 THEN st ELSE Puts(g[i-1])
      BY <1>4, <3>1 DEF PutSteps
    <3>3. h[i] = g[i] /\ (i # 0 => h[i-1] = g[i-1])
      BY <1>2, <2>2
    <3> QED
      BY <3>2, <3>3
  <2> QED
    BY <2>1, <2>2
<1>6. PutSteps(h, st, k)
  BY <1>5 DEF PutSteps
<1> QED
  BY <1>2, <1>6

LEMMA PuttingIs ==
  ASSUME DBufAssumption, NEW st, NEW c, NEW O, NEW m, NEW s \in Seq(Byte),
         Filling(st, c, O, m, s), NEW l \in Nat, Len(st.rest) <= l
  PROVE  \/ Scrapped(Putting(st, l), O, m)
         \/ \E c2 : Filling(Putting(st, l), c2, O, m, s) /\ Putting(st, l).rest = << >>
<1> DEFINE f == CHOOSE f : PutSteps(f, st, l)
           Fine(i) == \/ Scrapped(f[i], O, m)
                      \/ \E c2 : /\ Filling(f[i], c2, O, m, s)
                                 /\ f[i].rest = << >> \/ Len(f[i].rest) <= l - i
<1>1. PutSteps(f, st, l)
  BY PutStepsExist
<1>2. Putting(st, l) = f[l]
  BY DEF Putting, PutSteps, Puts
<1> HIDE DEF f
<1>3. \A i \in 0..l : f[i] = IF i = 0 THEN st ELSE Puts(f[i-1])
  BY <1>1 DEF PutSteps
<1> DEFINE Bad == {i \in 0..l : ~Fine(i)}
<1>4. Bad = {}
  <2>1. SUFFICES ASSUME Bad # {} PROVE FALSE
    OBVIOUS
  <2>2. PICK i \in Bad : \A j \in Bad : i <= j
    <3>1. Bad \subseteq Nat
      OBVIOUS
    <3> HIDE DEF Bad
    <3> QED
      BY <2>1, <3>1, LeastOfNaturals
  <2>3. i # 0
    <3>1. f[0] = st /\ l - 0 = l
      BY <1>3
    <3>2. Fine(0)
      BY <3>1
    <3> QED
      BY <2>2, <3>2
  <2>4. i \in 1..l /\ i - 1 \in 0..l /\ i - 1 \notin Bad
    BY <2>2, <2>3
  <2>5. Fine(i - 1)
    BY <2>4
  <2>6. f[i] = Puts(f[i-1])
    BY <1>3, <2>3, <2>4
  <2> HIDE DEF Bad
  <2>7. CASE f[i-1].rest = << >>
    <3>1. f[i] = f[i-1]
      BY <2>6, <2>7 DEF Puts
    <3>2. Fine(i)
      BY <2>5, <2>7, <3>1
    <3> QED
      BY <2>2, <3>2 DEF Bad
  <2>8. CASE f[i-1].rest # << >>
    <3>1. f[i] = PutChunk(f[i-1])
      BY <2>6, <2>8 DEF Puts
    <3>2. PICK c1 : Filling(f[i-1], c1, O, m, s) /\ Len(f[i-1].rest) <= l - (i-1)
      BY <2>5, <2>8 DEF Scrapped
    <3>3. \/ Scrapped(f[i], O, m)
          \/ \E c2 : Filling(f[i], c2, O, m, s) /\ Len(f[i].rest) < Len(f[i-1].rest)
      BY <2>8, <3>1, <3>2, PutRound
    <3>4. ASSUME NEW c2, Filling(f[i], c2, O, m, s), Len(f[i].rest) < Len(f[i-1].rest)
          PROVE  Len(f[i].rest) <= l - i
      <4>1. f[i].rest \in Seq(Byte) /\ f[i-1].rest \in Seq(Byte)
        BY <3>2, <3>4 DEF Filling, Partly, PutState
      <4>2. PICK x \in Nat, y \in Nat : x = Len(f[i].rest) /\ y = Len(f[i-1].rest)
        BY <4>1, LenProperties
      <4>3. x < y /\ y <= l - (i - 1)
        BY <3>2, <3>4, <4>2
      <4>4. x <= l - i
        BY ONLY <2>4, <4>3, x \in Nat, y \in Nat, l \in Nat
      <4> QED
        BY <4>2, <4>4
    <3>5. Fine(i)
      BY <3>3, <3>4
    <3> QED
      BY <2>2, <3>5 DEF Bad
  <2> QED
    BY <2>7, <2>8
<1>5. Fine(l)
  BY <1>4
<1>6. CASE Scrapped(f[l], O, m)
  BY <1>2, <1>6
<1>7. ASSUME NEW c2, Filling(f[l], c2, O, m, s), f[l].rest # << >>, Len(f[l].rest) <= l - l
      PROVE  FALSE
  <2>1. f[l].rest \in Seq(Byte)
    BY <1>7 DEF Filling, Partly, PutState
  <2> QED
    BY <1>7, <2>1, EmptySeq, LenProperties
<1> QED
  BY <1>2, <1>5, <1>6, <1>7

(* dbuf_put: where it starts, at h and off.                                *)
Starts(d, h, off) ==
  /\ h \in [at : {"head", "tail", "next"}, of : 0..Pool]
  /\ off = (d.offset + d.length) % DBUFSIZ
  /\ d.length = 0 => h.at = "head"
  /\ d.length > 0 /\ off > 0 => h.at = "tail"
  /\ d.length > 0 /\ ~(off > 0) => h.at = "next" /\ h.of = d.tail
Start(d, m, h, off, buf) ==
  [d |-> [d EXCEPT !.length = d.length + Len(buf)], m |-> m,
   h |-> h, off |-> off, rest |-> buf, failed |-> FALSE]

LEMMA PutIs ==
  ASSUME DBufAssumption, NEW d, NEW m, NEW c, NEW O, Good(d, m, c, O),
         NEW buf \in Seq(Byte), buf # << >>, NEW h, NEW off, Starts(d, h, off),
         NEW t, t = Putting(Start(d, m, h, off, buf), Len(buf))
  PROVE  \E c2 : /\ Good(t.d, t.m, c2, O) /\ Same(m, t.m, O)
                 /\ \/ Stream(t.d, t.m, c2) = Stream(d, m, c) \o buf
                    \/ Stream(t.d, t.m, c2) = << >>
<1> DEFINE s0 == Stream(d, m, c)
           s == s0 \o buf
           d1 == [d EXCEPT !.length = d.length + Len(buf)]
           x == [d |-> d1, m |-> m, h |-> h, off |-> off, rest |-> buf, failed |-> FALSE]
           w == d.offset + d.length
           D == DBUFSIZ
<1>0. /\ h \in [at : {"head", "tail", "next"}, of : 0..Pool]
      /\ off = (d.offset + d.length) % DBUFSIZ
      /\ d.length = 0 => h.at = "head"
      /\ d.length > 0 /\ off > 0 => h.at = "tail"
      /\ d.length > 0 /\ ~(off > 0) => h.at = "next" /\ h.of = d.tail
  BY DEF Starts
<1>1. /\ Held(d, m, c, O) /\ d \in Desc /\ m \in Mem /\ Owns(m, c, O) /\ c \in Seq(Block)
      /\ Linked(m, d.head, c) /\ Fits(Len(c), w) /\ (d.length = 0 => d.offset = 0)
      /\ (c # << >> => d.tail = c[Len(c)]) /\ D \in Nat \ {0}
  BY DEF Good, Held, Owns, DBufAssumption
<1>2. d.length \in Nat /\ d.offset \in 0..D-1 /\ Len(buf) \in Nat /\ Len(c) \in Nat
      /\ w \in Nat
  BY <1>1, LenProperties DEF Desc
<1>3. /\ s0 \in Seq(Byte) /\ Len(s0) = d.length
      /\ \A k \in 1..d.length : s0[k] = At(m, c, d.offset + k - 1)
  BY <1>1, StreamIs
<1> HIDE DEF s0
<1>4. /\ s \in Seq(Byte) /\ Len(s) = d.length + Len(buf)
      /\ \A i \in 1..d.length + Len(buf) : s[i] = IF i <= d.length THEN s0[i]
                                                  ELSE buf[i - d.length]
  <2>1. /\ s \in Seq(Byte) /\ Len(s) = Len(s0) + Len(buf)
        /\ \A i \in 1..Len(s0) + Len(buf) : s[i] = IF i <= Len(s0) THEN s0[i]
                                                  ELSE buf[i - Len(s0)]
    BY ONLY buf \in Seq(Byte), <1>3, ConcatProperties
  <2> HIDE DEF s
  <2> QED
    BY <1>3, <2>1
<1>5. d1 \in Desc /\ d1.length = Len(s) /\ d1.offset = d.offset /\ d1.head = d.head
      /\ d1.tail = d.tail
  <2>1. d.length + Len(buf) \in Nat
    BY <1>2
  <2> QED
    BY <1>1, <1>4, <2>1 DEF Desc
<1> HIDE DEF s, d1
<1>6. off \in 0..D-1 /\ w \div D \in Nat /\ w = (w \div D) * D + off
  BY <1>0, <1>1, <1>2, Division
<1>7. x \in PutState /\ x.d = d1 /\ x.m = m /\ x.h = h /\ x.off = off /\ x.rest = buf
      /\ x.failed = FALSE
  BY <1>0, <1>1, <1>5, <1>6 DEF PutState
<1> HIDE DEF x
<1>8. Done(x) = w
  <2>1. PICK i \in Nat, j \in Nat, k \in Nat : i = d.offset /\ j = d.length /\ k = Len(buf)
    BY <1>2
  <2>2. i + (j + k) - k = i + j
    BY ONLY i \in Nat, j \in Nat, k \in Nat
  <2> QED
    BY <1>4, <1>5, <1>7, <2>1, <2>2 DEF Done
<1>9. Partly(x, c, O, m, s)
  <2>1. Same(m, m, O)
    BY DEF Same
  <2>2. Len(buf) <= Len(s) /\ w <= Len(c) * D
    BY <1>1, <1>2, <1>4 DEF Fits
  <2>3. \A i \in 1..Len(buf) : buf[i] = s[Len(s) - Len(buf) + i]
    <3> SUFFICES ASSUME NEW i \in 1..Len(buf)
                 PROVE  buf[i] = s[Len(s) - Len(buf) + i]
      OBVIOUS
    <3>1. PICK j \in Nat, k \in Nat : j = d.length /\ k = Len(buf)
      BY <1>2
    <3>2. /\ (j + k) - k + i = j + i /\ j + i \in 1..j + k /\ ~(j + i <= j)
          /\ (j + i) - j = i
      <4>1. i \in 1..k
        BY <3>1
      <4> QED
        BY ONLY <4>1, j \in Nat, k \in Nat
    <3>3. s[j + i] = buf[i]
      BY <1>4, <3>1, <3>2
    <3> QED
      BY <1>4, <3>1, <3>2, <3>3
  <2>4. \A k \in 1..Len(s) - Len(buf) : At(m, c, d.offset + k - 1) = s[k]
    <3>1. Len(s) - Len(buf) = d.length
      BY <1>2, <1>4
    <3>2. \A k \in 1..d.length : k \in 1..d.length + Len(buf) /\ k <= d.length
      BY <1>2
    <3>3. \A k \in 1..d.length : s[k] = s0[k]
      BY <1>4, <3>2
    <3> QED
      BY <1>3, <3>1, <3>3
  <2> QED
    BY <1>1, <1>5, <1>7, <1>8, <2>1, <2>2, <2>3, <2>4 DEF Partly
<1>10. Points(x, c)
  <2>1. (Len(c) - 1) * D < w /\ w <= Len(c) * D
    BY <1>1 DEF Fits
  <2>2. c = << >> <=> Len(c) = 0
    BY <1>1, EmptySeq
  <2>3. CASE d.length = 0
    <3>1. w = 0
      BY <1>1, <2>3
    <3>2. Len(c) = 0
      <4>1. SUFFICES ASSUME Len(c) # 0 PROVE FALSE
        OBVIOUS
      <4>2. Len(c) - 1 \in Nat
        BY <1>2, <4>1
      <4>3. (Len(c) - 1) * D \in Nat
        BY <1>1, <4>2, Times
      <4> QED
        BY <2>1, <3>1, <4>3
    <3>3. off = 0
      <4>1. 0 * D + 0 = 0 /\ 0 \in 0..D-1
        BY <1>1
      <4>2. (0 * D + 0) % D = 0
        BY <1>1, <4>1, DivisionIs
      <4> QED
        BY <1>0, <3>1, <4>1, <4>2
    <3> QED
      BY <1>0, <1>7, <1>8, <2>2, <2>3, <3>1, <3>2, <3>3 DEF Points
  <2>4. CASE d.length > 0
    <3>1. Len(c) # 0 /\ c # << >>
      <4>1. w > 0
        BY <1>2, <2>4
      <4>2. 0 * D = 0
        BY <1>1
      <4> QED
        BY <1>2, <2>1, <2>2, <4>1, <4>2
    <3>2. Len(c) - 1 \in Nat /\ (Len(c) - 1) * D = Len(c) * D - D /\ Len(c) * D \in Nat
      <4>1. Len(c) \in Nat /\ D \in Nat \ {0} /\ Len(c) - 1 \in Nat
        BY <1>1, <1>2, <3>1
      <4> QED
        BY ONLY <4>1, Times
    <3> DEFINE a == w \div D
    <3> HIDE DEF a, w
    <3>3. a \in Nat /\ w = a * D + off
      BY <1>6 DEF a
    <3>4. CASE off > 0
      <4>1. a < Len(c)
        <5>1. a * D + off <= Len(c) * D /\ off \in 1..D-1
          BY <1>1, <1>6, <2>1, <3>3, <3>4
        <5>2. off - 1 \in 0..D-1 /\ a * D + (off - 1) < Len(c) * D
          <6>1. PICK y \in Int, z \in Int : y = a * D /\ z = Len(c) * D
            BY <1>1, <1>2, <3>3
          <6> QED
            BY <1>1, <5>1, <6>1
        <5> QED
          BY <1>1, <1>2, <3>3, <5>2, Before
      <4>2. Len(c) - 1 <= a
        <5>1. SUFFICES ASSUME ~(Len(c) - 1 <= a) PROVE FALSE
          OBVIOUS
        <5>2. a + 1 <= Len(c) - 1 /\ a + 1 \in Nat
          BY <3>2, <3>3, <5>1
        <5>3. (a + 1) * D <= (Len(c) - 1) * D /\ (a + 1) * D = a * D + D
          BY <1>1, <3>2, <3>3, <5>2, Times, More
        <5>4. PICK y \in Int, z \in Int : y = a * D /\ z = (Len(c) - 1) * D
          BY <1>1, <3>2, <3>3
        <5>5. y + D <= z /\ z < y + off /\ off \in 0..D-1
          BY <1>6, <2>1, <3>3, <5>3, <5>4
        <5> QED
          BY ONLY <1>1, <5>5, y \in Int, z \in Int
      <4>3. a = Len(c) - 1
        BY <1>2, <3>3, <4>1, <4>2
      <4> QED
        BY <1>0, <1>7, <1>8, <2>4, <3>1, <3>3, <3>4, <4>3 DEF Points
    <3>5. CASE ~(off > 0)
      <4>1. off = 0 /\ w = a * D
        BY <1>1, <1>6, <3>3, <3>5
      <4>2. a <= Len(c)
        <5>1. SUFFICES ASSUME ~(a <= Len(c)) PROVE FALSE
          OBVIOUS
        <5>2. Len(c) + 1 <= a
          BY <1>2, <3>3, <5>1
        <5>3. (Len(c) + 1) * D <= a * D /\ (Len(c) + 1) * D = Len(c) * D + D
          <6>1. Len(c) \in Nat /\ Len(c) + 1 \in Nat /\ a \in Nat /\ D \in Nat \ {0}
            BY <1>1, <1>2, <3>3
          <6> QED
            BY ONLY <5>2, <6>1, Times, More
        <5>4. PICK y \in Int, z \in Int : y = a * D /\ z = Len(c) * D
          BY <1>1, <3>2, <3>3
        <5>5. y <= z /\ z + D <= y /\ D \in Nat \ {0}
          BY <1>1, <2>1, <4>1, <5>3, <5>4
        <5> QED
          BY ONLY <5>5, y \in Int, z \in Int
      <4>3. Len(c) - 1 < a
        BY <1>1, <2>1, <3>2, <3>3, <4>1
      <4>4. a = Len(c)
        BY <1>2, <3>3, <4>2, <4>3
      <4> QED
        BY <1>0, <1>1, <1>7, <1>8, <2>4, <3>1, <3>5, <4>1, <4>4 DEF Points
    <3> QED
      BY <3>4, <3>5
  <2> QED
    BY <1>2, <2>3, <2>4
<1>11. Filling(x, c, O, m, s)
  BY <1>1, <1>8, <1>9, <1>10 DEF Filling
<1>12. t = Putting(x, Len(buf)) /\ Len(x.rest) <= Len(buf)
  <2>1. t = Putting(x, Len(buf))
    BY DEF x, d1, Start
  <2> QED
    BY <1>2, <1>7, <2>1
<1>13. \/ Scrapped(t, O, m)
       \/ \E c2 : Filling(t, c2, O, m, s) /\ t.rest = << >>
  <2> DEFINE y == Putting(x, Len(buf))
  <2>1. \/ Scrapped(y, O, m)
        \/ \E c2 : Filling(y, c2, O, m, s) /\ y.rest = << >>
    BY <1>2, <1>4, <1>11, <1>12, PuttingIs
  <2>2. t = y
    BY <1>12
  <2> HIDE DEF y
  <2> QED
    BY <2>1, <2>2
<1> HIDE DEF D
<1>14. CASE Scrapped(t, O, m)
  <2>1. t.d = Empty /\ Owns(t.m, << >>, O) /\ Same(m, t.m, O)
    BY <1>14 DEF Scrapped
  <2>2. /\ Empty \in Desc /\ Empty.length = 0 /\ Empty.offset = 0 /\ Empty.head = NULL
        /\ Empty.tail = NULL
    <3>1. 0 \in 0..DBUFSIZ-1 /\ 0 \in Nat /\ 0 \in 0..Pool
      BY DEF DBufAssumption
    <3> QED
      BY <3>1 DEF Empty, Desc, NULL
  <2>3. Len(<< >>) = 0 /\ Fits(0, 0)
    <3>1. (0 - 1) * D < 0 /\ 0 <= 0 * D
      BY <1>1
    <3> QED
      BY <3>1 DEF Fits, D
  <2>4. Linked(t.m, NULL, << >>)
    BY <2>3 DEF Linked
  <2>5. Good(t.d, t.m, << >>, O)
    BY <2>1, <2>2, <2>3, <2>4 DEF Good, Held
  <2>6. Stream(t.d, t.m, << >>) = << >>
    <3>1. Stream(t.d, t.m, << >>) = [k \in 1..0 |-> At(t.m, << >>, t.d.offset + k - 1)]
      BY <2>1, <2>2 DEF Stream
    <3>2. 1..0 = {}
      OBVIOUS
    <3> DEFINE e == [k \in {} |-> At(t.m, << >>, t.d.offset + k - 1)]
    <3>3. e = << >>
      OBVIOUS
    <3> QED
      BY <3>1, <3>2, <3>3
  <2> QED
    BY <2>1, <2>5, <2>6
<1>15. ASSUME NEW c2, Filling(t, c2, O, m, s), t.rest = << >>
       PROVE  /\ Good(t.d, t.m, c2, O) /\ Same(m, t.m, O)
              /\ Stream(t.d, t.m, c2) = s
  <2>1. /\ t \in PutState /\ Owns(t.m, c2, O) /\ Linked(t.m, t.d.head, c2)
        /\ Same(m, t.m, O) /\ (c2 # << >> => t.d.tail = c2[Len(c2)])
        /\ t.d.length = Len(s) /\ Fits(Len(c2), Done(t))
    BY <1>15 DEF Filling, Partly
  <2>2. Len(t.rest) = 0 /\ Len(s) \in Nat
    BY <1>4, <1>15, LenProperties
  <2>3. Done(t) = t.d.offset + t.d.length /\ t.d \in Desc
    <3>1. t.d \in Desc /\ t.d.length \in Nat
      BY <2>1 DEF PutState, Desc
    <3>2. t.d.length - 0 = t.d.length
      BY <3>1
    <3> QED
      BY <2>2, <3>1, <3>2 DEF Done
  <2>4. \A k \in 1..Len(s) : At(t.m, c2, t.d.offset + k - 1) = s[k]
    <3>1. Len(s) - Len(t.rest) = Len(s)
      BY <2>2
    <3> QED
      BY <1>15, <3>1 DEF Filling, Partly
  <2>5. Stream(t.d, t.m, c2) = s
    <3>1. s = [k \in 1..Len(s) |-> s[k]]
      BY <1>4
    <3> QED
      BY <2>1, <2>4, <3>1 DEF Stream
  <2>6. Len(s) # 0
    <3>1. Len(buf) # 0
      BY EmptySeq
    <3> QED
      BY <1>2, <1>4, <3>1
  <2>7. c2 # << >>
    <3>1. SUFFICES ASSUME c2 = << >> PROVE FALSE
      OBVIOUS
    <3>2. Len(c2) = 0
      BY <3>1
    <3>3. t.d.offset + t.d.length <= 0 * DBUFSIZ /\ 0 * DBUFSIZ = 0
      BY <1>1, <2>1, <2>3, <3>2 DEF Fits, D
    <3> QED
      BY <2>1, <2>2, <2>3, <2>6, <3>3 DEF Desc
  <2>8. Good(t.d, t.m, c2, O)
    BY <2>1, <2>3, <2>6, <2>7 DEF Good, Held
  <2> QED
    BY <2>1, <2>5, <2>8
<1> QED
  BY <1>13, <1>14, <1>15 DEF s, s0

----------------------------------------------------------------------------
(* All queues.  C: the chain of each; no block is in two of them.          *)
OthersOf(C, q) == UNION {Range(C[r]) : r \in Queue \ {q}}
World(d, m, C) ==
  /\ d \in [Queue -> Desc] /\ C \in [Queue -> Seq(Block)]
  /\ \A q \in Queue : Good(d[q], m, C[q], OthersOf(C, q))

(* What happens to one queue does not bear on the others.                  *)
LEMMA Frame ==
  ASSUME DBufAssumption, NEW d, NEW m, NEW C, World(d, m, C), NEW q \in Queue,
         NEW e, NEW n, NEW c2, Good(e, n, c2, OthersOf(C, q)), Same(m, n, OthersOf(C, q))
  PROVE  /\ World([d EXCEPT ![q] = e], n, [C EXCEPT ![q] = c2])
         /\ \A r \in Queue \ {q} : Stream(d[r], n, C[r]) = Stream(d[r], m, C[r])
<1> DEFINE d2 == [d EXCEPT ![q] = e]
           C2 == [C EXCEPT ![q] = c2]
<1>1. /\ d \in [Queue -> Desc] /\ C \in [Queue -> Seq(Block)]
      /\ e \in Desc /\ c2 \in Seq(Block) /\ n \in Mem
      /\ Owns(n, c2, OthersOf(C, q))
  BY DEF World, Good, Held, Owns
<1>2. /\ d2 \in [Queue -> Desc] /\ C2 \in [Queue -> Seq(Block)]
      /\ d2[q] = e /\ C2[q] = c2
      /\ \A r \in Queue \ {q} : d2[r] = d[r] /\ C2[r] = C[r]
  BY <1>1
<1> HIDE DEF d2, C2
<1>3. OthersOf(C2, q) = OthersOf(C, q)
  <2>1. {Range(C2[r]) : r \in Queue \ {q}} = {Range(C[r]) : r \in Queue \ {q}}
    BY <1>2
  <2> QED
    BY <2>1 DEF OthersOf
<1>4. ASSUME NEW r \in Queue \ {q}
      PROVE  /\ Good(d[r], n, C[r], OthersOf(C2, r))
             /\ Stream(d[r], n, C[r]) = Stream(d[r], m, C[r])
  <2>1. /\ Held(d[r], m, C[r], OthersOf(C, r)) /\ Owns(m, C[r], OthersOf(C, r))
        /\ Linked(m, d[r].head, C[r]) /\ (C[r] = << >> => d[r].tail = NULL)
    BY DEF World, Good, Held
  <2>2. Range(C[r]) \subseteq OthersOf(C, q)
    BY DEF OthersOf
  <2>3. \A i \in 1..Len(C[r]) : C[r][i] \in OthersOf(C, q)
    <3>1. DOMAIN C[r] = 1..Len(C[r])
      BY <1>1, LenProperties
    <3> QED
      BY <2>2, <3>1 DEF Range
  <2>4. Linked(n, d[r].head, C[r])
    BY <2>1, <2>3 DEF Linked, Same
  <2>5. \A x \in OthersOf(C2, r) : x \in Range(c2) \/ (x \in OthersOf(C, q) /\ x \in OthersOf(C, r))
    <3> SUFFICES ASSUME NEW x \in OthersOf(C2, r)
                 PROVE  x \in Range(c2) \/ (x \in OthersOf(C, q) /\ x \in OthersOf(C, r))
      OBVIOUS
    <3>1. PICK u \in Queue \ {r} : x \in Range(C2[u])
      BY DEF OthersOf
    <3>2. CASE u = q
      BY <1>2, <3>1, <3>2
    <3>3. CASE u # q
      <4>1. x \in Range(C[u])
        BY <1>2, <3>1, <3>3
      <4> QED
        BY <3>1, <3>3, <4>1 DEF OthersOf
    <3> QED
      BY <3>2, <3>3
  <2>6. Owns(n, C[r], OthersOf(C2, r))
    <3>1. /\ OthersOf(C2, r) \subseteq 1..n.dbufblocks
          /\ Range(n.freelist) \cap OthersOf(C2, r) = {}
      BY <1>1, <2>5 DEF Owns
    <3>2. Range(C[r]) \cap OthersOf(C2, r) = {}
      BY <1>1, <2>1, <2>2, <2>5 DEF Owns
    <3>3. /\ Range(C[r]) \subseteq 1..n.dbufblocks
          /\ Range(n.freelist) \cap Range(C[r]) = {}
      BY <1>1, <2>2 DEF Owns
    <3>4. OthersOf(C, q) \subseteq Range(C[r]) \cup OthersOf(C2, r)
      <4> SUFFICES ASSUME NEW x \in OthersOf(C, q)
                   PROVE  x \in Range(C[r]) \cup OthersOf(C2, r)
        OBVIOUS
      <4>1. PICK u \in Queue \ {q} : x \in Range(C[u])
        BY DEF OthersOf
      <4>2. u # r => u \in Queue \ {r} /\ x \in Range(C2[u])
        BY <1>2, <4>1
      <4> QED
        BY <4>1, <4>2 DEF OthersOf
    <3>5. Range(c2) \subseteq OthersOf(C2, r)
      <4>1. q \in Queue \ {r} /\ Range(C2[q]) = Range(c2)
        BY <1>2
      <4> QED
        BY <4>1 DEF OthersOf
    <3>6. OthersOf(C, q) \cup Range(c2) \cup Range(n.freelist) = 1..n.dbufblocks
      BY <1>1 DEF Owns
    <3>7. OthersOf(C2, r) \cup Range(C[r]) \cup Range(n.freelist) = 1..n.dbufblocks
      BY ONLY <3>1, <3>3, <3>4, <3>5, <3>6
    <3> QED
      BY <1>1, <2>1, <3>2, <3>1, <3>3, <3>7 DEF Owns
  <2>7. Good(d[r], n, C[r], OthersOf(C2, r))
    BY <2>1, <2>4, <2>6 DEF Good, Held
  <2>8. ASSUME NEW k \in 1..d[r].length
        PROVE  At(n, C[r], d[r].offset + k - 1) = At(m, C[r], d[r].offset + k - 1)
    <3> DEFINE p == d[r].offset + k - 1
    <3>1. p \in Nat /\ p < Len(C[r]) * DBUFSIZ
      BY <2>1, StreamIs
    <3> HIDE DEF p
    <3>2. p \div DBUFSIZ + 1 \in 1..Len(C[r])
      BY <2>1, <3>1, AtIs
    <3>3. At(n, C[r], p) = At(m, C[r], p)
      BY <2>3, <3>2 DEF At, Same
    <3> QED
      BY <3>3 DEF p
  <2>9. Stream(d[r], n, C[r]) = Stream(d[r], m, C[r])
    BY <2>8 DEF Stream
  <2> QED
    BY <2>7, <2>9
<1>5. \A r \in Queue : Good(d2[r], n, C2[r], OthersOf(C2, r))
  <2> SUFFICES ASSUME NEW r \in Queue PROVE Good(d2[r], n, C2[r], OthersOf(C2, r))
    OBVIOUS
  <2>1. CASE r = q
    BY <1>2, <1>3, <2>1
  <2>2. CASE r # q
    BY <1>2, <1>4, <2>2
  <2> QED
    BY <2>1, <2>2
<1> QED
  BY <1>2, <1>4, <1>5 DEF World, d2, C2

Streams(d, m, C) == [q \in Queue |-> Stream(d[q], m, C[q])]

LEMMA ContentIs ==
  ASSUME DBufAssumption, NEW d, NEW m, NEW C, World(d, m, C)
  PROVE  [q \in Queue |-> Content(d[q], m)] = Streams(d, m, C)
<1>1. ASSUME NEW q \in Queue
      PROVE  Content(d[q], m) = Stream(d[q], m, C[q])
  <2>1. /\ C[q] \in Seq(Block) /\ IsInjective(C[q]) /\ Linked(m, d[q].head, C[q])
    BY DEF World, Good, Held, Owns
  <2>2. Chain(m, d[q].head) = C[q]
    BY <2>1, ChainIs
  <2> QED
    BY <2>2 DEF Content, Stream, At
<1> QED
  BY <1>1 DEF Streams

Inv == \E C : World(dbuf, mem, C)

LEMMA InitInv == ASSUME DBufAssumption, BufInit PROVE Inv
<1> DEFINE C == [q \in Queue |-> << >>]
<1>1. /\ Empty \in Desc /\ Empty.length = 0 /\ Empty.offset = 0 /\ Empty.head = NULL
      /\ Empty.tail = NULL
  <2>1. 0 \in 0..DBUFSIZ-1 /\ 0 \in Nat /\ 0 \in 0..Pool
    BY DEF DBufAssumption
  <2> QED
    BY <2>1 DEF Empty, Desc, NULL
<1>2. /\ mem \in Mem /\ mem.freelist = << >> /\ mem.dbufalloc = 0 /\ mem.dbufblocks = 0
  <2>1. 0 \in 0..Pool /\ 0 \in Int /\ << >> \in Seq(Block) /\ NULL \in 0..Pool
        /\ EndOfLine \in Byte
    BY DEF DBufAssumption, NULL
  <2>2. [b \in Block |-> NULL] \in [Block -> 0..Pool]
    BY <2>1
  <2>3. [b \in Block |-> [i \in 0..DBUFSIZ-1 |-> EndOfLine]]
          \in [Block -> [0..DBUFSIZ-1 -> Byte]]
    BY <2>1
  <2> QED
    BY <2>1, <2>2, <2>3 DEF BufInit, Mem
<1>3. \A q \in Queue : OthersOf(C, q) = {}
  <2>1. Range(<< >>) = {}
    BY DEF Range
  <2> QED
    BY <2>1 DEF OthersOf
<1>4. Owns(mem, << >>, {})
  <2>1. << >> \in Seq(Block) /\ IsInjective(<< >>) /\ Range(<< >>) = {} /\ Len(<< >>) = 0
    BY DEF IsInjective, Range
  <2>2. mem.dbufalloc = mem.dbufblocks - Len(mem.freelist)
    <3>1. Len(mem.freelist) = 0 /\ 0 - 0 = 0
      BY <1>2, <2>1
    <3> QED
      BY <1>2, <3>1
  <2>3. IsInjective(mem.freelist) /\ Range(mem.freelist) = {}
    BY <1>2, <2>1
  <2>4. {} \cup Range(<< >>) \cup Range(mem.freelist) = 1..mem.dbufblocks
    BY <1>2, <2>1, <2>3
  <2> QED
    BY <1>2, <2>1, <2>2, <2>3, <2>4 DEF Owns
<1>5. Good(Empty, mem, << >>, {})
  <2>1. Len(<< >>) = 0 /\ Fits(0, 0)
    <3>1. (0 - 1) * DBUFSIZ < 0 /\ 0 <= 0 * DBUFSIZ
      BY DEF DBufAssumption
    <3> QED
      BY <3>1 DEF Fits
  <2>2. Linked(mem, NULL, << >>)
    BY <2>1 DEF Linked
  <2> QED
    BY <1>1, <1>4, <2>1, <2>2 DEF Good, Held
<1>6. dbuf = [q \in Queue |-> Empty]
  BY DEF BufInit
<1>7. World(dbuf, mem, C)
  <2>1. C \in [Queue -> Seq(Block)] /\ dbuf \in [Queue -> Desc]
    BY <1>1, <1>6
  <2>2. ASSUME NEW q \in Queue PROVE Good(dbuf[q], mem, C[q], OthersOf(C, q))
    <3>1. dbuf[q] = Empty /\ C[q] = << >> /\ OthersOf(C, q) = {}
      BY <1>3, <1>6
    <3> QED
      BY <1>5, <3>1
  <2> HIDE DEF C
  <2> QED
    BY <2>1, <2>2 DEF World
<1> QED
  BY <1>7 DEF Inv

----------------------------------------------------------------------------

Contents == [q \in Queue |-> Content(dbuf[q], mem)]

(* A step that changes queue q only, and what its bytes become.            *)
Changes(q, e, n) == dbuf' = [dbuf EXCEPT ![q] = e] /\ mem' = n
Becomes(q, s) == Contents' = [Contents EXCEPT ![q] = s]

LEMMA StepIs ==
  ASSUME DBufAssumption, NEW C, World(dbuf, mem, C), NEW q \in Queue,
         NEW e, NEW n, NEW c2, Good(e, n, c2, OthersOf(C, q)), Same(mem, n, OthersOf(C, q)),
         Changes(q, e, n)
  PROVE  Inv' /\ Becomes(q, Stream(e, n, c2))
<1> DEFINE d2 == [dbuf EXCEPT ![q] = e]
           C2 == [C EXCEPT ![q] = c2]
<1>1. /\ World(d2, n, C2)
      /\ \A r \in Queue \ {q} : Stream(dbuf[r], n, C[r]) = Stream(dbuf[r], mem, C[r])
  BY ONLY DBufAssumption, World(dbuf, mem, C), q \in Queue, Frame,
          Good(e, n, c2, OthersOf(C, q)), Same(mem, n, OthersOf(C, q))
<1>a. dbuf' = d2 /\ mem' = n
  BY DEF Changes
<1>2. Inv'
  <2>1. World(dbuf', mem', C2)
    BY <1>1, <1>a
  <2> QED
    BY <2>1 DEF Inv
<1>3. Contents = Streams(dbuf, mem, C)
  BY ContentIs DEF Contents
<1>4. Contents' = Streams(d2, n, C2)
  <2>1. [r \in Queue |-> Content(d2[r], n)] = Streams(d2, n, C2)
    BY <1>1, ContentIs
  <2>2. Contents' = [r \in Queue |-> Content(d2[r], n)]
    BY <1>a DEF Contents
  <2> QED
    BY <2>1, <2>2
<1>5. /\ C \in [Queue -> Seq(Block)] /\ dbuf \in [Queue -> Desc]
  BY DEF World
<1>6. \A r \in Queue : Streams(d2, n, C2)[r] = IF r = q THEN Stream(e, n, c2)
                                               ELSE Streams(dbuf, mem, C)[r]
  BY <1>1, <1>5 DEF Streams
<1>7. Streams(d2, n, C2) = [Streams(dbuf, mem, C) EXCEPT ![q] = Stream(e, n, c2)]
  BY <1>6 DEF Streams
<1> QED
  BY <1>2, <1>3, <1>4, <1>7 DEF Becomes

LEMMA BytesOf ==
  ASSUME DBufAssumption, NEW C, World(dbuf, mem, C), NEW q \in Queue
  PROVE  /\ Contents[q] = Stream(dbuf[q], mem, C[q]) /\ Contents[q] \in Seq(Byte)
         /\ Len(Contents[q]) = dbuf[q].length /\ Contents[q] = Content(dbuf[q], mem)
         /\ Good(dbuf[q], mem, C[q], OthersOf(C, q))
<1>1. Contents[q] = Stream(dbuf[q], mem, C[q])
  BY ContentIs DEF Contents, Streams
<1>2. Good(dbuf[q], mem, C[q], OthersOf(C, q))
  BY DEF World
<1>3. Held(dbuf[q], mem, C[q], OthersOf(C, q))
  BY <1>2 DEF Good
<1> QED
  BY <1>1, <1>2, <1>3, StreamIs DEF Contents

LEMMA TakeIs ==
  ASSUME DBufAssumption, Inv, NEW q \in Queue, NEW n \in Nat, Take(q, n)
  PROVE  /\ Inv' /\ Contents[q] \in Seq(Byte) /\ Len(Contents[q]) = dbuf[q].length
         /\ Becomes(q, SubSeq(Contents[q], Least(n, Len(Contents[q])) + 1, Len(Contents[q])))
<1>1. PICK C : World(dbuf, mem, C)
  BY DEF Inv
<1>2. /\ Contents[q] = Stream(dbuf[q], mem, C[q]) /\ Contents[q] \in Seq(Byte)
      /\ Len(Contents[q]) = dbuf[q].length
      /\ Good(dbuf[q], mem, C[q], OthersOf(C, q))
  BY <1>1, BytesOf
<1>3. PICK d, m, O, k, e, u :
        /\ d = dbuf[q] /\ m = mem /\ O = OthersOf(C, q) /\ k = Least(n, d.length)
        /\ e = Deleted(d, m, n).d /\ u = Deleted(d, m, n).m
  OBVIOUS
<1>4. PICK c2 : /\ Good(e, u, c2, O) /\ Same(m, u, O)
                /\ Stream(e, u, c2) = SubSeq(Stream(d, m, C[q]), k + 1, d.length)
  <2>1. Good(d, m, C[q], O)
    BY <1>2, <1>3
  <2>2. \E c2 : /\ Good(Deleted(d, m, n).d, Deleted(d, m, n).m, c2, O)
                /\ Same(m, Deleted(d, m, n).m, O)
                /\ Stream(Deleted(d, m, n).d, Deleted(d, m, n).m, c2)
                     = SubSeq(Stream(d, m, C[q]), k + 1, d.length)
    <3>1. k = Least(n, d.length)
      BY <1>3
    <3> QED
      BY ONLY DBufAssumption, <2>1, <3>1, n \in Nat, DeletedIs
  <2> QED
    BY <1>3, <2>2
<1>5. Changes(q, e, u)
  BY <1>3 DEF Take, Changes
<1>6. Inv' /\ Becomes(q, Stream(e, u, c2))
  <2>1. Good(e, u, c2, OthersOf(C, q)) /\ Same(mem, u, OthersOf(C, q))
    BY <1>3, <1>4
  <2> QED
    BY <1>1, <1>5, <2>1, StepIs
<1>7. Stream(e, u, c2) = SubSeq(Contents[q], Least(n, Len(Contents[q])) + 1, Len(Contents[q]))
  BY <1>2, <1>3, <1>4
<1> QED
  BY <1>2, <1>6, <1>7

----------------------------------------------------------------------------
(* Every operation is one of the abstract queues'.                         *)
LEMMA PutMaps ==
  ASSUME DBufAssumption, Inv, NEW q \in Queue, NEW n \in 1..MaxPut,
         NEW buf \in [1..n -> Byte], Put(q, buf)
  PROVE  Inv' /\ Bytes!Put(q, buf)
<1>1. PICK C : World(dbuf, mem, C)
  BY DEF Inv
<1>2. /\ Contents[q] = Stream(dbuf[q], mem, C[q]) /\ Contents[q] \in Seq(Byte)
      /\ Good(dbuf[q], mem, C[q], OthersOf(C, q))
  BY <1>1, BytesOf
<1>3. buf \in Seq(Byte) /\ buf # << >>
  <2>1. n \in Nat /\ n # 0
    OBVIOUS
  <2>2. buf \in Seq(Byte) /\ Len(buf) = n
    BY ONLY <2>1, buf \in [1..n -> Byte]
  <2> QED
    BY <2>1, <2>2, EmptySeq
<1> DEFINE d == dbuf[q]
           off == (d.offset + d.length) % DBUFSIZ
           h == CASE d.length = 0 -> [at |-> "head", of |-> NULL]
                  [] d.length > 0 /\ off > 0 -> [at |-> "tail", of |-> NULL]
                  [] OTHER -> [at |-> "next", of |-> d.tail]
           t == Putting([d |-> [d EXCEPT !.length = d.length + Len(buf)], m |-> mem,
                         h |-> h, off |-> off, rest |-> buf, failed |-> FALSE], Len(buf))
<1>4. dbuf' = [dbuf EXCEPT ![q] = t.d] /\ mem' = t.m /\ out' = << >>
  BY DEF Put
<1>5. d.length \in Nat /\ d.tail \in 0..Pool /\ NULL \in 0..Pool
  BY <1>2 DEF Good, Held, Desc, NULL, DBufAssumption
<1> HIDE DEF off
<1>6. /\ h \in [at : {"head", "tail", "next"}, of : 0..Pool]
      /\ d.length = 0 => h.at = "head"
      /\ d.length > 0 /\ off > 0 => h.at = "tail"
      /\ d.length > 0 /\ ~(off > 0) => h.at = "next" /\ h.of = d.tail
  <2>1. CASE d.length = 0
    <3>1. h = [at |-> "head", of |-> NULL] /\ ~(d.length > 0)
      BY <2>1
    <3> HIDE DEF h
    <3> QED
      BY <1>5, <2>1, <3>1
  <2>2. CASE d.length > 0 /\ off > 0
    <3>1. h = [at |-> "tail", of |-> NULL] /\ d.length # 0
      BY <1>5, <2>2
    <3> HIDE DEF h
    <3> QED
      BY <1>5, <2>2, <3>1
  <2>3. CASE d.length > 0 /\ ~(off > 0)
    <3>1. h = [at |-> "next", of |-> d.tail] /\ d.length # 0
      BY <1>5, <2>3
    <3> HIDE DEF h
    <3> QED
      BY <1>5, <2>3, <3>1
  <2> QED
    BY <1>5, <2>1, <2>2, <2>3
<1>7. off = (dbuf[q].offset + dbuf[q].length) % DBUFSIZ
  BY DEF off
<1> HIDE DEF h
<1>8. PICK x, m, O, b, y, e, u :
        /\ x = dbuf[q] /\ m = mem /\ O = OthersOf(C, q) /\ b = off /\ y = t
        /\ e = y.d /\ u = y.m
  OBVIOUS
<1>9. PICK c2 : /\ Good(e, u, c2, O) /\ Same(m, u, O)
                /\ \/ Stream(e, u, c2) = Stream(x, m, C[q]) \o buf
                   \/ Stream(e, u, c2) = << >>
  <2>1. Good(x, m, C[q], O)
    BY <1>2, <1>8
  <2>2. b = (x.offset + x.length) % DBUFSIZ
    BY <1>7, <1>8
  <2>3. PICK i : i = h
    OBVIOUS
  <2>4. Starts(x, i, b)
    BY <1>6, <1>8, <2>2, <2>3 DEF Starts
  <2>5. y = Putting(Start(x, m, i, b, buf), Len(buf))
    BY <1>8, <2>3 DEF Start
  <2>6. \E c2 : /\ Good(y.d, y.m, c2, O) /\ Same(m, y.m, O)
                /\ \/ Stream(y.d, y.m, c2) = Stream(x, m, C[q]) \o buf
                   \/ Stream(y.d, y.m, c2) = << >>
    BY ONLY DBufAssumption, <1>3, <2>1, <2>4, <2>5, PutIs
  <2> QED
    BY <1>8, <2>6
<1>11. Inv' /\ Becomes(q, Stream(e, u, c2))
  <2>1. Good(e, u, c2, OthersOf(C, q)) /\ Same(mem, u, OthersOf(C, q))
    BY <1>8, <1>9
  <2>2. Changes(q, e, u)
    BY <1>4, <1>8 DEF Changes
  <2> QED
    BY <1>1, <2>1, <2>2, StepIs
<1>12. \/ Contents' = [Contents EXCEPT ![q] = Contents[q] \o buf]
       \/ Contents' = [Contents EXCEPT ![q] = << >>]
  BY <1>2, <1>8, <1>9, <1>11 DEF Becomes
<1>13. Bytes!Put(q, buf)
  BY <1>4, <1>12 DEF Bytes!Put, Contents
<1> QED
  BY <1>11, <1>13

LEMMA DeleteMaps ==
  ASSUME DBufAssumption, Inv, NEW q \in Queue, NEW n \in 1..MaxGet, Delete(q, n)
  PROVE  Inv' /\ Bytes!Delete(q, n)
<1>1. Take(q, n) /\ n \in Nat /\ out' = << >>
  BY DEF Delete
<1>2. /\ Inv'
      /\ Becomes(q, SubSeq(Contents[q], Least(n, Len(Contents[q])) + 1, Len(Contents[q])))
  BY <1>1, TakeIs
<1> QED
  BY <1>1, <1>2 DEF Becomes, Contents, Bytes!Delete, Bytes!Drop, Bytes!Least, Least

LEMMA GetMaps ==
  ASSUME DBufAssumption, Inv, NEW q \in Queue, NEW n \in 1..MaxGet, Get(q, n)
  PROVE  Inv' /\ Bytes!Get(q, n)
<1>1. /\ Take(q, n) /\ n \in Nat
      /\ out' = SubSeq(Content(dbuf[q], mem), 1, Least(n, dbuf[q].length))
  BY DEF Get
<1>2. /\ Inv' /\ Len(Contents[q]) = dbuf[q].length
      /\ Becomes(q, SubSeq(Contents[q], Least(n, Len(Contents[q])) + 1, Len(Contents[q])))
  BY <1>1, TakeIs
<1>3. out' = SubSeq(Contents[q], 1, Least(n, Len(Contents[q])))
  BY <1>1, <1>2 DEF Contents
<1> QED
  BY <1>2, <1>3 DEF Becomes, Contents, Bytes!Get, Bytes!Drop, Bytes!Least, Least

(* The line ends at the front of a stream, and the line after them.        *)
LEMMA BlankIs ==
  ASSUME NEW s \in Seq(Byte)
  PROVE  \E b \in 0..Len(s) : /\ \A i \in 1..b : s[i] = EndOfLine
                              /\ b < Len(s) => s[b+1] # EndOfLine
<1> DEFINE S == {b \in 0..Len(s) : b < Len(s) => s[b+1] # EndOfLine}
<1>1. Len(s) \in Nat
  BY LenProperties
<1>2. Len(s) \in S
  BY <1>1
<1>3. PICK b \in S : \A x \in S : b <= x
  <2>1. S \subseteq Nat /\ S # {}
    BY <1>1, <1>2
  <2> HIDE DEF S
  <2> QED
    BY <2>1, LeastOfNaturals
<1>4. ASSUME NEW i \in 1..b PROVE s[i] = EndOfLine
  <2>1. i - 1 \in 0..Len(s) /\ i - 1 < Len(s) /\ ~(b <= i - 1) /\ (i - 1) + 1 = i
    BY <1>1, <1>3
  <2>2. i - 1 \notin S
    BY <1>3, <2>1
  <2> QED
    BY <2>1, <2>2
<1> QED
  BY <1>3, <1>4

LEMMA GetMsgMaps ==
  ASSUME DBufAssumption, Inv, NEW q \in Queue, NEW n \in 1..MaxGet, GetMsg(q, n)
  PROVE  Inv' /\ Bytes!GetMsg(q, n)
<1> DEFINE s == Content(dbuf[q], mem)
           blank == CHOOSE b \in 0..Len(s) : /\ \A i \in 1..b : s[i] = EndOfLine
                                             /\ b < Len(s) => s[b+1] # EndOfLine
           line == SubSeq(s, blank + 1, Len(s))
           ends == {k \in 1..Least(n, Len(line)) : line[k] = EndOfLine}
           k == CHOOSE e \in ends : \A i \in ends : e <= i
<1>1. s = Contents[q] /\ s \in Seq(Byte) /\ Len(s) \in Nat /\ n \in Nat \ {0}
  <2>1. PICK C : World(dbuf, mem, C)
    BY DEF Inv
  <2> QED
    BY <2>1, BytesOf, LenProperties
<1>2. IF ends = {} THEN Take(q, blank) /\ out' = << >>
      ELSE /\ Take(q, blank + k)
           /\ out' = SubSeq(line, 1, Least(k, n - (k - 1)))
  BY DEF GetMsg
<1> HIDE DEF s
<1>3. /\ blank \in 0..Len(s) /\ \A i \in 1..blank : s[i] = EndOfLine
      /\ blank < Len(s) => s[blank+1] # EndOfLine
  BY <1>1, BlankIs
<1> HIDE DEF blank
<1>4. /\ line \in Seq(Byte) /\ Len(line) = Len(s) - blank
      /\ \A i \in 1..Len(s) - blank : line[i] = s[i + blank]
  <2>1. blank + 1 \in 1..Len(s) + 1
    BY <1>1, <1>3
  <2>2. line = [i \in 1..Len(s) - blank |-> s[i + blank]]
    BY <1>1, <1>3, <2>1
  <2>3. \A i \in 1..Len(s) - blank : i + blank \in 1..Len(s)
    BY <1>1, <1>3
  <2>4. \A i \in 1..Len(s) - blank : s[i + blank] \in Byte
    BY <1>1, <2>3, ElementOfSeq
  <2> DEFINE l == Len(s) - blank
  <2>5. l \in Nat
    BY <1>1, <1>3
  <2> HIDE DEF line, l
  <2>6. line \in [1..l -> Byte]
    BY <2>2, <2>4 DEF l
  <2>7. line \in Seq(Byte) /\ Len(line) = l
    BY ONLY <2>5, <2>6
  <2> QED
    BY <2>2, <2>7 DEF l
<1>5. line = Bytes!Drop(s, blank)
  BY DEF Bytes!Drop
<1> HIDE DEF line
<1>6. Bytes!Blank(SubSeq(s, 1, blank))
  <2>1. SubSeq(s, 1, blank) = [i \in 1..blank |-> s[i]]
    BY <1>1, <1>3
  <2> QED
    BY <1>3, <2>1 DEF Bytes!Blank
<1>7. line # << >> => line[1] # EndOfLine
  <2>1. SUFFICES ASSUME line # << >> PROVE line[1] # EndOfLine
    OBVIOUS
  <2>2. Len(line) # 0
    BY <1>4, <2>1, EmptySeq
  <2>3. blank < Len(s) /\ 1 \in 1..Len(s) - blank /\ 1 + blank = blank + 1
    BY <1>1, <1>3, <1>4, <2>2
  <2>4. line[1] = s[1 + blank]
    BY <1>4, <2>3
  <2> QED
    BY <1>3, <2>3, <2>4
<1>8. /\ \A a, b : Bytes!Least(a, b) = Least(a, b)
      /\ blank \in Nat /\ blank <= Len(s) /\ Least(blank, Len(s)) = blank
  BY <1>1, <1>3 DEF Least, Bytes!Least
<1>9. CASE ends = {}
  <2>1. Take(q, blank) /\ out' = << >>
    BY <1>2, <1>9
  <2>2. Inv' /\ Becomes(q, SubSeq(s, Least(blank, Len(s)) + 1, Len(s)))
    BY <1>1, <1>8, <2>1, TakeIs
  <2>3. Becomes(q, line)
    BY <1>8, <2>2 DEF line
  <2>4. \A i \in 1..Bytes!Least(n, Len(line)) : line[i] # EndOfLine
    BY <1>8, <1>9
  <2>5. Bytes!GetMsg(q, n)
    <3>1. Contents' = [Contents EXCEPT ![q] = line]
      BY <2>3 DEF Becomes
    <3> HIDE DEF ends, k
    <3> QED
      BY <1>1, <1>3, <1>5, <1>6, <1>7, <2>1, <2>4, <3>1 DEF Bytes!GetMsg, Contents
  <2> QED
    BY <2>2, <2>5
<1>10. CASE ends # {}
  <2>1. Take(q, blank + k) /\ out' = SubSeq(line, 1, Least(k, n - (k - 1)))
    BY <1>2, <1>10
  <2>2. k \in ends /\ \A i \in ends : k <= i
    <3>1. ends \subseteq Nat
      OBVIOUS
    <3> HIDE DEF ends
    <3> QED
      BY <1>10, <3>1, LeastOfNaturals
  <2> HIDE DEF k
  <2>3. k \in 1..Least(n, Len(line)) /\ line[k] = EndOfLine
    BY <2>2
  <2>4. k \in Nat \ {0} /\ k <= n /\ k <= Len(line) /\ Len(line) \in Nat
    <3>1. Len(line) \in Nat
      BY <1>4, LenProperties
    <3>2. Least(n, Len(line)) <= n /\ Least(n, Len(line)) <= Len(line)
          /\ Least(n, Len(line)) \in Nat
      BY <1>1, <3>1 DEF Least
    <3> QED
      BY <1>1, <2>3, <3>1, <3>2
  <2>5. k # 1
    <3>1. k = 1 => line # << >>
      BY <1>4, <2>4, EmptySeq
    <3> QED
      BY <1>7, <2>3, <3>1
  <2>6. \A i \in 1..k-1 : line[i] # EndOfLine
    <3> SUFFICES ASSUME NEW i \in 1..k-1, line[i] = EndOfLine PROVE FALSE
      OBVIOUS
    <3>1. i \in 1..Least(n, Len(line)) /\ ~(k <= i)
      <4>1. Least(n, Len(line)) \in Nat
        BY <1>1, <2>4 DEF Least
      <4>2. PICK l \in Nat : l = Least(n, Len(line))
        BY <4>1
      <4>3. k \in 1..l
        BY <2>3, <4>2
      <4>4. i \in 1..l /\ ~(k <= i)
        BY ONLY <4>3, i \in 1..k-1, l \in Nat
      <4> QED
        BY <4>2, <4>4
    <3>2. i \in ends
      BY <3>1
    <3> QED
      BY <2>2, <3>1, <3>2
  <2>7. Inv' /\ Becomes(q, SubSeq(s, Least(blank + k, Len(s)) + 1, Len(s)))
    <3>1. blank + k \in Nat
      BY <1>8, <2>4
    <3> QED
      BY <1>1, <2>1, <3>1, TakeIs
  <2>8. SubSeq(s, Least(blank + k, Len(s)) + 1, Len(s)) = Bytes!Drop(line, k)
    <3>1. blank + k <= Len(s)
      BY <1>1, <1>4, <1>8, <2>4
    <3>2. Least(blank + k, Len(s)) = blank + k
      <4>0. blank + k \in Nat /\ Len(s) \in Nat
        BY <1>1, <1>8, <2>4
      <4>1. PICK a \in Nat, b \in Nat : a = blank + k /\ b = Len(s)
        BY <4>0
      <4>2. a <= b
        BY <3>1, <4>1
      <4>3. Least(a, b) = a
        BY ONLY <4>2, a \in Nat, b \in Nat DEF Least
      <4> QED
        BY <4>1, <4>3
    <3>3. SubSeq(s, blank + k + 1, Len(s)) = [i \in 1..Len(s) - (blank + k) |-> s[i + (blank + k)]]
      BY <1>1, <1>8, <2>4, <3>1
    <3>4. SubSeq(line, k + 1, Len(line)) = [i \in 1..Len(line) - k |-> line[i + k]]
      BY <1>4, <2>4
    <3>5. Len(line) - k = Len(s) - (blank + k)
      BY <1>1, <1>4, <1>8, <2>4
    <3>6. \A i \in 1..Len(line) - k : line[i + k] = s[i + (blank + k)]
      <4> SUFFICES ASSUME NEW i \in 1..Len(line) - k PROVE line[i + k] = s[i + (blank + k)]
        OBVIOUS
      <4>1. i + k \in 1..Len(s) - blank /\ (i + k) + blank = i + (blank + k)
        BY <1>1, <1>4, <1>8, <2>4
      <4> QED
        BY <1>4, <4>1
    <3> QED
      BY <3>2, <3>3, <3>4, <3>5, <3>6 DEF Bytes!Drop
  <2>9. Contents' = [Contents EXCEPT ![q] = Bytes!Drop(line, k)]
    BY <2>7, <2>8 DEF Becomes
  <2>10. \E j \in 1..k : out' = SubSeq(line, 1, j)
    <3>1. Least(k, n - (k - 1)) \in 1..k
      BY <1>1, <2>4 DEF Least
    <3> QED
      BY <2>1, <3>1
  <2>11. k \in 2..Bytes!Least(n, Len(line))
    <3>1. Least(n, Len(line)) \in Nat
      BY <1>1, <2>4 DEF Least
    <3> QED
      BY <1>8, <2>3, <2>4, <2>5, <3>1
  <2>12. Bytes!GetMsg(q, n)
    <3>1. line[k] = EndOfLine
      BY <2>3
    <3> DEFINE K == 2..Bytes!Least(n, Len(line))
    <3>2. k \in K
      BY <2>11
    <3> HIDE DEF ends, K
    <3>3. \E e \in K : /\ line[e] = EndOfLine /\ \A i \in 1..e-1 : line[i] # EndOfLine
                      /\ \E j \in 1..e : out' = SubSeq(line, 1, j)
                      /\ Contents' = [Contents EXCEPT ![q] = Bytes!Drop(line, e)]
      BY <2>6, <2>9, <2>10, <3>1, <3>2
    <3>4. \E e \in 2..Bytes!Least(n, Len(line)) :
             /\ line[e] = EndOfLine /\ \A i \in 1..e-1 : line[i] # EndOfLine
             /\ \E j \in 1..e : out' = SubSeq(line, 1, j)
             /\ Contents' = [Contents EXCEPT ![q] = Bytes!Drop(line, e)]
      BY <3>3 DEF K
    <3>5. line = Bytes!Drop(Contents[q], blank) /\ blank \in 0..Len(Contents[q])
          /\ Bytes!Blank(SubSeq(Contents[q], 1, blank))
      BY <1>1, <1>3, <1>5, <1>6
    <3> HIDE DEF line, blank
    <3> DEFINE None(l) == \A i \in 1..Bytes!Least(n, Len(l)) : l[i] # EndOfLine
               Some(l) == \E e \in 2..Bytes!Least(n, Len(l)) :
                             /\ l[e] = EndOfLine /\ \A i \in 1..e-1 : l[i] # EndOfLine
                             /\ \E j \in 1..e : out' = SubSeq(l, 1, j)
                             /\ Contents' = [Contents EXCEPT ![q] = Bytes!Drop(l, e)]
    <3>6. Bytes!GetMsg(q, n) <=>
            \E b \in 0..Len(Contents[q]) :
               LET l == Bytes!Drop(Contents[q], b) IN
               /\ Bytes!Blank(SubSeq(Contents[q], 1, b))
               /\ l # << >> => l[1] # EndOfLine
               /\ \/ /\ None(l) /\ out' = << >>
                     /\ Contents' = [Contents EXCEPT ![q] = l]
                  \/ Some(l)
      BY DEF Bytes!GetMsg, Contents
    <3>7. Some(line)
      BY <3>4
    <3> HIDE DEF None, Some
    <3>8. Some(Bytes!Drop(Contents[q], blank))
      BY <3>5, <3>7
    <3>9. LET l == Bytes!Drop(Contents[q], blank) IN l # << >> => l[1] # EndOfLine
      BY <1>7, <3>5
    <3> QED
      BY ONLY <3>5, <3>6, <3>8, <3>9
  <2> QED
    BY <2>7, <2>12
<1> QED
  BY <1>9, <1>10

----------------------------------------------------------------------------
LEMMA InitMaps == ASSUME DBufAssumption, BufInit PROVE Inv /\ Bytes!Init
<1>1. Inv
  BY InitInv
<1>2. dbuf = [q \in Queue |-> Empty] /\ out = << >>
  BY DEF BufInit
<1>3. ASSUME NEW q \in Queue PROVE Contents[q] = << >>
  <2>1. PICK C : World(dbuf, mem, C)
    BY <1>1 DEF Inv
  <2>2. Contents[q] \in Seq(Byte) /\ Len(Contents[q]) = dbuf[q].length
    BY <2>1, BytesOf
  <2>3. dbuf[q].length = 0
    BY <1>2 DEF Empty
  <2> QED
    BY <2>2, <2>3, EmptySeq
<1>4. Contents = [q \in Queue |-> << >>]
  BY <1>3 DEF Contents
<1> QED
  BY <1>1, <1>2, <1>4 DEF Bytes!Init, Contents

LEMMA NextMaps ==
  ASSUME DBufAssumption, Inv, [BufNext]_bufVars
  PROVE  Inv' /\ [Bytes!Next]_<<Contents, out>>
<1>1. CASE UNCHANGED bufVars
  BY <1>1 DEF bufVars, Inv, Contents
<1>2. ASSUME NEW q \in Queue, NEW n \in 1..MaxPut, NEW buf \in [1..n -> Byte], Put(q, buf)
      PROVE  Inv' /\ Bytes!Next
  BY <1>2, PutMaps DEF Bytes!Next
<1>3. ASSUME NEW q \in Queue, NEW n \in 1..MaxGet, Get(q, n)
      PROVE  Inv' /\ Bytes!Next
  BY <1>3, GetMaps DEF Bytes!Next
<1>4. ASSUME NEW q \in Queue, NEW n \in 1..MaxGet, Delete(q, n)
      PROVE  Inv' /\ Bytes!Next
  BY <1>4, DeleteMaps DEF Bytes!Next
<1>5. ASSUME NEW q \in Queue, NEW n \in 1..MaxGet, GetMsg(q, n)
      PROVE  Inv' /\ Bytes!Next
  BY <1>5, GetMsgMaps DEF Bytes!Next
<1> QED
  BY <1>1, <1>2, <1>3, <1>4, <1>5 DEF BufNext

(* Whatever is put, got, deleted and read line by line, in any order and   *)
(* from any number of queues that share the pool: every queue is a stream  *)
(* of bytes.  The chains never mix, no byte is lost, doubled or taken from *)
(* another queue, across blocks of any size; a put that finds no block     *)
(* leaves the queue empty.                                                 *)
THEOREM BuffersAreQueues == ASSUME DBufAssumption PROVE BufSpec => BytesSpec
<1>1. BufInit => Inv /\ Bytes!Init
  BY InitMaps
<1>2. Inv /\ [BufNext]_bufVars => Inv' /\ [Bytes!Next]_<<Contents, out>>
  BY NextMaps
<1> QED
  BY <1>1, <1>2, PTL DEF BufSpec, BytesSpec, Bytes!Spec, Contents

(* The pool is never short of a block: each that was ever allocated is on  *)
(* the freelist or in one chain, dbufalloc counts those in use, and head,  *)
(* tail, offset and length of every queue agree with its chain.            *)
LEMMA InvMeans == ASSUME DBufAssumption, Inv PROVE BlocksOwned /\ ChainExact
<1>1. PICK C : World(dbuf, mem, C)
  BY DEF Inv
<1>2. ASSUME NEW q \in Queue
      PROVE  /\ ChainOf(q) = C[q] /\ C[q] \in Seq(Block) /\ dbuf[q] \in Desc
             /\ Owns(mem, C[q], OthersOf(C, q)) /\ Good(dbuf[q], mem, C[q], OthersOf(C, q))
  <2>1. /\ C[q] \in Seq(Block) /\ IsInjective(C[q]) /\ Linked(mem, dbuf[q].head, C[q])
        /\ Good(dbuf[q], mem, C[q], OthersOf(C, q)) /\ Owns(mem, C[q], OthersOf(C, q))
        /\ dbuf[q] \in Desc
    BY <1>1 DEF World, Good, Held, Owns
  <2> QED
    BY <2>1, ChainIs DEF ChainOf
<1>3. PICK u : u \in Queue
  BY DEF DBufAssumption
<1>4. UNION {Range(ChainOf(q)) : q \in Queue} = Range(C[u]) \cup OthersOf(C, u)
  <2>1. \A q \in Queue : ChainOf(q) = C[q]
    BY <1>2
  <2> QED
    BY <1>3, <2>1 DEF OthersOf
<1>5. BlocksOwned
  <2>1. /\ IsInjective(mem.freelist) /\ mem.dbufalloc = mem.dbufblocks - Len(mem.freelist)
        /\ OthersOf(C, u) \cup Range(C[u]) \cup Range(mem.freelist) = 1..mem.dbufblocks
    BY <1>2, <1>3 DEF Owns
  <2>2. ASSUME NEW q \in Queue
        PROVE  IsInjective(ChainOf(q)) /\ Range(ChainOf(q)) \cap Range(mem.freelist) = {}
    BY <1>2 DEF Owns
  <2>3. ASSUME NEW q \in Queue, NEW r \in Queue, q # r
        PROVE  Range(ChainOf(q)) \cap Range(ChainOf(r)) = {}
    <3>1. ChainOf(q) = C[q] /\ ChainOf(r) = C[r] /\ Range(C[q]) \cap OthersOf(C, q) = {}
      BY <1>2 DEF Owns
    <3>2. Range(C[r]) \subseteq OthersOf(C, q)
      BY <2>3 DEF OthersOf
    <3> QED
      BY <3>1, <3>2
  <2>4. 1..mem.dbufblocks = Range(mem.freelist) \cup UNION {Range(ChainOf(q)) : q \in Queue}
    BY <1>4, <2>1
  <2> QED
    BY <2>1, <2>2, <2>3, <2>4 DEF BlocksOwned
<1>6. ASSUME NEW q \in Queue
      PROVE  /\ Len(ChainOf(q)) = (dbuf[q].offset + dbuf[q].length + DBUFSIZ - 1) \div DBUFSIZ
             /\ dbuf[q].tail = IF ChainOf(q) = << >> THEN NULL ELSE Last(ChainOf(q))
             /\ dbuf[q].length = 0 => dbuf[q].offset = 0
  <2>1. /\ ChainOf(q) = C[q] /\ Fits(Len(C[q]), dbuf[q].offset + dbuf[q].length)
        /\ dbuf[q].length = 0 => dbuf[q].offset = 0
        /\ dbuf[q].tail = IF C[q] = << >> THEN NULL ELSE C[q][Len(C[q])]
    BY <1>2 DEF Good, Held
  <2>2. PICK l \in Nat, o \in Nat, n \in Nat :
               l = Len(C[q]) /\ o = dbuf[q].offset /\ n = dbuf[q].length
    <3>1. Len(C[q]) \in Nat /\ dbuf[q].offset \in Nat /\ dbuf[q].length \in Nat
      BY <1>2, LenProperties DEF Desc, DBufAssumption
    <3> QED
      BY <3>1
  <2>3. l = (o + n + DBUFSIZ - 1) \div DBUFSIZ
    <3> DEFINE w == o + n
    <3>1. DBUFSIZ \in Nat \ {0} /\ (l - 1) * DBUFSIZ < w /\ w <= l * DBUFSIZ
      BY <2>1, <2>2 DEF Fits, DBufAssumption
    <3>2. (l - 1) * DBUFSIZ = l * DBUFSIZ - DBUFSIZ /\ l * DBUFSIZ \in Nat
      BY <3>1, Times
    <3>3. PICK t \in Nat : t = l * DBUFSIZ
      BY <3>2
    <3>4. w + DBUFSIZ - 1 - t \in 0..DBUFSIZ-1
      BY <3>1, <3>2, <3>3
    <3>5. o + n + DBUFSIZ - 1 = l * DBUFSIZ + (w + DBUFSIZ - 1 - t)
      BY <3>1, <3>3
    <3> QED
      BY <3>1, <3>4, <3>5, DivisionIs
  <2> QED
    BY <2>1, <2>2, <2>3 DEF Last
<1>7. ChainExact
  BY <1>6 DEF ChainExact
<1> QED
  BY <1>5, <1>7

(* No put, failed or not, and no delete, get or line leaks a block, puts   *)
(* one into two queues or leaves head, tail, offset and length behind.     *)
THEOREM PoolIsOwned ==
  ASSUME DBufAssumption PROVE BufSpec => [](BlocksOwned /\ ChainExact)
<1>1. BufInit => Inv
  BY InitMaps
<1>2. Inv /\ [BufNext]_bufVars => Inv'
  BY NextMaps
<1>3. Inv => BlocksOwned /\ ChainExact
  BY InvMeans
<1> QED
  BY <1>1, <1>2, <1>3, PTL DEF BufSpec

----------------------------------------------------------------------------
(***************************************************************************)
(* WatchList: the two ends of every entry, and what watchers were told.    *)
(***************************************************************************)
Watch == [who : Client, flags : BOOLEAN]
Struct == [nick : Nick \cup {NoNick}, mine : BOOLEAN, away : BOOLEAN,
           watch : Seq(Nick), watches : Int]
Reply == {"nothing", "off", "on", "away"}

Lists(w, n) == \E i \in DOMAIN user[w].watch : user[w].watch[i] = n
Listed(w, n) == \E i \in DOMAIN header[n] : header[n][i].who = w

Once(list) == \A i, j \in DOMAIN list : list[i].who = list[j].who => i = j
HasWho(list, w) == \E i \in DOMAIN list : list[i].who = w
HasNick(list, n) == \E i \in DOMAIN list : list[i] = n

(* An entry is on both lists, once on each.                                *)
OnHeaders == \A n \in Nick : Once(header[n])
OnUsers ==
  \A w \in Client : /\ user[w].watches = Len(user[w].watch) /\ user[w].watches <= MaxWatch
                    /\ IsInjective(user[w].watch)
OnBoth == \A w \in Client, n \in Nick : Lists(w, n) <=> Listed(w, n)

(* A nick has one user; a struct without a nick is blank.                  *)
Nicks ==
  \A u \in Client : /\ user[u].nick = NoNick => user[u] = NoUser
                    /\ \A v \in Client : user[u].nick = user[v].nick /\ user[u].nick # NoNick => u = v

Knows(w, n) == /\ user[w].mine /\ told[w][n] # "nothing"
               /\ told[w][n] = "off" <=> \A u \in Client : user[u].nick # n
Told == \A n \in Nick, w \in Client : Listed(w, n) => Knows(w, n)

WatchT == /\ user \in [Client -> Struct] /\ header \in [Nick -> Seq(Watch)]
          /\ told \in [Client -> [Nick -> Reply]]

WatchInv == WatchT /\ OnHeaders /\ OnUsers /\ OnBoth /\ Nicks /\ Told

-----------------------------------------------------------------------------
LEMMA InjectiveLength ==
  ASSUME NEW S, NEW q \in Seq(S), IsInjective(q)
  PROVE  IsFiniteSet(ToSet(q)) /\ Cardinality(ToSet(q)) = Len(q)
<1>1. q \in [1..Len(q) -> S] /\ Len(q) \in Nat /\ DOMAIN q = 1..Len(q)
  BY LenProperties
<1>2. q \in Bijection(1..Len(q), ToSet(q))
  BY <1>1 DEF Bijection, Injection, Surjection, IsInjective, ToSet
<1>3. ExistsBijection(1..Len(q), ToSet(q))
  BY <1>2 DEF ExistsBijection
<1> QED
  BY <1>1, <1>3, FS_NatBijection, FS_CountingElements

LEMMA KeepInjective ==
  ASSUME NEW S, NEW q \in Seq(S), NEW A, IsInjective(q)
  PROVE  IsInjective(Keep(q, A))
<1> DEFINE k == Keep(q, A)
<1>1. PICK p \in [DOMAIN k -> DOMAIN q] :
        /\ \A i, j \in DOMAIN k : p[i] = p[j] => i = j
        /\ \A i \in DOMAIN k : k[i] = q[p[i]]
  BY KeepPlaces
<1> HIDE DEF k
<1>2. ASSUME NEW i \in DOMAIN k, NEW j \in DOMAIN k, k[i] = k[j]
      PROVE  i = j
  <2>1. p[i] \in DOMAIN q /\ p[j] \in DOMAIN q /\ q[p[i]] = q[p[j]]
    BY <1>1, <1>2
  <2> QED
    BY <1>1, <2>1 DEF IsInjective
<1> QED
  BY <1>2 DEF k, IsInjective

(* A nick goes from a user's list, which has it once.                      *)
LEMMA OneLess ==
  ASSUME NEW q \in Seq(Nick), IsInjective(q), NEW n, HasNick(q, n),
         NEW A, A = Nick \ {n}, NEW k, k = Keep(q, A)
  PROVE  /\ k \in Seq(Nick) /\ IsInjective(k) /\ Len(k) = Len(q) - 1
         /\ \A m : HasNick(k, m) <=> HasNick(q, m) /\ m # n
<1>1. k \in Seq(Nick) /\ Range(k) = Range(q) \cap A
  BY KeepMembers
<1>2. ToSet(q) = Range(q) /\ ToSet(k) = Range(k) /\ ToSet(q) \subseteq Nick
  BY DEF ToSet, Range
<1>3. ToSet(k) = ToSet(q) \ {n} /\ n \in ToSet(q)
  BY <1>1, <1>2 DEF HasNick, ToSet
<1>4. IsInjective(k)
  BY KeepInjective
<1>5. /\ IsFiniteSet(ToSet(q)) /\ Cardinality(ToSet(q)) = Len(q)
      /\ Cardinality(ToSet(k)) = Len(k)
  BY <1>1, <1>4, InjectiveLength
<1>6. Cardinality(ToSet(k)) = Cardinality(ToSet(q)) - 1
  BY <1>3, <1>5, FS_RemoveElement
<1>7. \A m : (HasNick(k, m) <=> m \in ToSet(k)) /\ (HasNick(q, m) <=> m \in ToSet(q))
  BY DEF HasNick, ToSet
<1> QED
  BY <1>1, <1>3, <1>4, <1>5, <1>6, <1>7

LEMMA WithoutWatcher ==
  ASSUME NEW list \in Seq(Watch), NEW w, Once(list), NEW k, k = Unwatched(list, w)
  PROVE  /\ k \in Seq(Watch) /\ Once(k)
         /\ \A v : HasWho(k, v) <=> HasWho(list, v) /\ v # w
<1> DEFINE A == {e \in ToSet(list) : e.who # w}
<1>1. k = Keep(list, A)
  BY DEF Unwatched
<1> HIDE DEF A
<1>2. k \in Seq(Watch) /\ Range(k) = Range(list) \cap A
  BY <1>1, KeepMembers
<1>3. PICK p \in [DOMAIN k -> DOMAIN list] :
        /\ \A i, j \in DOMAIN k : p[i] = p[j] => i = j
        /\ \A i \in DOMAIN k : k[i] = list[p[i]]
  BY <1>1, KeepPlaces
<1>4. Once(k)
  BY <1>3 DEF Once
<1>5. /\ \A i \in DOMAIN k : k[i].who # w /\ \E j \in DOMAIN list : list[j] = k[i]
      /\ \A j \in DOMAIN list : list[j].who # w => \E i \in DOMAIN k : k[i] = list[j]
  BY <1>2 DEF Range, A, ToSet
<1> QED
  BY <1>2, <1>4, <1>5 DEF HasWho

(* One more at the head of a list.                                         *)
LEMMA AtTheHead ==
  ASSUME NEW S, NEW q \in Seq(S), NEW x \in S
  PROVE  LET k == <<x>> \o q
         IN /\ k \in Seq(S) /\ Len(k) = Len(q) + 1
            /\ DOMAIN k \subseteq Int /\ DOMAIN q \subseteq Int
            /\ 1 \in DOMAIN k /\ k[1] = x
            /\ \A i \in DOMAIN k : i # 1 => i - 1 \in DOMAIN q /\ k[i] = q[i - 1]
            /\ \A i \in DOMAIN q : i + 1 \in DOMAIN k /\ k[i + 1] = q[i]
<1> DEFINE k == <<x>> \o q
<1>1. /\ Len(k) = Len(q) + 1 /\ Len(q) \in Nat /\ k \in Seq(S)
      /\ DOMAIN q = 1..Len(q) /\ DOMAIN k = 1..(Len(q) + 1)
      /\ k[1] = x /\ \A i \in 1..Len(q) : k[i + 1] = q[i]
  BY ConcatProperties, LenProperties
<1> HIDE DEF k
<1>2. \A i \in DOMAIN k : i # 1 => i - 1 \in DOMAIN q /\ k[i] = q[i - 1]
  BY <1>1
<1> QED
  BY <1>1, <1>2 DEF k

LEMMA OneMoreWatcher ==
  ASSUME NEW q \in Seq(Watch), NEW x \in Watch, Once(q), ~HasWho(q, x.who),
         NEW k, k = <<x>> \o q
  PROVE  /\ k \in Seq(Watch) /\ Once(k)
         /\ \A v : HasWho(k, v) <=> HasWho(q, v) \/ v = x.who
<1>1. /\ k \in Seq(Watch) /\ Len(k) = Len(q) + 1
      /\ DOMAIN k \subseteq Int /\ DOMAIN q \subseteq Int
      /\ 1 \in DOMAIN k /\ k[1] = x
      /\ \A i \in DOMAIN k : i # 1 => i - 1 \in DOMAIN q /\ k[i] = q[i - 1]
      /\ \A i \in DOMAIN q : i + 1 \in DOMAIN k /\ k[i + 1] = q[i]
  BY AtTheHead
<1>2. Once(k)
  BY <1>1 DEF Once, HasWho
<1>3. \A v : HasWho(k, v) => HasWho(q, v) \/ v = x.who
  BY <1>1 DEF HasWho
<1>4. ASSUME NEW v, HasWho(q, v) PROVE HasWho(k, v)
  <2>1. PICK i \in DOMAIN q : q[i].who = v
    BY <1>4 DEF HasWho
  <2>2. i + 1 \in DOMAIN k /\ k[i + 1].who = v
    BY <1>1, <2>1
  <2> QED
    BY <2>2 DEF HasWho
<1>5. HasWho(k, x.who)
  BY <1>1 DEF HasWho
<1> QED
  BY <1>1, <1>2, <1>3, <1>4, <1>5

LEMMA OneMoreNick ==
  ASSUME NEW q \in Seq(Nick), NEW n \in Nick, IsInjective(q), ~HasNick(q, n),
         NEW k, k = <<n>> \o q
  PROVE  /\ k \in Seq(Nick) /\ IsInjective(k) /\ Len(k) = Len(q) + 1
         /\ \A m : HasNick(k, m) <=> HasNick(q, m) \/ m = n
<1>1. /\ k \in Seq(Nick) /\ Len(k) = Len(q) + 1
      /\ DOMAIN k \subseteq Int /\ DOMAIN q \subseteq Int
      /\ 1 \in DOMAIN k /\ k[1] = n
      /\ \A i \in DOMAIN k : i # 1 => i - 1 \in DOMAIN q /\ k[i] = q[i - 1]
      /\ \A i \in DOMAIN q : i + 1 \in DOMAIN k /\ k[i + 1] = q[i]
  BY AtTheHead
<1>2. IsInjective(k)
  BY <1>1 DEF IsInjective, HasNick
<1>3. \A m : HasNick(k, m) => HasNick(q, m) \/ m = n
  BY <1>1 DEF HasNick
<1>4. \A m : HasNick(q, m) => HasNick(k, m)
  BY <1>1 DEF HasNick
<1>5. HasNick(k, n)
  BY <1>1 DEF HasNick
<1> QED
  BY <1>1, <1>2, <1>3, <1>4, <1>5

(* The lists of all, as they were and as they are.                         *)
LEMMA ListsAre ==
  /\ \A w, n : Lists(w, n) <=> HasNick(user[w].watch, n)
  /\ \A w, n : Lists(w, n)' <=> HasNick(user'[w].watch, n)
  /\ \A w, n : Listed(w, n) <=> HasWho(header[n], w)
  /\ \A w, n : Listed(w, n)' <=> HasWho(header'[n], w)
  /\ \A w, n : Listed(w, n) <=> w \in Watchers(header, n)
BY DEF Lists, Listed, HasNick, HasWho, Watchers

LEMMA Telling ==
  ASSUME NEW t \in [Client -> [Nick -> Reply]], NEW h, NEW n \in Nick, NEW reply \in Reply
  PROVE  /\ Tell(t, h, n, reply) \in [Client -> [Nick -> Reply]]
         /\ \A w \in Client, m \in Nick :
              Tell(t, h, n, reply)[w][m] =
                IF m = n /\ w \in Watchers(h, n) THEN reply ELSE t[w][m]
BY DEF Tell

(* What a watcher was told stays true: of a nick that has come, of one that *)
(* has gone, and of one that has it if and only if it had.                 *)
LEMMA ToldItCame ==
  ASSUME NEW v \in Client, NEW m \in Nick, user'[v].mine, told'[v][m] \notin {"nothing", "off"},
         NEW x \in Client, user'[x].nick = m
  PROVE  Knows(v, m)'
BY DEF Knows

LEMMA ToldItWent ==
  ASSUME NEW v \in Client, NEW m \in Nick, user'[v].mine, told'[v][m] = "off",
         \A x \in Client : user'[x].nick # m
  PROVE  Knows(v, m)'
BY DEF Knows

LEMMA ToldBefore ==
  ASSUME NEW v \in Client, NEW m \in Nick, Knows(v, m),
         user'[v].mine = user[v].mine, told'[v][m] = told[v][m],
         (\E x \in Client : user'[x].nick = m) <=> \E x \in Client : user[x].nick = m
  PROVE  Knows(v, m)'
<1>1. user'[v].mine /\ told'[v][m] # "nothing"
  BY DEF Knows
<1>2. (told'[v][m] = "off") <=> \A x \in Client : user'[x].nick # m
  BY DEF Knows
<1> QED
  BY <1>1, <1>2 DEF Knows

(* Nothing changes in the lists.                                           *)
LEMMA SameLists ==
  ASSUME WatchInv, header' = header,
         user' \in [Client -> Struct], told' \in [Client -> [Nick -> Reply]],
         \A w \in Client : user'[w].watch = user[w].watch /\ user'[w].watches = user[w].watches,
         Nicks', Told'
  PROVE  WatchInv'
<1>1. WatchT'
  BY DEF WatchInv, WatchT
<1>2. OnHeaders' /\ OnUsers' /\ OnBoth'
  BY DEF WatchInv, OnHeaders, OnUsers, OnBoth, Lists, Listed, Once, IsInjective
<1> QED
  BY <1>1, <1>2 DEF WatchInv

(* One user and one header change, the other lists stay.                   *)
LEMMA OneEntry ==
  ASSUME WatchListAssumption, WatchInv, NEW w \in Client, NEW n \in Nick,
         NEW u \in Struct, NEW list \in Seq(Watch),
         user' = [user EXCEPT ![w] = u], header' = [header EXCEPT ![n] = list],
         told' \in [Client -> [Nick -> Reply]],
         u.nick = user[w].nick, u.mine = user[w].mine, user[w].mine,
         Once(list), IsInjective(u.watch),
         u.watches = Len(u.watch), u.watches <= MaxWatch,
         \A v : v # w => (HasWho(list, v) <=> HasWho(header[n], v)),
         \A m : m # n => (HasNick(u.watch, m) <=> HasNick(user[w].watch, m)),
         HasNick(u.watch, n) <=> HasWho(list, w),
         \A v \in Client, m \in Nick : ~(v = w /\ m = n) => told'[v][m] = told[v][m],
         HasWho(list, w) => /\ told'[w][n] # "nothing"
                            /\ told'[w][n] = "off" <=> \A v \in Client : user[v].nick # n
  PROVE  WatchInv'
<1>1. /\ user \in [Client -> Struct] /\ header \in [Nick -> Seq(Watch)]
      /\ OnHeaders /\ OnUsers /\ OnBoth /\ Nicks /\ Told
  BY DEF WatchInv, WatchT
<1>2. /\ \A v \in Client : user'[v] = IF v = w THEN u ELSE user[v]
      /\ \A m \in Nick : header'[m] = IF m = n THEN list ELSE header[m]
  BY <1>1
<1>3. WatchT'
  BY <1>1 DEF WatchT
<1>4. OnHeaders'
  BY <1>1, <1>2 DEF OnHeaders, Once
<1>5. OnUsers'
  BY <1>1, <1>2 DEF OnUsers, IsInjective
<1>6. OnBoth'
  <2> SUFFICES ASSUME NEW v \in Client, NEW m \in Nick
               PROVE  HasNick(user'[v].watch, m) <=> HasWho(header'[m], v)
    BY ListsAre DEF OnBoth
  <2>1. HasNick(user[v].watch, m) <=> HasWho(header[m], v)
    BY <1>1, ListsAre DEF OnBoth
  <2> QED
    BY <1>2, <2>1
<1>7. \A v \in Client : user'[v].nick = user[v].nick /\ user'[v].mine = user[v].mine
  BY <1>2
<1>8. Nicks'
  <2>1. user[w].nick # NoNick
    BY <1>1 DEF Nicks, NoUser
  <2> QED
    BY <1>1, <1>2, <1>7, <2>1 DEF Nicks
<1>9. Told'
  <2> SUFFICES ASSUME NEW m \in Nick, NEW v \in Client, HasWho(header'[m], v)
               PROVE  Knows(v, m)'
    BY ListsAre DEF Told
  <2>1. CASE v = w /\ m = n
    BY <1>2, <1>7, <2>1 DEF Knows
  <2>2. CASE ~(v = w /\ m = n)
    <3>1. HasWho(header[m], v)
      <4>1. CASE m = n
        BY <1>2, <2>2, <4>1
      <4>2. CASE m # n
        BY <1>2, <4>2
      <4> QED
        BY <4>1, <4>2
    <3>2. Knows(v, m)
      BY <1>1, <3>1, ListsAre DEF Told
    <3> QED
      BY <1>7, <2>2, <3>2 DEF Knows
  <2> QED
    BY <2>1, <2>2
<1> QED
  BY <1>3, <1>4, <1>5, <1>6, <1>8, <1>9 DEF WatchInv

-----------------------------------------------------------------------------
LEMMA WatchStarts ==
  ASSUME WatchListAssumption, WatchInit
  PROVE  WatchInv
<1>1. <<>> \in Seq(Nick) /\ <<>> \in Seq(Watch) /\ Len(<<>>) = 0 /\ DOMAIN <<>> = {}
  BY EmptySeq, LenProperties
<1>2. /\ user = [u \in Client |-> NoUser] /\ header = [n \in Nick |-> <<>>]
      /\ told = [u \in Client |-> [n \in Nick |-> "nothing"]]
  BY DEF WatchInit
<1>3. NoUser \in Struct
  BY <1>1 DEF NoUser, Struct
<1>4. WatchT
  BY <1>1, <1>2, <1>3 DEF WatchT, Reply
<1>5. \A w \in Client, n \in Nick : ~Listed(w, n) /\ ~Lists(w, n)
  BY <1>1, <1>2 DEF Listed, Lists, NoUser
<1>6. OnHeaders /\ OnUsers
  BY <1>1, <1>2 DEF OnHeaders, OnUsers, Once, NoUser, IsInjective, WatchListAssumption
<1>7. Nicks
  BY <1>2 DEF Nicks, NoUser
<1> QED
  BY <1>4, <1>5, <1>6, <1>7 DEF WatchInv, OnBoth, Told

(* What WATCH answers is so.                                               *)
LEMMA Shown ==
  ASSUME WatchInv, NEW w \in Client, NEW n \in Nick, NEW awaynotify \in BOOLEAN,
         Show(w, n, awaynotify)
  PROVE  /\ told' \in [Client -> [Nick -> Reply]]
         /\ \A v \in Client, m \in Nick : ~(v = w /\ m = n) => told'[v][m] = told[v][m]
         /\ told'[w][n] = "off" <=> \A u \in Client : user[u].nick # n
         /\ told'[w][n] # "nothing"
<1>1. told \in [Client -> [Nick -> Reply]]
  BY DEF WatchInv, WatchT
<1> DEFINE status == IF Person(n) = {} THEN "off"
                     ELSE IF awaynotify /\ \E u \in Person(n) : user[u].away THEN "away" ELSE "on"
<1>2. told' = [told EXCEPT ![w][n] = status]
  BY DEF Show
<1>3. /\ status \in Reply /\ status # "nothing"
      /\ status = "off" <=> \A u \in Client : user[u].nick # n
  BY DEF Reply, Person
<1> HIDE DEF status
<1> QED
  BY <1>1, <1>2, <1>3

(* A user with another list.                                               *)
LEMMA OtherList ==
  ASSUME NEW r \in Struct, NEW q \in Seq(Nick), NEW k \in Int,
         NEW u, u = [r EXCEPT !.watch = q, !.watches = k]
  PROVE  /\ u \in Struct /\ u.watch = q /\ u.watches = k
         /\ u.nick = r.nick /\ u.mine = r.mine
BY DEF Struct

LEMMA WatchAddStep ==
  ASSUME WatchListAssumption, WatchInv, NEW w \in Client, NEW n \in Nick,
         NEW awaynotify \in BOOLEAN, WatchAdd(w, n, awaynotify)
  PROVE  WatchInv'
<1>1. /\ user[w].mine /\ user[w].watches < MaxWatch /\ Show(w, n, awaynotify)
      /\ IF w \in Watchers(header, n) THEN UNCHANGED <<user, header>>
         ELSE /\ header' = [header EXCEPT ![n] = <<[who |-> w, flags |-> awaynotify]>> \o @]
              /\ user' = [user EXCEPT ![w].watch = <<n>> \o @, ![w].watches = @ + 1]
  BY DEF WatchAdd
<1>2. /\ told' \in [Client -> [Nick -> Reply]]
      /\ \A v \in Client, m \in Nick : ~(v = w /\ m = n) => told'[v][m] = told[v][m]
      /\ told'[w][n] = "off" <=> \A u \in Client : user[u].nick # n
      /\ told'[w][n] # "nothing"
  BY <1>1, Shown
<1>3. /\ user \in [Client -> Struct] /\ header \in [Nick -> Seq(Watch)]
      /\ OnHeaders /\ OnUsers /\ OnBoth /\ Nicks /\ Told
  BY DEF WatchInv, WatchT
<1>4. CASE w \in Watchers(header, n)
  <2>1. Told'
    <3>1. SUFFICES ASSUME NEW m \in Nick, NEW v \in Client, HasWho(header[m], v)
                   PROVE  Knows(v, m)'
      BY <1>1, <1>4, ListsAre DEF Told
    <3>2. Knows(v, m)
      BY <1>3, <3>1, ListsAre DEF Told
    <3>3. CASE v = w /\ m = n
      BY <1>1, <1>2, <1>4, <3>2, <3>3 DEF Knows
    <3>4. CASE ~(v = w /\ m = n)
      BY <1>1, <1>2, <1>4, <3>2, <3>4 DEF Knows
    <3> QED
      BY <3>3, <3>4
  <2> QED
    BY <1>1, <1>2, <1>3, <1>4, <2>1, SameLists DEF Nicks
<1>5. CASE w \notin Watchers(header, n)
  <2> DEFINE e == [who |-> w, flags |-> awaynotify]
             list == <<e>> \o header[n]
             mine == <<n>> \o user[w].watch
             k == user[w].watches + 1
             u == [user[w] EXCEPT !.watch = mine, !.watches = k]
  <2>1. /\ e \in Watch /\ e.who = w /\ header[n] \in Seq(Watch) /\ user[w].watch \in Seq(Nick)
        /\ user[w] \in Struct /\ user[w].watches \in Int
    BY <1>3 DEF Watch, Struct
  <2>2. header' = [header EXCEPT ![n] = list] /\ user' = [user EXCEPT ![w] = u]
    BY <1>1, <1>3, <1>5 DEF Struct
  <2>3. /\ ~HasWho(header[n], w) /\ ~HasNick(user[w].watch, n)
        /\ Once(header[n]) /\ IsInjective(user[w].watch)
        /\ user[w].watches = Len(user[w].watch)
    BY <1>3, <1>5, ListsAre DEF OnHeaders, OnUsers, OnBoth
  <2> HIDE DEF e
  <2>4. /\ list \in Seq(Watch) /\ Once(list)
        /\ \A v : HasWho(list, v) <=> HasWho(header[n], v) \/ v = w
    BY <2>1, <2>3, OneMoreWatcher
  <2>5. /\ mine \in Seq(Nick) /\ IsInjective(mine) /\ Len(mine) = Len(user[w].watch) + 1
        /\ \A m : HasNick(mine, m) <=> HasNick(user[w].watch, m) \/ m = n
    <3>1. mine = <<n>> \o user[w].watch
      OBVIOUS
    <3>2. user[w].watch \in Seq(Nick) /\ IsInjective(user[w].watch) /\ ~HasNick(user[w].watch, n)
      BY <2>1, <2>3
    <3>3. Len(user[w].watch) \in Nat
      BY <3>2, LenProperties
    <3> HIDE DEF list, u, mine
    <3>4. ASSUME NEW q \in Seq(Nick), IsInjective(q), ~HasNick(q, n), NEW j, j = <<n>> \o q
          PROVE  /\ j \in Seq(Nick) /\ IsInjective(j) /\ Len(j) = Len(q) + 1
                 /\ \A m : HasNick(j, m) <=> HasNick(q, m) \/ m = n
      BY <3>4, OneMoreNick
    <3> QED
      BY <3>1, <3>2, <3>4
  <2> HIDE DEF list, mine
  <2>6. /\ u \in Struct /\ u.watch = mine /\ u.watches = user[w].watches + 1
        /\ u.nick = user[w].nick /\ u.mine = user[w].mine
    <3>1. k \in Int /\ k = user[w].watches + 1 /\ u = [user[w] EXCEPT !.watch = mine, !.watches = k]
      BY <2>1
    <3> HIDE DEF k, u
    <3> QED
      BY <2>1, <2>5, <3>1 DEF Struct
  <2>7. u.watches = Len(u.watch) /\ u.watches <= MaxWatch
    BY <1>1, <2>1, <2>3, <2>5, <2>6 DEF WatchListAssumption
  <2> HIDE DEF u
  <2> QED
    BY <1>1, <1>2, <2>2, <2>4, <2>5, <2>6, <2>7, OneEntry
<1> QED
  BY <1>4, <1>5

LEMMA WatchDelStep ==
  ASSUME WatchListAssumption, WatchInv, NEW w \in Client, NEW n \in Nick, WatchDel(w, n)
  PROVE  WatchInv'
<1>1. /\ user[w].mine /\ Show(w, n, FALSE)
      /\ IF w \notin Watchers(header, n) THEN UNCHANGED <<user, header>>
         ELSE /\ header' = [header EXCEPT ![n] = Unwatched(@, w)]
              /\ user' = [user EXCEPT ![w].watch = Keep(@, Nick \ {n}), ![w].watches = @ - 1]
  BY DEF WatchDel
<1>2. /\ told' \in [Client -> [Nick -> Reply]]
      /\ \A v \in Client, m \in Nick : ~(v = w /\ m = n) => told'[v][m] = told[v][m]
      /\ told'[w][n] = "off" <=> \A u \in Client : user[u].nick # n
      /\ told'[w][n] # "nothing"
  BY <1>1, Shown
<1>3. /\ user \in [Client -> Struct] /\ header \in [Nick -> Seq(Watch)]
      /\ OnHeaders /\ OnUsers /\ OnBoth /\ Nicks /\ Told
  BY DEF WatchInv, WatchT
<1>4. CASE w \notin Watchers(header, n)
  <2>1. Told'
    <3>1. SUFFICES ASSUME NEW m \in Nick, NEW v \in Client, HasWho(header[m], v)
                   PROVE  Knows(v, m)'
      BY <1>1, <1>4, ListsAre DEF Told
    <3>2. Knows(v, m)
      BY <1>3, <3>1, ListsAre DEF Told
    <3>3. CASE v = w /\ m = n
      BY <1>1, <1>2, <1>4, <3>2, <3>3 DEF Knows
    <3>4. CASE ~(v = w /\ m = n)
      BY <1>1, <1>2, <1>4, <3>2, <3>4 DEF Knows
    <3> QED
      BY <3>3, <3>4
  <2> QED
    BY <1>1, <1>2, <1>3, <1>4, <2>1, SameLists DEF Nicks
<1>5. CASE w \in Watchers(header, n)
  <2> DEFINE list == Unwatched(header[n], w)
             mine == Keep(user[w].watch, Nick \ {n})
             k == user[w].watches - 1
             u == [user[w] EXCEPT !.watch = mine, !.watches = k]
  <2>1. /\ header[n] \in Seq(Watch) /\ user[w].watch \in Seq(Nick)
        /\ user[w] \in Struct /\ user[w].watches \in Int
    BY <1>3 DEF Struct
  <2>2. header' = [header EXCEPT ![n] = list] /\ user' = [user EXCEPT ![w] = u]
    BY <1>1, <1>3, <1>5 DEF Struct
  <2>3. /\ HasNick(user[w].watch, n) /\ Once(header[n]) /\ IsInjective(user[w].watch)
        /\ user[w].watches = Len(user[w].watch) /\ user[w].watches <= MaxWatch
    BY <1>3, <1>5, ListsAre DEF OnHeaders, OnUsers, OnBoth
  <2>4. /\ list \in Seq(Watch) /\ Once(list)
        /\ \A v : HasWho(list, v) <=> HasWho(header[n], v) /\ v # w
    BY <2>1, <2>3, WithoutWatcher
  <2>5. /\ mine \in Seq(Nick) /\ IsInjective(mine) /\ Len(mine) = Len(user[w].watch) - 1
        /\ \A m : HasNick(mine, m) <=> HasNick(user[w].watch, m) /\ m # n
    BY <2>1, <2>3, OneLess
  <2> HIDE DEF list, mine
  <2>6. /\ u \in Struct /\ u.watch = mine /\ u.watches = user[w].watches - 1
        /\ u.nick = user[w].nick /\ u.mine = user[w].mine
    <3>1. k \in Int /\ k = user[w].watches - 1 /\ u = [user[w] EXCEPT !.watch = mine, !.watches = k]
      BY <2>1
    <3> HIDE DEF k, u
    <3> QED
      BY <2>1, <2>5, <3>1 DEF Struct
  <2>7. u.watches = Len(u.watch) /\ u.watches <= MaxWatch
    BY <2>1, <2>3, <2>5, <2>6 DEF WatchListAssumption
  <2> HIDE DEF u
  <2> QED
    BY <1>1, <1>2, <2>2, <2>4, <2>5, <2>6, <2>7, OneEntry
<1> QED
  BY <1>4, <1>5

(* hash_del_watch_list takes a user from all headers.                      *)
LEMMA Dropped ==
  ASSUME WatchInv, NEW w \in Client, NEW h, h = DelWatchList(header, w)
  PROVE  /\ h \in [Nick -> Seq(Watch)]
         /\ \A n \in Nick : /\ Once(h[n])
                            /\ \A v \in Client : HasWho(h[n], v) <=> HasWho(header[n], v) /\ v # w
<1> SUFFICES ASSUME NEW n \in Nick
             PROVE  /\ h[n] \in Seq(Watch) /\ Once(h[n])
                    /\ \A v \in Client : HasWho(h[n], v) <=> HasWho(header[n], v) /\ v # w
  BY DEF DelWatchList
<1>1. /\ header[n] \in Seq(Watch) /\ Once(header[n])
      /\ HasNick(user[w].watch, n) <=> HasWho(header[n], w)
  BY ListsAre DEF WatchInv, WatchT, OnHeaders, OnBoth
<1>2. CASE n \in ToSet(user[w].watch)
  <2>1. h[n] = Unwatched(header[n], w)
    BY <1>2 DEF DelWatchList
  <2> QED
    BY <1>1, <2>1, WithoutWatcher
<1>3. CASE n \notin ToSet(user[w].watch)
  <2>1. h[n] = header[n] /\ ~HasNick(user[w].watch, n)
    BY <1>3 DEF DelWatchList, HasNick, ToSet
  <2> QED
    BY <1>1, <2>1
<1> QED
  BY <1>2, <1>3

(* One user is taken from all headers and has no list any more.            *)
LEMMA OneDropped ==
  ASSUME WatchListAssumption, WatchInv, NEW w \in Client, NEW u \in Struct,
         header' \in [Nick -> Seq(Watch)], user' = [user EXCEPT ![w] = u],
         u.watch = <<>>, u.watches = 0,
         \A n \in Nick : /\ Once(header'[n])
                         /\ \A v \in Client : HasWho(header'[n], v) <=> HasWho(header[n], v) /\ v # w,
         told' \in [Client -> [Nick -> Reply]], Nicks', Told'
  PROVE  WatchInv'
<1>1. user \in [Client -> Struct] /\ OnUsers /\ OnBoth
  BY DEF WatchInv, WatchT
<1>2. \A v \in Client : user'[v] = IF v = w THEN u ELSE user[v]
  BY <1>1
<1>3. DOMAIN <<>> = {} /\ Len(<<>>) = 0
  BY EmptySeq
<1>4. WatchT' /\ OnHeaders'
  BY <1>1 DEF WatchT, OnHeaders
<1>5. OnUsers'
  BY <1>1, <1>2, <1>3 DEF OnUsers, IsInjective, WatchListAssumption
<1>6. OnBoth'
  <2> SUFFICES ASSUME NEW v \in Client, NEW m \in Nick
               PROVE  HasNick(user'[v].watch, m) <=> HasWho(header'[m], v)
    BY ListsAre DEF OnBoth
  <2>1. HasNick(user[v].watch, m) <=> HasWho(header[m], v)
    BY <1>1, ListsAre DEF OnBoth
  <2>2. ~HasNick(u.watch, m)
    BY <1>3 DEF HasNick
  <2> QED
    BY <1>2, <2>1, <2>2
<1> QED
  BY <1>4, <1>5, <1>6 DEF WatchInv

LEMMA WatchClearStep ==
  ASSUME WatchListAssumption, WatchInv, NEW w \in Client, WatchClear(w)
  PROVE  WatchInv'
<1>1. /\ user \in [Client -> Struct] /\ told \in [Client -> [Nick -> Reply]] /\ Nicks /\ Told
  BY DEF WatchInv, WatchT
<1> DEFINE none == <<>>
           zero == 0
           u == [user[w] EXCEPT !.watch = none, !.watches = zero]
<1>2. /\ user[w].mine /\ header' = DelWatchList(header, w) /\ told' = told
      /\ user' = [user EXCEPT ![w] = u]
  BY <1>1 DEF WatchClear, Struct
<1>3. none \in Seq(Nick) /\ zero \in Int /\ user[w] \in Struct
  BY <1>1
<1>4. none = <<>> /\ zero = 0 /\ u = [user[w] EXCEPT !.watch = none, !.watches = zero]
  OBVIOUS
<1> HIDE DEF u, none, zero
<1>5. /\ u \in Struct /\ u.watch = none /\ u.watches = zero
      /\ u.nick = user[w].nick /\ u.mine = user[w].mine
  BY <1>3, <1>4 DEF Struct
<1>6. \A v \in Client : user'[v].nick = user[v].nick /\ user'[v].mine = user[v].mine
  BY <1>1, <1>2, <1>5
<1>7. /\ header' \in [Nick -> Seq(Watch)]
      /\ \A n \in Nick : /\ Once(header'[n])
                         /\ \A v \in Client : HasWho(header'[n], v) <=> HasWho(header[n], v) /\ v # w
  BY <1>2, Dropped
<1>8. Nicks'
  <2>1. user[w].nick # NoNick
    BY <1>1, <1>2 DEF Nicks, NoUser
  <2> QED
    BY <1>1, <1>2, <1>6, <2>1 DEF Nicks
<1>9. Told'
  <2> SUFFICES ASSUME NEW m \in Nick, NEW v \in Client, HasWho(header'[m], v)
               PROVE  Knows(v, m)'
    BY ListsAre DEF Told
  <2>1. Knows(v, m)
    BY <1>1, <1>7, ListsAre DEF Told
  <2> QED
    BY <1>2, <1>6, <2>1 DEF Knows
<1> QED
  BY <1>1, <1>2, <1>4, <1>5, <1>7, <1>8, <1>9, OneDropped

LEMMA RegisterStep ==
  ASSUME WatchListAssumption, WatchInv, NEW u \in Client, NEW n \in Nick, NEW mine \in BOOLEAN,
         WatchRegister(u, n, mine)
  PROVE  WatchInv'
<1>1. /\ user \in [Client -> Struct] /\ header \in [Nick -> Seq(Watch)]
      /\ told \in [Client -> [Nick -> Reply]] /\ Nicks /\ Told
  BY DEF WatchInv, WatchT
<1> DEFINE r == [NoUser EXCEPT !.nick = n, !.mine = mine]
           t == [told EXCEPT ![u] = [m \in Nick |-> "nothing"]]
<1>2. /\ user[u] = NoUser /\ \A v \in Client : user[v].nick # n
      /\ user' = [user EXCEPT ![u] = r] /\ told' = Tell(t, header, n, "on") /\ header' = header
  BY <1>1 DEF WatchRegister, Person, Nicks
<1>3. /\ r \in Struct /\ r.nick = n /\ r.mine = mine
      /\ r.watch = NoUser.watch /\ r.watches = NoUser.watches
      /\ t \in [Client -> [Nick -> Reply]]
  <2>1. /\ r \in Struct /\ r.nick = n /\ r.mine = mine
        /\ r.watch = NoUser.watch /\ r.watches = NoUser.watches
    <3>1. NoUser \in Struct
      BY EmptySeq DEF NoUser, Struct
    <3> QED
      BY <3>1 DEF Struct
  <2>2. [m \in Nick |-> "nothing"] \in [Nick -> Reply]
    BY DEF Reply
  <2> QED
    BY <1>1, <2>1, <2>2
<1>4. r \in Struct
  BY <1>3
<1>5. \A v \in Client \ {u}, m \in Nick : t[v][m] = told[v][m]
  BY <1>1
<1> HIDE DEF r, t
<1>6. /\ told' \in [Client -> [Nick -> Reply]]
      /\ \A w \in Client, m \in Nick :
           told'[w][m] = IF m = n /\ w \in Watchers(header, n) THEN "on" ELSE t[w][m]
  BY <1>2, <1>3, Telling DEF Reply
<1>7. \A v \in Client : user'[v] = IF v = u THEN r ELSE user[v]
  BY <1>1, <1>2
<1>8. Nicks'
  BY <1>1, <1>2, <1>3, <1>7 DEF Nicks, WatchListAssumption
<1>9. Told'
  <2> SUFFICES ASSUME NEW m \in Nick, NEW v \in Client, HasWho(header[m], v)
               PROVE  Knows(v, m)'
    BY <1>2, ListsAre DEF Told
  <2>1. Knows(v, m) /\ v # u
    BY <1>1, <1>2, ListsAre DEF Told, Knows, NoUser
  <2>2. m = n => v \in Watchers(header, n)
    BY ListsAre
  <2>3. CASE m = n
    BY <1>3, <1>6, <1>7, <2>1, <2>2, <2>3 DEF Knows
  <2>4. CASE m # n
    BY <1>2, <1>3, <1>5, <1>6, <1>7, <2>1, <2>4 DEF Knows, NoUser, WatchListAssumption
  <2> QED
    BY <2>3, <2>4
<1>10. \A v \in Client : user'[v].watch = user[v].watch /\ user'[v].watches = user[v].watches
  BY <1>2, <1>3, <1>7 DEF NoUser
<1> QED
  BY <1>1, <1>2, <1>4, <1>6, <1>8, <1>9, <1>10, SameLists

LEMMA WrongDirectionStep ==
  ASSUME WatchListAssumption, WatchInv, NEW n \in Nick, WrongDirection(n)
  PROVE  WatchInv'
<1>1. /\ user \in [Client -> Struct] /\ header \in [Nick -> Seq(Watch)]
      /\ told \in [Client -> [Nick -> Reply]] /\ Nicks /\ Told
  BY DEF WatchInv, WatchT
<1>2. /\ \A v \in Client : user[v].nick # n
      /\ user' = user /\ told' = Tell(told, header, n, "off") /\ header' = header
  BY DEF WrongDirection, Person
<1>3. /\ told' \in [Client -> [Nick -> Reply]]
      /\ \A w \in Client, m \in Nick :
           told'[w][m] = IF m = n /\ w \in Watchers(header, n) THEN "off" ELSE told[w][m]
  BY <1>1, <1>2 DEF Tell, Reply
<1>4. Told'
  <2> SUFFICES ASSUME NEW m \in Nick, NEW v \in Client, HasWho(header[m], v)
               PROVE  Knows(v, m)'
    BY <1>2, ListsAre DEF Told
  <2>1. Knows(v, m)
    BY <1>1, ListsAre DEF Told
  <2> QED
    BY <1>2, <1>3, <2>1 DEF Knows
<1> QED
  BY <1>1, <1>2, <1>3, <1>4, SameLists DEF Nicks

LEMMA NickChangeStep ==
  ASSUME WatchListAssumption, WatchInv, NEW u \in Client, NEW n \in Nick, NickChange(u, n)
  PROVE  WatchInv'
<1>1. /\ user \in [Client -> Struct] /\ header \in [Nick -> Seq(Watch)]
      /\ told \in [Client -> [Nick -> Reply]] /\ Nicks /\ Told
  BY DEF WatchInv, WatchT
<1> DEFINE old == user[u].nick
           t == Tell(told, header, old, "off")
<1>2. /\ old # NoNick /\ \A v \in Client : user[v].nick = n => v = u
      /\ user' = [user EXCEPT ![u].nick = n] /\ told' = Tell(t, header, n, "on") /\ header' = header
  BY DEF NickChange, Person, Renamed
<1>3. old \in Nick
  BY <1>1, <1>2 DEF Struct
<1> HIDE DEF t
<1>4. /\ t \in [Client -> [Nick -> Reply]]
      /\ \A w \in Client, m \in Nick :
           t[w][m] = IF m = old /\ w \in Watchers(header, old) THEN "off" ELSE told[w][m]
  BY <1>1, <1>3 DEF Tell, Reply, t
<1>5. /\ told' \in [Client -> [Nick -> Reply]]
      /\ \A w \in Client, m \in Nick :
           told'[w][m] = IF m = n /\ w \in Watchers(header, n) THEN "on" ELSE t[w][m]
  BY <1>2, <1>4, Telling DEF Reply
<1>6. /\ user' \in [Client -> Struct]
      /\ \A v \in Client : /\ user'[v].nick = IF v = u THEN n ELSE user[v].nick
                           /\ user'[v].mine = user[v].mine /\ user'[v].watch = user[v].watch
                           /\ user'[v].watches = user[v].watches
                           /\ v # u => user'[v] = user[v]
  BY <1>1, <1>2 DEF Struct
<1>7. Nicks'
  BY <1>1, <1>2, <1>6 DEF Nicks, WatchListAssumption
<1>8. Told'
  <2> SUFFICES ASSUME NEW m \in Nick, NEW v \in Client, HasWho(header[m], v)
               PROVE  Knows(v, m)'
    BY <1>2, ListsAre DEF Told
  <2>1. Knows(v, m) /\ v \in Watchers(header, m)
    BY <1>1, ListsAre DEF Told
  <2>5. user[v].mine /\ user'[v].mine = user[v].mine
    BY <1>6, <2>1 DEF Knows
  <2>2. CASE m = n
    <3>1. told'[v][m] = "on"
      BY <1>5, <2>1, <2>2
    <3>2. user'[u].nick = m
      BY <1>6, <2>2
    <3> QED
      BY <2>5, <3>1, <3>2, ToldItCame
  <2>3. CASE m # n /\ m = old
    <3>1. \A x \in Client : user'[x].nick # m
      BY <1>1, <1>2, <1>6, <2>3 DEF Nicks
    <3> QED
      <4>1. told'[v][m] = "off"
        BY <1>4, <1>5, <2>1, <2>3
      <4> QED
        BY <2>5, <3>1, <4>1, ToldItWent
  <2>4. CASE m # n /\ m # old
    <3>1. \A x \in Client : user'[x].nick = m <=> user[x].nick = m
      BY <1>6, <2>4
    <3>2. told'[v][m] = told[v][m]
      BY <1>4, <1>5, <2>1, <2>4
    <3> HIDE DEF old
    <3> QED
      BY <2>1, <2>5, <3>1, <3>2, ToldBefore
  <2> QED
    BY <2>2, <2>3, <2>4
<1> QED
  BY <1>2, <1>5, <1>6, <1>7, <1>8, SameLists

LEMMA ExitStep ==
  ASSUME WatchListAssumption, WatchInv, NEW u \in Client, WatchExit(u)
  PROVE  WatchInv'
<1>1. /\ user \in [Client -> Struct] /\ header \in [Nick -> Seq(Watch)] /\ OnHeaders
      /\ told \in [Client -> [Nick -> Reply]] /\ Nicks /\ Told
  BY DEF WatchInv, WatchT
<1> DEFINE h == IF user[u].mine THEN DelWatchList(header, u) ELSE header
           old == user[u].nick
<1>2. /\ old # NoNick /\ header' = h /\ told' = Tell(told, h, old, "off")
      /\ user' = [user EXCEPT ![u] = NoUser]
  BY DEF WatchExit
<1>3. /\ h \in [Nick -> Seq(Watch)]
      /\ \A n \in Nick : /\ Once(h[n])
                         /\ \A v \in Client : HasWho(h[n], v) <=> HasWho(header[n], v) /\ v # u
  <2>1. CASE user[u].mine
    BY <2>1, Dropped
  <2>2. CASE ~user[u].mine
    <3>1. \A n \in Nick : ~HasWho(header[n], u)
      BY <1>1, <2>2, ListsAre DEF Told, Knows
    <3> QED
      BY <1>1, <2>2, <3>1 DEF OnHeaders
  <2> QED
    BY <2>1, <2>2
<1> HIDE DEF h
<1>4. old \in Nick
  BY <1>1, <1>2 DEF Struct
<1>5. /\ told' \in [Client -> [Nick -> Reply]]
      /\ \A w \in Client, m \in Nick :
           told'[w][m] = IF m = old /\ w \in Watchers(h, old) THEN "off" ELSE told[w][m]
  BY <1>1, <1>2, <1>4, Telling DEF Reply
<1>6. NoUser \in Struct /\ NoUser.nick = NoNick /\ NoUser.watch = <<>> /\ NoUser.watches = 0
  BY EmptySeq DEF NoUser, Struct
<1>7. \A v \in Client : user'[v] = IF v = u THEN NoUser ELSE user[v]
  BY <1>1, <1>2
<1>8. Nicks'
  BY <1>1, <1>6, <1>7 DEF Nicks
<1>9. Told'
  <2> SUFFICES ASSUME NEW m \in Nick, NEW v \in Client, HasWho(h[m], v)
               PROVE  Knows(v, m)'
    BY <1>2, ListsAre DEF Told
  <2>1. Knows(v, m) /\ v # u
    BY <1>1, <1>3, ListsAre DEF Told
  <2>2. m = old => v \in Watchers(h, old)
    BY DEF HasWho, Watchers
  <2>3. CASE m = old
    <3>1. \A x \in Client : user'[x].nick # m
      BY <1>1, <1>2, <1>6, <1>7, <2>3 DEF Nicks
    <3> QED
      BY <1>5, <1>7, <2>1, <2>2, <2>3, <3>1 DEF Knows
  <2>4. CASE m # old
    <3>1. (\E x \in Client : user'[x].nick = m) <=> \E x \in Client : user[x].nick = m
      BY <1>6, <1>7, <2>4 DEF WatchListAssumption
    <3> QED
      BY <1>5, <1>7, <2>1, <2>4, <3>1 DEF Knows
  <2> QED
    BY <2>3, <2>4
<1> QED
  BY <1>2, <1>3, <1>5, <1>6, <1>8, <1>9, OneDropped

LEMMA AwayStep ==
  ASSUME WatchListAssumption, WatchInv, NEW u \in Client, NEW away \in BOOLEAN, Away(u, away)
  PROVE  WatchInv'
<1>1. /\ user \in [Client -> Struct] /\ header \in [Nick -> Seq(Watch)]
      /\ told \in [Client -> [Nick -> Reply]] /\ Nicks /\ Told
  BY DEF WatchInv, WatchT
<1> DEFINE old == user[u].nick
           reply == IF away THEN "away" ELSE "on"
<1>2. /\ old # NoNick /\ header' = header /\ user' = [user EXCEPT ![u].away = away]
      /\ told' = IF user[u].mine THEN TellAway(told, header, old, reply) ELSE told
  BY DEF Away
<1>3. reply \in Reply /\ reply \notin {"nothing", "off"}
  BY DEF Reply
<1> HIDE DEF reply
<1>4. /\ told' \in [Client -> [Nick -> Reply]]
      /\ \A w \in Client, m \in Nick : told'[w][m] = told[w][m] \/ (m = old /\ told'[w][m] = reply)
  <2>1. CASE user[u].mine
    <3> DEFINE wants == {header[old][i].who : i \in {i \in DOMAIN header[old] : header[old][i].flags}}
    <3>1. told' = [w \in Client |-> IF w \in wants THEN [told[w] EXCEPT ![old] = reply] ELSE told[w]]
      BY <1>2, <2>1 DEF TellAway
    <3> HIDE DEF wants
    <3> QED
      BY <1>1, <1>3, <3>1
  <2>2. CASE ~user[u].mine
    BY <1>1, <1>2, <2>2
  <2> QED
    BY <2>1, <2>2
<1>5. /\ user' \in [Client -> Struct]
      /\ \A v \in Client : /\ user'[v].nick = user[v].nick
                           /\ user'[v].mine = user[v].mine /\ user'[v].watch = user[v].watch
                           /\ user'[v].watches = user[v].watches
                           /\ v # u => user'[v] = user[v]
  BY <1>1, <1>2 DEF Struct
<1>6. Nicks'
  BY <1>1, <1>2, <1>5 DEF Nicks
<1>7. Told'
  <2> SUFFICES ASSUME NEW m \in Nick, NEW v \in Client, HasWho(header[m], v)
               PROVE  Knows(v, m)'
    BY <1>2, ListsAre DEF Told
  <2>1. Knows(v, m)
    BY <1>1, ListsAre DEF Told
  <2>4. user[v].mine /\ user'[v].mine = user[v].mine
    BY <1>5, <2>1 DEF Knows
  <2>5. \A x \in Client : user'[x].nick = user[x].nick
    BY <1>5
  <2>2. CASE told'[v][m] = told[v][m]
    BY <2>1, <2>2, <2>4, <2>5, ToldBefore
  <2>3. CASE m = old /\ told'[v][m] = reply
    <3>1. user'[u].nick = m
      BY <2>3, <2>5
    <3> QED
      BY <1>3, <2>3, <2>4, <3>1, ToldItCame
  <2> QED
    BY <1>4, <2>2, <2>3
<1> QED
  BY <1>2, <1>4, <1>5, <1>6, <1>7, SameLists

LEMMA WatchSteps ==
  ASSUME WatchListAssumption, WatchInv, [WatchNext]_watchVars
  PROVE  WatchInv'
<1>1. CASE UNCHANGED watchVars
  BY <1>1 DEF watchVars, WatchInv, WatchT, OnHeaders, OnUsers, OnBoth, Lists, Listed, Nicks, Told, Knows
<1>2. ASSUME NEW w \in Client, NEW n \in Nick, NEW awaynotify \in BOOLEAN, WatchAdd(w, n, awaynotify)
      PROVE  WatchInv'
  BY <1>2, WatchAddStep
<1>3. ASSUME NEW w \in Client, NEW n \in Nick, WatchDel(w, n) \/ NickChange(w, n)
      PROVE  WatchInv'
  BY <1>3, WatchDelStep, NickChangeStep
<1>4. ASSUME NEW w \in Client, NEW n \in Nick, NEW mine \in BOOLEAN, WatchRegister(w, n, mine)
      PROVE  WatchInv'
  BY <1>4, RegisterStep
<1>5. ASSUME NEW n \in Nick, WrongDirection(n)
      PROVE  WatchInv'
  BY <1>5, WrongDirectionStep
<1>6. ASSUME NEW u \in Client, WatchClear(u) \/ WatchExit(u) \/ Away(u, TRUE) \/ Away(u, FALSE)
      PROVE  WatchInv'
  BY <1>6, WatchClearStep, ExitStep, AwayStep
<1> QED
  BY <1>1, <1>2, <1>3, <1>4, <1>5, <1>6 DEF WatchNext

(* An entry is once among a nick's watchers.                               *)
LEMMA OnceCounted ==
  ASSUME NEW list \in Seq(Watch), Once(list), NEW w
  PROVE  Cardinality({i \in DOMAIN list : list[i].who = w}) = IF HasWho(list, w) THEN 1 ELSE 0
<1> DEFINE S == {i \in DOMAIN list : list[i].who = w}
<1>1. CASE HasWho(list, w)
  <2>1. PICK i \in DOMAIN list : list[i].who = w
    BY <1>1 DEF HasWho
  <2>2. S = {i}
    BY <2>1 DEF Once
  <2> QED
    BY <1>1, <2>2, FS_Singleton
<1>2. CASE ~HasWho(list, w)
  <2>1. S = {}
    BY <1>2 DEF HasWho
  <2> QED
    BY <1>2, <2>1, FS_EmptySet
<1> QED
  BY <1>1, <1>2

(* Both ends of every entry of WATCH agree, once each and within MAXWATCH, *)
(* and every watcher, a user of this server that is still there, was told  *)
(* last what is so: somebody has the nick or nobody has.                   *)
THEOREM WatchersAreTold ==
  ASSUME WatchListAssumption
  PROVE  WatchSpec => []WatchTypeOK /\ []WatchersKnow
<1>1. WatchInit => WatchInv
  BY WatchStarts
<1>2. WatchInv /\ [WatchNext]_watchVars => WatchInv'
  BY WatchSteps
<1>3. WatchInv => WatchTypeOK
  BY DEF WatchInv, WatchT, WatchTypeOK, Struct, Watch, Reply
<1>4. ASSUME WatchInv PROVE WatchersKnow
  <2>1. /\ user \in [Client -> Struct] /\ header \in [Nick -> Seq(Watch)]
        /\ OnHeaders /\ OnUsers /\ OnBoth /\ Told
    BY <1>4 DEF WatchInv, WatchT
  <2>2. ASSUME NEW w \in Client, NEW n \in Nick
        PROVE  Cardinality({i \in DOMAIN header[n] : header[n][i].who = w})
                 = IF n \in ToSet(user[w].watch) THEN 1 ELSE 0
    <3>1. header[n] \in Seq(Watch) /\ Once(header[n])
      BY <2>1 DEF OnHeaders
    <3>2. HasWho(header[n], w) <=> n \in ToSet(user[w].watch)
      BY <2>1, ListsAre DEF OnBoth, HasNick, ToSet
    <3> QED
      BY <3>1, <3>2, OnceCounted
  <2>3. EndsAgree
    BY <2>1, <2>2 DEF EndsAgree, OnUsers
  <2>4. \A n \in Nick : Watchers(header, n) \subseteq Client
    <3> SUFFICES ASSUME NEW n \in Nick, NEW i \in DOMAIN header[n]
                 PROVE  header[n][i].who \in Client
      BY DEF Watchers
    <3>1. header[n][i] \in Watch
      BY <2>1, ElementOfSeq, LenProperties
    <3> QED
      BY <3>1 DEF Watch
  <2>5. ToldTruth
    <3> SUFFICES ASSUME NEW n \in Nick, NEW w \in Watchers(header, n)
                 PROVE  /\ user[w].mine /\ told[w][n] # "nothing"
                        /\ (told[w][n] = "off") <=> (Person(n) = {})
      BY DEF ToldTruth
    <3>1. w \in Client /\ Listed(w, n)
      BY <2>4, ListsAre
    <3>2. Knows(w, n)
      BY <2>1, <3>1 DEF Told
    <3> QED
      BY <3>2 DEF Knows, Person
  <2> QED
    BY <2>3, <2>5 DEF WatchersKnow
<1> QED
  BY <1>1, <1>2, <1>3, <1>4, PTL DEF WatchSpec
==============================================================================
