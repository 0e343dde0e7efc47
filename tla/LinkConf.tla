------------------------------ MODULE LinkConf ------------------------------
(***************************************************************************)
(* link {} and class {} blocks and what points to them: s_conf.c, s_bsd.c, *)
(* res.c, m_server.c, m_oper.c and exit_client of s_misc.c.                *)
(*                                                                         *)
(* A REHASH takes every block out of the configuration.  One that is still *)
(* in use stays in memory, marked temporary, until its reference count is  *)
(* 0: a link block is used by server connections and by look-ups of its    *)
(* host name, a class by the clients in it and by link blocks.             *)
(***************************************************************************)
EXTENDS Integers, FiniteSets

CONSTANTS Name,          \* names of link {} blocks
          Mem,          \* structs of one name that may be in memory together
          Class,         \* names of class {} blocks
          DefaultClass,  \* default_class, which is permanent
          MaxClients,    \* class::maxclients
          Conn,          \* connections
          Req,           \* look-ups of the host name of a link block
          NULL

Block == Name \X Mem

LinkConfAssumption ==
  /\ DefaultClass \in Class /\ MaxClients \in Nat
  /\ IsFiniteSet(Name) /\ IsFiniteSet(Mem) /\ IsFiniteSet(Conn) /\ IsFiniteSet(Req)
  /\ NULL \notin Block /\ NULL \notin Class

VARIABLES class,  \* class[k]: the block of that name, if there is one
          link,   \* link[b]: the struct b, if it is in memory
          conn,   \* conn[c]: status, cptr->serv->conf and cptr->class
          req     \* req[r]: r->linkblock, or NULL when there is no look-up r
linkVars == <<class, link, conn, req>>

NoClass == [there |-> FALSE, temporary |-> FALSE, clients |-> 0, xrefcount |-> 0]
NoLink == [there |-> FALSE, temporary |-> FALSE, class |-> NULL, refcount |-> 0]
NoConn == [status |-> "none", conf |-> NULL, class |-> NULL]

LinkTypeOK ==
  /\ class \in [Class -> [there : BOOLEAN, temporary : BOOLEAN, clients : Int, xrefcount : Int]]
  /\ link \in [Block -> [there : BOOLEAN, temporary : BOOLEAN, class : Class \cup {NULL}, refcount : Int]]
  /\ conn \in [Conn -> [status : {"none", "unknown", "user", "connecting", "server"},
                        conf : Block \cup {NULL}, class : Class \cup {NULL}]]
  /\ req \in [Req -> Block \cup {NULL}]

LinkInit ==
  /\ class = [k \in Class |-> [NoClass EXCEPT !.there = (k = DefaultClass)]]
  /\ link = [b \in Block |-> NoLink]
  /\ conn = [c \in Conn |-> NoConn]
  /\ req = [r \in Req |-> NULL]

----------------------------------------------------------------------------
(* The counts.                                                             *)

MoreClients(cl, k) == [cl EXCEPT ![k].clients = @ + 1]
FewerClients(cl, k) == [cl EXCEPT ![k].clients = @ - 1]
MoreRefs(li, b) == [li EXCEPT ![b].refcount = @ + 1]
FewerRefs(li, b) == [li EXCEPT ![b].refcount = @ - 1]

Unused(cl, k) == cl[k].clients = 0 /\ cl[k].xrefcount = 0

(* delete_classblock, for a temporary class that is not used any more.     *)
WipeClass(cl, k) ==
  IF cl[k].temporary /\ Unused(cl, k) THEN [cl EXCEPT ![k] = NoClass] ELSE cl

(* delete_linkblock: li[b] goes, and its class if that was for b only.     *)
DeleteLink(li, b) == [li EXCEPT ![b] = NoLink]
LeaveClass(cl, k) == WipeClass([cl EXCEPT ![k].xrefcount = @ - 1], k)

----------------------------------------------------------------------------
(* REHASH, with the blocks of the new file: its classes, and its link      *)
(* blocks with the class each names.                                       *)

(* config_rehash: blocks that nothing refers to go, the rest is temporary. *)
OldLinks ==
  [b \in Block |-> IF link[b].there /\ link[b].refcount # 0
                   THEN [link[b] EXCEPT !.temporary = TRUE] ELSE NoLink]

WipedOf(k) == {b \in Block : link[b].there /\ link[b].refcount = 0 /\ link[b].class = k}

(* Wrong: a class in use by link blocks only is not kept.                  *)
OldClasses_ForgetsLinks ==
  [k \in Class |->
     LET x == class[k].xrefcount - Cardinality(WipedOf(k))
     IN  IF k = DefaultClass THEN [class[k] EXCEPT !.xrefcount = x]
         ELSE IF class[k].clients = 0 THEN NoClass
         ELSE [class[k] EXCEPT !.xrefcount = x, !.temporary = class[k].there]]

OldClasses ==
  [k \in Class |->
     LET x == class[k].xrefcount - Cardinality(WipedOf(k))
     IN  IF k = DefaultClass THEN [class[k] EXCEPT !.xrefcount = x]
         ELSE IF class[k].clients = 0 /\ x = 0 THEN NoClass
         ELSE [class[k] EXCEPT !.xrefcount = x, !.temporary = class[k].there]]

(* _conf_class and _conf_link: a class that is in memory is used again; a  *)
(* link whose class is not in the file gets the default one.               *)
ClassOf(classes, k) == IF k \in classes THEN k ELSE DefaultClass
NewOf(classes, links, k) == {n \in DOMAIN links : ClassOf(classes, links[n]) = k}
NewClasses(old, classes, links) ==
  [k \in Class |->
     LET x == old[k].xrefcount + Cardinality(NewOf(classes, links, k))
     IN  IF k \in classes \cup {DefaultClass}
         THEN [old[k] EXCEPT !.there = TRUE, !.temporary = FALSE, !.xrefcount = x] ELSE old[k]]

(* slot[n] is the memory that MyMallocEx gives for the new block of name n. *)
NewLinks(old, classes, links, slot) ==
  [b \in Block |-> IF b[1] \in DOMAIN links /\ b[2] = slot[b[1]]
                   THEN [NoLink EXCEPT !.there = TRUE, !.class = ClassOf(classes, links[b[1]])]
                   ELSE old[b]]

(* unrealdns_delasyncconnects looks for requests of the type DNSREQ_CONNECT, *)
(* a type that unrealdns_gethostbyname_link does not set: it finds none.   *)
DelAsyncConnects(requests) == requests

Rehash(classes, links, slot) ==
  /\ \A n \in DOMAIN links : ~OldLinks[<<n, slot[n]>>].there
  /\ req' = DelAsyncConnects(req)
  /\ class' = NewClasses(OldClasses, classes, links)
  /\ link' = NewLinks(OldLinks, classes, links, slot)
  /\ UNCHANGED conn

----------------------------------------------------------------------------
(* Users.                                                                  *)

Full(k) == class[k].clients + 1 > MaxClients

(* allow {} and oper {} blocks name classes of the file that was read last. *)
Current(k) == class[k].there /\ ~class[k].temporary

Accept(c) ==
  /\ conn[c].status = "none"
  /\ conn' = [conn EXCEPT ![c].status = "unknown"]
  /\ UNCHANGED <<class, link, req>>

(* register_user: AttachConf counts the user in.                           *)
AttachConf(c, k) ==
  /\ conn[c].status = "unknown" /\ Current(k) /\ ~Full(k)
  /\ conn' = [conn EXCEPT ![c].status = "user", ![c].class = k]
  /\ class' = MoreClients(class, k)
  /\ UNCHANGED <<link, req>>

(* m_oper moves the user to the class of the oper block.  The class that   *)
(* is left may be temporary and unused: it stays until the next REHASH.    *)
OperUp(c, k) ==
  /\ conn[c].status = "user" /\ Current(k)
  /\ class' = MoreClients(FewerClients(class, conn[c].class), k)
  /\ conn' = [conn EXCEPT ![c].class = k]
  /\ UNCHANGED <<link, req>>

----------------------------------------------------------------------------
(* Servers.                                                                *)

(* try_connections takes current blocks with room in the class, m_connect  *)
(* any block: connect_server starts a look-up when there is no address.    *)
LookUp(b, r) ==
  /\ link[b].there /\ req[r] = NULL
  /\ req' = [req EXCEPT ![r] = b]
  /\ link' = MoreRefs(link, b)
  /\ UNCHANGED <<class, conn>>

(* connect_server, from where the connection is under way.                 *)
Connects(li, c, b) ==
  /\ conn[c].status = "none"
  /\ conn' = [conn EXCEPT ![c] = [status |-> "connecting", conf |-> b, class |-> NULL]]
  /\ link' = MoreRefs(li, b)

ConnectServer(b, c) ==
  /\ link[b].there /\ Connects(link, c, b)
  /\ UNCHANGED <<class, req>>

(* unrealdns_cb_nametoip_link.  No block is freed here: one of an older    *)
(* configuration stays until the next REHASH if the look-up fails.         *)
LookUpFails(r) ==
  /\ req[r] # NULL
  /\ link' = FewerRefs(link, req[r])
  /\ req' = [req EXCEPT ![r] = NULL]
  /\ UNCHANGED <<class, conn>>

LookUpDone(r, c) ==
  /\ req[r] # NULL
  /\ Connects(FewerRefs(link, req[r]), c, req[r])
  /\ req' = [req EXCEPT ![r] = NULL]
  /\ UNCHANGED class

(* m_server_synch after verify_link, which found b: a connection that has  *)
(* a block keeps it, and one that was accepted is counted now.             *)
Synch(c, b) ==
  LET incoming == conn[c].status = "unknown"
      conf == IF conn[c].conf = NULL THEN b ELSE conn[c].conf
      k == link[conf].class
  IN  /\ conn[c].status \in {"unknown", "connecting"}
      /\ link[b].there /\ ~Full(link[b].class)
      /\ conn' = [conn EXCEPT ![c] = [status |-> "server", conf |-> conf, class |-> k]]
      /\ link' = IF incoming THEN MoreRefs(link, conf) ELSE link
      /\ class' = MoreClients(class, k)
      /\ UNCHANGED req

----------------------------------------------------------------------------
(* exit_client of a local connection: the class first, then the link block, *)
(* which may take the class with it.                                       *)
AfterClient(c) ==
  IF conn[c].class = NULL THEN class
  ELSE WipeClass(FewerClients(class, conn[c].class), conn[c].class)

LastOf(c) == conn[c].conf # NULL /\ link[conn[c].conf].refcount = 1 /\ link[conn[c].conf].temporary

Exit(c) ==
  /\ conn[c].status # "none"
  /\ conn' = [conn EXCEPT ![c] = NoConn]
  /\ IF LastOf(c)
     THEN /\ link' = DeleteLink(link, conn[c].conf)
          /\ class' = LeaveClass(AfterClient(c), link[conn[c].conf].class)
     ELSE /\ link' = IF conn[c].conf = NULL THEN link ELSE FewerRefs(link, conn[c].conf)
          /\ class' = AfterClient(c)
  /\ UNCHANGED req

LinkNext ==
  \/ \E classes \in SUBSET (Class \ {DefaultClass}), names \in SUBSET Name :
       \E links \in [names -> Class], slot \in [names -> Mem] : Rehash(classes, links, slot)
  \/ \E c \in Conn :
       \/ Accept(c) \/ Exit(c)
       \/ \E k \in Class : AttachConf(c, k) \/ OperUp(c, k)
       \/ \E b \in Block : ConnectServer(b, c) \/ Synch(c, b)
       \/ \E r \in Req : LookUpDone(r, c)
  \/ \E r \in Req :
       \/ LookUpFails(r)
       \/ \E b \in Block : LookUp(b, r)

LinkSpec == LinkInit /\ [][LinkNext]_linkVars
----------------------------------------------------------------------------
InClass(k) == {c \in Conn : conn[c].class = k}
LinksIn(k) == {b \in Block : link[b].there /\ link[b].class = k}
HeldBy(b) == {c \in Conn : conn[c].conf = b}
AskedFor(b) == {r \in Req : req[r] = b}

(* Nothing points to memory that was freed: the conf and class of a        *)
(* connection, the block of a look-up and the class of a block are there,  *)
(* whatever REHASH came between.                                           *)
NoneFreed ==
  /\ \A c \in Conn : /\ conn[c].conf # NULL => link[conn[c].conf].there
                     /\ conn[c].class # NULL => class[conn[c].class].there
  /\ \A r \in Req : req[r] # NULL => link[req[r]].there
  /\ \A b \in Block : link[b].there => link[b].class # NULL /\ class[link[b].class].there

(* Every block counts exactly those that refer to it, so that the memory   *)
(* of one that is freed and given to a new block takes no old reference    *)
(* with it.                                                                *)
RefsExact ==
  /\ \A k \in Class : class[k].there => /\ class[k].clients = Cardinality(InClass(k))
                                        /\ class[k].xrefcount = Cardinality(LinksIn(k))
  /\ \A b \in Block :
       link[b].there => link[b].refcount = Cardinality(HeldBy(b)) + Cardinality(AskedFor(b))

(* A REHASH comes between a reference and its end, any number of times:    *)
(* what is pointed to stays, and is counted, until nothing points to it.   *)
BlocksHold == NoneFreed /\ RefsExact

(* A block that was taken out of the configuration goes with its last      *)
(* user: "We'll wipe it out when it has no clients" (config_rehash).  Not  *)
(* so: m_oper and the resolver leave it in memory.                         *)
WipedOut ==
  /\ \A k \in Class : class[k].there /\ class[k].temporary => ~Unused(class, k)
  /\ \A b \in Block : link[b].there /\ link[b].temporary => link[b].refcount # 0
=============================================================================
