------------------------------- MODULE ClientDns -------------------------------
(***************************************************************************)
(* What a new connection waits for: the name of its address, and the ident *)
(* server's answer (res.c, s_auth.c, and the handshake in s_bsd.c).        *)
(*                                                                         *)
(* A look-up goes from the address to a name and from the name back.  The  *)
(* resolver library may answer at once, within the call, or much later,    *)
(* when the client has timed out or is gone.  Verified names are cached.   *)
(***************************************************************************)
EXTENDS Lists, SequencesExt, FiniteSets

CONSTANTS Conn,            \* clients (the addresses of their structures)
          Addr, Ip,        \* Ip[c]: the address c comes from
          Hash,            \* unrealdns_haship
          IdentCheck,      \* the values of set::options::identd-check over time
          DNS_MAX_ENTRIES, TTL, MaxTime, MaxRequests, MAXCONNECTIONS

Nil == "nil"

ClientDnsAssumption ==
  /\ Nil \notin Conn
  /\ Ip \in [Conn -> Addr] /\ DOMAIN Hash = Addr /\ IdentCheck \subseteq BOOLEAN
  /\ DNS_MAX_ENTRIES \in Nat \ {0} /\ TTL \in Nat /\ MaxTime \in Nat
  /\ MaxRequests \in Nat /\ MAXCONNECTIONS \in Nat

VARIABLES now,
          waiting,       \* waiting[c]: what the handshake has made of c
          requests,      \* the list of requests, newest first
          cache_list,    \* the cache, newest first
          cache_hashtbl, \* the same records by the hash of their address
          num_cache, OpenFiles,
          stuck          \* history: flagged after the answer had come
dnsVars == <<now, waiting, requests, cache_list, cache_hashtbl, num_cache, OpenFiles, stuck>>

Buckets == {Hash[a] : a \in Addr}
Record == [addr : Addr, expires : 0..MaxTime + TTL]
Gone == [status |-> "none", dns |-> FALSE, auth |-> FALSE, authfd |-> FALSE, hostp |-> FALSE]
States == [status : {"none", "unknown", "client"},
           dns : BOOLEAN, auth : BOOLEAN,        \* FLAGS_DOINGDNS, FLAGS_AUTH
           authfd : BOOLEAN, hostp : BOOLEAN]    \* a socket, a name is there

DnsTypeOK ==
  /\ now \in 0..MaxTime /\ waiting \in [Conn -> States]
  /\ requests \in Seq([cptr : Conn \cup {Nil}, addr : Addr, step : {"addr", "name"}])
  /\ cache_list \in Seq(Record) /\ cache_hashtbl \in [Buckets -> Seq(Record)]
  /\ num_cache \in Int /\ OpenFiles \in Int /\ stuck \subseteq Conn

DnsInit ==
  /\ now = 0 /\ waiting = [c \in Conn |-> Gone] /\ requests = <<>>
  /\ cache_list = <<>> /\ cache_hashtbl = [h \in Buckets |-> <<>>]
  /\ num_cache = 0 /\ OpenFiles = 0 /\ stuck = {}

There(c) == waiting[c].status # "none"
Bit(b) == IF b THEN 1 ELSE 0

----------------------------------------------------------------------------
(* The cache: unrealdns_addtocache (which drops the last record of a full  *)
(* cache, and keeps the record that is there) and its removal of records.  *)
Cached(a) == \E i \in DOMAIN cache_hashtbl[Hash[a]] : cache_hashtbl[Hash[a]][i].addr = a
Unhash(table, dead) == [h \in Buckets |-> Keep(table[h], Record \ dead)]

Insert(a) ==
  LET dead == IF num_cache >= DNS_MAX_ENTRIES THEN {Last(cache_list)} ELSE {}
      rec == [addr |-> a, expires |-> now + TTL]
  IN /\ cache_list' = <<rec>> \o Keep(cache_list, Record \ dead)
     /\ cache_hashtbl' = [Unhash(cache_hashtbl, dead) EXCEPT ![Hash[a]] = <<rec>> \o @]
     /\ num_cache' = num_cache - Cardinality(dead) + 1
SameCache == UNCHANGED <<cache_list, cache_hashtbl, num_cache>>
AddToCache(a) == IF Cached(a) THEN SameCache ELSE Insert(a)

RemoveOldRecords ==
  LET dead == {r \in Range(cache_list) : r.expires < now}
  IN /\ dead # {}
     /\ cache_list' = Keep(cache_list, Record \ dead)
     /\ cache_hashtbl' = Unhash(cache_hashtbl, dead)
     /\ num_cache' = num_cache - Cardinality(dead)
     /\ UNCHANGED <<now, waiting, requests, OpenFiles, stuck>>

----------------------------------------------------------------------------
(* start_auth on the state s of a client: no ident check, no socket to be  *)
(* had, a connect that fails (ident_failed), too many files, or waiting.   *)
StartAuth(s, files) ==
  \/ s.auth = FALSE /\ s.authfd = FALSE /\ files = OpenFiles + 1
  \/ /\ TRUE \in IdentCheck /\ OpenFiles + 2 < MAXCONNECTIONS - 2
     /\ s.auth = TRUE /\ s.authfd = TRUE /\ files = OpenFiles + 2

(* start_of_normal_client_handshake, within which the look-up may already  *)
(* end.  "found": verified at once; "failed": given up at once, after      *)
(* which the client is flagged all the same.                               *)
Handshake(c, outcome) ==
  \E files \in {OpenFiles + 1, OpenFiles + 2} : \E s \in States :
    /\ s.status = "unknown"
    /\ s.dns = (outcome \in {"addr", "name", "failed"})
    /\ s.hostp = (outcome \in {"cached", "found"})
    /\ StartAuth(s, files)
    /\ waiting' = [waiting EXCEPT ![c] = s]
    /\ OpenFiles' = files

NewClient(c) ==
  /\ ~There(c) /\ Len(requests) < MaxRequests
  /\ \E outcome \in {"cached", "addr", "name", "found", "failed"} :
       /\ (outcome = "cached") <=> Cached(Ip[c])
       /\ Handshake(c, outcome)
       /\ requests' = IF outcome \in {"addr", "name"}
                      THEN <<[cptr |-> c, addr |-> Ip[c], step |-> outcome]>> \o requests
                      ELSE requests
       /\ IF outcome = "found" THEN AddToCache(Ip[c]) ELSE SameCache
       /\ stuck' = IF outcome = "failed" THEN stuck \cup {c} ELSE stuck \ {c}
  /\ UNCHANGED now

----------------------------------------------------------------------------
(* proceed_normal_client_handshake.                                        *)
Proceed(c, found) == waiting' = [waiting EXCEPT ![c].dns = FALSE, ![c].hostp = found]

(* unrealdns_cb_iptoname and unrealdns_cb_nametoip_verify for request i.   *)
(* A request without a client ends there.  The look-up of the name may be  *)
(* answered within the call.                                               *)
Answered(i) ==
  LET r == requests[i]
      rest == RemoveAt(requests, i)
      found == Proceed(r.cptr, TRUE) /\ AddToCache(r.addr) /\ requests' = rest
      failed == Proceed(r.cptr, FALSE) /\ SameCache /\ requests' = rest
      again == /\ requests' = <<[r EXCEPT !.step = "name"]>> \o rest
               /\ SameCache /\ UNCHANGED waiting
  IN /\ IF r.cptr = Nil THEN requests' = rest /\ SameCache /\ UNCHANGED waiting
        ELSE found \/ failed \/ (r.step = "addr" /\ again)
     /\ UNCHANGED <<now, OpenFiles, stuck>>

(* unrealdns_delreq_bycptr: requests are not deleted but lose the client.  *)
DelReq_Forgets(c) == requests
DelReq(c) == [i \in DOMAIN requests |->
                IF requests[i].cptr = c THEN [requests[i] EXCEPT !.cptr = Nil]
                ELSE requests[i]]

(* read_authports with an answer, and ident_failed.                        *)
AuthEnds(c) ==
  /\ waiting[c].auth
  /\ waiting' = [waiting EXCEPT ![c].auth = FALSE, ![c].authfd = FALSE]
  /\ OpenFiles' = OpenFiles - Bit(waiting[c].authfd)
  /\ UNCHANGED <<now, requests, cache_list, cache_hashtbl, num_cache, stuck>>

(* check_pings, of a client that has waited for CONNECTTIMEOUT.            *)
TimeOut(c) ==
  /\ waiting[c].status = "unknown" /\ (waiting[c].dns \/ waiting[c].auth)
  /\ requests' = DelReq(c)
  /\ waiting' = [waiting EXCEPT ![c].dns = FALSE, ![c].auth = FALSE, ![c].authfd = FALSE]
  /\ OpenFiles' = OpenFiles - Bit(waiting[c].authfd)
  /\ stuck' = stuck \ {c}
  /\ UNCHANGED <<now, cache_list, cache_hashtbl, num_cache>>

(* read_message reads nothing from a client that is waiting.               *)
Register(c) ==
  /\ waiting[c].status = "unknown" /\ ~waiting[c].dns /\ ~waiting[c].auth
  /\ waiting' = [waiting EXCEPT ![c].status = "client"]
  /\ UNCHANGED <<now, requests, cache_list, cache_hashtbl, num_cache, OpenFiles, stuck>>

Leave(c) ==
  /\ There(c)
  /\ requests' = DelReq(c)
  /\ waiting' = [waiting EXCEPT ![c] = Gone]
  /\ OpenFiles' = OpenFiles - 1 - Bit(waiting[c].authfd)
  /\ stuck' = stuck \ {c}
  /\ UNCHANGED <<now, cache_list, cache_hashtbl, num_cache>>

(* m_rehash "-dns": ares_destroy ends every request with an error.         *)
RehashDns ==
  /\ requests # <<>>
  /\ requests' = <<>>
  /\ waiting' = [c \in Conn |->
        IF \E i \in DOMAIN requests : requests[i].cptr = c
        THEN [waiting[c] EXCEPT !.dns = FALSE, !.hostp = FALSE] ELSE waiting[c]]
  /\ UNCHANGED <<now, cache_list, cache_hashtbl, num_cache, OpenFiles, stuck>>

Tick ==
  /\ now < MaxTime /\ now' = now + 1
  /\ UNCHANGED <<waiting, requests, cache_list, cache_hashtbl, num_cache, OpenFiles, stuck>>

DnsNext ==
  \/ \E c \in Conn : NewClient(c) \/ AuthEnds(c) \/ TimeOut(c) \/ Register(c) \/ Leave(c)
  \/ \E i \in DOMAIN requests : Answered(i)
  \/ RemoveOldRecords \/ RehashDns \/ Tick

DnsSpec == DnsInit /\ [][DnsNext]_dnsVars

----------------------------------------------------------------------------
(* A late answer reaches nobody: a request names a client only while that  *)
(* client is there, unregistered and waiting for it, and a client that     *)
(* waits has one request, or was flagged after its answer had come         *)
(* (unrealdns_delreq_bycptr, proceed_normal_client_handshake).             *)
OneAnswerEach ==
  \A c \in Conn :
    LET mine == {i \in DOMAIN requests : requests[i].cptr = c}
    IN /\ Cardinality(mine) = Bit(waiting[c].dns /\ c \notin stuck)
       /\ waiting[c].dns => waiting[c].status = "unknown"

(* Every socket to an ident server is closed once, whichever of the answer,*)
(* the time-outs and the exit comes first, and no client waits for ident   *)
(* without one.                                                            *)
FilesExact ==
  /\ \A c \in Conn : waiting[c].authfd = waiting[c].auth
  /\ OpenFiles = Cardinality({c \in Conn : There(c)})
                 + Cardinality({c \in Conn : waiting[c].authfd})

(* The cache holds an address once, in its list and in its bucket alike,   *)
(* and never more than DNS_MAX_ENTRIES, also when look-ups of one address  *)
(* end one after the other.                                                *)
CacheExact ==
  /\ IsInjective([i \in DOMAIN cache_list |-> cache_list[i].addr])
  /\ num_cache = Len(cache_list) /\ num_cache <= DNS_MAX_ENTRIES
  /\ \A h \in Buckets :
       cache_hashtbl[h] = Keep(cache_list, {r \in Record : Hash[r.addr] = h})

(* Whatever ends a look-up, nothing of it is left over: no request, no     *)
(* socket and no cache entry too many.                                     *)
WaitsSound == OneAnswerEach /\ FilesExact /\ CacheExact

(* s_bsd.c says "Race condition detected, DNS has been done, continue with *)
(* auth".  That holds of a name that was found, not of a failure: the      *)
(* client is then flagged although no answer is to come.                   *)
DoneIsDetected == \A c \in Conn : waiting[c].dns => \E i \in DOMAIN requests : requests[i].cptr = c
=============================================================================
