------------------------- MODULE Connecting_proofs --------------------------
(***************************************************************************)
(* Proofs about what a connection goes through before it is a user: its    *)
(* look-ups (ClientDns), for all clients, addresses, hashes and limits,    *)
(* and its registration (Registration), for any agents and any number of   *)
(* connections.                                                            *)
(***************************************************************************)
EXTENDS ClientDns, Registration, Lists_proofs

(***************************************************************************)
(* Look-ups: one request for each client that waits, and both orders of    *)
(* the cache agree.                                                        *)
(***************************************************************************)
(* What the members of lists are, and which lists hold an address once.    *)
Distinct(s) == \A i, j \in DOMAIN s : s[i].addr = s[j].addr => i = j

LEMMA NothingIn == Range(<<>>) = {} /\ Distinct(<<>>) /\ \A S : <<>> \in Seq(S)
<1>1. DOMAIN <<>> = {} /\ \A S : <<>> \in Seq(S)
  BY EmptySeq, LenProperties
<1> QED
  BY <1>1 DEF Range, Distinct

LEMMA DistinctAppend ==
  ASSUME NEW S, NEW s \in Seq(S), NEW x \in S
  PROVE  Distinct(Append(s, x)) <=>
           Distinct(s) /\ \A y \in Range(s) : y.addr # x.addr
<1> DEFINE t == Append(s, x)
<1>1. /\ Len(s) \in Nat /\ DOMAIN s = 1..Len(s) /\ DOMAIN t = 1..(Len(s) + 1)
      /\ t[Len(s) + 1] = x /\ \A n \in 1..Len(s) : t[n] = s[n]
  BY AppendProperties, LenProperties
<1> HIDE DEF t
<1>2. ASSUME Distinct(t) PROVE Distinct(s) /\ \A y \in Range(s) : y.addr # x.addr
  BY <1>1, <1>2 DEF Distinct, Range
<1>3. ASSUME Distinct(s), \A y \in Range(s) : y.addr # x.addr PROVE Distinct(t)
  BY <1>1, <1>3 DEF Distinct, Range
<1> QED
  BY <1>2, <1>3 DEF t

LEMMA DistinctCons ==
  ASSUME NEW S, NEW s \in Seq(S), NEW x \in S, Distinct(s),
         \A y \in Range(s) : y.addr # x.addr
  PROVE  Distinct(<<x>> \o s)
<1> DEFINE t == <<x>> \o s
<1>1. /\ Len(s) \in Nat /\ DOMAIN s = 1..Len(s) /\ DOMAIN t = 1..(Len(s) + 1)
      /\ t[1] = x /\ \A n \in 1..Len(s) : t[n + 1] = s[n]
  BY ConcatProperties, LenProperties
<1> HIDE DEF t
<1>2. \A n \in DOMAIN t : n = 1 \/ (n - 1 \in DOMAIN s /\ t[n] = s[n - 1])
  BY <1>1
<1>3. \A n \in DOMAIN t : n # 1 => t[n].addr # x.addr
  BY <1>2 DEF Range
<1>4. ASSUME NEW i \in DOMAIN t, NEW j \in DOMAIN t, t[i].addr = t[j].addr PROVE i = j
  <2>1. CASE i = 1 \/ j = 1
    BY <1>1, <1>3, <1>4, <2>1
  <2>2. CASE i # 1 /\ j # 1
    <3>1. i - 1 = j - 1
      BY <1>2, <1>4, <2>2 DEF Distinct
    <3> QED
      BY <1>1, <3>1
  <2> QED
    BY <2>1, <2>2
<1> QED
  BY <1>4 DEF Distinct, t

LEMMA DistinctLength ==
  ASSUME NEW S, NEW s \in Seq(S), Distinct(s)
  PROVE  IsFiniteSet(Range(s)) /\ Cardinality(Range(s)) = Len(s)
<1> DEFINE T == {t \in Seq(S) : Distinct(t) =>
                    IsFiniteSet(Range(t)) /\ Cardinality(Range(t)) = Len(t)}
<1>1. <<>> \in T
  BY EmptySeq, NothingIn, FS_EmptySet
<1>2. ASSUME NEW t \in Seq(S), NEW x \in S, t \in T PROVE Append(t, x) \in T
  <2>1. /\ Append(t, x) \in Seq(S) /\ Len(Append(t, x)) = Len(t) + 1
    BY AppendProperties
  <2>2. SUFFICES ASSUME Distinct(Append(t, x))
                 PROVE  /\ IsFiniteSet(Range(Append(t, x)))
                        /\ Cardinality(Range(Append(t, x))) = Len(Append(t, x))
    BY <2>1
  <2>3. Distinct(t) /\ x \notin Range(t)
    BY <2>2, DistinctAppend
  <2>4. Range(Append(t, x)) = Range(t) \cup {x}
    BY RangeAppend
  <2>5. IsFiniteSet(Range(t)) /\ Cardinality(Range(t)) = Len(t)
    BY <1>2, <2>3
  <2>6. /\ IsFiniteSet(Range(t) \cup {x})
        /\ Cardinality(Range(t) \cup {x}) = Cardinality(Range(t)) + 1
    BY <2>3, <2>5, FS_AddElement
  <2> QED
    BY <2>1, <2>4, <2>5, <2>6
<1> HIDE DEF T
<1>3. s \in T
  BY <1>1, <1>2, ListInduction
<1> QED
  BY <1>3 DEF T

----------------------------------------------------------------------------
LEMMA KeepDistinct ==
  ASSUME NEW S, NEW s \in Seq(S), NEW A, Distinct(s)
  PROVE  Distinct(Keep(s, A))
<1> DEFINE T == {t \in Seq(S) : Distinct(t) => Distinct(Keep(t, A))}
<1>1. <<>> \in T
  BY EmptySeq, KeepEmpty
<1>2. ASSUME NEW t \in Seq(S), NEW x \in S, t \in T PROVE Append(t, x) \in T
  <2>1. Append(t, x) \in Seq(S)
    BY AppendProperties
  <2>2. SUFFICES ASSUME Distinct(Append(t, x)) PROVE Distinct(Keep(Append(t, x), A))
    BY <2>1
  <2>3. Distinct(t) /\ \A y \in Range(t) : y.addr # x.addr
    BY <2>2, DistinctAppend
  <2>4. Distinct(Keep(t, A))
    BY <1>2, <2>3
  <2>5. Keep(t, A) \in Seq(S) /\ \A y \in Range(Keep(t, A)) : y.addr # x.addr
    BY <2>3, KeepMembers
  <2>6. Distinct(Append(Keep(t, A), x))
    BY <2>4, <2>5, DistinctAppend
  <2> QED
    BY <2>4, <2>6, KeepAppend
<1> HIDE DEF T
<1>3. s \in T
  BY <1>1, <1>2, ListInduction
<1> QED
  BY <1>3 DEF T

LEMMA KeepTwice ==
  ASSUME NEW S, NEW s \in Seq(S), NEW A, NEW B
  PROVE  Keep(Keep(s, A), B) = Keep(s, A \cap B)
<1> DEFINE T == {t \in Seq(S) : Keep(Keep(t, A), B) = Keep(t, A \cap B)}
<1>1. <<>> \in T
  BY EmptySeq, KeepEmpty
<1>2. ASSUME NEW t \in Seq(S), NEW x \in S, t \in T PROVE Append(t, x) \in T
  <2>1. Append(t, x) \in Seq(S) /\ Keep(t, A) \in Seq(S)
    BY AppendProperties, KeepMembers
  <2>2. Keep(Append(Keep(t, A), x), B) =
          IF x \in B THEN Append(Keep(Keep(t, A), B), x) ELSE Keep(Keep(t, A), B)
    BY <2>1, KeepAppend
  <2>3. Keep(Append(t, x), A) = IF x \in A THEN Append(Keep(t, A), x) ELSE Keep(t, A)
    BY KeepAppend
  <2>4. Keep(Append(t, x), A \cap B) =
          IF x \in A \cap B THEN Append(Keep(t, A \cap B), x) ELSE Keep(t, A \cap B)
    BY KeepAppend
  <2>5. Keep(Keep(t, A), B) = Keep(t, A \cap B)
    BY <1>2
  <2> HIDE DEF T
  <2>6. CASE x \in A
    <3>1. Keep(Keep(Append(t, x), A), B) = Keep(Append(t, x), A \cap B)
      <4>1. CASE x \in B
        BY <2>2, <2>3, <2>4, <2>5, <2>6, <4>1
      <4>2. CASE x \notin B
        BY <2>2, <2>3, <2>4, <2>5, <2>6, <4>2
      <4> QED
        BY <4>1, <4>2
    <3> QED
      BY <2>1, <3>1 DEF T
  <2>7. CASE x \notin A
    BY <2>1, <2>3, <2>4, <2>5, <2>7 DEF T
  <2> QED
    BY <2>6, <2>7
<1> HIDE DEF T
<1>3. s \in T
  BY <1>1, <1>2, ListInduction
<1> QED
  BY <1>3 DEF T

LEMMA ConsAppend ==
  ASSUME NEW S, NEW s \in Seq(S), NEW x \in S, NEW y \in S
  PROVE  <<x>> \o Append(s, y) = Append(<<x>> \o s, y)
BY ConcatProperties, AppendProperties, LenProperties, SeqEqual

LEMMA KeepCons ==
  ASSUME NEW S, NEW s \in Seq(S), NEW x \in S, NEW A
  PROVE  Keep(<<x>> \o s, A) = IF x \in A THEN <<x>> \o Keep(s, A) ELSE Keep(s, A)
<1> DEFINE T == {t \in Seq(S) : Keep(<<x>> \o t, A) =
                    IF x \in A THEN <<x>> \o Keep(t, A) ELSE Keep(t, A)}
<1>1. <<>> \in T
  <2>1. /\ <<x>> \o <<>> = Append(<<>>, x) /\ <<x>> \o <<>> = <<x>>
        /\ <<>> \in Seq(S)
    BY EmptySeq, AppendProperties, ConcatEmptySeq
  <2>2. Keep(<<x>> \o <<>>, A) = IF x \in A THEN <<x>> ELSE <<>>
    <3>1. Keep(Append(<<>>, x), A) = IF x \in A THEN Append(Keep(<<>>, A), x) ELSE Keep(<<>>, A)
      BY <2>1, KeepAppend
    <3>2. Append(<<>>, x) = <<x>>
      BY <2>1
    <3> QED
      BY <2>1, <3>1, <3>2, KeepEmpty
  <2> QED
    BY <2>1, <2>2, KeepEmpty
<1>2. ASSUME NEW t \in Seq(S), NEW y \in S, t \in T PROVE Append(t, y) \in T
  <2>1. /\ Append(t, y) \in Seq(S) /\ Keep(t, A) \in Seq(S) /\ <<x>> \o t \in Seq(S)
    BY AppendProperties, KeepMembers, ConcatProperties
  <2>2. <<x>> \o Append(t, y) = Append(<<x>> \o t, y)
    BY ConsAppend
  <2>3. Keep(Append(<<x>> \o t, y), A) =
          IF y \in A THEN Append(Keep(<<x>> \o t, A), y) ELSE Keep(<<x>> \o t, A)
    BY <2>1, KeepAppend
  <2>4. Keep(Append(t, y), A) = IF y \in A THEN Append(Keep(t, A), y) ELSE Keep(t, A)
    BY KeepAppend
  <2>5. <<x>> \o Append(Keep(t, A), y) = Append(<<x>> \o Keep(t, A), y)
    BY <2>1, ConsAppend
  <2>6. Keep(<<x>> \o t, A) = IF x \in A THEN <<x>> \o Keep(t, A) ELSE Keep(t, A)
    BY <1>2
  <2>7. Keep(<<x>> \o Append(t, y), A) =
          IF x \in A THEN <<x>> \o Keep(Append(t, y), A) ELSE Keep(Append(t, y), A)
    <3>1. CASE x \in A
      BY <2>2, <2>3, <2>4, <2>5, <2>6, <3>1
    <3>2. CASE x \notin A
      BY <2>2, <2>3, <2>4, <2>6, <3>2
    <3> QED
      BY <3>1, <3>2
  <2> QED
    BY <2>1, <2>7
<1> HIDE DEF T
<1>3. s \in T
  BY <1>1, <1>2, ListInduction
<1> QED
  BY <1>3 DEF T

----------------------------------------------------------------------------
(* The cache.  A list and a table agree when the list holds an address     *)
(* once and each bucket is what the list has of it, in the list's order.   *)
Hashed(h) == {r \in Record : Hash[r.addr] = h}
Agree(list, table) ==
  /\ list \in Seq(Record) /\ Distinct(list)
  /\ table \in [Buckets -> Seq(Record)]
  /\ \A h \in Buckets : table[h] = Keep(list, Hashed(h))

(* Records that go leave the list and their buckets alike.                 *)
LEMMA DropAgrees ==
  ASSUME NEW list, NEW table, Agree(list, table), NEW dead, dead \subseteq Range(list)
  PROVE  LET left == Keep(list, Record \ dead)
         IN /\ Agree(left, Unhash(table, dead)) /\ Range(left) = Range(list) \ dead
            /\ Len(left) = Len(list) - Cardinality(dead)
            /\ IsFiniteSet(dead)
<1> DEFINE left == Keep(list, Record \ dead)
<1>1. list \in Seq(Record) /\ Distinct(list) /\ Range(list) \subseteq Record
  BY ElementOfSeq, LenProperties DEF Agree, Range
<1>2. /\ left \in Seq(Record) /\ Distinct(left) /\ Range(left) = Range(list) \cap (Record \ dead)
  BY <1>1, KeepMembers, KeepDistinct
<1>3. Range(left) = Range(list) \ dead
  BY <1>1, <1>2
<1>4. /\ IsFiniteSet(Range(list)) /\ Cardinality(Range(list)) = Len(list)
      /\ IsFiniteSet(Range(left)) /\ Cardinality(Range(left)) = Len(left)
  BY <1>1, <1>2, DistinctLength
<1>5. IsFiniteSet(dead) /\ dead = Range(list) \cap dead
  BY <1>4, FS_Subset
<1>6. Len(left) = Len(list) - Cardinality(dead)
  <2>1. Cardinality(Range(list) \ dead) =
          Cardinality(Range(list)) - Cardinality(Range(list) \cap dead)
    BY <1>4, FS_Difference
  <2> QED
    BY <1>3, <1>4, <1>5, <2>1
<1>7. ASSUME NEW h \in Buckets
      PROVE  Unhash(table, dead)[h] = Keep(left, Hashed(h)) /\ Keep(left, Hashed(h)) \in Seq(Record)
  <2>1. Unhash(table, dead)[h] = Keep(Keep(list, Hashed(h)), Record \ dead)
    BY DEF Unhash, Agree
  <2>2. Keep(Keep(list, Hashed(h)), Record \ dead) = Keep(list, Hashed(h) \cap (Record \ dead))
    BY <1>1, KeepTwice
  <2>3. Keep(left, Hashed(h)) = Keep(list, (Record \ dead) \cap Hashed(h))
    BY <1>1, KeepTwice
  <2>4. Hashed(h) \cap (Record \ dead) = (Record \ dead) \cap Hashed(h)
    OBVIOUS
  <2>5. Keep(left, Hashed(h)) \in Seq(Record)
    BY <1>2, KeepMembers
  <2> QED
    BY <2>1, <2>2, <2>3, <2>4, <2>5
<1> HIDE DEF left
<1>8. Unhash(table, dead) \in [Buckets -> Seq(Record)]
  BY <1>7 DEF Unhash
<1>9. Agree(left, Unhash(table, dead))
  BY <1>2, <1>7, <1>8 DEF Agree
<1> QED
  BY <1>3, <1>5, <1>6, <1>9 DEF left

(* An address that the list does not hold is added to both.                *)
LEMMA AddAgrees ==
  ASSUME NEW list, NEW table, Agree(list, table), NEW r \in Record,
         \A y \in Range(list) : y.addr # r.addr
  PROVE  /\ Agree(<<r>> \o list, [table EXCEPT ![Hash[r.addr]] = <<r>> \o @])
         /\ Len(<<r>> \o list) = Len(list) + 1
<1> DEFINE more == <<r>> \o list
           table2 == [table EXCEPT ![Hash[r.addr]] = <<r>> \o @]
<1>1. list \in Seq(Record) /\ Distinct(list) /\ table \in [Buckets -> Seq(Record)]
  BY DEF Agree
<1>2. more \in Seq(Record) /\ Len(more) = Len(list) + 1 /\ <<r>> \in Seq(Record)
  BY <1>1, ConcatProperties, LenProperties
<1>3. Distinct(more)
  BY <1>1, DistinctCons
<1>4. Hash[r.addr] \in Buckets
  BY DEF Record, Buckets
<1>5. ASSUME NEW h \in Buckets
      PROVE  table2[h] = Keep(more, Hashed(h)) /\ table2[h] \in Seq(Record)
  <2>1. Keep(more, Hashed(h)) =
          IF r \in Hashed(h) THEN <<r>> \o Keep(list, Hashed(h)) ELSE Keep(list, Hashed(h))
    BY <1>1, KeepCons
  <2>2. r \in Hashed(h) <=> h = Hash[r.addr]
    BY DEF Hashed
  <2>3. table[h] = Keep(list, Hashed(h)) /\ table[h] \in Seq(Record)
    BY DEF Agree
  <2>4. table2[h] = IF h = Hash[r.addr] THEN <<r>> \o table[h] ELSE table[h]
    BY <1>1, <1>4
  <2>5. <<r>> \o table[h] \in Seq(Record)
    BY <1>2, <2>3, ConcatProperties
  <2> QED
    BY <2>1, <2>2, <2>3, <2>4, <2>5
<1>6. table2 \in [Buckets -> Seq(Record)]
  BY <1>1, <1>5
<1> QED
  BY <1>2, <1>3, <1>5, <1>6 DEF Agree

CacheOK ==
  /\ now \in 0..MaxTime /\ Agree(cache_list, cache_hashtbl)
  /\ num_cache = Len(cache_list) /\ num_cache <= DNS_MAX_ENTRIES

LEMMA CachedIs ==
  ASSUME CacheOK, NEW a \in Addr
  PROVE  Cached(a) <=> \E y \in Range(cache_list) : y.addr = a
<1>1. Hash[a] \in Buckets
  BY DEF Buckets
<1>2. cache_list \in Seq(Record) /\ cache_hashtbl[Hash[a]] = Keep(cache_list, Hashed(Hash[a]))
  BY <1>1 DEF CacheOK, Agree
<1>3. Range(cache_hashtbl[Hash[a]]) = Range(cache_list) \cap Hashed(Hash[a])
  BY <1>2, KeepMembers
<1>4. Range(cache_list) \subseteq Record
  BY <1>2, ElementOfSeq, LenProperties DEF Range
<1>5. Cached(a) <=> \E y \in Range(cache_hashtbl[Hash[a]]) : y.addr = a
  BY DEF Cached, Range
<1> QED
  BY <1>3, <1>4, <1>5 DEF Hashed

LEMMA AddToCacheKeeps ==
  ASSUME ClientDnsAssumption, CacheOK, NEW a \in Addr, AddToCache(a), now' = now
  PROVE  CacheOK'
<1>1. CASE Cached(a)
  BY <1>1 DEF AddToCache, SameCache, CacheOK
<1>2. CASE ~Cached(a)
  <2> DEFINE dead == IF num_cache >= DNS_MAX_ENTRIES THEN {Last(cache_list)} ELSE {}
             r == [addr |-> a, expires |-> now + TTL]
             left == Keep(cache_list, Record \ dead)
             table == Unhash(cache_hashtbl, dead)
  <2>1. /\ cache_list' = <<r>> \o left
        /\ cache_hashtbl' = [table EXCEPT ![Hash[a]] = <<r>> \o @]
        /\ num_cache' = num_cache - Cardinality(dead) + 1
    BY <1>2 DEF AddToCache, Insert
  <2>2. /\ DNS_MAX_ENTRIES \in Nat \ {0} /\ Len(cache_list) \in Nat
        /\ DOMAIN cache_list = 1..Len(cache_list)
        /\ num_cache = Len(cache_list) /\ num_cache <= DNS_MAX_ENTRIES
    BY LenProperties DEF CacheOK, Agree, ClientDnsAssumption
  <2>3. dead \subseteq Range(cache_list)
    BY <2>2 DEF Last, Range
  <2>4. Cardinality(dead) = IF num_cache >= DNS_MAX_ENTRIES THEN 1 ELSE 0
    BY FS_Singleton, FS_EmptySet
  <2>5. r \in Record
    BY DEF CacheOK, Record, ClientDnsAssumption
  <2> HIDE DEF dead
  <2>6. /\ Agree(left, table) /\ Range(left) = Range(cache_list) \ dead
        /\ Len(left) = Len(cache_list) - Cardinality(dead)
    BY <2>3, DropAgrees DEF CacheOK
  <2>7. \A y \in Range(left) : y.addr # r.addr
    BY <1>2, <2>6, CachedIs
  <2> HIDE DEF left, table
  <2>8. /\ Agree(<<r>> \o left, [table EXCEPT ![Hash[r.addr]] = <<r>> \o @])
        /\ Len(<<r>> \o left) = Len(left) + 1
    BY <2>5, <2>6, <2>7, AddAgrees
  <2>9. Agree(cache_list, cache_hashtbl)' /\ Len(cache_list') = Len(left) + 1
    BY <2>1, <2>8
  <2>10. /\ num_cache' = Len(cache_list') /\ num_cache' <= DNS_MAX_ENTRIES
    <3>1. num_cache' = num_cache - Cardinality(dead) + 1
      BY <2>1
    <3>2. Len(cache_list') = num_cache - Cardinality(dead) + 1
      BY <2>2, <2>6, <2>9
    <3>3. num_cache \in Nat /\ DNS_MAX_ENTRIES \in Nat /\ num_cache <= DNS_MAX_ENTRIES
      BY <2>2
    <3> QED
      BY ONLY <2>4, <3>1, <3>2, <3>3
  <2> QED
    BY <2>9, <2>10 DEF CacheOK
<1> QED
  BY <1>1, <1>2

LEMMA RemoveOldRecordsKeeps ==
  ASSUME ClientDnsAssumption, CacheOK, RemoveOldRecords
  PROVE  CacheOK'
<1> DEFINE dead == {r \in Range(cache_list) : r.expires < now}
<1>1. /\ cache_list' = Keep(cache_list, Record \ dead)
      /\ cache_hashtbl' = Unhash(cache_hashtbl, dead)
      /\ num_cache' = num_cache - Cardinality(dead) /\ now' = now
  BY DEF RemoveOldRecords
<1>2. dead \subseteq Range(cache_list)
  OBVIOUS
<1> HIDE DEF dead
<1>3. /\ Agree(cache_list', cache_hashtbl') /\ IsFiniteSet(dead)
      /\ Len(cache_list') = Len(cache_list) - Cardinality(dead)
  BY <1>1, <1>2, DropAgrees DEF CacheOK
<1>4. Cardinality(dead) \in Nat /\ Len(cache_list) \in Nat
  BY <1>3, FS_CardinalityType, LenProperties DEF CacheOK, Agree
<1>5. num_cache' = Len(cache_list') /\ num_cache' <= DNS_MAX_ENTRIES
  <2>1. /\ num_cache = Len(cache_list) /\ num_cache <= DNS_MAX_ENTRIES
        /\ DNS_MAX_ENTRIES \in Nat
    BY DEF CacheOK, ClientDnsAssumption
  <2> QED
    BY ONLY <1>1, <1>3, <1>4, <2>1
<1> QED
  BY <1>1, <1>3, <1>5 DEF CacheOK

----------------------------------------------------------------------------
(* The requests.  A client has at most one, and has it while it waits.     *)
Request == [cptr : Conn \cup {Nil}, addr : Addr, step : {"addr", "name"}]
Requesting(q, c) == \E i \in DOMAIN q : q[i].cptr = c
Once(q) == \A i, j \in DOMAIN q : q[i].cptr = q[j].cptr /\ q[i].cptr # Nil => i = j
Requests(q) == q \in Seq(Request) /\ Once(q)

LEMMA RequestGoes ==
  ASSUME NEW q, Requests(q), NEW i \in DOMAIN q
  PROVE  /\ Requests(RemoveAt(q, i))
         /\ \A c \in Conn : Nil # c =>
              (Requesting(RemoveAt(q, i), c) <=> Requesting(q, c) /\ q[i].cptr # c)
<1> DEFINE t == RemoveAt(q, i)
           front == SubSeq(q, 1, i - 1)
           back == SubSeq(q, i + 1, Len(q))
<1>1. q \in Seq(Request) /\ Len(q) \in Nat /\ DOMAIN q = 1..Len(q) /\ i \in 1..Len(q)
  BY LenProperties DEF Requests
<1>2. /\ front \in Seq(Request) /\ Len(front) = i - 1
      /\ \A k \in 1..(i-1) : front[k] = q[k]
  BY <1>1, SubSeqProperties
<1>3. /\ back \in Seq(Request) /\ Len(back) = Len(q) - i
      /\ \A k \in 1..(Len(q) - i) : back[k] = q[i + k]
  BY <1>1, SubSeqProperties
<1>4. /\ t \in Seq(Request) /\ Len(t) = Len(q) - 1
      /\ \A k \in 1..(Len(q) - 1) : t[k] = IF k < i THEN q[k] ELSE q[k + 1]
  <2>1. /\ t \in Seq(Request) /\ Len(t) = Len(front) + Len(back)
        /\ \A k \in 1..Len(t) : t[k] = IF k <= Len(front) THEN front[k] ELSE back[k - Len(front)]
    BY <1>2, <1>3, ConcatProperties, SMTT(20) DEF RemoveAt
  <2>2. ASSUME NEW k \in 1..(Len(q) - 1)
        PROVE  t[k] = IF k < i THEN q[k] ELSE q[k + 1]
    <3>1. CASE k < i
      BY <1>1, <1>2, <1>3, <2>1, <3>1
    <3>2. CASE ~(k < i)
      <4>1. k - Len(front) \in 1..(Len(q) - i) /\ i + (k - Len(front)) = k + 1
        BY <1>1, <1>2, <3>2
      <4>2. t[k] = back[k - Len(front)]
        BY <1>1, <1>2, <1>3, <2>1, <3>2, SMTT(20)
      <4> QED
        BY <1>3, <3>2, <4>1, <4>2
    <3> QED
      BY <3>1, <3>2
  <2> QED
    BY <1>1, <1>2, <1>3, <2>1, <2>2
<1> HIDE DEF t
<1>5. DOMAIN t = 1..(Len(q) - 1)
  BY <1>4, LenProperties
<1>6. Once(t)
  BY <1>1, <1>4, <1>5 DEF Once, Requests
<1>7. ASSUME NEW c \in Conn, Nil # c, Requesting(q, c), q[i].cptr # c PROVE Requesting(t, c)
  <2>1. PICK j \in DOMAIN q : q[j].cptr = c /\ j # i
    BY <1>7 DEF Requesting
  <2>2. CASE j < i
    BY <1>1, <1>4, <1>5, <2>1, <2>2 DEF Requesting
  <2>3. CASE j > i
    <3>1. j - 1 \in DOMAIN t /\ t[j - 1] = q[j]
      BY <1>1, <1>4, <1>5, <2>1, <2>3
    <3> QED
      BY <2>1, <3>1 DEF Requesting
  <2> QED
    BY <1>1, <2>1, <2>2, <2>3
<1>8. ASSUME NEW c \in Conn, Nil # c, Requesting(t, c) PROVE Requesting(q, c) /\ q[i].cptr # c
  <2>1. PICK k \in DOMAIN t : t[k].cptr = c
    BY <1>8 DEF Requesting
  <2>2. PICK j \in DOMAIN q : j # i /\ t[k] = q[j]
    BY <1>1, <1>4, <1>5, <2>1
  <2> QED
    BY <1>8, <2>1, <2>2 DEF Requesting, Requests, Once
<1> QED
  BY <1>4, <1>6, <1>7, <1>8 DEF Requests, t

LEMMA RequestComes ==
  ASSUME NEW q, Requests(q), NEW r \in Request, r.cptr \in Conn => ~Requesting(q, r.cptr)
  PROVE  /\ Requests(<<r>> \o q)
         /\ \A c : Requesting(<<r>> \o q, c) <=> Requesting(q, c) \/ r.cptr = c
<1> DEFINE t == <<r>> \o q
<1>1. /\ Len(t) = Len(q) + 1 /\ Len(q) \in Nat /\ t \in Seq(Request)
      /\ DOMAIN q = 1..Len(q) /\ DOMAIN t = 1..(Len(q) + 1)
      /\ t[1] = r /\ \A n \in 1..Len(q) : t[n + 1] = q[n]
  BY ConcatProperties, LenProperties DEF Requests
<1> HIDE DEF t
<1>2. \A n \in DOMAIN t : n = 1 \/ (n - 1 \in DOMAIN q /\ t[n] = q[n - 1])
  BY <1>1
<1>3. \A c : Requesting(t, c) <=> Requesting(q, c) \/ r.cptr = c
  <2> SUFFICES ASSUME NEW c PROVE Requesting(t, c) <=> Requesting(q, c) \/ r.cptr = c
    OBVIOUS
  <2>1. ASSUME Requesting(q, c) PROVE Requesting(t, c)
    <3>1. PICK n \in DOMAIN q : q[n].cptr = c
      BY <2>1 DEF Requesting
    <3>2. n + 1 \in DOMAIN t /\ t[n + 1] = q[n]
      BY <1>1
    <3> QED
      BY <3>1, <3>2 DEF Requesting
  <2>2. ASSUME r.cptr = c PROVE Requesting(t, c)
    BY <1>1, <2>2 DEF Requesting
  <2>3. ASSUME Requesting(t, c) PROVE Requesting(q, c) \/ r.cptr = c
    BY <1>1, <1>2, <2>3 DEF Requesting
  <2> QED
    BY <2>1, <2>2, <2>3
<1>4. ASSUME NEW i \in DOMAIN t, NEW j \in DOMAIN t,
             t[i].cptr = t[j].cptr, t[i].cptr # Nil
      PROVE  i = j
  <2>1. r.cptr # Nil => ~Requesting(q, r.cptr)
    BY DEF Request
  <2>2. CASE i = 1 \/ j = 1
    BY <1>1, <1>2, <1>4, <2>1, <2>2 DEF Requesting
  <2>3. CASE i # 1 /\ j # 1
    <3>1. i - 1 = j - 1
      BY <1>2, <1>4, <2>3 DEF Once, Requests
    <3> QED
      BY <1>1, <3>1
  <2> QED
    BY <2>2, <2>3
<1>5. Once(t)
  BY <1>4 DEF Once
<1> QED
  BY <1>1, <1>3, <1>5 DEF Requests, t

LEMMA RequestForgets ==
  ASSUME Nil \notin Conn, Requests(requests), NEW c \in Conn
  PROVE  /\ Requests(DelReq(c))
         /\ \A d \in Conn : Requesting(DelReq(c), d) <=> Requesting(requests, d) /\ d # c
<1>1. requests \in Seq(Request) /\ Len(requests) \in Nat /\ DOMAIN requests = 1..Len(requests)
  BY LenProperties DEF Requests
<1>2. /\ DOMAIN DelReq(c) = DOMAIN requests
      /\ \A i \in DOMAIN requests :
           /\ DelReq(c)[i] \in Request
           /\ DelReq(c)[i].cptr = IF requests[i].cptr = c THEN Nil ELSE requests[i].cptr
  <2> SUFFICES ASSUME NEW i \in DOMAIN requests
               PROVE  /\ DelReq(c)[i] \in Request
                      /\ DelReq(c)[i].cptr = IF requests[i].cptr = c THEN Nil
                                             ELSE requests[i].cptr
    BY DEF DelReq
  <2>1. requests[i] \in Request
    BY <1>1, ElementOfSeq
  <2> QED
    BY <2>1 DEF DelReq, Request
<1>3. DelReq(c) \in Seq(Request)
  <2>1. DelReq(c) = [i \in 1..Len(requests) |-> DelReq(c)[i]]
    BY <1>1, <1>2 DEF DelReq
  <2>2. DelReq(c) \in [1..Len(requests) -> Request]
    BY <1>1, <1>2, <2>1
  <2> QED
    BY <1>1, <2>2, SeqDef
<1>4. Once(DelReq(c))
  BY <1>2 DEF Once, Requests
<1> QED
  BY <1>2, <1>3, <1>4 DEF Requests, Requesting

----------------------------------------------------------------------------
(* The connections: their flags, and the descriptors they use.             *)
Waits ==
  /\ waiting \in [Conn -> States] /\ stuck \subseteq Conn /\ Requests(requests)
  /\ \A c \in Conn :
       /\ Requesting(requests, c) <=> waiting[c].dns /\ c \notin stuck
       /\ waiting[c].dns => waiting[c].status = "unknown"
Present == {c \in Conn : There(c)}
Idents == {c \in Conn : waiting[c].authfd}
Files ==
  /\ \A c \in Conn : /\ waiting[c].authfd = waiting[c].auth
                     /\ waiting[c].auth => waiting[c].status = "unknown"
  /\ IsFiniteSet(Present) /\ IsFiniteSet(Idents)
  /\ OpenFiles = Cardinality(Present) + Cardinality(Idents)

Inv == CacheOK /\ Waits /\ Files

LEMMA CountOne ==
  ASSUME NEW S, NEW T, NEW c, IsFiniteSet(S), \A d : d # c => (d \in S <=> d \in T)
  PROVE  /\ IsFiniteSet(T)
         /\ Cardinality(T) = Cardinality(S) + Bit(c \in T) - Bit(c \in S)
<1>1. Cardinality(S) \in Nat
  BY FS_CardinalityType
<1>2. CASE (c \in S) = (c \in T)
  <2>1. S = T
    BY <1>2
  <2> QED
    BY <1>1, <2>1 DEF Bit
<1>3. CASE c \in T /\ c \notin S
  <2>1. T = S \cup {c}
    BY <1>3
  <2> QED
    BY <1>1, <1>3, <2>1, FS_AddElement DEF Bit
<1>4. CASE c \notin T /\ c \in S
  <2>1. T = S \ {c}
    BY <1>4
  <2> QED
    BY <1>1, <1>4, <2>1, FS_RemoveElement DEF Bit
<1> QED
  BY <1>2, <1>3, <1>4

(* One connection changes.                                                 *)
LEMMA FilesChange ==
  ASSUME Waits, Files, NEW c \in Conn, NEW s \in States, s.authfd = s.auth,
         s.auth => s.status = "unknown",
         waiting' = [waiting EXCEPT ![c] = s],
         OpenFiles' = OpenFiles + Bit(s.status # "none") - Bit(There(c))
                                + Bit(s.authfd) - Bit(waiting[c].authfd)
  PROVE  Files'
<1>1. \A d \in Conn : waiting'[d] = IF d = c THEN s ELSE waiting[d]
  BY DEF Waits
<1>2. \A d : d # c => /\ d \in Present <=> d \in Present'
                      /\ d \in Idents <=> d \in Idents'
  BY <1>1 DEF Present, Idents, There
<1>3. /\ c \in Present <=> There(c)
      /\ c \in Present' <=> s.status # "none"
      /\ c \in Idents <=> waiting[c].authfd
      /\ c \in Idents' <=> s.authfd
  BY <1>1 DEF Present, Idents, There
<1>4. /\ IsFiniteSet(Present') /\ IsFiniteSet(Idents')
      /\ Cardinality(Present') = Cardinality(Present) + Bit(s.status # "none") - Bit(There(c))
      /\ Cardinality(Idents') = Cardinality(Idents) + Bit(s.authfd) - Bit(waiting[c].authfd)
  <2>1. /\ IsFiniteSet(Present')
        /\ Cardinality(Present') = Cardinality(Present) + Bit(c \in Present') - Bit(c \in Present)
    BY <1>2, CountOne DEF Files
  <2>2. /\ IsFiniteSet(Idents')
        /\ Cardinality(Idents') = Cardinality(Idents) + Bit(c \in Idents') - Bit(c \in Idents)
    BY <1>2, CountOne DEF Files
  <2> QED
    BY <1>3, <2>1, <2>2 DEF Bit
<1>5. Cardinality(Present) \in Nat /\ Cardinality(Idents) \in Nat
  BY FS_CardinalityType DEF Files
<1>6. OpenFiles' = Cardinality(Present') + Cardinality(Idents')
  BY <1>4, <1>5 DEF Files, Bit
<1>7. \A d \in Conn : /\ waiting'[d].authfd = waiting'[d].auth
                      /\ waiting'[d].auth => waiting'[d].status = "unknown"
  BY <1>1 DEF Files
<1> QED
  BY <1>4, <1>6, <1>7 DEF Files

LEMMA FilesStay ==
  ASSUME Files, OpenFiles' = OpenFiles,
         \A c \in Conn : /\ waiting'[c].status = waiting[c].status
                         /\ waiting'[c].auth = waiting[c].auth
                         /\ waiting'[c].authfd = waiting[c].authfd
  PROVE  Files'
<1>1. Present' = Present /\ Idents' = Idents
  BY DEF Present, Idents, There
<1> QED
  BY <1>1 DEF Files

LEMMA CacheStays ==
  ASSUME CacheOK, now' \in 0..MaxTime, SameCache
  PROVE  CacheOK'
BY DEF CacheOK, SameCache

----------------------------------------------------------------------------
(* One lemma for each action.                                              *)
LEMMA NewClientKeeps ==
  ASSUME ClientDnsAssumption, Inv, NEW c \in Conn, NewClient(c)
  PROVE  Inv'
<1>1. Nil \notin Conn /\ Ip[c] \in Addr
  BY DEF ClientDnsAssumption
<1>2. PICK outcome \in {"cached", "addr", "name", "found", "failed"} :
        /\ Handshake(c, outcome)
        /\ requests' = IF outcome \in {"addr", "name"}
                       THEN <<[cptr |-> c, addr |-> Ip[c], step |-> outcome]>> \o requests
                       ELSE requests
        /\ IF outcome = "found" THEN AddToCache(Ip[c]) ELSE SameCache
        /\ stuck' = IF outcome = "failed" THEN stuck \cup {c} ELSE stuck \ {c}
        /\ now' = now
  BY DEF NewClient
<1>3. PICK s \in States :
        /\ s.status = "unknown" /\ s.dns = (outcome \in {"addr", "name", "failed"})
        /\ waiting' = [waiting EXCEPT ![c] = s]
        /\ s.authfd = s.auth
        /\ OpenFiles' = OpenFiles + 1 + Bit(s.authfd)
  <2>1. PICK files \in {OpenFiles + 1, OpenFiles + 2}, s \in States :
          /\ s.status = "unknown" /\ s.dns = (outcome \in {"addr", "name", "failed"})
          /\ StartAuth(s, files) /\ waiting' = [waiting EXCEPT ![c] = s]
          /\ OpenFiles' = files
    BY <1>2 DEF Handshake
  <2>2. s.authfd = s.auth /\ files = OpenFiles + 1 + Bit(s.authfd)
    <3>1. OpenFiles \in Int
      BY FS_CardinalityType DEF Inv, Files
    <3>2. CASE s.auth = FALSE /\ s.authfd = FALSE /\ files = OpenFiles + 1
      <4>1. s.authfd = s.auth /\ Bit(s.authfd) = 0
        BY <3>2, Zenon DEF Bit
      <4> QED
        BY <3>1, <3>2, <4>1
    <3>3. CASE s.auth = TRUE /\ s.authfd = TRUE /\ files = OpenFiles + 2
      <4>1. s.authfd = s.auth /\ Bit(s.authfd) = 1
        BY <3>3, Zenon DEF Bit
      <4> QED
        BY <3>1, <3>3, <4>1
    <3> QED
      BY <2>1, <3>2, <3>3 DEF StartAuth
  <2> QED
    BY <2>1, <2>2
<1>4. waiting[c].status = "none" /\ ~waiting[c].dns /\ ~waiting[c].authfd
      /\ waiting[c] \in States
  BY DEF NewClient, There, Inv, Waits, Files, States
<1>5. CacheOK'
  BY <1>1, <1>2, AddToCacheKeeps, CacheStays DEF Inv, CacheOK
<1>6. Files'
  <2>1. OpenFiles \in Int
    BY FS_CardinalityType DEF Inv, Files
  <2>2. OpenFiles' = OpenFiles + Bit(s.status # "none") - Bit(There(c))
                               + Bit(s.authfd) - Bit(waiting[c].authfd)
    BY <1>3, <1>4, <2>1 DEF Bit, There
  <2> QED
    BY <1>3, <2>2, FilesChange DEF Inv
<1>7. Waits'
  <2>1. ~Requesting(requests, c)
    BY <1>4 DEF Inv, Waits
  <2>2. \A d \in Conn : waiting'[d] = IF d = c THEN s ELSE waiting[d]
    BY <1>3 DEF Inv, Waits
  <2>3. waiting' \in [Conn -> States] /\ stuck' \subseteq Conn
    BY <1>2, <1>3 DEF Inv, Waits
  <2>4. /\ Requests(requests')
        /\ \A d \in Conn : Requesting(requests', d) <=>
             Requesting(requests, d) \/ (d = c /\ outcome \in {"addr", "name"})
    <3>1. CASE outcome \in {"addr", "name"}
      <4> DEFINE q == [cptr |-> c, addr |-> Ip[c], step |-> outcome]
      <4>1. q \in Request /\ q.cptr = c
        BY <1>1, <3>1 DEF Request
      <4> HIDE DEF q
      <4>2. /\ Requests(<<q>> \o requests)
            /\ \A d : Requesting(<<q>> \o requests, d) <=> Requesting(requests, d) \/ q.cptr = d
        BY <2>1, <4>1, RequestComes DEF Inv, Waits
      <4>3. requests' = <<q>> \o requests
        BY <1>2, <3>1 DEF q
      <4> QED
        BY <3>1, <4>1, <4>2, <4>3
    <3>2. CASE outcome \notin {"addr", "name"}
      BY <1>2, <3>2 DEF Inv, Waits
    <3> QED
      BY <3>1, <3>2
  <2>5. ASSUME NEW d \in Conn
        PROVE  /\ Requesting(requests', d) <=> waiting'[d].dns /\ d \notin stuck'
               /\ waiting'[d].dns => waiting'[d].status = "unknown"
    <3>1. CASE d = c
      BY <1>2, <1>3, <2>1, <2>2, <2>4, <3>1
    <3>2. CASE d # c
      BY <1>2, <2>2, <2>4, <3>2 DEF Inv, Waits
    <3> QED
      BY <3>1, <3>2
  <2> QED
    BY <2>3, <2>4, <2>5 DEF Waits
<1> QED
  BY <1>5, <1>6, <1>7 DEF Inv

(* A state that leaves the flag of the look-up alone.                      *)
LEMMA WaitsStay ==
  ASSUME Waits, UNCHANGED <<requests, stuck>>, waiting' \in [Conn -> States],
         \A c \in Conn : /\ waiting'[c].dns = waiting[c].dns
                         /\ waiting'[c].dns => waiting'[c].status = "unknown"
  PROVE  Waits'
BY DEF Waits

LEMMA AuthEndsKeeps ==
  ASSUME ClientDnsAssumption, Inv, NEW c \in Conn, AuthEnds(c)
  PROVE  Inv'
<1> DEFINE s == [waiting[c] EXCEPT !.auth = FALSE, !.authfd = FALSE]
<1>1. waiting[c] \in States /\ waiting[c].auth /\ waiting[c].authfd
  BY DEF Inv, Waits, Files, AuthEnds
<1>2. /\ s \in States /\ s.authfd = FALSE /\ s.auth = FALSE /\ s.dns = waiting[c].dns
      /\ s.status = waiting[c].status
  BY <1>1 DEF States
<1>3. waiting' = [waiting EXCEPT ![c] = s]
  BY DEF AuthEnds
<1> HIDE DEF s
<1>4. OpenFiles' = OpenFiles + Bit(s.status # "none") - Bit(There(c))
                             + Bit(s.authfd) - Bit(waiting[c].authfd)
  BY <1>2, FS_CardinalityType DEF AuthEnds, Bit, There, Inv, Files
<1>5. Files'
  BY <1>2, <1>3, <1>4, FilesChange DEF Inv
<1>6. Waits'
  BY <1>2, <1>3, WaitsStay DEF Inv, Waits, AuthEnds
<1>7. CacheOK'
  BY CacheStays DEF Inv, CacheOK, AuthEnds, SameCache
<1> QED
  BY <1>5, <1>6, <1>7 DEF Inv

LEMMA RegisterKeeps ==
  ASSUME ClientDnsAssumption, Inv, NEW c \in Conn, Register(c)
  PROVE  Inv'
<1> DEFINE s == [waiting[c] EXCEPT !.status = "client"]
<1>1. /\ waiting[c] \in States /\ waiting[c].status = "unknown"
      /\ ~waiting[c].dns /\ ~waiting[c].auth /\ ~waiting[c].authfd
  BY DEF Inv, Waits, Files, Register
<1>2. /\ s \in States /\ s.authfd = FALSE /\ s.auth = FALSE /\ ~s.dns
      /\ s.status = "client"
  BY <1>1 DEF States
<1>3. waiting' = [waiting EXCEPT ![c] = s]
  BY DEF Register
<1> HIDE DEF s
<1>4. OpenFiles' = OpenFiles + Bit(s.status # "none") - Bit(There(c))
                             + Bit(s.authfd) - Bit(waiting[c].authfd)
  BY <1>1, <1>2, FS_CardinalityType DEF Register, Bit, There, Inv, Files
<1>5. Files'
  BY <1>2, <1>3, <1>4, FilesChange DEF Inv
<1>6. Waits'
  BY <1>1, <1>2, <1>3, WaitsStay DEF Inv, Waits, Register
<1>7. CacheOK'
  BY CacheStays DEF Inv, CacheOK, Register, SameCache
<1> QED
  BY <1>5, <1>6, <1>7 DEF Inv

(* check_pings' time-out, and an exit: the request loses the client.       *)
LEMMA ForgetKeeps ==
  ASSUME ClientDnsAssumption, Inv, NEW c \in Conn, NEW s \in States,
         ~s.dns, ~s.auth, ~s.authfd, waiting' = [waiting EXCEPT ![c] = s],
         requests' = DelReq(c), stuck' = stuck \ {c},
         OpenFiles' = OpenFiles + Bit(s.status # "none") - Bit(There(c))
                                - Bit(waiting[c].authfd),
         SameCache, now' = now
  PROVE  Inv'
<1>1. Nil \notin Conn
  BY DEF ClientDnsAssumption
<1>2. OpenFiles' = OpenFiles + Bit(s.status # "none") - Bit(There(c))
                             + Bit(s.authfd) - Bit(waiting[c].authfd)
  BY FS_CardinalityType DEF Bit, Inv, Files
<1>3. Files'
  <2>1. s.authfd = s.auth
    BY DEF States
  <2> QED
    BY <1>2, <2>1, FilesChange DEF Inv
<1>4. /\ Requests(requests')
      /\ \A d \in Conn : Requesting(requests', d) <=> Requesting(requests, d) /\ d # c
  BY <1>1, RequestForgets DEF Inv, Waits
<1>5. \A d \in Conn : waiting'[d] = IF d = c THEN s ELSE waiting[d]
  BY DEF Inv, Waits
<1>6. Waits'
  BY <1>4, <1>5 DEF Inv, Waits
<1>7. CacheOK'
  BY CacheStays DEF Inv, CacheOK
<1> QED
  BY <1>3, <1>6, <1>7 DEF Inv

LEMMA TimeOutKeeps ==
  ASSUME ClientDnsAssumption, Inv, NEW c \in Conn, TimeOut(c)
  PROVE  Inv'
<1> DEFINE s == [waiting[c] EXCEPT !.dns = FALSE, !.auth = FALSE, !.authfd = FALSE]
<1>1. waiting[c] \in States /\ waiting[c].status = "unknown"
  BY DEF Inv, Waits, TimeOut
<1>2. s \in States /\ ~s.authfd /\ ~s.auth /\ ~s.dns /\ s.status = "unknown"
  BY <1>1 DEF States
<1>3. waiting' = [waiting EXCEPT ![c] = s]
  BY DEF TimeOut
<1> HIDE DEF s
<1>4. OpenFiles' = OpenFiles + Bit(s.status # "none") - Bit(There(c)) - Bit(waiting[c].authfd)
  BY <1>1, <1>2, FS_CardinalityType DEF TimeOut, Bit, There, Inv, Files
<1>5. requests' = DelReq(c) /\ stuck' = stuck \ {c} /\ SameCache /\ now' = now
  BY DEF TimeOut, SameCache
<1> QED
  BY <1>2, <1>3, <1>4, <1>5, ForgetKeeps

LEMMA LeaveKeeps ==
  ASSUME ClientDnsAssumption, Inv, NEW c \in Conn, Leave(c)
  PROVE  Inv'
<1>1. Gone \in States /\ ~Gone.authfd /\ ~Gone.auth /\ ~Gone.dns /\ Gone.status = "none"
  BY DEF States, Gone
<1>2. OpenFiles' = OpenFiles + Bit(Gone.status # "none") - Bit(There(c)) - Bit(waiting[c].authfd)
  BY <1>1, FS_CardinalityType DEF Leave, Bit, Inv, Files
<1>3. /\ waiting' = [waiting EXCEPT ![c] = Gone] /\ requests' = DelReq(c)
      /\ stuck' = stuck \ {c} /\ SameCache /\ now' = now
  BY DEF Leave, SameCache
<1> HIDE DEF Gone
<1> QED
  BY <1>1, <1>2, <1>3, ForgetKeeps

(* Answers of the resolver.                                                *)
LEMMA ProceedStays ==
  ASSUME Inv, NEW c \in Conn, NEW found \in BOOLEAN, Proceed(c, found)
  PROVE  /\ waiting' \in [Conn -> States]
         /\ \A d \in Conn :
              /\ waiting'[d].status = waiting[d].status
              /\ waiting'[d].auth = waiting[d].auth
              /\ waiting'[d].authfd = waiting[d].authfd
              /\ waiting'[d].dns <=> waiting[d].dns /\ d # c
<1> DEFINE s == [waiting[c] EXCEPT !.dns = FALSE, !.hostp = found]
<1>1. waiting \in [Conn -> States] /\ waiting[c] \in States
  BY DEF Inv, Waits
<1>2. /\ s \in States /\ s.status = waiting[c].status /\ s.auth = waiting[c].auth
      /\ s.authfd = waiting[c].authfd /\ s.dns = FALSE
  BY <1>1 DEF States
<1>3. waiting' = [waiting EXCEPT ![c] = s]
  BY <1>1 DEF Proceed, States
<1> HIDE DEF s
<1> QED
  BY <1>1, <1>2, <1>3

LEMMA AnsweredKeeps ==
  ASSUME ClientDnsAssumption, Inv, NEW i \in DOMAIN requests, Answered(i)
  PROVE  Inv'
<1> DEFINE r == requests[i]
           rest == RemoveAt(requests, i)
<1>1. Nil \notin Conn /\ Requests(requests) /\ now' = now /\ OpenFiles' = OpenFiles /\ stuck' = stuck
  BY DEF ClientDnsAssumption, Inv, Waits, Answered
<1>2. r \in Request
  BY <1>1, ElementOfSeq, LenProperties DEF Requests
<1>3. /\ Requests(rest)
      /\ \A c \in Conn : Requesting(rest, c) <=> Requesting(requests, c) /\ r.cptr # c
  BY <1>1, RequestGoes
<1>4. CASE r.cptr = Nil
  <2>1. requests' = rest /\ SameCache /\ waiting' = waiting
    BY <1>4 DEF Answered
  <2>2. Waits'
    BY <1>1, <1>3, <1>4, <2>1 DEF Inv, Waits
  <2> QED
    BY <1>1, <2>1, <2>2, FilesStay, CacheStays DEF Inv, CacheOK
<1>5. CASE r.cptr # Nil
  <2>1. r.cptr \in Conn /\ r.addr \in Addr
    BY <1>2, <1>5 DEF Request
  <2>2. waiting[r.cptr].dns /\ r.cptr \notin stuck
    BY <1>1, <2>1 DEF Inv, Waits, Requesting
  <2>3. ASSUME NEW found \in BOOLEAN, Proceed(r.cptr, found), requests' = rest,
               AddToCache(r.addr) \/ SameCache
        PROVE  Inv'
    <3>1. /\ waiting' \in [Conn -> States]
          /\ \A d \in Conn :
               /\ waiting'[d].status = waiting[d].status
               /\ waiting'[d].auth = waiting[d].auth
               /\ waiting'[d].authfd = waiting[d].authfd
               /\ waiting'[d].dns <=> waiting[d].dns /\ d # r.cptr
      BY <2>1, <2>3, ProceedStays
    <3>2. Files'
      BY <1>1, <3>1, FilesStay DEF Inv
    <3>3. CacheOK'
      BY <1>1, <2>1, <2>3, AddToCacheKeeps, CacheStays DEF Inv, CacheOK
    <3>4. Waits'
      BY <1>1, <1>3, <2>3, <3>1 DEF Inv, Waits
    <3> QED
      BY <3>2, <3>3, <3>4 DEF Inv
  <2>4. ASSUME requests' = <<[r EXCEPT !.step = "name"]>> \o rest, SameCache,
               waiting' = waiting
        PROVE  Inv'
    <3> DEFINE q == [r EXCEPT !.step = "name"]
    <3>1. q \in Request /\ q.cptr = r.cptr
      BY <1>2 DEF Request
    <3> HIDE DEF q
    <3>2. ~Requesting(rest, q.cptr)
      BY <1>3, <2>1, <3>1
    <3>3. /\ Requests(<<q>> \o rest)
          /\ \A c : Requesting(<<q>> \o rest, c) <=> Requesting(rest, c) \/ q.cptr = c
      BY <1>3, <3>1, <3>2, RequestComes
    <3>4. requests' = <<q>> \o rest
      BY <2>4 DEF q
    <3>5. Requesting(requests, r.cptr)
      BY DEF Requesting
    <3> HIDE DEF r, rest
    <3>6. \A c \in Conn : Requesting(requests', c) <=> Requesting(requests, c)
      BY <1>3, <3>1, <3>3, <3>4, <3>5
    <3>7. Waits'
      BY <1>1, <2>4, <3>3, <3>4, <3>6 DEF Inv, Waits
    <3> QED
      BY <1>1, <2>4, <3>7, FilesStay, CacheStays DEF Inv, CacheOK
  <2>5. \/ Proceed(r.cptr, TRUE) /\ AddToCache(r.addr) /\ requests' = rest
        \/ Proceed(r.cptr, FALSE) /\ SameCache /\ requests' = rest
        \/ /\ requests' = <<[r EXCEPT !.step = "name"]>> \o rest
           /\ SameCache /\ waiting' = waiting
    BY <1>5 DEF Answered
  <2> QED
    BY <2>3, <2>4, <2>5
<1> QED
  BY <1>4, <1>5

(* ares_destroy ends every request.                                        *)
LEMMA RehashDnsKeeps ==
  ASSUME ClientDnsAssumption, Inv, RehashDns
  PROVE  Inv'
<1>1. ASSUME NEW c \in Conn
      PROVE  /\ waiting'[c] \in States
             /\ waiting'[c].status = waiting[c].status
             /\ waiting'[c].auth = waiting[c].auth
             /\ waiting'[c].authfd = waiting[c].authfd
             /\ waiting'[c].dns <=> waiting[c].dns /\ ~Requesting(requests, c)
  <2>1. waiting[c] \in States
    BY DEF Inv, Waits
  <2>2. CASE Requesting(requests, c)
    <3>1. waiting'[c] = [waiting[c] EXCEPT !.dns = FALSE, !.hostp = FALSE]
      BY <2>2 DEF RehashDns, Requesting
    <3> QED
      BY <2>1, <2>2, <3>1 DEF States
  <2>3. CASE ~Requesting(requests, c)
    <3>1. waiting'[c] = waiting[c]
      BY <2>3 DEF RehashDns, Requesting
    <3> QED
      BY <2>1, <2>3, <3>1
  <2> QED
    BY <2>2, <2>3
<1>2. waiting' \in [Conn -> States]
  BY <1>1 DEF RehashDns
<1>3. Requests(requests') /\ \A c : ~Requesting(requests', c)
  <2>1. requests' = <<>> /\ <<>> \in Seq(Request) /\ DOMAIN <<>> = {}
    <3>1. DOMAIN <<>> = {} /\ <<>> \in Seq(Request)
      BY EmptySeq, LenProperties
    <3> QED
      BY <3>1 DEF RehashDns
  <2> QED
    BY <2>1 DEF Requests, Once, Requesting
<1>4. Waits'
  <2>1. stuck' = stuck /\ stuck \subseteq Conn
    BY DEF RehashDns, Inv, Waits
  <2>2. ASSUME NEW c \in Conn
        PROVE  /\ waiting'[c].dns => c \in stuck
               /\ waiting'[c].dns => waiting'[c].status = "unknown"
    BY <1>1 DEF Inv, Waits
  <2> QED
    BY <1>2, <1>3, <2>1, <2>2 DEF Waits
<1>5. Files' /\ CacheOK'
  BY <1>1, FilesStay, CacheStays DEF Inv, CacheOK, RehashDns, SameCache
<1> QED
  BY <1>4, <1>5 DEF Inv

LEMMA NextKeeps ==
  ASSUME ClientDnsAssumption, Inv, [DnsNext]_dnsVars
  PROVE  Inv'
<1>1. ASSUME RemoveOldRecords PROVE Inv'
  <2>1. CacheOK'
    BY <1>1, RemoveOldRecordsKeeps DEF Inv
  <2>2. UNCHANGED <<now, waiting, requests, OpenFiles, stuck>>
    BY <1>1 DEF RemoveOldRecords
  <2>3. Files'
    BY <2>2, FilesStay DEF Inv
  <2>4. Waits'
    BY <2>2 DEF Inv, Waits
  <2> QED
    BY <2>1, <2>3, <2>4 DEF Inv
<1>2. ASSUME Tick PROVE Inv'
  <2>1. UNCHANGED <<waiting, requests, OpenFiles, stuck>> /\ SameCache
    BY <1>2 DEF Tick, SameCache
  <2>2. now' \in 0..MaxTime
    BY <1>2 DEF Tick, Inv, CacheOK, ClientDnsAssumption
  <2>3. Waits'
    BY <2>1 DEF Inv, Waits
  <2> QED
    BY <2>1, <2>2, <2>3, FilesStay, CacheStays DEF Inv
<1>3. ASSUME UNCHANGED dnsVars PROVE Inv'
  <2>1. UNCHANGED <<waiting, requests, OpenFiles, stuck, now>> /\ SameCache
    BY <1>3 DEF dnsVars, SameCache
  <2>2. Waits'
    BY <2>1 DEF Inv, Waits
  <2>3. now' \in 0..MaxTime
    BY <2>1 DEF Inv, CacheOK
  <2> QED
    BY <2>1, <2>2, <2>3, FilesStay, CacheStays DEF Inv
<1> QED
  BY <1>1, <1>2, <1>3, NewClientKeeps, AuthEndsKeeps, TimeOutKeeps, RegisterKeeps,
     LeaveKeeps, AnsweredKeeps, RehashDnsKeeps DEF DnsNext

LEMMA InitHolds ==
  ASSUME ClientDnsAssumption, DnsInit
  PROVE  Inv
<1>1. CacheOK
  <2>1. Agree(cache_list, cache_hashtbl)
    BY NothingIn, KeepEmpty DEF DnsInit, Agree
  <2>2. Len(cache_list) = 0
    BY EmptySeq DEF DnsInit
  <2> QED
    BY <2>1, <2>2 DEF DnsInit, CacheOK, ClientDnsAssumption
<1>2. Waits
  <2>1. requests = <<>> /\ DOMAIN <<>> = {} /\ <<>> \in Seq(Request)
    BY EmptySeq, LenProperties DEF DnsInit
  <2>2. Requests(requests) /\ \A c : ~Requesting(requests, c)
    BY <2>1 DEF Requests, Once, Requesting
  <2> QED
    BY <2>2 DEF DnsInit, Waits, Gone, States
<1>3. Files
  <2>1. Present = {} /\ Idents = {}
    BY DEF DnsInit, Present, Idents, There, Gone
  <2>2. Cardinality(Present) = 0 /\ Cardinality(Idents) = 0
        /\ IsFiniteSet(Present) /\ IsFiniteSet(Idents)
    BY <2>1, FS_EmptySet
  <2> QED
    <3>1. \A c \in Conn : waiting[c].authfd = FALSE /\ waiting[c].auth = FALSE
      BY DEF DnsInit, Gone
    <3>2. OpenFiles = Cardinality(Present) + Cardinality(Idents)
      BY <2>2 DEF DnsInit
    <3> QED
      BY <2>2, <3>1, <3>2 DEF Files
<1> QED
  BY <1>1, <1>2, <1>3 DEF Inv

LEMMA InvIsEnough ==
  ASSUME ClientDnsAssumption, Inv
  PROVE  WaitsSound
<1>1. OneAnswerEach
  <2> SUFFICES ASSUME NEW c \in Conn
               PROVE  /\ Cardinality({i \in DOMAIN requests : requests[i].cptr = c}) =
                           Bit(waiting[c].dns /\ c \notin stuck)
                      /\ waiting[c].dns => waiting[c].status = "unknown"
    BY DEF OneAnswerEach
  <2> DEFINE mine == {i \in DOMAIN requests : requests[i].cptr = c}
  <2>1. CASE Requesting(requests, c)
    <3>1. PICK i \in DOMAIN requests : requests[i].cptr = c
      BY <2>1 DEF Requesting
    <3>2. mine = {i}
      BY <3>1 DEF Inv, Waits, Requests, Once, ClientDnsAssumption
    <3> QED
      BY <2>1, <3>2, FS_Singleton DEF Inv, Waits, Bit
  <2>2. CASE ~Requesting(requests, c)
    <3>1. mine = {}
      BY <2>2 DEF Requesting
    <3> QED
      BY <2>2, <3>1, FS_EmptySet DEF Inv, Waits, Bit
  <2> QED
    BY <2>1, <2>2
<1>2. FilesExact
  BY DEF Inv, Files, FilesExact, Present, Idents
<1>3. CacheExact
  <2>1. IsInjective([i \in DOMAIN cache_list |-> cache_list[i].addr])
    BY DEF IsInjective, Inv, CacheOK, Agree, Distinct
  <2> QED
    BY <2>1 DEF Inv, CacheOK, Agree, Hashed, CacheExact
<1> QED
  BY <1>1, <1>2, <1>3 DEF WaitsSound

(* Whatever ends a look-up or an ident check, and however late answers     *)
(* come, nothing of it is left over (res.c, s_auth.c): one request for     *)
(* each client that waits for an answer, a descriptor for each socket in   *)
(* use, and a cache whose list and buckets hold the same records, each     *)
(* address once, within DNS_MAX_ENTRIES.                                   *)
THEOREM NothingLeftOver == ASSUME ClientDnsAssumption PROVE DnsSpec => []WaitsSound
<1>1. DnsInit => Inv
  BY InitHolds
<1>2. Inv /\ [DnsNext]_dnsVars => Inv'
  BY NextKeeps
<1>3. Inv => WaitsSound
  BY InvIsEnough
<1> QED
  BY <1>1, <1>2, <1>3, PTL DEF DnsSpec

(***************************************************************************)
(* Registration: a client is logged in to no account but its own, and one  *)
(* that has done all that is asked for is a user.                          *)
(*                                                                         *)
(* The account is right because a session is opened by an AUTHENTICATE of  *)
(* its own connection only, which has its cookie from then on (Owned), and *)
(* because the services send a success right behind the login it belongs   *)
(* to (Paired).                                                            *)
(***************************************************************************)

(* Every puid under way is that of a connection that has sent AUTHENTICATE *)
(* and, if it is the present one, has its cookie.                          *)
Known(p) == p \in 1..conn /\ (Here /\ p = conn => local.sasl_cookie)
Owned ==
  /\ \A i \in DOMAIN asked : Known(asked[i].puid)
  /\ \A i \in DOMAIN answers : Known(answers[i].puid)
  /\ \A s \in session : Known(s[1])

(* A success follows its login, or the login has been read.                *)
Paired ==
  \A i \in DOMAIN answers : answers[i].mode = "success" =>
    IF i = 1
    THEN Here /\ answers[1].puid = conn => local.svid = conn
    ELSE answers[i - 1].mode = "login" /\ answers[i - 1].puid = answers[i].puid

(* There is a connection, and its cookie is set before anything is asked.  *)
Asking == Here => conn # 0 /\ (local.sasl_out # 0 => local.sasl_cookie)

IInv == TypeOK /\ Asking /\ Owned /\ Paired /\ RegistrationSound

----------------------------------------------------------------------------
(* The initial state.                                                      *)
LEMMA InitIInv == ASSUME RegistrationAssumption, Init PROVE IInv
<1>1. /\ conn = 0 /\ ~Here /\ asked = <<>> /\ answers = <<>> /\ session = {} /\ sessions = 0
  BY DEF Init, Here
<1>2. TypeOK
  BY <1>1 DEF TypeOK, Init, RegistrationAssumption
<1>3. DOMAIN asked = {} /\ DOMAIN answers = {}
  BY <1>1
<1> QED
  BY <1>1, <1>2, <1>3 DEF IInv, Asking, Owned, Paired, RegistrationSound, LoginIsOwn,
     ReadyIsRegistered, Unregistered

(* A client that is sound, and knows at least what local knew.             *)
Sound(c) ==
  /\ c \in Client /\ c.svid \in {0, conn}
  /\ c.sasl_complete > 0 => c.svid = conn
  /\ c.sasl_out # 0 => c.sasl_cookie
  /\ c.status = "unknown" /\ Ready(c) => c.again
Grown(c) ==
  /\ local.sasl_cookie => c.sasl_cookie
  /\ local.svid = conn => c.svid = conn

(* Facts of a client from IInv.                                            *)
LEMMA HereFacts ==
  ASSUME RegistrationAssumption, IInv, Here
  PROVE  /\ conn \in 1..MaxConns /\ Sound(local)
         /\ local.status = "unknown" \/ ~Unregistered
  BY DEF IInv, Asking, TypeOK, Here, RegistrationSound, LoginIsOwn, ReadyIsRegistered, Sound,
     Unregistered, RegistrationAssumption

(* A step that changes the client and what was asked only.                 *)
LEMMA ClientStep ==
  ASSUME RegistrationAssumption, IInv, Here,
         UNCHANGED <<conn, answers, session, sessions>>,
         local' = Nobody \/ (Sound(local') /\ Grown(local')),
         \/ asked' = asked
         \/ \E m \in Message : /\ asked' = Append(asked, m) /\ m.puid = conn
                               /\ Here' => local'.sasl_cookie
  PROVE  IInv'
<1>1. conn \in 1..MaxConns
  BY HereFacts
<1>2. conn' = conn /\ (Here' => (local.sasl_cookie => local'.sasl_cookie))
  BY DEF Here, Grown
<1>3. asked' \in Seq(Message) /\ (\A i \in DOMAIN asked : Known(asked[i].puid))'
  <2>1. CASE asked' = asked
    BY <2>1, <1>2 DEF IInv, TypeOK, Owned, Known
  <2>2. ASSUME NEW m \in Message, asked' = Append(asked, m), m.puid = conn,
               Here' => local'.sasl_cookie
        PROVE  asked' \in Seq(Message) /\ (\A i \in DOMAIN asked : Known(asked[i].puid))'
    <3>1. asked \in Seq(Message)
      BY DEF IInv, TypeOK
    <3>2. /\ asked' \in Seq(Message) /\ DOMAIN asked' = 1..Len(asked) + 1
          /\ DOMAIN asked = 1..Len(asked) /\ Len(asked) \in Nat
          /\ \A i \in 1..Len(asked) : asked'[i] = asked[i]
          /\ asked'[Len(asked) + 1] = m
      BY <2>2, <3>1, AppendProperties, LenProperties
    <3>3. \A i \in 1..Len(asked) : Known(asked[i].puid)
      BY <3>2 DEF IInv, Owned
    <3>4. m.puid \in 1..conn /\ conn \in Nat
      BY <2>2, <1>1 DEF RegistrationAssumption
    <3>5. \A i \in 1..Len(asked) :
            asked[i].puid \in 1..conn /\ (Here' /\ asked[i].puid = conn => local'.sasl_cookie)
      BY <3>3, <1>2 DEF Known
    <3>6. ASSUME NEW i \in 1..Len(asked) + 1
          PROVE  asked'[i].puid \in 1..conn /\ (Here' /\ asked'[i].puid = conn => local'.sasl_cookie)
      <4>1. CASE i \in 1..Len(asked)
        BY <4>1, <3>5, <3>2
      <4>2. CASE i = Len(asked) + 1
        BY <4>2, <3>4, <3>2, <2>2
      <4> QED
        BY <4>1, <4>2, <3>2
    <3> QED
      BY <3>2, <3>6, <1>2 DEF Known
  <2> QED
    BY <2>1, <2>2
<1>4. local' \in Client \cup {Nobody} /\ TypeOK'
  BY <1>3 DEF IInv, TypeOK, Sound
<1>5. Owned'
  BY <1>2, <1>3 DEF IInv, Owned, Known
<1>6. Paired'
  <2> SUFFICES ASSUME NEW i \in DOMAIN answers, answers[i].mode = "success"
               PROVE  IF i = 1
                      THEN Here' /\ answers[1].puid = conn => local'.svid = conn
                      ELSE answers[i - 1].mode = "login" /\ answers[i - 1].puid = answers[i].puid
    BY DEF Paired
  <2> QED
    BY DEF IInv, Paired, Grown, Here
<1>7. RegistrationSound'
  BY DEF RegistrationSound, LoginIsOwn, ReadyIsRegistered, Unregistered, Here, Sound
<1>8. Asking'
  BY <1>1 DEF Asking, Here, Sound
<1> QED
  BY <1>4, <1>5, <1>6, <1>7, <1>8 DEF IInv

----------------------------------------------------------------------------
(* The handlers.  RegisterUser and RegisterIfReady of a client with what   *)
(* local knows, that is sound but for being ready.                         *)
Almost(c) ==
  /\ c \in Client /\ c.svid = local.svid /\ c.sasl_complete = local.sasl_complete
  /\ c.sasl_cookie = local.sasl_cookie /\ c.sasl_out = local.sasl_out

LEMMA RegisterUserStep ==
  ASSUME RegistrationAssumption, IInv, Here, NEW c, Almost(c), RegisterUser(c),
         UNCHANGED <<conn, answers, session, sessions>>
  PROVE  IInv'
<1>1. conn \in 1..MaxConns /\ Sound(local)
  BY HereFacts
<1>2. \/ local' = Nobody
      \/ Sound(local') /\ Grown(local') /\ local'.sasl_cookie = local.sasl_cookie
  <2>1. Aborted(c) \in Client /\ Almost([Aborted(c) EXCEPT !.sasl_out = local.sasl_out])
        /\ Aborted(c).sasl_out \in {0, local.sasl_out}
    BY 0 \in 0..MaxSessions DEF Almost, Aborted, Client, RegistrationAssumption
  <2>2. CASE local' = [Aborted(c) EXCEPT !.status = "client", !.user = "given"]
    BY <1>1, <2>1, <2>2 DEF Almost, Sound, Grown, Client
  <2>3. CASE local' = [c EXCEPT !.again = TRUE, !.user = "given"]
    BY <1>1, <2>3 DEF Almost, Sound, Grown, Client
  <2> QED
    BY <2>2, <2>3 DEF RegisterUser
<1>3. \/ asked' = asked
      \/ \E m \in Message : /\ asked' = Append(asked, m) /\ m.puid = conn
                            /\ Here' => local'.sasl_cookie
  <2> DEFINE m == [puid |-> conn, mode |-> "A"]
  <2>1. m \in Message /\ m.puid = conn
    BY <1>1 DEF Message
  <2>2. asked' = asked \/ (Aborting(c) /\ asked' = Append(asked, m))
    BY DEF RegisterUser
  <2>3. Aborting(c) => local.sasl_cookie
    BY <1>1 DEF Aborting, Almost, Sound
  <2> HIDE DEF m
  <2> QED
    BY <1>2, <2>1, <2>2, <2>3 DEF Here
<1> QED
  BY <1>2, <1>3, ClientStep

LEMMA RegisterIfReadyStep ==
  ASSUME RegistrationAssumption, IInv, Here, NEW c, Almost(c), RegisterIfReady(c),
         UNCHANGED <<conn, answers, session, sessions>>
  PROVE  IInv'
<1>1. CASE Ready(c)
  BY <1>1, RegisterUserStep DEF RegisterIfReady
<1>2. CASE ~Ready(c)
  <2>1. Sound(c) /\ Grown(c)
    BY <1>2, HereFacts DEF Almost, Sound, Grown
  <2> QED
    BY <1>2, <2>1, ClientStep DEF RegisterIfReady
<1> QED
  BY <1>1, <1>2

(* NICK, USER and PONG.                                                    *)
LEMMA NickUserPong ==
  ASSUME RegistrationAssumption, IInv, Nick \/ UserCmd \/ Pong
  PROVE  IInv'
<1>1. CASE Nick
  <2>1. PICK ping_cookie \in PingCookie :
          RegisterIfReady([local EXCEPT !.name = TRUE, !.nospoof = ping_cookie])
    BY <1>1 DEF Nick
  <2>2. Here /\ ping_cookie \in BOOLEAN
    BY <1>1 DEF Nick, Unregistered, RegistrationAssumption
  <2>3. Almost([local EXCEPT !.name = TRUE, !.nospoof = ping_cookie])
    BY <2>2, HereFacts DEF Almost, Sound, Client
  <2> QED
    BY <1>1, <2>1, <2>2, <2>3, RegisterIfReadyStep DEF Nick
<1>2. CASE UserCmd
  <2>1. Here
    BY <1>2 DEF UserCmd, Unregistered
  <2>2. Almost([local EXCEPT !.user = "given", !.used = TRUE])
    BY <2>1, HereFacts DEF Almost, Sound, Client
  <2> QED
    BY <1>2, <2>1, <2>2, RegisterIfReadyStep DEF UserCmd
<1>3. CASE Pong
  <2>1. Here
    BY <1>3 DEF Pong, Unregistered
  <2>2. Almost([local EXCEPT !.nospoof = FALSE])
    BY <2>1, HereFacts DEF Almost, Sound, Client
  <2> QED
    BY <1>3, <2>1, <2>2, RegisterIfReadyStep DEF Pong
<1> QED
  BY <1>1, <1>2, <1>3

(* CAP.                                                                    *)
LEMMA Capabilities ==
  ASSUME RegistrationAssumption, IInv, CapReq \/ CapClear \/ CapAck \/ CapEnd
  PROVE  IInv'
<1>1. Here /\ Sound(local)
  BY HereFacts DEF CapReq, CapClear, CapAck, CapEnd, Unregistered
<1>2. CASE CapReq
  <2>1. PICK keep \in SUBSET {"sasl"} :
          local' = [local EXCEPT !.proto = keep \cup (IF local.status = "unknown"
                                                      THEN {"clicap"} ELSE {})]
    BY <1>2 DEF CapReq
  <2>2. Sound(local') /\ Grown(local')
    BY <1>1, <2>1 DEF Sound, Grown, Client, Ready
  <2> QED
    BY <1>1, <1>2, <2>2, ClientStep DEF CapReq
<1>3. CASE CapClear
  <2>1. Sound(local') /\ Grown(local')
    BY <1>1, <1>3 DEF CapClear, Sound, Grown, Client, Ready
  <2> QED
    BY <1>1, <1>3, <2>1, ClientStep DEF CapClear
<1>4. CASE CapAck
  <2>1. Sound(local') /\ Grown(local')
    BY <1>1, <1>4 DEF CapAck, Sound, Grown, Client, Ready
  <2> QED
    BY <1>1, <1>4, <2>1, ClientStep DEF CapAck
<1>5. CASE CapEnd
  <2> DEFINE c == [local EXCEPT !.proto = @ \ {"clicap"}]
  <2>1. Almost(c)
    BY <1>1 DEF Almost, Sound, Client
  <2>2. IF c.name /\ c.user # None
        THEN RegisterUser(c)
        ELSE local' = c /\ UNCHANGED asked
    BY <1>5 DEF CapEnd
  <2>3. ~(c.name /\ c.user # None) => Sound(c) /\ Grown(c)
    BY <1>1, <2>1 DEF Almost, Sound, Grown, Ready, None
  <2> HIDE DEF c
  <2>4. UNCHANGED <<conn, answers, session, sessions>>
    BY <1>5 DEF CapEnd
  <2>5. CASE c.name /\ c.user # None
    BY <1>1, <2>1, <2>2, <2>4, <2>5, RegisterUserStep
  <2>6. CASE ~(c.name /\ c.user # None)
    BY <1>1, <2>2, <2>3, <2>4, <2>6, ClientStep
  <2> QED
    BY <2>5, <2>6
<1> QED
  BY <1>2, <1>3, <1>4, <1>5

(* AUTHENTICATE, and the end and the start of a connection.                *)
LEMMA AuthenticateStep ==
  ASSUME RegistrationAssumption, IInv, Authenticate
  PROVE  IInv'
<1>1. Here /\ Sound(local) /\ conn \in 1..MaxConns
  BY HereFacts DEF Authenticate, Unregistered
<1>2. PICK mode \in {"S", "C"} : asked' = Append(asked, [puid |-> conn, mode |-> mode])
  BY DEF Authenticate
<1>3. [puid |-> conn, mode |-> mode] \in Message
  BY <1>1 DEF Message
<1>4. Sound(local') /\ Grown(local') /\ local'.sasl_cookie
  <2>1. local' = [local EXCEPT !.sasl_cookie = TRUE, !.sasl_out = @ + 1]
        /\ local.sasl_out + 1 \in 0..MaxSessions
    BY <1>1 DEF Authenticate, Sound, Client, RegistrationAssumption
  <2> QED
    BY <1>1, <2>1 DEF Sound, Grown, Client, Ready
<1> DEFINE m == [puid |-> conn, mode |-> mode]
<1>5. m \in Message /\ m.puid = conn /\ asked' = Append(asked, m)
  BY <1>2, <1>3
<1> HIDE DEF m
<1>6. UNCHANGED <<conn, answers, session, sessions>>
  BY DEF Authenticate
<1> QED
  BY <1>1, <1>4, <1>5, <1>6, ClientStep

LEMMA ExitStep ==
  ASSUME RegistrationAssumption, IInv, Exit
  PROVE  IInv'
  BY ClientStep DEF Exit

LEMMA ConnectStep ==
  ASSUME RegistrationAssumption, IInv, Connect
  PROVE  IInv'
<1>1. /\ ~Here /\ conn \in 0..MaxConns - 1 /\ conn' = conn + 1 /\ conn' \in 1..MaxConns
      /\ local' = Fresh /\ UNCHANGED <<asked, answers, session, sessions>>
  BY DEF Connect, IInv, TypeOK, RegistrationAssumption
<1>2. Fresh \in Client
  BY 0 \in 0..MaxSessions, 0 \in 0..MaxConns DEF Fresh, Client, RegistrationAssumption
<1>3. TypeOK'
  BY <1>1, <1>2 DEF IInv, TypeOK
<1>4. \A p : Known(p) => p \in 1..conn' /\ p # conn'
  BY <1>1 DEF Known
<1>5. Owned'
  BY <1>1, <1>4 DEF IInv, Owned, Known
<1>6. Paired'
  <2>1. \A i \in DOMAIN answers : answers[i].puid # conn'
    BY <1>4 DEF IInv, Owned
  <2> QED
    BY <1>1, <2>1 DEF IInv, Paired
<1>7. RegistrationSound' /\ Asking'
  BY <1>1 DEF RegistrationSound, LoginIsOwn, ReadyIsRegistered, Unregistered, Asking, Here,
     Fresh, Ready
<1> QED
  BY <1>3, <1>5, <1>6, <1>7 DEF IInv

(* An answer is read: only a login of the client itself sets its account.  *)
LEMMA ReceiveStep ==
  ASSUME RegistrationAssumption, IInv, Receive
  PROVE  IInv'
<1> DEFINE m == answers[1]
<1>1. /\ answers \in Seq(Answer) /\ answers # <<>> /\ answers' = Tail(answers)
      /\ UNCHANGED <<conn, asked, session, sessions>>
  BY DEF Receive, IInv, TypeOK
<1>2. /\ Len(answers) \in Nat /\ Len(answers) > 0 /\ DOMAIN answers = 1..Len(answers)
      /\ m \in Answer
      /\ answers' \in Seq(Answer) /\ DOMAIN answers' = 1..Len(answers) - 1
      /\ \A i \in 1..Len(answers) - 1 : answers'[i] = answers[i + 1]
  BY <1>1, HeadTailProperties, LenProperties, ElementOfSeq, EmptySeq
<1>3. IF m.mode = "login" THEN SvsLogin(m) ELSE Sasl(m)
  BY <1>1 DEF Receive
<1>4. Known(m.puid) /\ m.puid \in 1..conn
  BY <1>2 DEF IInv, Owned, Known
<1>5. m.mode = "success" => (Here /\ m.puid = conn => local.svid = conn)
  <2>1. 1 \in DOMAIN answers
    BY <1>2
  <2> QED
    BY <2>1 DEF IInv, Paired
<1> HIDE DEF m
<1>6. ~Here => local' = local
  BY <1>3 DEF SvsLogin, Sasl, Decoded
<1>7. Here => Sound(local') /\ Grown(local')
  <2> SUFFICES ASSUME Here PROVE Sound(local') /\ Grown(local')
    OBVIOUS
  <2>1. conn \in 1..MaxConns /\ Sound(local)
    BY HereFacts
  <2>2. MadeUser(local).user # "given" \/ MadeUser(local).user = local.user
    BY <2>1 DEF MadeUser, None, Sound, Client
  <2>3. Sound(MadeUser(local)) /\ Grown(MadeUser(local))
    BY <2>1, <2>2 DEF Sound, Grown, MadeUser, Client, Ready, None
  <2>4. CASE ~Decoded(m.puid)
    BY <2>1, <2>4, <1>3 DEF SvsLogin, Sasl, Grown
  <2>5. CASE Decoded(m.puid) /\ m.mode = "login"
    <3>1. local' = [MadeUser(local) EXCEPT !.svid = conn]
      BY <2>5, <1>3 DEF SvsLogin, Decoded
    <3> QED
      BY <2>1, <2>3, <3>1 DEF Sound, Grown, Client, Ready, RegistrationAssumption
  <2>6. CASE Decoded(m.puid) /\ m.mode # "login"
    <3> DEFINE c == MadeUser(local)
    <3>1. \/ local' = c
          \/ local' = [c EXCEPT !.sasl_agent = m.from]
          \/ local' = [c EXCEPT !.sasl_agent = None,
                                !.sasl_complete = IF m.mode = "success" THEN @ + 1 ELSE @]
      BY <2>6, <1>3 DEF Sasl
    <3>2. m.from \in Agent /\ (m.mode = "success" => local.svid = conn)
      BY <1>2, <1>5, <2>6 DEF Answer, Decoded
    <3> HIDE DEF c
    <3>3. Sound(c) /\ Grown(c)
      BY <2>3 DEF c
    <3>4. CASE local' = c
      BY <3>3, <3>4
    <3>5. CASE local' = [c EXCEPT !.sasl_agent = m.from]
      BY <3>2, <3>3, <3>5 DEF Sound, Grown, Client, Ready
    <3>6. CASE local' = [c EXCEPT !.sasl_agent = None,
                                  !.sasl_complete = IF m.mode = "success" THEN @ + 1 ELSE @]
      <4> DEFINE n == IF m.mode = "success" THEN c.sasl_complete + 1 ELSE c.sasl_complete
      <4>1. n \in Nat /\ (n > 0 => c.svid = conn) /\ c.svid \in {0, conn}
        BY <3>2, <3>3 DEF Sound, Grown, Client
      <4>2. local' = [c EXCEPT !.sasl_agent = None, !.sasl_complete = n]
        BY <3>6
      <4> HIDE DEF n
      <4> QED
        BY <3>3, <4>1, <4>2 DEF Sound, Grown, Client, Ready
    <3> QED
      BY <3>1, <3>4, <3>5, <3>6
  <2> QED
    BY <2>4, <2>5, <2>6
<1>8. Here' => Here /\ conn # 0 /\ (local.sasl_cookie => local'.sasl_cookie)
  BY <1>6, <1>7, HereFacts DEF Here, Grown
<1>9. TypeOK'
  BY <1>1, <1>2, <1>6, <1>7 DEF IInv, TypeOK, Sound
<1>10. Owned'
  <2>1. \A i \in 1..Len(answers) - 1 : Known(answers[i + 1].puid)
    BY <1>2 DEF IInv, Owned
  <2>2. \A p : Known(p) => p \in 1..conn /\ (Here' /\ p = conn => local'.sasl_cookie)
    BY <1>8 DEF Known
  <2> QED
    BY <1>1, <1>2, <2>1, <2>2 DEF IInv, Owned, Known
<1>11. Paired'
  <2> SUFFICES ASSUME NEW i \in 1..Len(answers) - 1, answers[i + 1].mode = "success"
               PROVE  IF i = 1
                      THEN Here' /\ answers[2].puid = conn => local'.svid = conn
                      ELSE answers[i].mode = "login" /\ answers[i].puid = answers[i + 1].puid
    BY <1>1, <1>2 DEF Paired
  <2>1. answers[i].mode = "login" /\ answers[i].puid = answers[i + 1].puid
    <3>1. i + 1 \in DOMAIN answers /\ i + 1 # 1 /\ (i + 1) - 1 = i
      BY <1>2
    <3> QED
      BY <3>1 DEF IInv, Paired
  <2>2. i = 1 /\ Here' /\ m.puid = conn => local'.svid = conn
    <3> SUFFICES ASSUME i = 1, Here', m.puid = conn PROVE local'.svid = conn
      OBVIOUS
    <3>1. SvsLogin(m) /\ Decoded(m.puid)
      BY <1>3, <1>4, <1>8, <2>1 DEF m, Known, Decoded
    <3>2. MadeUser(local) \in Client
      BY <1>8, HereFacts DEF MadeUser, Sound, Client, None
    <3> QED
      BY <3>1, <3>2 DEF SvsLogin, Client
  <2> QED
    BY <2>1, <2>2 DEF m
<1>12. RegistrationSound' /\ Asking'
  BY <1>1, <1>7, <1>8 DEF RegistrationSound, LoginIsOwn, ReadyIsRegistered, Unregistered, Asking,
     Here, Sound
<1> QED
  BY <1>9, <1>10, <1>11, <1>12 DEF IInv

----------------------------------------------------------------------------
(* The services: what they say is about a connection that is known, and a  *)
(* success comes right behind its login.                                   *)
LEMMA SayStep ==
  ASSUME RegistrationAssumption, IInv, NEW p \in 1..MaxConns, Known(p), NEW a \in Agent,
         NEW modes, modes \in {<<"C">>, <<"login", "success">>, <<"failure">>},
         Say(p, a, modes)
  PROVE  /\ answers' \in Seq(Answer)
         /\ \A i \in DOMAIN answers' : answers'[i].puid \in {answers[j].puid : j \in DOMAIN answers} \cup {p}
         /\ \A i \in DOMAIN answers' : answers'[i].mode = "success" =>
              IF i = 1
              THEN 1 \in DOMAIN answers /\ answers'[1] = answers[1]
              ELSE answers'[i - 1].mode = "login" /\ answers'[i - 1].puid = answers'[i].puid
<1> DEFINE more == [i \in DOMAIN modes |-> [puid |-> p, mode |-> modes[i], from |-> a]]
<1>1. \A i \in DOMAIN modes : [puid |-> p, mode |-> modes[i], from |-> a] \in Answer
  BY DEF Answer
<1>2. /\ more \in Seq(Answer) /\ DOMAIN more = 1..Len(more) /\ Len(more) \in Nat
      /\ \A i \in 1..Len(more) : more[i].puid = p
      /\ \A i \in 1..Len(more) : more[i].mode = "success" =>
           i = 2 /\ more[1].mode = "login" /\ 1 \in 1..Len(more)
  <2>1. CASE modes = <<"C">>
    BY <2>1, <1>1
  <2>2. CASE modes = <<"login", "success">>
    BY <2>2, <1>1
  <2>3. CASE modes = <<"failure">>
    BY <2>3, <1>1
  <2> QED
    BY <2>1, <2>2, <2>3
<1>3. answers' = answers \o more /\ answers \in Seq(Answer)
  BY DEF Say, IInv, TypeOK
<1> HIDE DEF more
<1>4. /\ answers' \in Seq(Answer) /\ Len(answers) \in Nat
      /\ DOMAIN answers = 1..Len(answers) /\ DOMAIN answers' = 1..Len(answers) + Len(more)
      /\ \A i \in 1..Len(answers) : answers'[i] = answers[i]
      /\ \A i \in 1..Len(more) : answers'[Len(answers) + i] = more[i]
  BY <1>2, <1>3, ConcatProperties, LenProperties
<1>5. ASSUME NEW i \in 1..Len(answers)
      PROVE  /\ answers'[i].puid \in {answers[j].puid : j \in DOMAIN answers} \cup {p}
             /\ answers'[i].mode = "success" =>
                  IF i = 1
                  THEN 1 \in DOMAIN answers /\ answers'[1] = answers[1]
                  ELSE answers'[i - 1].mode = "login" /\ answers'[i - 1].puid = answers'[i].puid
  <2>1. answers'[i] = answers[i] /\ i \in DOMAIN answers
    BY <1>4
  <2>2. i # 1 => i - 1 \in 1..Len(answers) /\ answers'[i - 1] = answers[i - 1]
    BY <1>4
  <2> QED
    BY <2>1, <2>2 DEF IInv, Paired
<1>6. ASSUME NEW k \in 1..Len(more)
      PROVE  /\ answers'[Len(answers) + k].puid = p
             /\ answers'[Len(answers) + k].mode = "success" =>
                  /\ k = 2 /\ Len(answers) + k # 1
                  /\ answers'[(Len(answers) + k) - 1].mode = "login"
                  /\ answers'[(Len(answers) + k) - 1].puid = p
  <2>1. answers'[Len(answers) + k] = more[k] /\ more[k].puid = p
    BY <1>2, <1>4
  <2>2. ASSUME more[k].mode = "success"
        PROVE  /\ k = 2 /\ (Len(answers) + k) - 1 = Len(answers) + 1
               /\ answers'[Len(answers) + 1] = more[1]
               /\ more[1].mode = "login" /\ more[1].puid = p
    <3>1. k = 2 /\ more[1].mode = "login" /\ 1 \in 1..Len(more)
      BY <1>2, <2>2
    <3>2. answers'[Len(answers) + 1] = more[1] /\ more[1].puid = p
      BY <3>1, <1>2, <1>4
    <3>3. (Len(answers) + k) - 1 = Len(answers) + 1
      BY <3>1, <1>4
    <3> QED
      BY <3>1, <3>2, <3>3
  <2>3. k = 2 => Len(answers) + k # 1
    <3>1. Len(answers) \in Nat
      BY <1>4
    <3> QED
      BY ONLY <3>1
  <2> QED
    BY <2>1, <2>2, <2>3
<1>7. ASSUME NEW i \in 1..Len(answers) + Len(more)
      PROVE  i \in 1..Len(answers) \/ (i - Len(answers) \in 1..Len(more)
                                       /\ i = Len(answers) + (i - Len(answers)))
  BY <1>2, <1>4
<1>8. ASSUME NEW i \in 1..Len(answers) + Len(more)
      PROVE  /\ answers'[i].puid \in {answers[j].puid : j \in DOMAIN answers} \cup {p}
             /\ answers'[i].mode = "success" =>
                  IF i = 1
                  THEN 1 \in DOMAIN answers /\ answers'[1] = answers[1]
                  ELSE answers'[i - 1].mode = "login" /\ answers'[i - 1].puid = answers'[i].puid
  <2>1. CASE i \in 1..Len(answers)
    BY <2>1, <1>5
  <2>2. CASE i - Len(answers) \in 1..Len(more) /\ i = Len(answers) + (i - Len(answers))
    <3> DEFINE k == i - Len(answers)
    <3>1. k \in 1..Len(more) /\ i = Len(answers) + k
      BY <2>2
    <3> HIDE DEF k
    <3> QED
      BY <3>1, <1>6
  <2> QED
    BY <1>7, <2>1, <2>2
<1> QED
  BY <1>4, <1>8

LEMMA ServeStep ==
  ASSUME RegistrationAssumption, IInv, Serve
  PROVE  IInv'
<1> DEFINE m == asked[1]
<1>1. /\ asked \in Seq(Message) /\ asked # <<>> /\ asked' = Tail(asked)
      /\ UNCHANGED <<conn, local>>
  BY DEF Serve, IInv, TypeOK
<1>2. /\ Len(asked) \in Nat /\ DOMAIN asked = 1..Len(asked) /\ 1 \in DOMAIN asked
      /\ m \in Message /\ Head(asked) = m
      /\ asked' \in Seq(Message) /\ DOMAIN asked' = 1..Len(asked) - 1
      /\ \A i \in 1..Len(asked) - 1 : asked'[i] = asked[i + 1] /\ i + 1 \in DOMAIN asked
  BY <1>1, HeadTailProperties, LenProperties, ElementOfSeq, EmptySeq
<1>3. Known(m.puid) /\ m.puid \in 1..MaxConns
  BY <1>2 DEF IInv, Owned, Message
<1> HIDE DEF m
<1>4. /\ \/ answers' = answers
         \/ \E a \in Agent : \/ Say(m.puid, a, <<"C">>)
                             \/ Say(m.puid, a, <<"login", "success">>)
                             \/ Say(m.puid, a, <<"failure">>)
      /\ session' \in SUBSET (session \cup {<<m.puid, a>> : a \in Agent})
      /\ sessions' \in 0..MaxSessions
  <2>1. \A s \in session : s[2] \in Agent
    BY DEF IInv, TypeOK
  <2>2. sessions \in 0..MaxSessions /\ (sessions < MaxSessions => sessions + 1 \in 0..MaxSessions)
    BY DEF IInv, TypeOK, RegistrationAssumption
  <2> QED
    BY <1>2, <2>1, <2>2 DEF Serve
<1>5. /\ answers' \in Seq(Answer)
      /\ \A i \in DOMAIN answers' : answers'[i].puid \in {answers[j].puid : j \in DOMAIN answers} \cup {m.puid}
      /\ \A i \in DOMAIN answers' : answers'[i].mode = "success" =>
           IF i = 1
           THEN 1 \in DOMAIN answers /\ answers'[1] = answers[1]
           ELSE answers'[i - 1].mode = "login" /\ answers'[i - 1].puid = answers'[i].puid
  <2>1. CASE answers' = answers
    BY <2>1 DEF IInv, TypeOK, Paired
  <2>2. ASSUME NEW a \in Agent, NEW modes,
               modes \in {<<"C">>, <<"login", "success">>, <<"failure">>},
               Say(m.puid, a, modes)
        PROVE  /\ answers' \in Seq(Answer)
               /\ \A i \in DOMAIN answers' :
                    answers'[i].puid \in {answers[j].puid : j \in DOMAIN answers} \cup {m.puid}
               /\ \A i \in DOMAIN answers' : answers'[i].mode = "success" =>
                    IF i = 1
                    THEN 1 \in DOMAIN answers /\ answers'[1] = answers[1]
                    ELSE answers'[i - 1].mode = "login" /\ answers'[i - 1].puid = answers'[i].puid
    BY <1>3, <2>2, SayStep
  <2> QED
    BY <2>1, <2>2, <1>4
<1>6. TypeOK'
  <2>1. session' \subseteq (1..MaxConns) \X Agent
    BY <1>3, <1>4 DEF IInv, TypeOK
  <2> QED
    BY <1>1, <1>2, <1>4, <1>5, <2>1 DEF IInv, TypeOK
<1>7. Owned'
  <2>1. \A i \in 1..Len(asked) - 1 : Known(asked'[i].puid)
    BY <1>2 DEF IInv, Owned
  <2>2. \A i \in DOMAIN answers' : Known(answers'[i].puid)
    BY <1>3, <1>5 DEF IInv, Owned
  <2>3. \A s \in session' : Known(s[1])
    BY <1>3, <1>4 DEF IInv, Owned
  <2> QED
    BY <1>1, <1>2, <2>1, <2>2, <2>3 DEF Owned, Known, Here
<1>8. Paired'
  <2>1. 1 \in DOMAIN answers /\ answers[1].mode = "success" =>
          (Here /\ answers[1].puid = conn => local.svid = conn)
    BY DEF IInv, Paired
  <2>2. 1 \in DOMAIN answers' /\ answers'[1].mode = "success" =>
          (Here' /\ answers'[1].puid = conn' => local'.svid = conn')
    BY <1>1, <1>5, <2>1 DEF Here
  <2> SUFFICES ASSUME NEW i \in DOMAIN answers', answers'[i].mode = "success"
               PROVE  IF i = 1
                      THEN Here' /\ answers'[1].puid = conn' => local'.svid = conn'
                      ELSE answers'[i - 1].mode = "login" /\ answers'[i - 1].puid = answers'[i].puid
    BY DEF Paired
  <2> QED
    BY <2>2, <1>5
<1> QED
  BY <1>1, <1>6, <1>7, <1>8 DEF IInv, RegistrationSound, LoginIsOwn, ReadyIsRegistered,
     Unregistered, Asking, Here

LEMMA AgentRestartsStep ==
  ASSUME IInv, AgentRestarts
  PROVE  IInv'
<1>1. session' \subseteq session /\ UNCHANGED <<conn, local, asked, answers, sessions>>
  BY DEF AgentRestarts
<1> QED
  BY <1>1 DEF IInv, TypeOK, Owned, Known, Paired, RegistrationSound, LoginIsOwn,
     ReadyIsRegistered, Unregistered, Asking, Here

LEMMA NextIInv ==
  ASSUME RegistrationAssumption, IInv, [Next]_vars
  PROVE  IInv'
<1>1. CASE UNCHANGED vars
  BY <1>1 DEF vars, IInv, TypeOK, Owned, Known, Paired, RegistrationSound, LoginIsOwn,
     ReadyIsRegistered, Unregistered, Asking, Here
<1>2. CASE Next
  BY <1>2, ConnectStep, NickUserPong, Capabilities, AuthenticateStep, ReceiveStep, ExitStep,
     ServeStep, AgentRestartsStep DEF Next
<1> QED
  BY <1>1, <1>2

----------------------------------------------------------------------------
(* A client gets no account but the one its own SASL session gave it, and  *)
(* a client that has done what is asked for is a user: for any agents, any *)
(* number of connections to the slot, and answers however late.            *)
THEOREM Registered ==
  ASSUME RegistrationAssumption
  PROVE  Spec => []RegistrationSound
<1>1. Init => IInv
  BY InitIInv
<1>2. IInv /\ [Next]_vars => IInv'
  BY NextIInv
<1>3. IInv => RegistrationSound
  BY DEF IInv
<1> QED
  BY <1>1, <1>2, <1>3, PTL DEF Spec
=============================================================================
