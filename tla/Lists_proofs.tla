---------------------------- MODULE Lists_proofs ----------------------------
(***************************************************************************)
(* Lists: what Keep keeps, and the two forms of induction that other       *)
(* proofs use, on lists and for the least natural number of a set.         *)
(* The library's induction theorems take an operator; these take a set.    *)
(***************************************************************************)
EXTENDS Lists, Functions, FiniteSetTheorems, SequenceTheorems, WellFoundedInduction, TLAPS

(* A set of naturals that is not empty has a least member.                 *)
LEMMA LeastOfNaturals ==
  ASSUME NEW S, S \subseteq Nat, S # {}
  PROVE  \E m \in S : \A n \in S : m <= n
<1> DEFINE R == OpToRel(<, Nat)
<1>1. IsWellFoundedOn(R, Nat) /\ \A x, y \in Nat : x < y => <<x, y>> \in R
  BY NatLessThanWellFounded DEF OpToRel
<1> HIDE DEF R
<1>2. PICK m \in S : \A n \in S : <<n, m>> \notin R
  <2>1. IsWellFoundedOn(R, Nat)
    BY <1>1
  <2> QED
    BY <2>1, WFMin, Zenon
<1>3. \A n \in S : ~(n < m)
  BY <1>1, <1>2
<1>4. \A n \in S : m <= n
  BY <1>3
<1> QED
  BY <1>4

(* Induction on lists: what holds of the empty one and is kept when one    *)
(* member is added at the end holds of all.                                *)
LEMMA ListInduction ==
  ASSUME NEW S, NEW T, <<>> \in T,
         \A s \in Seq(S), x \in S : s \in T => Append(s, x) \in T
  PROVE  \A s \in Seq(S) : s \in T
<1> DEFINE Bad == {n \in Nat : \E s \in Seq(S) : Len(s) = n /\ s \notin T}
<1>1. SUFFICES Bad = {}
  BY LenProperties
<1>2. SUFFICES ASSUME Bad # {} PROVE FALSE
  OBVIOUS
<1>3. PICK n \in Bad : \A k \in Bad : n <= k
  BY <1>2, LeastOfNaturals
<1>4. PICK s \in Seq(S) : Len(s) = n /\ s \notin T
  BY <1>3
<1>5. s # <<>> /\ Len(s) > 0
  BY <1>4, LenProperties, EmptySeq
<1> DEFINE f == SubSeq(s, 1, Len(s) - 1)
<1>6. /\ f \in Seq(S) /\ Len(f) = n - 1 /\ s[Len(s)] \in S
      /\ s = Append(f, s[Len(s)])
  BY <1>4, <1>5, LenProperties, ElementOfSeq, SubSeqProperties, AppendProperties, SeqEqual
<1> HIDE DEF f
<1>7. n \in Nat /\ n - 1 \in Nat /\ ~(n <= n - 1)
  BY <1>3, <1>4, <1>5
<1>8. f \in T
  BY <1>3, <1>6, <1>7
<1> QED
  BY <1>4, <1>6, <1>8

----------------------------------------------------------------------------
(* The function that Keep defines: what is kept of the first n members.    *)
Longer(s, A, r, n) == IF s[n] \in A THEN Append(r, s[n]) ELSE r
Keeping(k, s, A, m) == k[0] = <<>> /\ \A n \in 1..m : k[n] = Longer(s, A, k[n-1], n)
Walk(k, s, A, m) == [n \in 0..m |-> IF n = 0 THEN <<>> ELSE Longer(s, A, k[n-1], n)]

LEMMA WalkExists ==
  ASSUME NEW s, NEW A, NEW m \in Nat
  PROVE  \E k : k = Walk(k, s, A, m)
<1> DEFINE Bad == {l \in Nat : ~\E k : k = Walk(k, s, A, l)}
<1>1. SUFFICES ASSUME Bad # {} PROVE FALSE
  OBVIOUS
<1>2. PICK l \in Bad : \A k \in Bad : l <= k
  BY <1>1, LeastOfNaturals
<1>3. l # 0
  <2> DEFINE k0 == [n \in 0..0 |-> <<>>]
  <2>1. k0 = Walk(k0, s, A, 0)
    BY DEF Walk
  <2> QED
    BY <2>1
<1>4. PICK g : g = Walk(g, s, A, l - 1)
  <2>1. l \in Nat /\ l - 1 \in Nat /\ ~(l <= l - 1)
    BY <1>2, <1>3
  <2>2. l - 1 \notin Bad
    BY <1>2, <2>1
  <2> QED
    BY <2>1, <2>2
<1> DEFINE h == [n \in 0..l |-> IF n = l THEN Longer(s, A, g[l-1], l) ELSE g[n]]
<1>5. \A n \in 0..l : h[n] = IF n = 0 THEN <<>> ELSE Longer(s, A, h[n-1], n)
  <2> SUFFICES ASSUME NEW n \in 0..l
               PROVE  h[n] = IF n = 0 THEN <<>> ELSE Longer(s, A, h[n-1], n)
    OBVIOUS
  <2>1. CASE n = l
    BY <1>2, <1>3, <2>1 DEF Longer
  <2>2. CASE n # l
    <3>1. n \in 0..(l-1)
      BY <1>2, <2>2
    <3>2. g[n] = IF n = 0 THEN <<>> ELSE Longer(s, A, g[n-1], n)
      BY <1>4, <3>1 DEF Walk
    <3>3. h[n] = g[n] /\ (n # 0 => h[n-1] = g[n-1])
      BY <1>2, <2>2
    <3> QED
      BY <3>2, <3>3
  <2> QED
    BY <2>1, <2>2
<1>6. h = Walk(h, s, A, l)
  BY <1>5 DEF Walk
<1> QED
  BY <1>2, <1>6

LEMMA KeepBySteps ==
  ASSUME NEW S, NEW s \in Seq(S), NEW A
  PROVE  \E k : Keeping(k, s, A, Len(s)) /\ Keep(s, A) = k[Len(s)]
<1> DEFINE k0 == CHOOSE k : k = Walk(k, s, A, Len(s))
<1>1. Len(s) \in Nat
  BY LenProperties
<1>2. \E k : k = Walk(k, s, A, Len(s))
  BY <1>1, WalkExists
<1>3. k0 = Walk(k0, s, A, Len(s))
  BY <1>2
<1>4. Keep(s, A) = k0[Len(s)]
  BY DEF Keep, Walk, Longer
<1> HIDE DEF k0
<1>5. \A n \in 0..Len(s) : k0[n] = IF n = 0 THEN <<>> ELSE Longer(s, A, k0[n-1], n)
  BY <1>3 DEF Walk
<1>6. Keeping(k0, s, A, Len(s))
  BY <1>1, <1>5 DEF Keeping
<1> QED
  BY <1>4, <1>6

LEMMA KeepingUnique ==
  ASSUME NEW s, NEW A, NEW m \in Nat, NEW j, NEW k,
         Keeping(j, s, A, m), Keeping(k, s, A, m)
  PROVE  j[m] = k[m]
<1> DEFINE Bad == {n \in 0..m : j[n] # k[n]}
<1>1. SUFFICES ASSUME Bad # {} PROVE FALSE
  OBVIOUS
<1>2. PICK n \in Bad : \A l \in Bad : n <= l
  <2>1. Bad \subseteq Nat
    OBVIOUS
  <2> HIDE DEF Bad
  <2> QED
    BY <1>1, <2>1, LeastOfNaturals
<1>3. n # 0
  BY <1>2 DEF Keeping
<1>4. n \in 1..m /\ n - 1 \in 0..m /\ n - 1 \notin Bad
  BY <1>2, <1>3
<1> QED
  BY <1>2, <1>4 DEF Keeping, Longer

LEMMA KeepEmpty == \A A : Keep(<<>>, A) = <<>>
<1>1. <<>> \in Seq({}) /\ Len(<<>>) = 0
  BY EmptySeq
<1> QED
  BY <1>1, KeepBySteps DEF Keeping

LEMMA KeepAppend ==
  ASSUME NEW S, NEW s \in Seq(S), NEW x \in S, NEW A
  PROVE  Keep(Append(s, x), A) = IF x \in A THEN Append(Keep(s, A), x) ELSE Keep(s, A)
<1> DEFINE t == Append(s, x)
<1>1. /\ t \in Seq(S) /\ Len(t) = Len(s) + 1 /\ Len(s) \in Nat
      /\ t[Len(t)] = x /\ \A n \in 1..Len(s) : s[n] = t[n]
  BY AppendProperties, LenProperties
<1>2. PICK j : Keeping(j, s, A, Len(s)) /\ Keep(s, A) = j[Len(s)]
  BY KeepBySteps
<1>3. PICK k : Keeping(k, t, A, Len(t)) /\ Keep(t, A) = k[Len(t)]
  BY <1>1, KeepBySteps
<1>4. Keeping(k, s, A, Len(s))
  BY <1>1, <1>3 DEF Keeping, Longer
<1>5. k[Len(s)] = j[Len(s)]
  BY <1>1, <1>2, <1>4, KeepingUnique
<1>6. k[Len(t)] = Longer(t, A, k[Len(s)], Len(t))
  BY <1>1, <1>3 DEF Keeping
<1> QED
  BY <1>1, <1>2, <1>3, <1>5, <1>6 DEF Longer

-----------------------------------------------------------------------------
LEMMA RangeEmpty == Range(<<>>) = {} /\ \A S : <<>> \in Seq(S)
<1>1. DOMAIN <<>> = {} /\ \A S : <<>> \in Seq(S)
  BY EmptySeq, LenProperties
<1> QED
  BY <1>1 DEF Range

LEMMA RangeAppend ==
  ASSUME NEW S, NEW s \in Seq(S), NEW x \in S
  PROVE  Range(Append(s, x)) = Range(s) \cup {x}
<1>1. /\ Len(Append(s, x)) = Len(s) + 1 /\ Len(s) \in Nat
      /\ DOMAIN s = 1..Len(s) /\ DOMAIN Append(s, x) = 1..(Len(s) + 1)
      /\ Append(s, x)[Len(s) + 1] = x
      /\ \A n \in 1..Len(s) : Append(s, x)[n] = s[n]
  BY AppendProperties, LenProperties
<1> HIDE DEF Range
<1> QED
  BY <1>1 DEF Range

LEMMA RangeCons ==
  ASSUME NEW S, NEW s \in Seq(S), NEW x \in S
  PROVE  Range(<<x>> \o s) = {x} \cup Range(s)
<1> DEFINE t == <<x>> \o s
<1>1. /\ Len(t) = Len(s) + 1 /\ Len(s) \in Nat /\ t \in Seq(S)
      /\ DOMAIN s = 1..Len(s) /\ DOMAIN t = 1..(Len(s) + 1)
      /\ t[1] = x /\ \A n \in 1..Len(s) : t[n + 1] = s[n]
  BY ConcatProperties, LenProperties
<1> HIDE DEF t
<1>2. \A n \in 1..(Len(s) + 1) : n = 1 \/ (n - 1 \in 1..Len(s) /\ t[n] = s[n - 1])
  BY <1>1
<1>3. \A n \in 1..Len(s) : n + 1 \in 1..(Len(s) + 1)
  BY <1>1
<1>4. \A y : y \in Range(t) <=> y = x \/ y \in Range(s)
  BY <1>1, <1>2, <1>3 DEF Range
<1>5. Range(t) = {x} \cup Range(s)
  BY <1>4
<1> QED
  BY <1>5 DEF t

(* What Keep keeps: the members of A.                                      *)
LEMMA KeepMembers ==
  ASSUME NEW S, NEW s \in Seq(S), NEW A
  PROVE  Keep(s, A) \in Seq(S) /\ Range(Keep(s, A)) = Range(s) \cap A
<1> DEFINE T == {t \in Seq(S) : Keep(t, A) \in Seq(S) /\ Range(Keep(t, A)) = Range(t) \cap A}
<1>1. <<>> \in T
  BY RangeEmpty, KeepEmpty
<1>2. ASSUME NEW t \in Seq(S), NEW x \in S, t \in T PROVE Append(t, x) \in T
  <2>1. Append(t, x) \in Seq(S)
    BY AppendProperties
  <2>2. Range(Append(t, x)) = Range(t) \cup {x}
    BY RangeAppend
  <2>3. CASE x \in A
    <3>1. Keep(Append(t, x), A) = Append(Keep(t, A), x)
      BY <2>3, KeepAppend
    <3>2. Append(Keep(t, A), x) \in Seq(S)
          /\ Range(Append(Keep(t, A), x)) = Range(Keep(t, A)) \cup {x}
      BY <1>2, AppendProperties, RangeAppend
    <3> QED
      BY <1>2, <2>1, <2>2, <2>3, <3>1, <3>2
  <2>4. CASE x \notin A
    BY <1>2, <2>1, <2>2, <2>4, KeepAppend
  <2> QED
    BY <2>3, <2>4
<1> HIDE DEF T
<1>3. s \in T
  BY <1>1, <1>2, ListInduction
<1> QED
  BY <1>3 DEF T

(* What is left stands in the order it stood in.                           *)
LEMMA KeepPlaces ==
  ASSUME NEW S, NEW s \in Seq(S), NEW A
  PROVE  \E p \in [DOMAIN Keep(s, A) -> DOMAIN s] :
            /\ \A i, j \in DOMAIN Keep(s, A) : p[i] = p[j] => i = j
            /\ \A i \in DOMAIN Keep(s, A) : Keep(s, A)[i] = s[p[i]]
<1> DEFINE Places(t, k) == \E p \in [DOMAIN k -> DOMAIN t] :
                             /\ \A i, j \in DOMAIN k : p[i] = p[j] => i = j
                             /\ \A i \in DOMAIN k : k[i] = t[p[i]]
           T == {t \in Seq(S) : Places(t, Keep(t, A))}
<1>1. <<>> \in T
  <2>1. DOMAIN <<>> = {} /\ <<>> \in Seq(S)
    BY RangeEmpty, EmptySeq, LenProperties
  <2>2. Places(<<>>, <<>>)
    <3> DEFINE p == [i \in {} |-> i]
    <3>1. p \in [{} -> {}]
      OBVIOUS
    <3> HIDE DEF p
    <3> QED
      BY <2>1, <3>1
  <2> QED
    BY <2>1, <2>2, KeepEmpty
<1>2. ASSUME NEW t \in Seq(S), NEW x \in S, t \in T PROVE Append(t, x) \in T
  <2> DEFINE u == Append(t, x)
             k == Keep(t, A)
  <2>1. /\ u \in Seq(S) /\ Len(t) \in Nat /\ DOMAIN t = 1..Len(t) /\ DOMAIN u = 1..(Len(t) + 1)
        /\ u[Len(t) + 1] = x /\ \A n \in 1..Len(t) : u[n] = t[n]
    BY AppendProperties, LenProperties
  <2>2. k \in Seq(S) /\ Len(k) \in Nat /\ DOMAIN k = 1..Len(k)
    BY KeepMembers, LenProperties
  <2>3. PICK p \in [DOMAIN k -> DOMAIN t] :
              /\ \A i, j \in DOMAIN k : p[i] = p[j] => i = j
              /\ \A i \in DOMAIN k : k[i] = t[p[i]]
    BY <1>2
  <2>4. CASE x \notin A
    <3>1. Keep(u, A) = k
      BY <2>4, KeepAppend
    <3>2. p \in [DOMAIN k -> DOMAIN u] /\ \A i \in DOMAIN k : k[i] = u[p[i]]
      BY <2>1, <2>3
    <3>3. Places(u, Keep(u, A))
      BY <2>3, <3>1, <3>2
    <3> QED
      BY <2>1, <3>3
  <2>5. CASE x \in A
    <3> DEFINE l == Append(k, x)
               q == [i \in 1..(Len(k) + 1) |-> IF i = Len(k) + 1 THEN Len(t) + 1 ELSE p[i]]
    <3>1. Keep(u, A) = l
      BY <2>5, KeepAppend
    <3>2. /\ DOMAIN l = 1..(Len(k) + 1)
          /\ l[Len(k) + 1] = x /\ \A n \in 1..Len(k) : l[n] = k[n]
      BY <2>2, AppendProperties, LenProperties
    <3> HIDE DEF k, u, l
    <3>3. q \in [DOMAIN l -> DOMAIN u]
      BY <2>1, <2>2, <2>3, <3>2
    <3>4. \A i \in DOMAIN l : l[i] = u[q[i]]
      BY <2>1, <2>2, <2>3, <3>2
    <3>5. \A i, j \in DOMAIN l : q[i] = q[j] => i = j
      BY <2>1, <2>2, <2>3, <3>2
    <3>6. Places(u, l)
      BY <3>3, <3>4, <3>5
    <3> QED
      BY <2>1, <3>1, <3>6 DEF u
  <2> QED
    BY <2>4, <2>5
<1> HIDE DEF T
<1>3. s \in T
  BY <1>1, <1>2, ListInduction
<1> QED
  BY <1>3 DEF T

(* Keep takes nobody off a list of those who stay.                         *)
LEMMA KeepAll ==
  ASSUME NEW S, NEW s \in Seq(S), NEW A, \A j \in 1..Len(s) : s[j] \in A
  PROVE  Keep(s, A) = s
<1> DEFINE T == {t \in Seq(S) : (\A j \in 1..Len(t) : t[j] \in A) => Keep(t, A) = t}
<1>1. <<>> \in T
  BY RangeEmpty, KeepEmpty
<1>2. ASSUME NEW t \in Seq(S), NEW x \in S, t \in T PROVE Append(t, x) \in T
  <2>1. /\ Append(t, x) \in Seq(S) /\ Len(Append(t, x)) = Len(t) + 1 /\ Len(t) \in Nat
        /\ Append(t, x)[Len(t) + 1] = x /\ \A j \in 1..Len(t) : Append(t, x)[j] = t[j]
    BY AppendProperties, LenProperties
  <2>2. Keep(Append(t, x), A) = IF x \in A THEN Append(Keep(t, A), x) ELSE Keep(t, A)
    BY KeepAppend
  <2>3. ASSUME \A j \in 1..Len(Append(t, x)) : Append(t, x)[j] \in A
        PROVE  Keep(Append(t, x), A) = Append(t, x)
    <3>1. x \in A
      BY <2>1, <2>3
    <3>2. \A j \in 1..Len(t) : t[j] \in A
      BY <2>1, <2>3
    <3>3. Keep(t, A) = t
      BY <1>2, <3>2
    <3> QED
      BY <2>2, <3>1, <3>3
  <2> QED
    BY <2>1, <2>3
<1>3. \A t \in Seq(S) : t \in T
  <2> HIDE DEF T
  <2> QED
    BY <1>1, <1>2, ListInduction
<1> QED
  BY <1>3
=============================================================================
