----------------------- MODULE ChannelMembers_proofs -----------------------
(***************************************************************************)
(* Proofs about ChannelMembers, for any number of users and channels and   *)
(* any limits: the two ends of every membership, invitation and throttle   *)
(* entry agree, the counters count, and nothing points to what was freed.  *)
(***************************************************************************)
EXTENDS ChannelMembers, FiniteSetTheorems, SequenceTheorems, TLAPS

(***************************************************************************)
(* What the invariant needs besides the properties.                        *)
(***************************************************************************)
(* Who is not on a channel has no flags there: the copies made by          *)
(* ClearFlags would otherwise not agree.                                   *)
FlagsOfMembers ==
  \A u \in User, c \in Channel : u \notin members[c] => mflags[c][u] = {}

(* Only one of the two stepwise handlers runs, m_sjoin's channel is there  *)
(* until it kicks, and a user that quits has no throttle entries left.     *)
PhaseOK ==
  /\ sjoin = Nil \/ quit = Nil
  /\ nicks => sjoin \in channel
  /\ quit # Nil => quit \in online /\ ujflood[quit] = {}

(* The part of it that is about the invitations, of any two values.        *)
Agree(ic, iu) ==
  /\ ic \in [Channel -> Seq(User)] /\ iu \in [User -> Seq(Channel)]
  /\ \A u \in User, c \in Channel : u \in Elements(ic[c]) <=> c \in Elements(iu[u])
  /\ \A c \in Channel : NoRepeats(ic[c])
  /\ \A u \in User : NoRepeats(iu[u])

Limit(ic, iu) ==
  /\ \A c \in Channel : Len(ic[c]) <= MaxChannels
  /\ \A u \in User : Len(iu[u]) <= MaxChannels

(***************************************************************************)
(* Sequences without repeats.                                              *)
(***************************************************************************)
LEMMA ElementsFacts ==
  ASSUME NEW S, NEW s \in Seq(S)
  PROVE  /\ Elements(s) \subseteq S
         /\ Len(s) \in Nat /\ DOMAIN s = 1..Len(s)
         /\ s # << >> => s[1] \in Elements(s)
         /\ Len(s) > 0 => s[Len(s)] \in Elements(s)
         /\ Elements(s) = {} <=> s = << >>
<1>1. /\ Len(s) \in Nat /\ DOMAIN s = 1..Len(s)
      /\ \A i \in 1..Len(s) : s[i] \in S
      /\ s = << >> <=> Len(s) = 0
  BY LenProperties, ElementOfSeq, EmptySeq
<1>2. \A i \in 1..Len(s) : s[i] \in Elements(s)
  BY <1>1 DEF Elements
<1>3. \A x \in Elements(s) : \E i \in 1..Len(s) : x = s[i]
  BY <1>1 DEF Elements
<1> QED
  BY <1>1, <1>2, <1>3

LEMMA WithoutFacts ==
  ASSUME NEW S, NEW s \in Seq(S), NEW e, NoRepeats(s)
  PROVE  /\ Without(s, e) \in Seq(S)
         /\ NoRepeats(Without(s, e))
         /\ Elements(Without(s, e)) = Elements(s) \ {e}
         /\ Len(Without(s, e)) = IF e \in Elements(s) THEN Len(s) - 1 ELSE Len(s)
<1>1. CASE e \notin Elements(s)
  BY <1>1 DEF Without
<1>2. CASE e \in Elements(s)
  <2> DEFINE First(i) == i \in DOMAIN s /\ s[i] = e /\ \A j \in 1..i-1 : s[j] # e
             k == CHOOSE i \in DOMAIN s : s[i] = e /\ \A j \in 1..i-1 : s[j] # e
             n == Len(s) - 1
             w == [j \in 1..n |-> IF j < k THEN s[j] ELSE s[j+1]]
  <2>1. /\ Len(s) \in Nat /\ DOMAIN s = 1..Len(s)
        /\ \A i \in 1..Len(s) : s[i] \in S
    BY LenProperties, ElementOfSeq
  <2>2. \E i \in DOMAIN s : s[i] = e /\ \A j \in 1..i-1 : s[j] # e
    <3>1. PICK i \in DOMAIN s : s[i] = e
      BY <1>2 DEF Elements
    <3>2. \A j \in 1..i-1 : s[j] # e
      BY <3>1, <2>1 DEF NoRepeats
    <3> QED
      BY <3>1, <3>2
  <2>3. k \in 1..Len(s) /\ s[k] = e
    BY <2>1, <2>2
  <2>4. Without(s, e) = w
    BY <1>2 DEF Without
  <2> HIDE DEF k
  <2>5. n \in Nat /\ \A j \in 1..n : w[j] \in S
    BY <2>1, <2>3
  <2>6. w \in Seq(S) /\ Len(w) = n /\ DOMAIN w = 1..n
    BY <2>5, IsASeq, LenProperties
  <2>7. \A j \in 1..n : w[j] = s[IF j < k THEN j ELSE j + 1]
    OBVIOUS
  <2>8. NoRepeats(w)
    BY <2>1, <2>3, <2>6, <2>7, SMTT(20) DEF NoRepeats
  <2>9. ASSUME NEW x \in Elements(w) PROVE x \in Elements(s) /\ x # e
    <3>1. PICK j \in 1..n : x = w[j]
      BY <2>6 DEF Elements
    <3>2. (IF j < k THEN j ELSE j + 1) \in DOMAIN s /\ (IF j < k THEN j ELSE j + 1) # k
      BY <2>1, <2>3, <3>1
    <3>3. x = s[IF j < k THEN j ELSE j + 1]
      BY <3>1, <2>7
    <3> QED
      BY <3>2, <3>3, <2>1, <2>3 DEF Elements, NoRepeats
  <2>10. ASSUME NEW x \in Elements(s), x # e PROVE x \in Elements(w)
    <3>1. PICK i \in 1..Len(s) : x = s[i]
      BY <2>1 DEF Elements
    <3>2. i # k
      BY <3>1, <2>3, <2>10
    <3>3. CASE i < k
      <4>1. i \in 1..n /\ w[i] = x
        BY <3>1, <3>3, <2>1, <2>3
      <4> QED
        BY <4>1, <2>6 DEF Elements
    <3>4. CASE i > k
      <4>1. i - 1 \in 1..n /\ w[i - 1] = x
        BY <3>1, <3>4, <2>1, <2>3
      <4> QED
        BY <4>1, <2>6 DEF Elements
    <3> QED
      BY <3>1, <3>2, <3>3, <3>4, <2>1, <2>3
  <2>11. Elements(w) = Elements(s) \ {e}
    BY <2>9, <2>10
  <2> HIDE DEF w
  <2> QED
    BY <1>2, <2>4, <2>6, <2>8, <2>11
<1> QED
  BY <1>1, <1>2

LEMMA PrependFacts ==
  ASSUME NEW S, NEW s \in Seq(S), NEW e \in S, NoRepeats(s), e \notin Elements(s)
  PROVE  /\ <<e>> \o s \in Seq(S)
         /\ NoRepeats(<<e>> \o s)
         /\ Elements(<<e>> \o s) = Elements(s) \cup {e}
         /\ Len(<<e>> \o s) = Len(s) + 1
<1>1. /\ Len(s) \in Nat /\ DOMAIN s = 1..Len(s)
  BY LenProperties
<1>2. <<e>> \in Seq(S) /\ Len(<<e>>) = 1 /\ <<e>>[1] = e
  OBVIOUS
<1>3. /\ <<e>> \o s \in Seq(S) /\ Len(<<e>> \o s) = Len(s) + 1
      /\ DOMAIN (<<e>> \o s) = 1..(Len(s) + 1)
      /\ \A i \in 1..(Len(s) + 1) :
            (<<e>> \o s)[i] = IF i <= 1 THEN <<e>>[i] ELSE s[i - 1]
  BY <1>1, <1>2, ConcatProperties, LenProperties
<1> DEFINE t == <<e>> \o s
<1>4. t[1] = e /\ \A i \in 1..Len(s) : t[i + 1] = s[i]
  BY <1>1, <1>2, <1>3
<1>5. DOMAIN t = 1..(Len(s) + 1)
  BY <1>3
<1> HIDE DEF t
<1>6. NoRepeats(t)
  <2> SUFFICES ASSUME NEW i \in DOMAIN t, NEW j \in DOMAIN t, t[i] = t[j] PROVE i = j
    BY DEF NoRepeats
  <2>1. ASSUME NEW m \in DOMAIN t, m # 1 PROVE m - 1 \in DOMAIN s /\ t[m] = s[m - 1]
    <3>1. m - 1 \in 1..Len(s) /\ (m - 1) + 1 = m
      BY <2>1, <1>1, <1>5
    <3> QED
      BY <3>1, <1>4, <1>1
  <2>2. ASSUME NEW m \in DOMAIN t, m # 1 PROVE t[m] # e
    BY <2>1, <2>2 DEF Elements
  <2>3. CASE i = 1 \/ j = 1
    BY <2>2, <2>3, <1>4
  <2>4. CASE i # 1 /\ j # 1
    <3>1. i - 1 = j - 1
      BY <2>1, <2>4 DEF NoRepeats
    <3> QED
      BY <3>1, <1>5, <1>1
  <2> QED
    BY <2>3, <2>4
<1>7. Elements(t) = Elements(s) \cup {e}
  <2>1. ASSUME NEW x \in Elements(t) PROVE x \in Elements(s) \cup {e}
    <3>1. PICK i \in 1..(Len(s) + 1) : x = t[i]
      BY <1>5 DEF Elements
    <3>2. CASE i = 1
      BY <3>1, <3>2, <1>4
    <3>3. CASE i # 1
      <4>1. i - 1 \in 1..Len(s) /\ (i - 1) + 1 = i
        BY <3>3, <1>1
      <4>2. x = s[i - 1]
        BY <4>1, <3>1, <1>4
      <4> QED
        BY <4>1, <4>2, <1>1 DEF Elements
    <3> QED
      BY <3>2, <3>3
  <2>2. e \in Elements(t)
    BY <1>1, <1>4, <1>5 DEF Elements
  <2>3. ASSUME NEW i \in DOMAIN s PROVE s[i] \in Elements(t)
    <3>1. i + 1 \in DOMAIN t /\ t[i + 1] = s[i]
      BY <1>1, <1>4, <1>5
    <3> QED
      BY <3>1 DEF Elements
  <2> QED
    BY <2>1, <2>2, <2>3 DEF Elements
<1> QED
  BY <1>3, <1>6, <1>7 DEF t
(***************************************************************************)
(* Invitations.                                                            *)
(***************************************************************************)
LEMMA DelBoth ==
  ASSUME NEW ic, NEW iu, Agree(ic, iu), NEW u \in User, NEW c \in Channel
  PROVE  LET di == DelFromChannel(ic, u, c)
             du == DelFromUser(iu, u, c)
         IN  /\ Agree(di, du)
             /\ \A d \in Channel : Len(di[d]) <= Len(ic[d])
             /\ \A v \in User : Len(du[v]) <= Len(iu[v])
             /\ \A v \in User, d \in Channel :
                  d \in Elements(du[v]) <=> d \in Elements(iu[v]) /\ <<v, d>> # <<u, c>>
             /\ u \in Elements(ic[c]) => /\ Len(di[c]) = Len(ic[c]) - 1
                                         /\ Len(du[u]) = Len(iu[u]) - 1
<1> DEFINE di == DelFromChannel(ic, u, c)
           du == DelFromUser(iu, u, c)
<1>1. /\ ic[c] \in Seq(User) /\ NoRepeats(ic[c])
      /\ iu[u] \in Seq(Channel) /\ NoRepeats(iu[u])
  BY DEF Agree
<1>2. /\ Without(ic[c], u) \in Seq(User) /\ NoRepeats(Without(ic[c], u))
      /\ Elements(Without(ic[c], u)) = Elements(ic[c]) \ {u}
      /\ Len(Without(ic[c], u)) = IF u \in Elements(ic[c]) THEN Len(ic[c]) - 1 ELSE Len(ic[c])
  BY ONLY <1>1, WithoutFacts
<1>3. /\ Without(iu[u], c) \in Seq(Channel) /\ NoRepeats(Without(iu[u], c))
      /\ Elements(Without(iu[u], c)) = Elements(iu[u]) \ {c}
      /\ Len(Without(iu[u], c)) = IF c \in Elements(iu[u]) THEN Len(iu[u]) - 1 ELSE Len(iu[u])
  BY ONLY <1>1, WithoutFacts
<1>4. /\ di \in [Channel -> Seq(User)] /\ du \in [User -> Seq(Channel)]
      /\ \A d \in Channel : di[d] = IF d = c THEN Without(ic[c], u) ELSE ic[d]
      /\ \A v \in User : du[v] = IF v = u THEN Without(iu[u], c) ELSE iu[v]
  BY <1>2, <1>3 DEF Agree, DelFromChannel, DelFromUser
<1>5. \A d \in Channel : Len(ic[d]) \in Nat
  BY LenProperties DEF Agree
<1>6. \A v \in User : Len(iu[v]) \in Nat
  BY LenProperties DEF Agree
<1> HIDE DEF di, du
<1>7. \A v \in User, d \in Channel :
         /\ d \in Elements(du[v]) <=> d \in Elements(iu[v]) /\ <<v, d>> # <<u, c>>
         /\ v \in Elements(di[d]) <=> v \in Elements(ic[d]) /\ <<v, d>> # <<u, c>>
  BY <1>2, <1>3, <1>4
<1>8. Agree(di, du)
  BY <1>2, <1>3, <1>4, <1>7 DEF Agree
<1>9. /\ \A d \in Channel : Len(di[d]) <= Len(ic[d])
      /\ \A v \in User : Len(du[v]) <= Len(iu[v])
  <2>1. /\ Len(Without(ic[c], u)) <= Len(ic[c])
        /\ Len(Without(iu[u], c)) <= Len(iu[u])
    BY <1>2, <1>3, <1>5, <1>6
  <2>2. ASSUME NEW d \in Channel PROVE Len(di[d]) <= Len(ic[d])
    <3>1. CASE d = c
      BY <3>1, <2>1, <1>4
    <3>2. CASE d # c
      <4>1. di[d] = ic[d] /\ Len(ic[d]) \in Nat
        BY <3>2, <1>4, <1>5
      <4> QED
        BY <4>1
    <3> QED
      BY <3>1, <3>2
  <2>3. ASSUME NEW v \in User PROVE Len(du[v]) <= Len(iu[v])
    <3>1. CASE v = u
      BY <3>1, <2>1, <1>4
    <3>2. CASE v # u
      <4>1. du[v] = iu[v] /\ Len(iu[v]) \in Nat
        BY <3>2, <1>4, <1>6
      <4> QED
        BY <4>1
    <3> QED
      BY <3>1, <3>2
  <2> QED
    BY <2>2, <2>3
<1>10. u \in Elements(ic[c]) => /\ Len(di[c]) = Len(ic[c]) - 1
                                /\ Len(du[u]) = Len(iu[u]) - 1
  BY <1>2, <1>3, <1>4 DEF Agree
<1> QED
  BY <1>7, <1>8, <1>9, <1>10 DEF di, du

(* An invitation that neither list has is put on both.                     *)
Prepended(pi, pu, ic, iu, u, c) ==
  /\ pi = [ic EXCEPT ![c] = <<u>> \o @]
  /\ pu = [iu EXCEPT ![u] = <<c>> \o @]

LEMMA PrependBoth ==
  ASSUME NEW ic, NEW iu, Agree(ic, iu), NEW u \in User, NEW c \in Channel,
         c \notin Elements(iu[u]),
         NEW pi, NEW pu, Prepended(pi, pu, ic, iu, u, c)
  PROVE  /\ Agree(pi, pu)
         /\ \A d \in Channel : Len(pi[d]) = IF d = c THEN Len(ic[c]) + 1 ELSE Len(ic[d])
         /\ \A v \in User : Len(pu[v]) = IF v = u THEN Len(iu[u]) + 1 ELSE Len(iu[v])
         /\ \A v \in User, d \in Channel :
              d \in Elements(pu[v]) <=> d \in Elements(iu[v]) \/ <<v, d>> = <<u, c>>
<1>0. /\ pi = [ic EXCEPT ![c] = <<u>> \o @]
      /\ pu = [iu EXCEPT ![u] = <<c>> \o @]
  BY DEF Prepended
<1>1. /\ ic[c] \in Seq(User) /\ NoRepeats(ic[c]) /\ u \notin Elements(ic[c])
      /\ iu[u] \in Seq(Channel) /\ NoRepeats(iu[u])
  BY DEF Agree
<1>2. /\ <<u>> \o ic[c] \in Seq(User) /\ NoRepeats(<<u>> \o ic[c])
      /\ Elements(<<u>> \o ic[c]) = Elements(ic[c]) \cup {u}
      /\ Len(<<u>> \o ic[c]) = Len(ic[c]) + 1
  BY <1>1, PrependFacts
<1>3. /\ <<c>> \o iu[u] \in Seq(Channel) /\ NoRepeats(<<c>> \o iu[u])
      /\ Elements(<<c>> \o iu[u]) = Elements(iu[u]) \cup {c}
      /\ Len(<<c>> \o iu[u]) = Len(iu[u]) + 1
  BY <1>1, PrependFacts
<1>4. /\ pi \in [Channel -> Seq(User)] /\ pu \in [User -> Seq(Channel)]
      /\ \A d \in Channel : pi[d] = IF d = c THEN <<u>> \o ic[c] ELSE ic[d]
      /\ \A v \in User : pu[v] = IF v = u THEN <<c>> \o iu[u] ELSE iu[v]
  BY <1>0, <1>2, <1>3 DEF Agree
<1>5. \A v \in User, d \in Channel :
         /\ d \in Elements(pu[v]) <=> d \in Elements(iu[v]) \/ <<v, d>> = <<u, c>>
         /\ v \in Elements(pi[d]) <=> v \in Elements(ic[d]) \/ <<v, d>> = <<u, c>>
  BY <1>2, <1>3, <1>4
<1>6. Agree(pi, pu)
  BY <1>2, <1>3, <1>4, <1>5 DEF Agree
<1>7. /\ \A d \in Channel : Len(pi[d]) = IF d = c THEN Len(ic[c]) + 1 ELSE Len(ic[d])
      /\ \A v \in User : Len(pu[v]) = IF v = u THEN Len(iu[u]) + 1 ELSE Len(iu[v])
  BY <1>2, <1>3, <1>4
<1> QED
  BY <1>5, <1>6, <1>7

(* del_invite keeps the two sides in agreement and takes one link.         *)
LEMMA DelInviteFacts ==
  ASSUME Agree(invites, invited), Limit(invites, invited),
         NEW u \in User, NEW c \in Channel, DelInvite(u, c)
  PROVE  /\ Agree(invites', invited') /\ Limit(invites', invited')
         /\ \A v \in User, d \in Channel :
              d \in Elements(invited'[v]) <=> d \in Elements(invited[v]) /\ <<v, d>> # <<u, c>>
<1>1. /\ Agree(invites', invited')
      /\ \A d \in Channel : Len(invites'[d]) <= Len(invites[d])
      /\ \A v \in User : Len(invited'[v]) <= Len(invited[v])
      /\ \A v \in User, d \in Channel :
           d \in Elements(invited'[v]) <=> d \in Elements(invited[v]) /\ <<v, d>> # <<u, c>>
  BY DelBoth DEF DelInvite
<1>2. /\ \A d \in Channel : Len(invites[d]) \in Nat /\ Len(invites'[d]) \in Nat
      /\ \A v \in User : Len(invited[v]) \in Nat /\ Len(invited'[v]) \in Nat
  BY <1>1, LenProperties DEF Agree
<1>3. MaxChannels \in Nat
  BY ChannelMembersAssumption
<1> QED
  BY <1>1, <1>2, <1>3 DEF Limit

(* add_invite keeps them in agreement, and to the limit: a full list of    *)
(* the user and a full list of the channel lose an entry before the new    *)
(* one is put in front.                                                    *)
LEMMA AddInviteFacts ==
  ASSUME Agree(invites, invited), Limit(invites, invited),
         NEW u \in User, NEW c \in Channel, AddInvite(u, c)
  PROVE  /\ Agree(invites', invited') /\ Limit(invites', invited')
         /\ \A v \in User, d \in Channel :
              d \in Elements(invited'[v]) => d \in Elements(invited[v]) \/ <<v, d>> = <<u, c>>
<1> DEFINE c1 == DelFromChannel(invites, u, c)
           u1 == DelFromUser(invited, u, c)
           many == Len(u1[u]) >= MaxChannels
           oldest == u1[u][Len(u1[u])]
           c2 == IF many THEN DelFromChannel(c1, u, oldest) ELSE c1
           u2 == IF many THEN DelFromUser(u1, u, oldest) ELSE u1
           full == Len(c2[c]) >= MaxChannels
           last == c2[c][Len(c2[c])]
           c3 == IF full THEN DelFromChannel(c2, last, c) ELSE c2
           u3 == IF full THEN DelFromUser(u2, last, c) ELSE u2
<1>0. MaxChannels \in Nat \ {0}
  BY ChannelMembersAssumption
<1>1. /\ invites' = [c3 EXCEPT ![c] = <<u>> \o @]
      /\ invited' = [u3 EXCEPT ![u] = <<c>> \o @]
  BY DEF AddInvite
<1> DEFINE Less(xc, xu, yc, yu) ==
             /\ \A d \in Channel : Len(xc[d]) \in Nat /\ Len(xc[d]) <= Len(yc[d])
             /\ \A v \in User : Len(xu[v]) \in Nat /\ Len(xu[v]) <= Len(yu[v])
             /\ \A v \in User, d \in Channel :
                  d \in Elements(xu[v]) => d \in Elements(yu[v])
<1>2. /\ Agree(c1, u1) /\ Less(c1, u1, invites, invited)
      /\ c \notin Elements(u1[u])
  <2>1. /\ Agree(c1, u1)
        /\ \A d \in Channel : Len(c1[d]) <= Len(invites[d])
        /\ \A v \in User : Len(u1[v]) <= Len(invited[v])
        /\ \A v \in User, d \in Channel :
             d \in Elements(u1[v]) <=> d \in Elements(invited[v]) /\ <<v, d>> # <<u, c>>
    BY DelBoth
  <2> HIDE DEF c1, u1
  <2>2. /\ \A d \in Channel : Len(c1[d]) \in Nat
        /\ \A v \in User : Len(u1[v]) \in Nat
    BY <2>1, LenProperties DEF Agree
  <2> QED
    BY <2>1, <2>2
<1> HIDE DEF c1, u1
<1>3. /\ Agree(c2, u2) /\ Less(c2, u2, c1, u1) /\ Len(u2[u]) < MaxChannels
  <2>1. CASE many
    <3>1. /\ u1[u] \in Seq(Channel) /\ Len(u1[u]) > 0 /\ Len(u1[u]) \in Nat
      BY <2>1, <1>0, <1>2 DEF Agree
    <3>2. oldest \in Elements(u1[u]) /\ oldest \in Channel
      BY <3>1, ElementsFacts
    <3> HIDE DEF oldest
    <3>3. u \in Elements(c1[oldest])
      BY <3>2, <1>2 DEF Agree
    <3>4. /\ Agree(c2, u2)
          /\ \A d \in Channel : Len(c2[d]) <= Len(c1[d])
          /\ \A v \in User : Len(u2[v]) <= Len(u1[v])
          /\ \A v \in User, d \in Channel :
               d \in Elements(u2[v]) => d \in Elements(u1[v])
          /\ Len(u2[u]) = Len(u1[u]) - 1
      BY <2>1, <3>2, <3>3, <1>2, DelBoth
    <3> HIDE DEF c2, u2
    <3>5. /\ \A d \in Channel : Len(c2[d]) \in Nat
          /\ \A v \in User : Len(u2[v]) \in Nat
      BY <3>4, LenProperties DEF Agree
    <3>6. Len(u1[u]) <= MaxChannels /\ Len(u1[u]) \in Nat
      <4>1. Len(invited[u]) <= MaxChannels /\ Len(invited[u]) \in Nat
        BY LenProperties DEF Limit, Agree
      <4> QED
        BY <4>1, <1>0, <1>2
    <3> QED
      BY <3>4, <3>5, <3>6, <1>0
  <2>2. CASE ~many
    BY <2>2, <1>0, <1>2
  <2> QED
    BY <2>1, <2>2
<1> HIDE DEF c2, u2, many, oldest
<1>4. /\ Agree(c3, u3) /\ Less(c3, u3, c2, u2) /\ Len(c3[c]) < MaxChannels
  <2>1. CASE full
    <3>1. /\ c2[c] \in Seq(User) /\ Len(c2[c]) > 0 /\ Len(c2[c]) \in Nat
      BY <2>1, <1>0, <1>3 DEF Agree
    <3>2. last \in Elements(c2[c]) /\ last \in User
      BY <3>1, ElementsFacts
    <3> HIDE DEF last
    <3>4. /\ Agree(c3, u3)
          /\ \A d \in Channel : Len(c3[d]) <= Len(c2[d])
          /\ \A v \in User : Len(u3[v]) <= Len(u2[v])
          /\ \A v \in User, d \in Channel :
               d \in Elements(u3[v]) => d \in Elements(u2[v])
          /\ Len(c3[c]) = Len(c2[c]) - 1
      BY <2>1, <3>2, <1>3, DelBoth
    <3> HIDE DEF c3, u3
    <3>5. /\ \A d \in Channel : Len(c3[d]) \in Nat
          /\ \A v \in User : Len(u3[v]) \in Nat
      BY <3>4, LenProperties DEF Agree
    <3>6. Len(c2[c]) <= MaxChannels /\ Len(c2[c]) \in Nat
      <4>1. Len(invites[c]) <= MaxChannels /\ Len(invites[c]) \in Nat
        BY LenProperties DEF Limit, Agree
      <4>2. Len(c1[c]) \in Nat /\ Len(c1[c]) <= Len(invites[c])
        BY <1>2
      <4>3. Len(c2[c]) \in Nat /\ Len(c2[c]) <= Len(c1[c])
        BY <1>3
      <4> QED
        BY <4>1, <4>2, <4>3, <1>0
    <3> QED
      BY <3>4, <3>5, <3>6, <1>0
  <2>2. CASE ~full
    BY <2>2, <1>0, <1>3
  <2> QED
    BY <2>1, <2>2
<1> HIDE DEF c3, u3, full, last
<1>5. /\ c \notin Elements(u3[u]) /\ Len(u3[u]) < MaxChannels
      /\ \A v \in User, d \in Channel :
           d \in Elements(u3[v]) => d \in Elements(invited[v])
  <2>1. Len(u3[u]) \in Nat /\ Len(u3[u]) <= Len(u2[u]) /\ Len(u2[u]) \in Nat
    BY <1>3, <1>4
  <2> QED
    BY <2>1, <1>0, <1>2, <1>3, <1>4
<1>6. /\ \A d \in Channel : Len(c3[d]) \in Nat /\ Len(c3[d]) <= MaxChannels
      /\ \A v \in User : Len(u3[v]) \in Nat /\ Len(u3[v]) <= MaxChannels
  <2>1. /\ \A d \in Channel : Len(invites[d]) \in Nat /\ Len(invites[d]) <= MaxChannels
        /\ \A v \in User : Len(invited[v]) \in Nat /\ Len(invited[v]) <= MaxChannels
    BY LenProperties DEF Agree, Limit
  <2>2. ASSUME NEW d \in Channel
        PROVE  Len(c3[d]) \in Nat /\ Len(c3[d]) <= MaxChannels
    <3>1. Len(c1[d]) \in Nat /\ Len(c1[d]) <= Len(invites[d])
      BY <1>2
    <3>2. Len(c2[d]) \in Nat /\ Len(c2[d]) <= Len(c1[d])
      BY <1>3
    <3>3. Len(c3[d]) \in Nat /\ Len(c3[d]) <= Len(c2[d])
      BY <1>4
    <3>4. Len(invites[d]) \in Nat /\ Len(invites[d]) <= MaxChannels
      BY <2>1
    <3> QED
      BY <3>1, <3>2, <3>3, <3>4, <1>0
  <2>3. ASSUME NEW v \in User
        PROVE  Len(u3[v]) \in Nat /\ Len(u3[v]) <= MaxChannels
    <3>1. Len(u1[v]) \in Nat /\ Len(u1[v]) <= Len(invited[v])
      BY <1>2
    <3>2. Len(u2[v]) \in Nat /\ Len(u2[v]) <= Len(u1[v])
      BY <1>3
    <3>3. Len(u3[v]) \in Nat /\ Len(u3[v]) <= Len(u2[v])
      BY <1>4
    <3>4. Len(invited[v]) \in Nat /\ Len(invited[v]) <= MaxChannels
      BY <2>1
    <3> QED
      BY <3>1, <3>2, <3>3, <3>4, <1>0
  <2> QED
    BY <2>2, <2>3
<1>7. /\ Agree(invites', invited')
      /\ \A d \in Channel : Len(invites'[d]) = IF d = c THEN Len(c3[c]) + 1 ELSE Len(c3[d])
      /\ \A v \in User : Len(invited'[v]) = IF v = u THEN Len(u3[u]) + 1 ELSE Len(u3[v])
      /\ \A v \in User, d \in Channel :
           d \in Elements(invited'[v]) <=> d \in Elements(u3[v]) \/ <<v, d>> = <<u, c>>
  <2>1. Agree(c3, u3) /\ c \notin Elements(u3[u])
    BY <1>4, <1>5
  <2>2. Prepended(invites', invited', c3, u3, u, c)
    BY ONLY <1>1 DEF Prepended
  <2> QED
    BY ONLY <2>1, <2>2, u \in User, c \in Channel, PrependBoth
<1>8. Limit(invites', invited')
  <2>1. Len(c3[c]) + 1 <= MaxChannels /\ Len(u3[u]) + 1 <= MaxChannels
    BY <1>0, <1>4, <1>5, <1>6
  <2>2. \A d \in Channel : Len(invites'[d]) <= MaxChannels
    BY ONLY <1>6, <1>7, <2>1
  <2>3. \A v \in User : Len(invited'[v]) <= MaxChannels
    BY ONLY <1>6, <1>7, <2>1
  <2> QED
    BY <2>2, <2>3 DEF Limit
<1> QED
  BY <1>5, <1>7, <1>8

(***************************************************************************)
(* Members.                                                                *)
(***************************************************************************)
(* The part of the invariant that is about the two lists of a membership.  *)
MemberType ==
  /\ members \in [Channel -> SUBSET User]
  /\ users \in [Channel -> Nat]
  /\ membership \in [User -> SUBSET Channel]
  /\ joined \in [User -> Nat]
  /\ mflags \in [Channel -> [User -> SUBSET Flag]]
  /\ sflags \in [User -> [Channel -> SUBSET Flag]]

MemberCount ==
  /\ \A c \in Channel : users[c] = Cardinality(members[c])
  /\ \A u \in User : joined[u] = Cardinality(membership[u])

MembersInv == MemberType /\ FlagsOfMembers /\ MembersAgree /\ MemberCount

LEMMA MembersFinite ==
  ASSUME MemberType
  PROVE  /\ \A c \in Channel : IsFiniteSet(members[c])
         /\ \A u \in User : IsFiniteSet(membership[u])
  BY ChannelMembersAssumption, FS_Subset DEF MemberType

LEMMA AddMember ==
  ASSUME MembersInv, NEW c \in Channel, NEW u \in User, NEW fl \in SUBSET Flag,
         u \notin members[c], AddUserToChannel(c, u, fl)
  PROVE  /\ MembersInv'
         /\ \A v \in User, d \in Channel :
              d \in membership'[v] <=> d \in membership[v] \/ <<v, d>> = <<u, c>>
<1>1. MemberType'
  BY DEF MembersInv, MemberType, AddUserToChannel
<1>2. /\ \A d \in Channel : members'[d] = IF d = c THEN members[c] \cup {u} ELSE members[d]
      /\ \A v \in User : membership'[v] = IF v = u THEN membership[u] \cup {c} ELSE membership[v]
      /\ \A d \in Channel : users'[d] = IF d = c THEN users[c] + 1 ELSE users[d]
      /\ \A v \in User : joined'[v] = IF v = u THEN joined[u] + 1 ELSE joined[v]
      /\ \A v \in User, d \in Channel :
           /\ mflags'[d][v] = IF <<v, d>> = <<u, c>> THEN fl ELSE mflags[d][v]
           /\ sflags'[v][d] = IF <<v, d>> = <<u, c>> THEN fl ELSE sflags[v][d]
  BY DEF MembersInv, MemberType, AddUserToChannel
<1>3. c \notin membership[u]
  BY DEF MembersInv, MembersAgree
<1>4. FlagsOfMembers' /\ MembersAgree'
  BY <1>2 DEF MembersInv, FlagsOfMembers, MembersAgree
<1>5. /\ Cardinality(members[c] \cup {u}) = Cardinality(members[c]) + 1
      /\ Cardinality(membership[u] \cup {c}) = Cardinality(membership[u]) + 1
  BY <1>3, MembersFinite, FS_AddElement DEF MembersInv
<1>6. MemberCount'
  BY <1>2, <1>5 DEF MembersInv, MemberCount
<1> QED
  BY <1>1, <1>2, <1>4, <1>6 DEF MembersInv

LEMMA RemoveMembers ==
  ASSUME MembersInv, NEW c \in Channel, NEW U \in SUBSET members[c],
         RemoveFromChannel(U, c)
  PROVE  /\ MembersInv'
         /\ \A d \in Channel : members'[d] = IF d = c THEN members[c] \ U ELSE members[d]
         /\ \A v \in User : membership'[v] = IF v \in U THEN membership[v] \ {c}
                                             ELSE membership[v]
         /\ users[c] <= Cardinality(U) <=> members'[c] = {}
<1>0. U \subseteq User
  BY DEF MembersInv, MemberType
<1>1. /\ IsFiniteSet(members[c]) /\ IsFiniteSet(U) /\ IsFiniteSet(members[c] \ U)
      /\ Cardinality(U) \in Nat /\ users[c] \in Nat
      /\ Cardinality(members[c] \ U) = users[c] - Cardinality(U)
      /\ Cardinality(members[c] \ U) \in Nat
  <2>1. IsFiniteSet(members[c]) /\ users[c] = Cardinality(members[c])
    BY MembersFinite DEF MembersInv, MemberCount
  <2>2. IsFiniteSet(U) /\ members[c] \cap U = U
    BY <2>1, FS_Subset
  <2>3. /\ IsFiniteSet(members[c] \ U)
        /\ Cardinality(members[c] \ U) = Cardinality(members[c]) - Cardinality(members[c] \cap U)
    BY <2>1, <2>2, FS_Difference
  <2> QED
    BY <2>1, <2>2, <2>3, FS_CardinalityType
<1>2. /\ \A d \in Channel : members'[d] = IF d = c THEN members[c] \ U ELSE members[d]
      /\ \A v \in User : membership'[v] = IF v \in U THEN membership[v] \ {c}
                                          ELSE membership[v]
      /\ \A v \in User : joined'[v] = IF v \in U THEN joined[v] - 1 ELSE joined[v]
      /\ \A d \in Channel : users'[d] = IF d = c THEN users[c] - Cardinality(U) ELSE users[d]
  BY <1>1 DEF MembersInv, MemberType, RemoveFromChannel, Sub1FromChannel
<1>3. \A v \in User, d \in Channel :
         /\ mflags'[d][v] = IF v \in U /\ d = c THEN {} ELSE mflags[d][v]
         /\ sflags'[v][d] = IF v \in U /\ d = c THEN {} ELSE sflags[v][d]
  BY DEF MembersInv, MemberType, RemoveFromChannel
<1>4. \A v \in U : /\ c \in membership[v] /\ IsFiniteSet(membership[v])
                   /\ Cardinality(membership[v] \ {c}) = Cardinality(membership[v]) - 1
                   /\ Cardinality(membership[v] \ {c}) \in Nat
  <2> TAKE v \in U
  <2>1. c \in membership[v] /\ IsFiniteSet(membership[v])
    BY <1>0, MembersFinite DEF MembersInv, MembersAgree
  <2> QED
    BY <2>1, FS_RemoveElement, FS_CardinalityType
<1>5. MemberCount'
  <2>1. \A v \in User : joined'[v] = Cardinality(membership'[v])
    BY <1>2, <1>4 DEF MembersInv, MemberCount
  <2>2. \A d \in Channel : users'[d] = Cardinality(members'[d])
    BY <1>1, <1>2 DEF MembersInv, MemberCount
  <2> QED
    BY <2>1, <2>2 DEF MemberCount
<1>6. MemberType'
  <2>1. /\ members' \in [Channel -> SUBSET User]
        /\ membership' \in [User -> SUBSET Channel]
        /\ mflags' \in [Channel -> [User -> SUBSET Flag]]
        /\ sflags' \in [User -> [Channel -> SUBSET Flag]]
    BY DEF MembersInv, MemberType, RemoveFromChannel
  <2>2. users' \in [Channel -> Nat]
    BY <1>1 DEF MembersInv, MemberType, RemoveFromChannel, Sub1FromChannel
  <2>3. joined' = [v \in User |-> IF v \in U THEN joined[v] - 1 ELSE joined[v]]
    BY DEF RemoveFromChannel
  <2>4. \A v \in User : (IF v \in U THEN joined[v] - 1 ELSE joined[v]) \in Nat
    BY <1>4 DEF MembersInv, MemberType, MemberCount
  <2>5. joined' \in [User -> Nat]
    BY <2>3, <2>4
  <2> QED
    BY <2>1, <2>2, <2>5 DEF MemberType
<1>7. FlagsOfMembers' /\ MembersAgree'
  <2>1. FlagsOfMembers'
    BY <1>2, <1>3 DEF MembersInv, FlagsOfMembers
  <2>2. \A v \in User, d \in Channel : v \in members'[d] <=> d \in membership'[v]
    <3> TAKE v \in User, d \in Channel
    <3>1. v \in members[d] <=> d \in membership[v]
      BY DEF MembersInv, MembersAgree
    <3>2. members'[d] = (IF d = c THEN members[c] \ U ELSE members[d])
      BY <1>2
    <3>3. membership'[v] = (IF v \in U THEN membership[v] \ {c} ELSE membership[v])
      BY <1>2
    <3> QED
      BY <3>1, <3>2, <3>3
  <2>3. \A v \in User, d \in Channel : mflags'[d][v] = sflags'[v][d]
    BY <1>3 DEF MembersInv, MembersAgree
  <2> QED
    BY <2>1, <2>2, <2>3 DEF MembersAgree
<1>8. users[c] <= Cardinality(U) <=> members'[c] = {}
  <2>1. members'[c] = {} <=> Cardinality(members[c] \ U) = 0
    BY <1>1, <1>2, FS_EmptySet
  <2> QED
    BY <2>1, <1>1
<1> QED
  BY <1>2, <1>5, <1>6, <1>7, <1>8 DEF MembersInv

(***************************************************************************)
(* A channel that goes.                                                    *)
(***************************************************************************)
JType ==
  /\ channel \subseteq Channel /\ count \in Nat
  /\ cjflood \in [Channel -> SUBSET User]
  /\ ujflood \in [User -> SUBSET Channel]

JAgree == \A u \in User, c \in Channel : u \in cjflood[c] <=> c \in ujflood[u]

LinkInv == /\ JType /\ JAgree /\ count = Cardinality(channel)
           /\ Agree(invites, invited) /\ Limit(invites, invited)

LEMMA FreeFacts ==
  ASSUME LinkInv, NEW c \in channel, FreeChannel(c)
  PROVE  /\ LinkInv'
         /\ channel' = channel \ {c}
         /\ \A v \in User, d \in Channel :
              /\ d \in Elements(invited'[v]) <=> d \in Elements(invited[v]) /\ d # c
              /\ d \in ujflood'[v] <=> d \in ujflood[v] /\ d # c
<1>0. c \in Channel
  BY DEF LinkInv, JType
<1>1. \A v \in User :
         /\ invited[v] \in Seq(Channel) /\ NoRepeats(invited[v])
         /\ Without(invited[v], c) \in Seq(Channel) /\ NoRepeats(Without(invited[v], c))
         /\ Elements(Without(invited[v], c)) = Elements(invited[v]) \ {c}
         /\ Len(Without(invited[v], c)) = IF c \in Elements(invited[v])
                                          THEN Len(invited[v]) - 1 ELSE Len(invited[v])
         /\ Len(invited[v]) \in Nat
  <2> TAKE v \in User
  <2>1. invited[v] \in Seq(Channel) /\ NoRepeats(invited[v])
    BY DEF LinkInv, Agree
  <2>2. Len(invited[v]) \in Nat
    BY <2>1, LenProperties
  <2> QED
    BY <2>1, <2>2, WithoutFacts
<1>2. \A v \in User : invited'[v] = IF c \in Elements(invited[v])
                                    THEN Without(invited[v], c) ELSE invited[v]
  BY <1>0 DEF FreeChannel, LinkInv, Agree
<1>3. \A v \in User, d \in Channel :
         d \in Elements(invited'[v]) <=> d \in Elements(invited[v]) /\ d # c
  BY <1>1, <1>2
<1>4. /\ << >> \in Seq(User) /\ Len(<< >>) = 0 /\ Elements(<< >>) = {} /\ NoRepeats(<< >>)
  BY EmptySeq DEF Elements, NoRepeats
<1>5. \A d \in Channel : invites'[d] = IF d = c THEN << >> ELSE invites[d]
  BY DEF FreeChannel, LinkInv, Agree
<1>6. Agree(invites', invited')
  <2>1. invites' \in [Channel -> Seq(User)]
    BY <1>4 DEF FreeChannel, LinkInv, Agree
  <2>2. invited' \in [User -> Seq(Channel)]
    BY <1>1 DEF FreeChannel
  <2>3. \A v \in User, d \in Channel : v \in Elements(invites'[d])
                                       <=> d \in Elements(invited'[v])
    BY <1>3, <1>4, <1>5 DEF LinkInv, Agree
  <2>4. \A d \in Channel : NoRepeats(invites'[d])
    BY <1>4, <1>5 DEF LinkInv, Agree
  <2>5. \A v \in User : NoRepeats(invited'[v])
    BY <1>1, <1>2
  <2> QED
    BY <2>1, <2>2, <2>3, <2>4, <2>5 DEF Agree
<1>7. Limit(invites', invited')
  <2>1. MaxChannels \in Nat
    BY ChannelMembersAssumption
  <2>2. \A d \in Channel : Len(invites'[d]) <= MaxChannels
    BY <1>4, <1>5, <2>1 DEF LinkInv, Limit
  <2>3. ASSUME NEW v \in User PROVE Len(invited'[v]) <= MaxChannels
    <3>1. Len(invited[v]) <= MaxChannels /\ Len(invited[v]) \in Nat
      BY <1>1 DEF LinkInv, Limit
    <3>2. Len(Without(invited[v], c)) <= MaxChannels
      BY <3>1, <1>1, <2>1
    <3> QED
      BY <3>1, <3>2, <1>2
  <2> QED
    BY <2>2, <2>3 DEF Limit
<1>8. JType' /\ count' = Cardinality(channel')
  <2>1. IsFiniteSet(channel)
    BY ChannelMembersAssumption, FS_Subset DEF LinkInv, JType
  <2>2. Cardinality(channel \ {c}) = Cardinality(channel) - 1
        /\ Cardinality(channel \ {c}) \in Nat
    BY <2>1, FS_RemoveElement, FS_CardinalityType
  <2> QED
    BY <2>2 DEF LinkInv, JType, FreeChannel
<1>9. /\ \A d \in Channel : cjflood'[d] = IF d = c THEN {} ELSE cjflood[d]
      /\ \A v \in User : ujflood'[v] = IF v \in cjflood[c] THEN ujflood[v] \ {c}
                                       ELSE ujflood[v]
  BY <1>0 DEF FreeChannel, LinkInv, JType
<1>10. \A v \in User, d \in Channel : d \in ujflood'[v] <=> d \in ujflood[v] /\ d # c
  <2> TAKE v \in User, d \in Channel
  <2>1. v \in cjflood[c] <=> c \in ujflood[v]
    BY <1>0 DEF LinkInv, JAgree
  <2>2. ujflood'[v] = IF v \in cjflood[c] THEN ujflood[v] \ {c} ELSE ujflood[v]
    BY <1>9
  <2> QED
    BY ONLY <2>1, <2>2
<1>11. JAgree'
  <2>1. \A v \in User, d \in Channel : v \in cjflood[d] <=> d \in ujflood[v]
    BY DEF LinkInv, JAgree
  <2>2. \A v \in User, d \in Channel : v \in cjflood'[d] <=> v \in cjflood[d] /\ d # c
    BY ONLY <1>9
  <2> QED
    BY ONLY <2>1, <2>2, <1>10 DEF JAgree
<1>12. channel' = channel \ {c}
  BY DEF FreeChannel
<1>13. LinkInv'
  BY <1>6, <1>7, <1>8, <1>11 DEF LinkInv
<1> QED
  BY ONLY <1>3, <1>10, <1>12, <1>13

(***************************************************************************)
(* The inductive invariant.                                                *)
(***************************************************************************)
RestType ==
  /\ online \subseteq User
  /\ sjoin \in Channel \cup {Nil} /\ nicks \in BOOLEAN
  /\ quit \in User \cup {Nil}

(* NoDangling, from the users' side.                                       *)
Points ==
  \A u \in User, c \in Channel :
    (c \in Elements(invited[u]) \/ c \in ujflood[u] \/ c \in membership[u])
       => (c \in channel /\ u \in online)

(* InviteUsedUp, pair by pair.                                             *)
UsedUp ==
  \A u \in User, c \in Channel :
    c \in Elements(invited[u]) => u \in Local /\ c \notin membership[u]

Inv == /\ RestType /\ MembersInv /\ LinkInv /\ PhaseOK
       /\ ChannelLives /\ UsedUp /\ Points

LEMMA InvImplies ==
  ASSUME Inv
  PROVE  /\ TypeOK /\ MembersAgree /\ CountersExact /\ InvitesAgree
         /\ ChannelLives /\ InviteUsedUp /\ NoDangling
<1>1. /\ \A u \in User : Elements(invited[u]) \subseteq Channel
      /\ \A c \in Channel : Elements(invites[c]) \subseteq User
  BY ElementsFacts DEF Inv, LinkInv, Agree
<1>2. TypeOK
  BY DEF Inv, TypeOK, RestType, MembersInv, MemberType, LinkInv, JType, Agree
<1>3. /\ MembersAgree /\ CountersExact /\ ChannelLives
  BY DEF Inv, MembersInv, MemberCount, LinkInv, CountersExact
<1>4. InvitesAgree
  BY DEF Inv, LinkInv, Agree, Limit, InvitesAgree
<1>5. InviteUsedUp
  BY <1>1 DEF Inv, UsedUp, InviteUsedUp
<1>6. \A u \in User, c \in Channel :
         /\ u \in Elements(invites[c]) <=> c \in Elements(invited[u])
         /\ u \in cjflood[c] <=> c \in ujflood[u]
         /\ u \in members[c] <=> c \in membership[u]
  BY <1>3, <1>4 DEF InvitesAgree, Inv, LinkInv, JAgree, MembersAgree
<1>7. NoDangling
  <2>1. \A u \in User : Elements(invited[u]) \cup ujflood[u] \cup membership[u]
                          \subseteq channel
    BY <1>1, <1>2 DEF TypeOK, Inv, Points
  <2>2. \A c \in Channel : Elements(invites[c]) \cup cjflood[c] \cup members[c]
                             \subseteq online
    BY <1>1, <1>2, <1>6 DEF TypeOK, Inv, Points
  <2> QED
    BY <1>6, <2>1, <2>2 DEF NoDangling
<1> QED
  BY <1>2, <1>3, <1>4, <1>5, <1>7

LEMMA InitInv == ASSUME Init PROVE Inv
<1>1. /\ << >> \in Seq(User) /\ << >> \in Seq(Channel) /\ Len(<< >>) = 0
      /\ Elements(<< >>) = {} /\ NoRepeats(<< >>)
      /\ Cardinality({}) = 0
  BY EmptySeq, FS_EmptySet DEF Elements, NoRepeats
<1>2. MaxChannels \in Nat /\ Nil \notin Channel /\ Nil \notin User
  BY ChannelMembersAssumption
<1>3. RestType
  BY DEF Init, RestType
<1>4. MembersInv
  BY <1>1 DEF Init, MembersInv, MemberType, FlagsOfMembers, MembersAgree, MemberCount
<1>5. Agree(invites, invited)
  BY <1>1 DEF Init, Agree
<1>6. LinkInv
  BY <1>1, <1>2, <1>5 DEF Init, LinkInv, JType, JAgree, Limit
<1>7. PhaseOK /\ ChannelLives /\ UsedUp /\ Points
  BY <1>1 DEF Init, PhaseOK, ChannelLives, UsedUp, Points
<1> QED
  BY <1>3, <1>4, <1>6, <1>7 DEF Inv

(***************************************************************************)
(* The steps.                                                              *)
(***************************************************************************)
LEMMA MembersUnchanged ==
  ASSUME MembersInv, UNCHANGED memberVars PROVE MembersInv'
  BY DEF memberVars, MembersInv, MemberType, FlagsOfMembers, MembersAgree, MemberCount

LEMMA LinkUnchanged ==
  ASSUME LinkInv, UNCHANGED <<channel, count, inviteVars, jfloodVars>> PROVE LinkInv'
  BY DEF inviteVars, jfloodVars, LinkInv, JType, JAgree, Agree, Limit

(* Some members leave a channel; it is freed when they were the last.      *)
LEMMA RemoveStep ==
  ASSUME Inv, NEW c \in channel, NEW U \in SUBSET members[c],
         RemoveFromChannel(U, c), UNCHANGED <<online, quit, sjoin>>, nicks' = FALSE
  PROVE  Inv'
<1>0. c \in Channel
  BY DEF Inv, LinkInv, JType
<1>1. /\ MembersInv'
      /\ \A d \in Channel : members'[d] = IF d = c THEN members[c] \ U ELSE members[d]
      /\ \A v \in User : membership'[v] = IF v \in U THEN membership[v] \ {c}
                                          ELSE membership[v]
      /\ users[c] <= Cardinality(U) <=> members'[c] = {}
  BY <1>0, RemoveMembers DEF Inv
<1>2. RestType'
  BY DEF Inv, RestType
<1>3. \A v \in User, d \in Channel :
         d \in membership'[v] => d \in membership[v] /\ d \in channel /\ v \in online
  BY <1>1 DEF Inv, Points
<1>4. CASE users[c] <= Cardinality(U)
  <2>1. FreeChannel(c) /\ members'[c] = {}
    BY <1>1, <1>4 DEF RemoveFromChannel, Sub1FromChannel
  <2>2. /\ LinkInv'
        /\ channel' = channel \ {c}
        /\ \A v \in User, d \in Channel :
              /\ d \in Elements(invited'[v]) <=> d \in Elements(invited[v]) /\ d # c
              /\ d \in ujflood'[v] <=> d \in ujflood[v] /\ d # c
    BY <2>1, FreeFacts DEF Inv
  <2>3. \A v \in User : c \notin membership'[v]
    BY <1>0, <1>1, <2>1 DEF MembersInv, MembersAgree
  <2>4. UsedUp' /\ Points'
    BY <1>3, <2>2, <2>3 DEF Inv, UsedUp, Points
  <2>5. PhaseOK'
    <3>1. ASSUME quit # Nil PROVE ujflood'[quit] = {}
      <4>1. quit \in User /\ ujflood[quit] = {} /\ ujflood'[quit] \subseteq Channel
        BY <3>1, <2>2 DEF Inv, RestType, PhaseOK, LinkInv, JType
      <4> QED
        BY <4>1, <2>2
    <3> QED
      BY <3>1 DEF Inv, PhaseOK
  <2>6. ChannelLives'
    BY <1>1, <2>1, <2>2 DEF Inv, ChannelLives
  <2> QED
    BY <1>1, <1>2, <2>2, <2>4, <2>5, <2>6 DEF Inv
<1>5. CASE ~(users[c] <= Cardinality(U))
  <2>1. UNCHANGED <<channel, count, inviteVars, jfloodVars>> /\ members'[c] # {}
    BY <1>1, <1>5 DEF RemoveFromChannel, Sub1FromChannel
  <2>2. LinkInv'
    BY <2>1, LinkUnchanged DEF Inv
  <2>3. UsedUp' /\ Points'
    BY <1>3, <2>1 DEF Inv, UsedUp, Points, inviteVars, jfloodVars
  <2>4. PhaseOK' /\ ChannelLives'
    BY <1>0, <1>1, <2>1 DEF Inv, PhaseOK, ChannelLives, jfloodVars
  <2> QED
    BY <1>1, <1>2, <2>2, <2>3, <2>4 DEF Inv
<1> QED
  BY <1>4, <1>5

(* get_channel.                                                            *)
LEMMA GetChannelFacts ==
  ASSUME LinkInv, NEW c \in Channel, GetChannel(c)
  PROVE  /\ channel' \subseteq Channel /\ channel' = channel \cup {c}
         /\ count' \in Nat /\ count' = Cardinality(channel')
<1>1. IsFiniteSet(channel)
  BY ChannelMembersAssumption, FS_Subset DEF LinkInv, JType
<1>2. c \notin channel => Cardinality(channel \cup {c}) = Cardinality(channel) + 1
  BY <1>1, FS_AddElement
<1>3. c \in channel => channel \cup {c} = channel
  OBVIOUS
<1> QED
  BY <1>1, <1>2, <1>3, FS_CardinalityType DEF GetChannel, LinkInv, JType

LEMMA ThrottledFacts ==
  ASSUME LinkInv, NEW u \in User, NEW c \in Channel, Throttled(u, c)
  PROVE  /\ cjflood' \in [Channel -> SUBSET User]
         /\ ujflood' \in [User -> SUBSET Channel]
         /\ JAgree'
         /\ \A v \in User, d \in Channel :
              d \in ujflood'[v] <=> d \in ujflood[v] \/ <<v, d>> = <<u, c>>
<1>1. /\ cjflood' \in [Channel -> SUBSET User]
      /\ ujflood' \in [User -> SUBSET Channel]
      /\ \A d \in Channel : cjflood'[d] = IF d = c THEN cjflood[c] \cup {u} ELSE cjflood[d]
      /\ \A v \in User : ujflood'[v] = IF v = u THEN ujflood[u] \cup {c} ELSE ujflood[v]
  BY DEF LinkInv, JType, Throttled
<1>2. \A v \in User, d \in Channel :
        /\ d \in ujflood'[v] <=> d \in ujflood[v] \/ <<v, d>> = <<u, c>>
        /\ v \in cjflood'[d] <=> v \in cjflood[d] \/ <<v, d>> = <<u, c>>
  BY <1>1
<1> QED
  BY <1>1, <1>2 DEF LinkInv, JAgree

(* A user who is online joins a channel; his invitation is used up, or he  *)
(* is not from here and has none.                                          *)
LEMMA JoinStep ==
  ASSUME Inv, Idle, NEW u \in online, NEW c \in Channel, NEW fl \in SUBSET Flag,
         c \notin membership[u],
         GetChannel(c), AddUserToChannel(c, u, fl),
         (c \in channel /\ Throttled(u, c)) \/ UNCHANGED jfloodVars,
         DelInvite(u, c) \/ (u \notin Local /\ UNCHANGED inviteVars),
         UNCHANGED <<online, sjoin, nicks, quit>>
  PROVE  Inv'
<1>0. u \in User /\ u \notin members[c] /\ Nil \notin Channel /\ sjoin = Nil /\ quit = Nil
      /\ nicks = FALSE
  BY ChannelMembersAssumption
     DEF Inv, RestType, MembersInv, MembersAgree, Idle, PhaseOK, LinkInv, JType
<1>1. RestType'
  BY DEF Inv, RestType
<1>2. /\ MembersInv'
      /\ \A v \in User, d \in Channel :
              d \in membership'[v] <=> d \in membership[v] \/ <<v, d>> = <<u, c>>
  BY <1>0, AddMember DEF Inv
<1>3. /\ channel' \subseteq Channel /\ channel' = channel \cup {c}
      /\ count' \in Nat /\ count' = Cardinality(channel')
  BY GetChannelFacts DEF Inv
<1>4. /\ cjflood' \in [Channel -> SUBSET User]
      /\ ujflood' \in [User -> SUBSET Channel]
      /\ JAgree'
      /\ \A v \in User, d \in Channel :
           d \in ujflood'[v] => d \in ujflood[v] \/ <<v, d>> = <<u, c>>
  <2>1. CASE Throttled(u, c)
    BY <1>0, <2>1, ThrottledFacts DEF Inv
  <2>2. CASE UNCHANGED jfloodVars
    BY <2>2 DEF jfloodVars, Inv, LinkInv, JType, JAgree
  <2> QED
    BY <2>1, <2>2
<1>5. /\ Agree(invites', invited') /\ Limit(invites', invited')
      /\ \A v \in User, d \in Channel :
           d \in Elements(invited'[v]) => d \in Elements(invited[v]) /\ <<v, d>> # <<u, c>>
  <2>1. CASE DelInvite(u, c)
    BY <1>0, <2>1, DelInviteFacts DEF Inv, LinkInv
  <2>2. CASE u \notin Local /\ UNCHANGED inviteVars
    BY <2>2 DEF inviteVars, Inv, LinkInv, Agree, Limit, UsedUp
  <2> QED
    BY <2>1, <2>2
<1>6. LinkInv'
  BY <1>3, <1>4, <1>5 DEF LinkInv, JType
<1>7. UsedUp'
  BY <1>2, <1>5 DEF Inv, UsedUp
<1>8. Points'
  BY <1>2, <1>3, <1>4, <1>5 DEF Inv, Points
<1>9. PhaseOK'
  BY <1>0 DEF PhaseOK
<1>10. ChannelLives'
  <2>1. \A d \in Channel : members'[d] = IF d = c THEN members[c] \cup {u} ELSE members[d]
    BY DEF AddUserToChannel, Inv, MembersInv, MemberType
  <2> QED
    BY <2>1, <1>3 DEF Inv, ChannelLives
<1> QED
  BY <1>1, <1>2, <1>6, <1>7, <1>8, <1>9, <1>10 DEF Inv

(* Users come, and invitations and throttle entries come and go.           *)
LEMMA RegisterStep ==
  ASSUME Inv, NEW u \in User, Register(u) PROVE Inv'
<1>1. MembersInv' /\ LinkInv'
  BY MembersUnchanged, LinkUnchanged DEF Inv, Register
<1>2. RestType' /\ PhaseOK' /\ ChannelLives'
  BY DEF Inv, Register, RestType, PhaseOK, ChannelLives, memberVars, jfloodVars
<1>3. UsedUp' /\ Points'
  BY DEF Inv, Register, UsedUp, Points, memberVars, inviteVars, jfloodVars
<1> QED
  BY <1>1, <1>2, <1>3 DEF Inv

LEMMA InviteStep ==
  ASSUME Inv, NEW s \in User, NEW u \in User, NEW c \in Channel, Invite(s, u, c)
  PROVE  Inv'
<1>1. MembersInv'
  BY MembersUnchanged DEF Inv, Invite
<1>2. /\ Agree(invites', invited') /\ Limit(invites', invited')
      /\ \A v \in User, d \in Channel :
           d \in Elements(invited'[v]) => d \in Elements(invited[v]) \/ <<v, d>> = <<u, c>>
  BY AddInviteFacts DEF Inv, LinkInv, Invite
<1>3. LinkInv'
  BY <1>2 DEF Inv, LinkInv, JType, JAgree, Invite, jfloodVars
<1>4. RestType' /\ PhaseOK' /\ ChannelLives'
  BY DEF Inv, Invite, RestType, PhaseOK, ChannelLives, memberVars, jfloodVars
<1>5. UsedUp' /\ Points'
  BY <1>2 DEF Inv, Invite, MayInvite, UsedUp, Points, memberVars, jfloodVars
<1> QED
  BY <1>1, <1>3, <1>4, <1>5 DEF Inv

LEMMA JFloodExpiresStep ==
  ASSUME Inv, NEW u \in User, NEW c \in Channel, JFloodExpires(u, c) PROVE Inv'
<1>1. MembersInv'
  BY MembersUnchanged DEF Inv, JFloodExpires
<1>2. /\ cjflood' \in [Channel -> SUBSET User]
      /\ ujflood' \in [User -> SUBSET Channel]
      /\ \A d \in Channel : cjflood'[d] = IF d = c THEN cjflood[c] \ {u} ELSE cjflood[d]
      /\ \A v \in User : ujflood'[v] = IF v = u THEN ujflood[u] \ {c} ELSE ujflood[v]
  BY DEF Inv, LinkInv, JType, JFloodExpires
<1>3. LinkInv'
  <2>1. JType' /\ JAgree'
    BY <1>2 DEF Inv, LinkInv, JType, JAgree, JFloodExpires
  <2>2. Agree(invites', invited') /\ Limit(invites', invited')
    BY DEF Inv, LinkInv, JFloodExpires, inviteVars, Agree, Limit
  <2> QED
    BY <2>1, <2>2 DEF Inv, LinkInv, JFloodExpires
<1>4. RestType' /\ PhaseOK' /\ ChannelLives'
  BY DEF Inv, JFloodExpires, RestType, PhaseOK, ChannelLives, memberVars, Idle
<1>5. UsedUp' /\ Points'
  BY <1>2 DEF Inv, JFloodExpires, UsedUp, Points, memberVars, inviteVars
<1> QED
  BY <1>1, <1>3, <1>4, <1>5 DEF Inv

(* Flags.                                                                  *)
LEMMA MemberModeStep ==
  ASSUME Inv, NEW u \in User, NEW c \in Channel, NEW f \in Flag, NEW add \in BOOLEAN,
         MemberMode(u, c, f, add)
  PROVE  Inv'
<1> DEFINE fl == IF add THEN mflags[c][u] \cup {f} ELSE mflags[c][u] \ {f}
<1>1. /\ mflags' = [mflags EXCEPT ![c][u] = fl] /\ sflags' = [sflags EXCEPT ![u][c] = fl]
      /\ u \in members[c]
      /\ UNCHANGED <<online, channel, members, users, membership, joined,
                     inviteVars, jfloodVars, count, sjoin, nicks, quit>>
  BY DEF MemberMode
<1>2. fl \in SUBSET Flag
  BY DEF Inv, MembersInv, MemberType
<1> HIDE DEF fl
<1>3. /\ mflags' \in [Channel -> [User -> SUBSET Flag]]
      /\ sflags' \in [User -> [Channel -> SUBSET Flag]]
      /\ \A v \in User, d \in Channel :
           /\ mflags'[d][v] = IF <<v, d>> = <<u, c>> THEN fl ELSE mflags[d][v]
           /\ sflags'[v][d] = IF <<v, d>> = <<u, c>> THEN fl ELSE sflags[v][d]
  BY <1>1, <1>2 DEF Inv, MembersInv, MemberType
<1>4. MembersInv'
  BY <1>1, <1>3 DEF Inv, MembersInv, MemberType, MemberCount, FlagsOfMembers, MembersAgree
<1>5. LinkInv'
  BY <1>1, LinkUnchanged DEF Inv
<1>6. RestType' /\ PhaseOK' /\ ChannelLives' /\ UsedUp' /\ Points'
  BY <1>1 DEF Inv, RestType, PhaseOK, ChannelLives, UsedUp, Points, inviteVars, jfloodVars
<1> QED
  BY <1>4, <1>5, <1>6 DEF Inv

LEMMA ClearFlagsFacts ==
  ASSUME MembersInv, NEW c \in Channel, NEW F \in SUBSET Flag, ClearFlags(c, F),
         UNCHANGED <<members, users, membership, joined>>
  PROVE  MembersInv'
<1>1. \A v \in User, d \in Channel :
        /\ mflags'[d][v] = IF d = c THEN mflags[c][v] \ F ELSE mflags[d][v]
        /\ sflags'[v][d] = IF d = c /\ v \in members[c] THEN mflags[c][v] \ F
                                                         ELSE sflags[v][d]
  BY DEF ClearFlags, MembersInv, MemberType, MembersAgree
<1>2. /\ mflags' \in [Channel -> [User -> SUBSET Flag]]
      /\ sflags' \in [User -> [Channel -> SUBSET Flag]]
  BY DEF ClearFlags, MembersInv, MemberType
<1>3. FlagsOfMembers'
  BY <1>1 DEF MembersInv, FlagsOfMembers
<1>4. MembersAgree'
  <2>1. \A v \in User, d \in Channel : mflags'[d][v] = sflags'[v][d]
    <3> TAKE v \in User, d \in Channel
    <3>1. /\ mflags[d][v] = sflags[v][d]
          /\ v \notin members[d] => mflags[d][v] = {}
      BY DEF MembersInv, FlagsOfMembers, MembersAgree
    <3> QED
      BY <1>1, <3>1
  <2> QED
    BY <2>1 DEF MembersInv, MembersAgree
<1> QED
  BY <1>2, <1>3, <1>4 DEF MembersInv, MemberType, MemberCount

LEMMA SvsClearFlagStep ==
  ASSUME Inv, NEW c \in Channel, NEW f \in Flag, SvsClearFlag(c, f) PROVE Inv'
<1>1. MembersInv'
  BY ClearFlagsFacts DEF Inv, SvsClearFlag
<1>2. LinkInv'
  BY LinkUnchanged DEF Inv, SvsClearFlag
<1>3. RestType' /\ PhaseOK' /\ ChannelLives' /\ UsedUp' /\ Points'
  BY DEF Inv, SvsClearFlag, RestType, PhaseOK, ChannelLives, UsedUp, Points,
         inviteVars, jfloodVars
<1> QED
  BY <1>1, <1>2, <1>3 DEF Inv

(* SJOIN.                                                                  *)
LEMMA SJoinStep ==
  ASSUME Inv, NEW c \in Channel, NEW removeours \in BOOLEAN, SJoin(c, removeours)
  PROVE  Inv'
<1>0. sjoin = Nil /\ quit = Nil /\ Nil \notin Channel
  BY ChannelMembersAssumption DEF SJoin, Idle
<1>1. MembersInv'
  <2>1. CASE removeours
    BY <2>1, ClearFlagsFacts DEF Inv, SJoin
  <2>2. CASE ~removeours
    BY <2>2, MembersUnchanged DEF Inv, SJoin, memberVars
  <2> QED
    BY <2>1, <2>2
<1>2. /\ channel' \subseteq Channel /\ channel' = channel \cup {c}
      /\ count' \in Nat /\ count' = Cardinality(channel')
  BY GetChannelFacts DEF Inv, SJoin
<1>3. LinkInv'
  BY <1>2 DEF Inv, LinkInv, JType, JAgree, Agree, Limit, SJoin, inviteVars, jfloodVars
<1>4. RestType' /\ PhaseOK'
  BY <1>0, <1>2 DEF Inv, RestType, PhaseOK, SJoin
<1>5. ChannelLives'
  BY <1>0, <1>2 DEF Inv, ChannelLives, SJoin, LinkInv, JType
<1>6. UsedUp' /\ Points'
  BY <1>2 DEF Inv, UsedUp, Points, SJoin, inviteVars, jfloodVars
<1> QED
  BY <1>1, <1>3, <1>4, <1>5, <1>6 DEF Inv

LEMMA SJoinMemberStep ==
  ASSUME Inv, NEW u \in User, NEW fl \in SUBSET Flag, SJoinMember(u, fl) PROVE Inv'
<1>0. sjoin \in channel /\ sjoin \in Channel /\ u \in online /\ u \notin Local
  BY DEF Inv, PhaseOK, RestType, SJoinMember, LinkInv, JType
<1>1. /\ MembersInv'
      /\ \A v \in User, d \in Channel :
           d \in membership'[v] <=> d \in membership[v] \/ <<v, d>> = <<u, sjoin>>
  BY <1>0, AddMember DEF Inv, SJoinMember
<1>2. LinkInv'
  BY LinkUnchanged DEF Inv, SJoinMember
<1>3. RestType' /\ PhaseOK'
  BY DEF Inv, RestType, PhaseOK, SJoinMember, jfloodVars
<1>4. ChannelLives'
  <2>1. \A d \in Channel : members'[d] = IF d = sjoin THEN members[d] \cup {u} ELSE members[d]
    BY <1>0 DEF AddUserToChannel, SJoinMember, Inv, MembersInv, MemberType
  <2> QED
    BY <2>1, <1>0 DEF Inv, ChannelLives, SJoinMember
<1>5. UsedUp' /\ Points'
  BY <1>0, <1>1 DEF Inv, UsedUp, Points, SJoinMember, inviteVars, jfloodVars
<1> QED
  BY <1>1, <1>2, <1>3, <1>4, <1>5 DEF Inv

LEMMA KickInsecureUsersStep == ASSUME Inv, KickInsecureUsers PROVE Inv'
<1>1. sjoin \in channel
  BY DEF Inv, PhaseOK, KickInsecureUsers
<1>2. members[sjoin] \cap Insecure \in SUBSET members[sjoin]
  OBVIOUS
<1> QED
  BY <1>1, <1>2, RemoveStep DEF KickInsecureUsers

LEMMA SJoinEndStep == ASSUME Inv, SJoinEnd PROVE Inv'
<1>0. sjoin \in channel /\ sjoin \in Channel /\ Nil \notin Channel /\ sjoin # Nil /\ quit = Nil
  BY ChannelMembersAssumption DEF Inv, SJoinEnd, LinkInv, JType, PhaseOK
<1>1. MembersInv'
  BY MembersUnchanged DEF Inv, SJoinEnd
<1>2. RestType' /\ PhaseOK'
  BY <1>0 DEF Inv, RestType, PhaseOK, SJoinEnd
<1>3. users[sjoin] = 0 <=> members[sjoin] = {}
  BY <1>0, MembersFinite, FS_EmptySet DEF Inv, MembersInv, MemberCount
<1>4. CASE users[sjoin] = 0
  <2>1. /\ LinkInv'
        /\ channel' = channel \ {sjoin}
        /\ \A v \in User, d \in Channel :
              /\ d \in Elements(invited'[v]) <=> d \in Elements(invited[v]) /\ d # sjoin
              /\ d \in ujflood'[v] <=> d \in ujflood[v] /\ d # sjoin
    BY <1>0, <1>4, FreeFacts DEF Inv, SJoinEnd
  <2>2. \A v \in User : sjoin \notin membership[v]
    BY <1>0, <1>3, <1>4 DEF Inv, MembersInv, MembersAgree
  <2>3. ChannelLives'
    BY <1>0, <1>3, <1>4, <2>1 DEF Inv, ChannelLives, SJoinEnd, memberVars
  <2>4. UsedUp' /\ Points'
    BY <2>1, <2>2 DEF Inv, UsedUp, Points, SJoinEnd, memberVars
  <2> QED
    BY <1>1, <1>2, <2>1, <2>3, <2>4 DEF Inv
<1>5. CASE users[sjoin] # 0
  <2>1. LinkInv'
    BY <1>5, LinkUnchanged DEF Inv, SJoinEnd
  <2>2. ChannelLives' /\ UsedUp' /\ Points'
    BY <1>3, <1>5 DEF Inv, ChannelLives, UsedUp, Points, SJoinEnd,
                      memberVars, inviteVars, jfloodVars
  <2> QED
    BY <1>1, <1>2, <2>1, <2>2 DEF Inv
<1> QED
  BY <1>4, <1>5

LEMMA SJoinEndFreedStep == ASSUME Inv, SJoinEndFreed PROVE Inv'
<1>1. MembersInv' /\ LinkInv'
  BY MembersUnchanged, LinkUnchanged DEF Inv, SJoinEndFreed
<1>2. RestType' /\ PhaseOK'
  BY DEF Inv, RestType, PhaseOK, SJoinEndFreed
<1>3. ChannelLives' /\ UsedUp' /\ Points'
  BY DEF Inv, ChannelLives, UsedUp, Points, SJoinEndFreed,
         memberVars, inviteVars, jfloodVars
<1> QED
  BY <1>1, <1>2, <1>3 DEF Inv

(* exit_one_client.                                                        *)
LEMMA QuitStart == ASSUME Inv, NEW u \in User, Quit(u) PROVE Inv'
<1>1. MembersInv'
  BY MembersUnchanged DEF Inv, Quit
<1>2. /\ cjflood' \in [Channel -> SUBSET User]
      /\ ujflood' \in [User -> SUBSET Channel]
      /\ \A d \in Channel : cjflood'[d] = IF d \in ujflood[u] THEN cjflood[d] \ {u} ELSE cjflood[d]
      /\ \A v \in User : ujflood'[v] = IF v = u THEN {} ELSE ujflood[v]
  BY DEF Inv, LinkInv, JType, Quit
<1>3. LinkInv'
  <2>1. JType' /\ JAgree'
    BY <1>2 DEF Inv, LinkInv, JType, JAgree, Quit
  <2>2. Agree(invites', invited') /\ Limit(invites', invited')
    BY DEF Inv, LinkInv, Quit, inviteVars, Agree, Limit
  <2> QED
    BY <2>1, <2>2 DEF Inv, LinkInv, Quit
<1>4. RestType' /\ PhaseOK' /\ ChannelLives'
  BY <1>2 DEF Inv, Quit, RestType, PhaseOK, ChannelLives, memberVars, Idle
<1>5. UsedUp' /\ Points'
  BY <1>2 DEF Inv, Quit, UsedUp, Points, memberVars, inviteVars
<1> QED
  BY <1>1, <1>3, <1>4, <1>5 DEF Inv

LEMMA QuitInviteStep == ASSUME Inv, QuitInvite PROVE Inv'
<1>0. quit \in User /\ invited[quit] \in Seq(Channel) /\ invited[quit] # << >>
  BY DEF Inv, RestType, QuitInvite, LinkInv, Agree
<1>1. invited[quit][1] \in Channel
  BY <1>0, ElementsFacts
<1>2. MembersInv'
  BY MembersUnchanged DEF Inv, QuitInvite
<1>3. /\ Agree(invites', invited') /\ Limit(invites', invited')
      /\ \A v \in User, d \in Channel :
           d \in Elements(invited'[v]) => d \in Elements(invited[v])
  BY <1>0, <1>1, DelInviteFacts DEF Inv, LinkInv, QuitInvite
<1>4. LinkInv'
  BY <1>3 DEF Inv, LinkInv, JType, JAgree, QuitInvite, jfloodVars
<1>5. RestType' /\ PhaseOK' /\ ChannelLives'
  BY DEF Inv, QuitInvite, RestType, PhaseOK, ChannelLives, memberVars, jfloodVars
<1>6. UsedUp' /\ Points'
  BY <1>3 DEF Inv, QuitInvite, UsedUp, Points, memberVars, jfloodVars
<1> QED
  BY <1>2, <1>4, <1>5, <1>6 DEF Inv

LEMMA QuitEndStep == ASSUME Inv, QuitEnd PROVE Inv'
<1>1. MembersInv' /\ LinkInv'
  BY MembersUnchanged, LinkUnchanged DEF Inv, QuitEnd
<1>2. RestType' /\ PhaseOK' /\ ChannelLives'
  BY DEF Inv, QuitEnd, RestType, PhaseOK, ChannelLives, memberVars
<1>3. UsedUp'
  BY DEF Inv, QuitEnd, UsedUp, memberVars, inviteVars
<1>4. Elements(invited[quit]) = {} /\ ujflood[quit] = {} /\ membership[quit] = {}
  BY DEF Inv, QuitEnd, PhaseOK, Elements
<1>5. Points'
  BY <1>4 DEF Inv, QuitEnd, Points, memberVars, inviteVars, jfloodVars
<1> QED
  BY <1>1, <1>2, <1>3, <1>5 DEF Inv

LEMMA LeaveStep ==
  ASSUME Inv, NEW c \in Channel, NEW u \in User, c \in membership[u],
         RemoveFromChannel({u}, c), sjoin = Nil,
         UNCHANGED <<online, sjoin, nicks, quit>>
  PROVE  Inv'
<1>1. c \in channel /\ {u} \in SUBSET members[c]
  BY DEF Inv, Points, MembersInv, MembersAgree
<1>2. nicks' = FALSE
  BY ChannelMembersAssumption DEF Inv, PhaseOK, RestType, LinkInv, JType
<1> QED
  BY <1>1, <1>2, RemoveStep

LEMMA StutterStep == ASSUME Inv, UNCHANGED vars PROVE Inv'
<1>1. MembersInv' /\ LinkInv'
  BY MembersUnchanged, LinkUnchanged DEF Inv, vars
<1>2. RestType' /\ PhaseOK' /\ ChannelLives' /\ UsedUp' /\ Points'
  BY DEF Inv, vars, RestType, PhaseOK, ChannelLives, UsedUp, Points,
         memberVars, inviteVars, jfloodVars
<1> QED
  BY <1>1, <1>2 DEF Inv

LEMMA NextStep == ASSUME Inv, [Next]_vars PROVE Inv'
<1>1. ASSUME NEW u \in User, Register(u) \/ Quit(u) PROVE Inv'
  BY <1>1, RegisterStep, QuitStart
<1>2. ASSUME NEW u \in User, NEW c \in Channel, JoinRejected(u, c) PROVE Inv'
  BY <1>2, StutterStep DEF JoinRejected
<1>3. ASSUME NEW u \in User, NEW c \in Channel, RemoteJoin(u, c) PROVE Inv'
  BY <1>3, JoinStep DEF RemoteJoin
<1>4. ASSUME NEW u \in User, NEW c \in Channel, NEW plusj \in BOOLEAN, Join(u, c, plusj)
      PROVE Inv'
  BY <1>4, JoinStep, ChannelMembersAssumption DEF Join, MayJoin
<1>5. ASSUME NEW u \in User, NEW c \in Channel, NEW op \in SUBSET Flag, SaJoin(u, c, op)
      PROVE Inv'
  BY <1>5, JoinStep DEF SaJoin
<1>6. ASSUME NEW u \in User, NEW c \in Channel, Part(u, c) PROVE Inv'
  BY <1>6, LeaveStep DEF Part, Idle
<1>7. ASSUME NEW c \in Channel, QuitChannel(c) PROVE Inv'
  <2>1. quit \in User /\ sjoin = Nil
    BY <1>7 DEF QuitChannel, Inv, RestType, PhaseOK
  <2> QED
    BY <1>7, <2>1, LeaveStep DEF QuitChannel
<1>8. ASSUME NEW u \in User, NEW c \in Channel, JFloodExpires(u, c) PROVE Inv'
  BY <1>8, JFloodExpiresStep
<1>9. ASSUME NEW s \in User, NEW u \in User, NEW c \in Channel, Invite(s, u, c) PROVE Inv'
  BY <1>9, InviteStep
<1>10. ASSUME NEW u \in User, NEW c \in Channel, NEW f \in Flag, NEW add \in BOOLEAN,
              MemberMode(u, c, f, add)
       PROVE  Inv'
  BY <1>10, MemberModeStep
<1>11. ASSUME NEW c \in Channel, NEW f \in Flag, SvsClearFlag(c, f) PROVE Inv'
  BY <1>11, SvsClearFlagStep
<1>12. ASSUME NEW c \in Channel, NEW removeours \in BOOLEAN, SJoin(c, removeours) PROVE Inv'
  BY <1>12, SJoinStep
<1>13. ASSUME NEW u \in User, NEW fl \in SUBSET Flag, SJoinMember(u, fl) PROVE Inv'
  BY <1>13, SJoinMemberStep
<1>14. ASSUME KickInsecureUsers \/ SJoinEnd \/ SJoinEndFreed \/ QuitInvite \/ QuitEnd
       PROVE  Inv'
  BY <1>14, KickInsecureUsersStep, SJoinEndStep, SJoinEndFreedStep, QuitInviteStep,
     QuitEndStep
<1>15. CASE UNCHANGED vars
  BY <1>15, StutterStep
<1> QED
  BY <1>1, <1>2, <1>3, <1>4, <1>5, <1>6, <1>7, <1>8, <1>9, <1>10, <1>11, <1>12,
     <1>13, <1>14, <1>15 DEF Next

(***************************************************************************)
(* The theorems.                                                           *)
(***************************************************************************)
THEOREM Invariant == Spec => []Inv
<1>1. Init => Inv
  BY InitInv
<1>2. Inv /\ [Next]_vars => Inv'
  BY NextStep
<1> QED
  BY <1>1, <1>2, PTL DEF Spec

(* The variables keep their types, the counters stay natural numbers.      *)
THEOREM Typed == Spec => []TypeOK
<1>1. Inv => TypeOK
  BY InvImplies
<1> QED
  BY <1>1, Invariant, PTL

(* add_user_to_channel, remove_user_from_channel and the mode handlers     *)
(* keep a Member and its Membership together, with the same flags.         *)
THEOREM BothEndsAgree == Spec => []MembersAgree
<1>1. Inv => MembersAgree
  BY InvImplies
<1> QED
  BY <1>1, Invariant, PTL

(* chptr->users, user->joined and IRCstats.channels are exact, through     *)
(* every kick of m_sjoin and every step of an exit.                        *)
THEOREM CountersAreExact == Spec => []CountersExact
<1>1. Inv => CountersExact
  BY InvImplies
<1> QED
  BY <1>1, Invariant, PTL

(* A channel is freed with its last member and not before.                 *)
THEOREM ChannelsLive == Spec => []ChannelLives
<1>1. Inv => ChannelLives
  BY InvImplies
<1> QED
  BY <1>1, Invariant, PTL

(* add_invite and del_invite keep the two lists of an invitation in        *)
(* agreement and to MAXCHANNELSPERUSER, whatever is evicted.               *)
THEOREM InvitationsAgree == Spec => []InvitesAgree
<1>1. Inv => InvitesAgree
  BY InvImplies
<1> QED
  BY <1>1, Invariant, PTL

(* No invitation is left for a channel that the user is on.                *)
THEOREM InvitationsUsedUp == Spec => []InviteUsedUp
<1>1. Inv => InviteUsedUp
  BY InvImplies
<1> QED
  BY <1>1, Invariant, PTL

(* No list points to a channel that was freed or to a user who is gone.    *)
THEOREM NothingDangles == Spec => []NoDangling
<1>1. Inv => NoDangling
  BY InvImplies
<1> QED
  BY <1>1, Invariant, PTL

(* On a server whose users all have SSL the channel of a running m_sjoin   *)
(* is allocated until its end.                                             *)
THEOREM SJoinKeepsChannel == Insecure = {} => (Spec => []SJoinHolds)
<1> SUFFICES ASSUME Insecure = {} PROVE Spec => []SJoinHolds
  OBVIOUS
<1>1. Init => SJoinHolds
  BY DEF Init, SJoinHolds
<1>2. Inv /\ SJoinHolds /\ [Next]_vars => SJoinHolds'
  <2> SUFFICES ASSUME Inv, SJoinHolds, [Next]_vars PROVE SJoinHolds'
    OBVIOUS
  <2>1. CASE sjoin' = Nil
    BY <2>1 DEF SJoinHolds
  <2>2. CASE \E c \in Channel, removeours \in BOOLEAN : SJoin(c, removeours)
    BY <2>2 DEF SJoin, GetChannel, SJoinHolds
  <2>3. CASE sjoin' = sjoin /\ (sjoin # Nil => channel' = channel)
    BY <2>3 DEF SJoinHolds
  <2>4. ASSUME NEW u \in User, Register(u) \/ Quit(u) PROVE SJoinHolds'
    BY <2>3, <2>4 DEF Register, Quit, Idle
  <2>5. ASSUME NEW u \in User, NEW c \in Channel,
               JoinRejected(u, c) \/ RemoteJoin(u, c) \/ Part(u, c) \/ JFloodExpires(u, c)
        PROVE  SJoinHolds'
    BY <2>3, <2>5 DEF JoinRejected, RemoteJoin, Part, JFloodExpires, MayJoin, Idle, vars
  <2>6. ASSUME NEW u \in User, NEW c \in Channel,
               \/ \E plusj \in BOOLEAN : Join(u, c, plusj)
               \/ \E op \in SUBSET Flag : SaJoin(u, c, op)
               \/ \E s \in User : Invite(s, u, c)
               \/ \E f \in Flag, add \in BOOLEAN : MemberMode(u, c, f, add)
        PROVE  SJoinHolds'
    BY <2>3, <2>6 DEF Join, SaJoin, Invite, MayInvite, MemberMode, MayJoin, Idle
  <2>7. ASSUME NEW c \in Channel,
               (\E f \in Flag : SvsClearFlag(c, f)) \/ QuitChannel(c)
        PROVE  SJoinHolds'
    BY <2>3, <2>7 DEF SvsClearFlag, QuitChannel, Idle, Inv, PhaseOK
  <2>8. ASSUME NEW u \in User, NEW fl \in SUBSET Flag, SJoinMember(u, fl)
        PROVE  SJoinHolds'
    BY <2>3, <2>8 DEF SJoinMember
  <2>9. CASE SJoinEnd \/ SJoinEndFreed
    BY <2>1, <2>9 DEF SJoinEnd, SJoinEndFreed
  <2>10. CASE QuitInvite \/ QuitEnd
    BY <2>3, <2>10 DEF QuitInvite, QuitEnd, Inv, PhaseOK
  <2>11. ~KickInsecureUsers
    BY DEF KickInsecureUsers
  <2>12. CASE UNCHANGED vars
    BY <2>3, <2>12 DEF vars
  <2> QED
    BY <2>2, <2>4, <2>5, <2>6, <2>7, <2>8, <2>9, <2>10, <2>11, <2>12 DEF Next
<1> QED
  BY <1>1, <1>2, Invariant, PTL DEF Spec
=============================================================================
