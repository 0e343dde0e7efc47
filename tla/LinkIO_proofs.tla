--------------------------- MODULE LinkIO_proofs ---------------------------
(***************************************************************************)
(* Proofs about LinkIO for all values of its constants.                    *)
(*                                                                         *)
(* Every action changes connections by the functions of send.c,            *)
(* read_packet and check_pings, so the inductive invariant is a predicate  *)
(* of one connection, Sound, that each of these functions preserves.  Its  *)
(* times are bounded by the time since the last check_pings, Since, which  *)
(* only Tick makes grow.  That a pass of select serves everyone needs a    *)
(* second invariant, Served, which relates the connections to the pass.    *)
(***************************************************************************)
EXTENDS LinkIO, TLAPS

(* The time since check_pings looked at c.  AddConnection asks for the     *)
(* next one at once, so due is a bound only.                               *)
SinceCheck(p, t, d, c) ==
  IF p = "ping" /\ c \in t THEN Gap + MaxDelay - 1
  ELSE IF d = 0 THEN Gap - 1 ELSE Gap - d
Since(c) == SinceCheck(phase, todo, due, c)

FlagsFit(l) ==
  /\ ~l.dead /\ l.blocked => l.sendQ > 0
  /\ ~l.dead /\ ~l.blocked => l.sendQ \div Step <= l.lastsq
  /\ l.nonl => l.lines = 0 /\ l.tail < 2

(* What the clocks of a connection show e seconds after check_pings.       *)
Wait == Gap + MaxDelay - 1
RegisteredTimes(l, e) ==
  l.kind \in Registered =>
    /\ ~l.pinged => /\ l.heard <= l.idle /\ l.heard <= Ping - 1 + e
                    /\ l.asked = 0
    /\ l.pinged => /\ l.idle = Ping + l.asked
                   /\ l.asked <= Ping - 1 + e
                   /\ l.heard <= Ping - 1 + Wait + l.asked
UnknownTimes(l, e) ==
  l.kind \notin Registered =>
    /\ ~l.pinged /\ l.heard = 0 /\ l.asked = 0
    /\ l.age <= MaxUnknown + e
    /\ l.kind = "lookup" => l.open = l.age
    /\ l.open <= MaxUnknown + Wait + l.age
Times(l, e) ==
  /\ RegisteredTimes(l, e) /\ UnknownTimes(l, e)
  /\ l.corpse <= e /\ (~l.dead => l.corpse = 0)
  /\ l.kind \in Registered => l.open = 0
  /\ l.kind = "free" => l.age = 0 /\ l.open = 0 /\ l.corpse = 0

Sound(l, e) == l \in Link /\ FlagsFit(l) /\ Times(l, e)

LoopType ==
  /\ build \in Builds
  /\ phase \in Phases /\ todo \subseteq Conn /\ cur \in Conn
  /\ wantIn \subseteq Conn /\ wantOut \subseteq Conn
  /\ batch \in Nat /\ due \in 0..Gap
  /\ phase = "ping" => due = Gap

Inv ==
  /\ LoopType
  /\ link \in [Conn -> Link]
  /\ \A c \in Conn : Sound(link[c], Since(c))

(***************************************************************************)
(* The functions preserve Sound.                                           *)
(***************************************************************************)
LEMMA FreeSound == ASSUME NEW e \in Nat PROVE Sound(Free, e)
<1>1. 0 \div Step = 0
  BY LinkIOAssumption, SMT
<1>2. Free \in Link
  BY DEF Free, Link, Kinds
<1>3. FlagsFit(Free)
  BY <1>1 DEF Free, FlagsFit
<1>4. Times(Free, e)
  BY LinkIOAssumption DEF Free, Times, RegisteredTimes, UnknownTimes, Registered, Wait
<1> QED BY <1>2, <1>3, <1>4 DEF Sound

LEMMA DivNat == ASSUME NEW n \in Nat PROVE n \div Step \in Nat
  BY LinkIOAssumption, SMT

LEMMA DeadLinkSound ==
  ASSUME NEW l, NEW e \in Nat, l \in Link, Times(l, e)
  PROVE  Sound(DeadLink(l), e)
<1> TRUE \in BOOLEAN /\ 0 \in Nat /\ 0 \in 0..2
  OBVIOUS
<1>1. DeadLink(l) \in Link
  BY DEF DeadLink, Link
<1>2. FlagsFit(DeadLink(l))
  BY DEF DeadLink, Link, FlagsFit
<1>3. Times(DeadLink(l), e)
  BY DEF DeadLink, Link, Times, RegisteredTimes, UnknownTimes
<1> QED BY <1>1, <1>2, <1>3 DEF Sound

LEMMA WrittenSound ==
  ASSUME NEW l, NEW e \in Nat, l \in Link, Times(l, e), ~l.dead,
         l.nonl => l.lines = 0 /\ l.tail < 2, NEW n \in 0..l.sendQ
  PROVE  Sound(Written(l, n), e)
<1>1. l.sendQ \in Nat /\ l.sendQ - n \in Nat
  BY DEF Link
<1>2. (l.sendQ - n) \div Step \in Nat
  BY <1>1, DivNat
<1>3. (n < l.sendQ) \in BOOLEAN
  BY <1>1
<1>4. Written(l, n) \in Link
  BY <1>1, <1>2, <1>3 DEF Written, Link
<1>5. FlagsFit(Written(l, n))
  BY <1>1, <1>2 DEF Written, Link, FlagsFit
<1>6. Times(Written(l, n), e)
  BY DEF Written, Link, Times, RegisteredTimes, UnknownTimes
<1> QED BY <1>4, <1>5, <1>6 DEF Sound

(* send_queued may be called with a connection that has more than lastsq   *)
(* says: it is what makes that right.                                      *)
LEMMA SendQueuedSound ==
  ASSUME NEW l, NEW e \in Nat, l \in Link, Times(l, e),
         ~l.dead /\ l.blocked => l.sendQ > 0,
         l.nonl => l.lines = 0 /\ l.tail < 2, NEW m \in SendQueued(l)
  PROVE  Sound(m, e)
<1>1. CASE l.blocked \/ l.dead
  BY <1>1 DEF SendQueued, Sound, FlagsFit
<1>2. CASE ~l.blocked /\ ~l.dead /\ l.sendQ = 0
  <2>1. m = l
    BY <1>2 DEF SendQueued
  <2>2. 0 \div Step = 0
    BY LinkIOAssumption, SMT
  <2>3. l.lastsq \in Nat
    BY DEF Link
  <2>4. FlagsFit(l)
    BY <1>2, <2>2, <2>3 DEF FlagsFit
  <2> QED BY <2>1, <2>4 DEF Sound
<1>3. CASE ~l.blocked /\ ~l.dead /\ l.sendQ # 0
  <2>1. m = DeadLink(l) \/ \E n \in 0..l.sendQ : m = Written(l, n)
    BY <1>3 DEF SendQueued
  <2> QED BY <1>3, <2>1, DeadLinkSound, WrittenSound
<1> QED BY <1>1, <1>2, <1>3

LEMMA SendBufToOneSound ==
  ASSUME NEW l, NEW e \in Nat, Sound(l, e), NEW m \in SendBufToOne(l)
  PROVE  Sound(m, e)
<1> DEFINE queued == [l EXCEPT !.sendQ = @ + 1]
<1>1. l \in Link /\ FlagsFit(l) /\ Times(l, e)
  BY DEF Sound
<1>2. queued \in Link
  BY <1>1 DEF Link
<1>3. Times(queued, e)
  BY <1>1 DEF Link, Times, RegisteredTimes, UnknownTimes
<1>4. /\ queued.dead = l.dead /\ queued.blocked = l.blocked
      /\ queued.sendQ = l.sendQ + 1 /\ l.sendQ \in Nat
      /\ queued.lastsq = l.lastsq /\ l.lastsq \in Nat
      /\ queued.nonl = l.nonl /\ queued.lines = l.lines /\ queued.tail = l.tail
  BY <1>1 DEF Link
<1>5. queued.sendQ \div Step \in Nat
  BY <1>4, DivNat
<1>6. queued.nonl => queued.lines = 0 /\ queued.tail < 2
  BY <1>1, <1>4 DEF FlagsFit
<1>7. ~queued.dead /\ queued.blocked => queued.sendQ > 0
  BY <1>4
<1>8. ~(queued.sendQ \div Step > queued.lastsq) => Sound(queued, e)
  BY <1>2, <1>3, <1>4, <1>5, <1>6, <1>7 DEF Sound, FlagsFit
<1>9. \A q \in SendQueued(queued) : Sound(q, e)
  BY <1>2, <1>3, <1>6, <1>7, SendQueuedSound
<1>10. Sound(DeadLink(l), e)
  BY <1>1, DeadLinkSound
<1>11. \/ m = l \/ m = DeadLink(l)
       \/ m = queued /\ ~(queued.sendQ \div Step > queued.lastsq)
       \/ m \in SendQueued(queued)
  BY DEF SendBufToOne
<1> QED BY <1>8, <1>9, <1>10, <1>11

LEMMA WriteFirstSound ==
  ASSUME NEW c \in Conn, NEW e \in Nat, Sound(link[c], e),
         NEW m \in WriteFirst(c)
  PROVE  Sound(m, e)
<1> DEFINE l == link[c]
           open == [l EXCEPT !.blocked = FALSE]
<1>1. l \in Link /\ FlagsFit(l) /\ Times(l, e)
  BY DEF Sound
<1>2. open \in Link /\ ~open.blocked
  BY <1>1 DEF Link
<1>3. Times(open, e)
  BY <1>1 DEF Link, Times, RegisteredTimes, UnknownTimes
<1>4. open.nonl => open.lines = 0 /\ open.tail < 2
  BY <1>1 DEF Link, FlagsFit
<1>5. \A q \in SendQueued(open) : Sound(q, e)
  BY <1>2, <1>3, <1>4, SendQueuedSound
<1>6. m = l \/ m \in SendQueued(open)
  BY DEF WriteFirst
<1> QED BY <1>5, <1>6

LEMMA HeardSound ==
  ASSUME NEW l, NEW e \in Nat, Sound(l, e) PROVE Sound(Heard(l), e)
<1> FALSE \in BOOLEAN /\ 0 \in Nat /\ 0 \in Int
  OBVIOUS
<1>1. l \in Link /\ FlagsFit(l) /\ Times(l, e)
  BY DEF Sound
<1>2. (IF l.lag < 0 THEN 0 ELSE l.lag) \in Int
  BY <1>1 DEF Link
<1>3. Heard(l) \in Link
  BY <1>1, <1>2 DEF Heard, Link
<1>4. FlagsFit(Heard(l))
  BY <1>1 DEF Heard, Link, FlagsFit
<1>5. Times(Heard(l), e)
  BY <1>1, LinkIOAssumption DEF Heard, Link, Times, RegisteredTimes, UnknownTimes
<1> QED BY <1>3, <1>4, <1>5 DEF Sound

LEMMA ArrivedSound ==
  ASSUME NEW l, NEW e \in Nat, Sound(l, e), ~l.nonl, NEW k \in Nat, NEW t \in 0..2
  PROVE  Sound(Arrived(l, k, t), e)
<1>1. l \in Link /\ FlagsFit(l) /\ Times(l, e)
  BY DEF Sound
<1>2. (IF k > 0 THEN t ELSE IF l.tail + t > 2 THEN 2 ELSE l.tail + t) \in 0..2
  BY <1>1 DEF Link
<1>3. l.lines + k \in Nat
  BY <1>1 DEF Link
<1>4. Arrived(l, k, t) \in Link
  BY <1>1, <1>2, <1>3 DEF Arrived, Link
<1>5. FlagsFit(Arrived(l, k, t))
  BY <1>1 DEF Arrived, Link, FlagsFit
<1>6. Times(Arrived(l, k, t), e)
  BY <1>1 DEF Arrived, Link, Times, RegisteredTimes, UnknownTimes
<1> QED BY <1>4, <1>5, <1>6 DEF Sound

LEMMA RegistrationSound ==
  ASSUME NEW l, NEW e \in Nat, Sound(l, e), l.kind = "unknown",
         NEW k \in Registered
  PROVE  Sound(Registration(l, k), e)
<1> 0 \in Nat /\ k \in Kinds \cup {"free"} /\ k # "free"
  BY DEF Registered, Kinds
<1>1. l \in Link /\ FlagsFit(l) /\ Times(l, e)
  BY DEF Sound
<1>2. Registration(l, k) \in Link
  BY <1>1 DEF Registration, Link
<1>3. FlagsFit(Registration(l, k))
  BY <1>1 DEF Registration, Link, FlagsFit
<1>4. "unknown" \notin Registered
  BY DEF Registered
<1>5. ~l.pinged /\ l.heard = 0 /\ l.asked = 0 /\ l.idle \in Nat
  BY <1>1, <1>4 DEF Times, UnknownTimes, Link
<1>6. Times(Registration(l, k), e)
  BY <1>1, <1>4, <1>5, LinkIOAssumption
     DEF Registration, Link, Times, RegisteredTimes, UnknownTimes
<1> QED BY <1>2, <1>3, <1>6 DEF Sound

(* What holds soon after check_pings holds later.                          *)
LEMMA SoundLater ==
  ASSUME NEW l, NEW e \in Nat, NEW f \in Nat, e <= f, Sound(l, e)
  PROVE  Sound(l, f)
<1>1. l \in Link /\ FlagsFit(l) /\ Times(l, e)
  BY DEF Sound
<1>2. RegisteredTimes(l, f)
  BY <1>1, LinkIOAssumption DEF Link, Times, RegisteredTimes
<1>3. UnknownTimes(l, f) /\ l.corpse <= f
  BY <1>1, LinkIOAssumption DEF Link, Times, UnknownTimes
<1> QED BY <1>1, <1>2, <1>3 DEF Sound, Times

(* Time passes.                                                            *)
LEMMA LaterSound ==
  ASSUME NEW l, NEW e \in Nat, NEW k \in Nat, Sound(l, e)
  PROVE  Sound(Later(l, k), e + k)
<1>1. l \in Link /\ FlagsFit(l) /\ Times(l, e)
  BY DEF Sound
<1>2. CASE l.kind = "free"
  <2>1. Later(l, k) = l
    BY <1>2 DEF Later
  <2> QED BY <2>1, SoundLater
<1>3. CASE l.kind \in Registered
  <2>1. l.kind # "free"
    BY <1>3 DEF Registered
  <2>2. /\ l.idle + k \in Nat /\ l.lag - k \in Int /\ l.corpse + k \in Nat
        /\ l.heard + k \in Nat /\ l.asked + k \in Nat
    BY <1>1 DEF Link
  <2>3. Later(l, k) \in Link
    BY <1>1, <1>3, <2>1, <2>2 DEF Later, Link
  <2>4. FlagsFit(Later(l, k))
    BY <1>1, <1>3, <2>1 DEF Later, Link, FlagsFit
  <2>5. Times(Later(l, k), e + k)
    BY <1>1, <1>3, <2>1, LinkIOAssumption
       DEF Later, Link, Times, RegisteredTimes, UnknownTimes, Wait
  <2> QED BY <2>3, <2>4, <2>5 DEF Sound
<1>4. CASE l.kind \notin Registered /\ l.kind # "free"
  <2>1. /\ l.idle + k \in Nat /\ l.lag - k \in Int /\ l.corpse + k \in Nat
        /\ l.age + k \in Nat /\ l.open + k \in Nat
    BY <1>1 DEF Link
  <2>2. Later(l, k) \in Link
    BY <1>1, <1>4, <2>1 DEF Later, Link
  <2>3. FlagsFit(Later(l, k))
    BY <1>1, <1>4 DEF Later, Link, FlagsFit
  <2>4. Times(Later(l, k), e + k)
    BY <1>1, <1>4, LinkIOAssumption
       DEF Later, Link, Times, RegisteredTimes, UnknownTimes, Wait
  <2> QED BY <2>2, <2>3, <2>4 DEF Sound
<1> QED BY <1>2, <1>3, <1>4

(* check_pings starts the wait again.                                      *)
LEMMA CheckedSound ==
  ASSUME NEW l, Sound(l, Wait), l.kind # "free", NEW m \in Checked(l)
  PROVE  Sound(m, 0)
<1> 0 \in Nat /\ Wait \in Nat
  BY LinkIOAssumption DEF Wait
<1>1. l \in Link /\ FlagsFit(l) /\ Times(l, Wait)
  BY DEF Sound
<1>2. CASE m = Free
  BY <1>2, FreeSound
<1>3. CASE ~l.dead /\ Overdue(l) /\ l.kind = "lookup" /\ m = GiveUpLookUp(l)
  <2>1. "unknown" \in Kinds \cup {"free"} /\ "lookup" \notin Registered
        /\ "unknown" \notin Registered
    BY DEF Kinds, Registered
  <2>2. m \in Link
    BY <1>1, <1>3, <2>1 DEF GiveUpLookUp, Link
  <2>3. FlagsFit(m)
    BY <1>1, <1>3 DEF GiveUpLookUp, Link, FlagsFit
  <2>4. Times(m, 0)
    BY <1>1, <1>3, <2>1, LinkIOAssumption
       DEF GiveUpLookUp, Link, Times, RegisteredTimes, UnknownTimes
  <2> QED BY <2>2, <2>3, <2>4 DEF Sound
<1>4. CASE /\ ~l.dead /\ l.kind \in Registered
           /\ l.idle >= Ping /\ ~l.pinged /\ m \in PingSent(l)
  <2> DEFINE p == [l EXCEPT !.pinged = TRUE, !.idle = Ping]
  <2>1. p \in Link
    BY <1>1, LinkIOAssumption DEF Link
  <2>2. FlagsFit(p)
    BY <1>1 DEF Link, FlagsFit
  <2>3. Times(p, 0)
    BY <1>1, <1>4, LinkIOAssumption
       DEF Link, Times, RegisteredTimes, UnknownTimes, Wait
  <2>4. Sound(p, 0)
    BY <2>1, <2>2, <2>3 DEF Sound
  <2> QED BY <1>4, <2>4, SendBufToOneSound DEF PingSent
<1>5. CASE /\ ~l.dead /\ ~Overdue(l) /\ ~TooLongUnknown(l) /\ m = l
           /\ ~(l.kind \in Registered /\ l.idle >= Ping /\ ~l.pinged)
  <2>1. CASE l.kind \in Registered
    <3>1. PingOf(l) = Ping
      BY <2>1 DEF PingOf
    <3>2. RegisteredTimes(l, 0)
      BY <1>1, <1>5, <2>1, <3>1, LinkIOAssumption
         DEF Link, Times, RegisteredTimes, Overdue
    <3> QED BY <1>1, <1>5, <2>1, <3>2 DEF Sound, Times, UnknownTimes
  <2>2. CASE l.kind \notin Registered
    BY <1>1, <1>5, <2>2, LinkIOAssumption
       DEF Sound, Link, Times, UnknownTimes, RegisteredTimes, TooLongUnknown
  <2> QED BY <2>1, <2>2
<1>6. \/ m = Free
      \/ ~l.dead /\ Overdue(l) /\ l.kind = "lookup" /\ m = GiveUpLookUp(l)
      \/ /\ ~l.dead /\ l.kind \in Registered
         /\ l.idle >= Ping /\ ~l.pinged /\ m \in PingSent(l)
      \/ /\ ~l.dead /\ ~Overdue(l) /\ ~TooLongUnknown(l) /\ m = l
         /\ ~(l.kind \in Registered /\ l.idle >= Ping /\ ~l.pinged)
  <2>1. CASE l.dead
    BY <2>1 DEF Checked
  <2>2. CASE ~l.dead /\ Overdue(l)
    BY <2>2 DEF Checked
  <2>3. CASE /\ ~l.dead /\ ~Overdue(l)
             /\ l.kind \in Registered /\ l.idle >= Ping /\ ~l.pinged
    BY <2>3 DEF Checked
  <2>4. CASE /\ ~l.dead /\ ~Overdue(l)
             /\ ~(l.kind \in Registered /\ l.idle >= Ping /\ ~l.pinged)
    BY <2>4 DEF Checked
  <2> QED BY <2>1, <2>2, <2>3, <2>4
<1> QED BY <1>2, <1>3, <1>4, <1>5, <1>6

(***************************************************************************)
(* The steps.                                                              *)
(***************************************************************************)
SoundTable(f) == f \in [Conn -> Link] /\ \A c \in Conn : Sound(f[c], Since(c))

LEMMA SinceCheckNat ==
  ASSUME NEW p, NEW t, NEW d \in 0..Gap, NEW c
  PROVE  SinceCheck(p, t, d, c) \in Nat
<1>1. Gap \in Nat \ {0} /\ MaxDelay \in Nat \ {0}
  BY LinkIOAssumption
<1>2. Gap - d \in Nat /\ Gap - 1 \in Nat /\ Gap + MaxDelay - 1 \in Nat
  BY <1>1
<1> QED BY <1>2 DEF SinceCheck

LEMMA SinceRange ==
  ASSUME LoopType, NEW c \in Conn PROVE Since(c) \in Nat /\ Since(c) <= Wait
BY LinkIOAssumption DEF LoopType, Since, SinceCheck, Wait

LEMMA TableExcept ==
  ASSUME NEW f, SoundTable(f), NEW c \in Conn, NEW l, Sound(l, Since(c))
  PROVE  SoundTable([f EXCEPT ![c] = l])
BY DEF SoundTable, Sound

(* Since does not fall: what was sound stays so.                           *)
LEMMA TableStep ==
  ASSUME LoopType, LoopType', SoundTable(link'),
         \A c \in Conn : Since(c) <= Since(c)'
  PROVE  Inv'
<1> SUFFICES \A c \in Conn : Sound(link[c], Since(c))'
  BY DEF Inv, SoundTable
<1> TAKE c \in Conn
<1>1. Since(c) \in Nat
  BY SinceRange
<1>2. Since(c)' \in Nat
  <2>1. due' \in 0..Gap
    BY DEF LoopType
  <2>2. Since(c)' = SinceCheck(phase', todo', due', c)
    BY DEF Since
  <2>3. SinceCheck(phase', todo', due', c) \in Nat
    BY <2>1, SinceCheckNat
  <2> QED BY <2>2, <2>3
<1>3. Sound(link'[c], Since(c))
  BY DEF SoundTable
<1>4. Sound(link'[c], Since(c)')
  BY <1>1, <1>2, <1>3, SoundLater
<1> QED BY <1>4 DEF Sound

LEMMA OutsidePing ==
  ASSUME phase # "ping", phase' # "ping", due' = due, LoopType
  PROVE  \A c \in Conn : Since(c) <= Since(c)'
BY SinceRange DEF Since, SinceCheck

LEMMA InitInv == Init => Inv
<1> SUFFICES ASSUME Init PROVE Inv
  OBVIOUS
<1>1. LoopType
  BY LinkIOAssumption DEF Init, LoopType, Phases
<1>2. \A c \in Conn : Since(c) \in Nat
  BY <1>1, SinceRange
<1>3. \A c \in Conn : Sound(link[c], Since(c))
  BY <1>2, FreeSound DEF Init
<1> QED BY <1>1, <1>3, FreeSound DEF Init, Inv, Sound

LEMMA PollInv == ASSUME Inv, Poll PROVE Inv'
<1>1. LoopType'
  BY DEF Inv, LoopType, Poll, Phases, Live
<1>2. SoundTable(link')
  BY DEF Inv, SoundTable, Poll
<1>3. \A c \in Conn : Since(c) <= Since(c)'
  BY OutsidePing DEF Inv, Poll
<1> QED BY <1>1, <1>2, <1>3, TableStep DEF Inv

LEMMA AddConnectionInv ==
  ASSUME Inv, NEW c \in Conn, AddConnection(c) PROVE Inv'
<1>1. LoopType'
  BY LinkIOAssumption DEF Inv, LoopType, AddConnection, Phases
<1>2. PICK k \in {"lookup", "unknown"} :
        link' = [link EXCEPT ![c] = [Free EXCEPT !.kind = k]]
  BY DEF AddConnection
<1> DEFINE l == [Free EXCEPT !.kind = k]
<1>3. Since(c) \in Nat
  BY SinceRange DEF Inv
<1>4. Sound(Free, Since(c))
  BY <1>3, FreeSound
<1>5. k \in Kinds \cup {"free"} /\ k \notin Registered
  BY DEF Kinds, Registered
<1>6. l \in Link
  BY <1>4, <1>5 DEF Sound, Link
<1>7. FlagsFit(l)
  BY <1>4 DEF Sound, FlagsFit, Free
<1>8. Times(l, Since(c))
  BY <1>3, <1>5, LinkIOAssumption
     DEF Times, RegisteredTimes, UnknownTimes, Free, Wait
<1>9. SoundTable([link EXCEPT ![c] = l])
  BY <1>6, <1>7, <1>8, TableExcept DEF Sound, Inv, SoundTable
<1>10. \A d \in Conn : Since(d) <= Since(d)'
  BY LinkIOAssumption DEF Inv, LoopType, AddConnection, Since, SinceCheck
<1> QED BY <1>1, <1>2, <1>9, <1>10, TableStep DEF Inv

LEMMA LookUpInv == ASSUME Inv, NEW c \in Conn, LookUp(c) PROVE Inv'
<1>1. LoopType'
  BY DEF Inv, LoopType, LookUp, loop
<1>2. PICK l \in {[link[c] EXCEPT !.idle = 0],
                  [link[c] EXCEPT !.kind = "unknown"],
                  [link[c] EXCEPT !.kind = "unknown", !.idle = 0]} :
        link' = [link EXCEPT ![c] = l]
  BY DEF LookUp
<1>3. /\ link[c] \in Link /\ FlagsFit(link[c]) /\ Times(link[c], Since(c))
      /\ link[c].kind = "lookup" /\ Since(c) \in Nat
  BY SinceRange DEF Inv, Sound, LookUp
<1>4. /\ "unknown" \in Kinds \cup {"free"} /\ 0 \in Nat
      /\ "lookup" \notin Registered /\ "unknown" \notin Registered
  BY DEF Kinds, Registered
<1>5. Sound(l, Since(c))
  <2>1. CASE l = [link[c] EXCEPT !.idle = 0]
    <3>1. l \in Link
      BY <1>3, <1>4, <2>1 DEF Link
    <3>2. FlagsFit(l)
      BY <1>3, <2>1 DEF Link, FlagsFit
    <3>3. Times(l, Since(c))
      BY <1>3, <1>4, <2>1 DEF Link, Times, RegisteredTimes, UnknownTimes
    <3> QED BY <3>1, <3>2, <3>3 DEF Sound
  <2>2. CASE l = [link[c] EXCEPT !.kind = "unknown"]
    <3>1. l \in Link
      BY <1>3, <1>4, <2>2 DEF Link
    <3>2. FlagsFit(l)
      BY <1>3, <2>2 DEF Link, FlagsFit
    <3>3. Times(l, Since(c))
      BY <1>3, <1>4, <2>2 DEF Link, Times, RegisteredTimes, UnknownTimes
    <3> QED BY <3>1, <3>2, <3>3 DEF Sound
  <2>3. CASE l = [link[c] EXCEPT !.kind = "unknown", !.idle = 0]
    <3>1. l \in Link
      BY <1>3, <1>4, <2>3 DEF Link
    <3>2. FlagsFit(l)
      BY <1>3, <2>3 DEF Link, FlagsFit
    <3>3. Times(l, Since(c))
      BY <1>3, <1>4, <2>3 DEF Link, Times, RegisteredTimes, UnknownTimes
    <3> QED BY <3>1, <3>2, <3>3 DEF Sound
  <2> QED BY <1>2, <2>1, <2>2, <2>3
<1>6. SoundTable([link EXCEPT ![c] = l])
  BY <1>5, TableExcept DEF Inv, SoundTable
<1>7. \A d \in Conn : Since(d) <= Since(d)'
  BY OutsidePing DEF Inv, LookUp
<1> QED BY <1>1, <1>2, <1>6, <1>7, TableStep DEF Inv

LEMMA StartVisitsInv == ASSUME Inv, StartVisits PROVE Inv'
<1>1. LoopType'
  BY DEF Inv, LoopType, StartVisits, loop, Phases, Visited, Live
<1>2. SoundTable(link')
  BY DEF Inv, SoundTable, StartVisits
<1>3. \A c \in Conn : Since(c) <= Since(c)'
  BY OutsidePing DEF Inv, StartVisits
<1> QED BY <1>1, <1>2, <1>3, TableStep DEF Inv

LEMMA InsidePass ==
  ASSUME Inv, SoundTable(link'), UNCHANGED <<loop, due>>,
         phase \notin {"ping"}, phase' \in Phases \ {"ping"},
         todo' \subseteq Conn, cur' \in Conn, batch' \in Nat
  PROVE  Inv'
<1>1. LoopType'
  BY DEF Inv, LoopType, loop
<1>2. \A c \in Conn : Since(c) <= Since(c)'
  BY OutsidePing DEF Inv, Phases
<1> QED BY <1>1, <1>2, TableStep DEF Inv

LEMMA InvTable ==
  ASSUME Inv PROVE SoundTable(link) /\ \A c \in Conn : Since(c) \in Nat
BY SinceRange DEF Inv, SoundTable

LEMMA GoesOnSound ==
  ASSUME Inv, NEW c \in Conn, NEW l \in GoesOn(c) PROVE Sound(l, Since(c))
BY InvTable, WriteFirstSound DEF GoesOn, SoundTable

LEMMA VisitNothingInv ==
  ASSUME Inv, NEW c \in Conn, VisitNothing(c) PROVE Inv'
<1>1. SoundTable(link')
  BY InvTable DEF VisitNothing
<1> QED BY <1>1, InsidePass
        DEF VisitNothing, Visiting, Inv, LoopType, Phases

LEMMA VisitFailsInv ==
  ASSUME Inv, NEW c \in Conn, VisitFails(c) PROVE Inv'
<1>1. SoundTable(link')
  BY InvTable, FreeSound, TableExcept DEF VisitFails, Leave
<1> QED BY <1>1, InsidePass
        DEF VisitFails, Leave, Visiting, Inv, LoopType, Phases

LEMMA VisitQuietInv ==
  ASSUME Inv, NEW c \in Conn, VisitQuiet(c) PROVE Inv'
<1>1. PICK l \in GoesOn(c) :
        /\ link' = [link EXCEPT ![c] = l]
        /\ Process(c, IF RecvQ(l) > 0 /\ l.kind # "server"
                      THEN "lines" ELSE "after", 0)
  BY DEF VisitQuiet
<1>2. SoundTable(link')
  BY <1>1, InvTable, GoesOnSound, TableExcept
<1>3. phase' \in Phases \ {"ping"} /\ cur' \in Conn /\ batch' \in Nat
  BY <1>1 DEF Process, Phases
<1> QED BY <1>2, <1>3, InsidePass DEF VisitQuiet, Visiting, Inv, LoopType

LEMMA VisitAgainInv ==
  ASSUME Inv, NEW c \in Conn, VisitAgain(c) PROVE Inv'
<1>1. PICK l \in GoesOn(c) : link' = [link EXCEPT ![c] = Heard(l)]
  BY DEF VisitAgain
<1>2. SoundTable(link')
  BY <1>1, InvTable, GoesOnSound, HeardSound, TableExcept
<1>3. phase' \in Phases \ {"ping"} /\ cur' \in Conn /\ batch' \in Nat
  BY DEF VisitAgain, Process, Phases
<1> QED BY <1>2, <1>3, InsidePass DEF VisitAgain, Visiting, Inv, LoopType

LEMMA VisitReadsInv ==
  ASSUME Inv, NEW c \in Conn, VisitReads(c) PROVE Inv'
<1>1. PICK l \in GoesOn(c), k \in 0..MaxRead, t \in 0..2 :
        \/ /\ link' = [link EXCEPT ![c] = Heard(l)]
           /\ Process(c, "packet", k)
        \/ /\ link' = [link EXCEPT ![c] = Arrived(Heard(l), k, t)]
           /\ Process(c, "lines", 0)
        \/ Leave(c)
  BY DEF VisitReads
<1>2. Since(c) \in Nat /\ k \in Nat
  BY InvTable
<1>3. Sound(Heard(l), Since(c)) /\ Sound(Free, Since(c))
  BY <1>2, GoesOnSound, HeardSound, FreeSound
<1>4. Heard(l).nonl = FALSE
  BY <1>2, GoesOnSound DEF Heard, Sound, Link
<1>5. Sound(Arrived(Heard(l), k, t), Since(c))
  BY <1>2, <1>3, <1>4, ArrivedSound
<1>6. SoundTable(link')
  BY <1>1, <1>3, <1>5, InvTable, TableExcept DEF Leave
<1>7. phase' \in Phases \ {"ping"} /\ cur' \in Conn /\ batch' \in Nat
  BY <1>1, <1>2 DEF VisitReads, Visiting, Process, Leave, Phases, Inv, LoopType
<1> QED BY <1>6, <1>7, InsidePass DEF VisitReads, Visiting, Inv, LoopType

(* What a command does to the table.                                       *)
(* What a command of c can do to the connections.                          *)
LEMMA EffectsAre ==
  ASSUME NEW f, NEW c, NEW g \in Effects(f, c)
  PROVE  \/ g = f
         \/ \E d \in Live(f) : \E l \in {Free} \cup SendBufToOne(f[d]) :
              g = [f EXCEPT ![d] = l]
         \/ f[c].kind = "unknown" /\ \E k \in Registered :
              g = [f EXCEPT ![c] = Registration(f[c], k)]
<1> DEFINE K == IF f[c].kind = "unknown" THEN Registered ELSE {}
           R == {[f EXCEPT ![c] = Registration(@, k)] : k \in K}
           S(d) == {[f EXCEPT ![d] = l] :
                      l \in {Free} \cup SendBufToOne(f[d])}
<1>1. \/ g = f \/ g \in R
      \/ \E d \in Live(f) : g \in S(d)
  BY DEF Effects
<1>2. CASE g \in R
  <2>1. PICK k \in K : g = [f EXCEPT ![c] = Registration(f[c], k)]
    BY <1>2
  <2> QED BY <2>1
<1>3. CASE \E d \in Live(f) : g \in S(d)
  BY <1>3
<1> QED BY <1>1, <1>2, <1>3

LEMMA ExecutesTable ==
  ASSUME Inv, NEW f, SoundTable(f), NEW c \in Conn, NEW n \in Nat,
         Executes(f, c, n)
  PROVE  /\ SoundTable(link') /\ batch' \in Nat
         /\ phase' \in {phase, "visit"}
<1>1. PICK g \in Effects(f, c) :
        \/ /\ link' = [g EXCEPT ![c] = Free] /\ batch' = 0
           /\ phase' = "visit"
        \/ link' = g /\ batch' = n /\ phase' = phase
  BY DEF Executes
<1>2. \A d \in Conn : Sound(Free, Since(d))
  BY InvTable, FreeSound
<1>3. SoundTable(g)
  <2>1. CASE g = f
    BY <2>1
  <2>2. ASSUME NEW d \in Live(f), NEW l \in {Free} \cup SendBufToOne(f[d]),
               g = [f EXCEPT ![d] = l]
        PROVE  SoundTable(g)
    <3>1. d \in Conn /\ Sound(f[d], Since(d)) /\ Since(d) \in Nat
      BY InvTable DEF Live, SoundTable
    <3>2. Sound(l, Since(d))
      BY <1>2, <3>1, SendBufToOneSound
    <3> QED BY <2>2, <3>1, <3>2, TableExcept
  <2>3. ASSUME NEW k \in Registered, f[c].kind = "unknown",
               g = [f EXCEPT ![c] = Registration(f[c], k)]
        PROVE  SoundTable(g)
    <3>1. Sound(Registration(f[c], k), Since(c))
      BY <2>3, InvTable, RegistrationSound DEF SoundTable
    <3> QED BY <2>3, <3>1, TableExcept
  <2>4. \/ g = f
        \/ \E d \in Live(f) : \E l \in {Free} \cup SendBufToOne(f[d]) :
             g = [f EXCEPT ![d] = l]
        \/ f[c].kind = "unknown" /\ \E k \in Registered :
             g = [f EXCEPT ![c] = Registration(f[c], k)]
    BY EffectsAre
  <2> QED BY <2>1, <2>2, <2>3, <2>4
<1>4. SoundTable([g EXCEPT ![c] = Free])
  BY <1>2, <1>3, TableExcept
<1> QED BY <1>1, <1>3, <1>4

LEMMA CommandInv == ASSUME Inv, Command PROVE Inv'
<1>1. PICK p \in Penalty :
        Executes([link EXCEPT ![cur].lines = @ - 1, ![cur].lag = @ + p], cur, 0)
  BY DEF Command
<1> DEFINE l == link[cur]
           m == [l EXCEPT !.lines = @ - 1, !.lag = @ + p]
           f == [link EXCEPT ![cur].lines = @ - 1, ![cur].lag = @ + p]
<1>2. /\ cur \in Conn /\ l \in Link /\ FlagsFit(l) /\ Times(l, Since(cur))
      /\ p \in Nat
  BY LinkIOAssumption DEF Inv, LoopType, Sound
<1>3. l.lines > 0 /\ ~l.nonl
  BY DEF Command, MoreInput
<1>4. l.lines - 1 \in Nat /\ l.lag + p \in Int
  BY <1>2, <1>3 DEF Link
<1>5. m \in Link
  BY <1>2, <1>4 DEF Link
<1>6. FlagsFit(m)
  BY <1>2, <1>3 DEF Link, FlagsFit
<1>7. Times(m, Since(cur))
  BY <1>2 DEF Link, Times, RegisteredTimes, UnknownTimes
<1>8. SoundTable([link EXCEPT ![cur] = m])
  BY <1>2, <1>5, <1>6, <1>7, InvTable, TableExcept DEF Sound
<1>9. f = [link EXCEPT ![cur] = m]
  BY <1>2 DEF Inv, Link
<1>10. SoundTable(link') /\ batch' \in Nat /\ phase' \in {phase, "visit"}
  BY <1>1, <1>2, <1>8, <1>9, ExecutesTable
<1> QED BY <1>10, InsidePass DEF Command, In, Phases, Inv, LoopType

LEMMA NoLineInv == ASSUME Inv, NoLine PROVE Inv'
<1> DEFINE l == link[cur]
           m == [l EXCEPT !.nonl = (l.tail < 2),
                          !.tail = IF l.tail < 2 THEN l.tail ELSE 0]
<1>1. cur \in Conn /\ l \in Link /\ FlagsFit(l) /\ Times(l, Since(cur))
  BY DEF Inv, LoopType, Sound
<1>2. l.lines = 0 /\ ~l.nonl
  BY DEF NoLine, MoreInput
<1>3. /\ (l.tail < 2) \in BOOLEAN
      /\ (IF l.tail < 2 THEN l.tail ELSE 0) \in 0..2
  BY <1>1 DEF Link
<1>4. m \in Link
  BY <1>1, <1>3 DEF Link
<1>5. FlagsFit(m)
  BY <1>1, <1>2 DEF Link, FlagsFit
<1>6. Times(m, Since(cur))
  BY <1>1 DEF Link, Times, RegisteredTimes, UnknownTimes
<1>7. SoundTable([link EXCEPT ![cur] = m])
  BY <1>1, <1>4, <1>5, <1>6, InvTable, TableExcept DEF Sound
<1>8. link' = [link EXCEPT ![cur] = m]
  BY <1>1 DEF NoLine, Inv, Link
<1> QED BY <1>7, <1>8, InsidePass DEF NoLine, In, Phases, Inv, LoopType

LEMMA BecameServerInv == ASSUME Inv, BecameServer PROVE Inv'
<1> DEFINE l == link[cur]
           m == [l EXCEPT !.lines = 0, !.tail = 0]
<1>1. cur \in Conn /\ l \in Link /\ FlagsFit(l) /\ Times(l, Since(cur))
  BY DEF Inv, LoopType, Sound
<1> 0 \in Nat /\ 0 \in 0..2
  OBVIOUS
<1>2. m \in Link /\ l.lines \in Nat
  BY <1>1 DEF Link
<1>3. FlagsFit(m)
  BY <1>1 DEF Link, FlagsFit
<1>4. Times(m, Since(cur))
  BY <1>1 DEF Link, Times, RegisteredTimes, UnknownTimes
<1>5. SoundTable([link EXCEPT ![cur] = m])
  BY <1>1, <1>2, <1>3, <1>4, InvTable, TableExcept DEF Sound
<1>6. link' = [link EXCEPT ![cur] = m]
  BY <1>1 DEF BecameServer, Inv, Link
<1> QED BY <1>2, <1>5, <1>6, InsidePass
        DEF BecameServer, In, Phases, Inv, LoopType

LEMMA ServerCommandInv == ASSUME Inv, ServerCommand PROVE Inv'
<1>1. cur \in Conn /\ batch - 1 \in Nat
  BY DEF Inv, LoopType, ServerCommand
<1>2. SoundTable(link') /\ batch' \in Nat /\ phase' \in {phase, "visit"}
  BY <1>1, InvTable, ExecutesTable DEF ServerCommand
<1> QED BY <1>2, InsidePass DEF ServerCommand, In, Phases, Inv, LoopType

LEMMA EndOfInputInv == ASSUME Inv, EndOfInput PROVE Inv'
<1>1. SoundTable(link')
  BY InvTable DEF EndOfInput
<1> QED BY <1>1, InsidePass DEF EndOfInput, Phases, Inv, LoopType

LEMMA FlushVisitedInv == ASSUME Inv, FlushVisited PROVE Inv'
<1>1. PICK l \in SendQueued(link[cur]) :
        link' = [link EXCEPT ![cur] = IF l.dead THEN Free ELSE l]
  BY DEF FlushVisited
<1>2. /\ cur \in Conn /\ Sound(link[cur], Since(cur))
      /\ Since(cur) \in Nat
  BY InvTable DEF Inv, LoopType
<1>3. Sound(l, Since(cur)) /\ Sound(Free, Since(cur))
  BY <1>2, SendQueuedSound, FreeSound DEF Sound, FlagsFit
<1>4. SoundTable(link')
  BY <1>1, <1>2, <1>3, InvTable, TableExcept
<1> QED BY <1>4, InsidePass DEF FlushVisited, In, Phases, Inv, LoopType

LEMMA TickInv == ASSUME Inv, NEW k \in 0..MaxDelay, Tick(k) PROVE Inv'
<1>1. /\ k \in Nat /\ Gap \in Nat \ {0} /\ MaxDelay \in Nat \ {0}
      /\ due \in 0..Gap /\ phase = "visit" /\ Live(link) \subseteq Conn
  BY LinkIOAssumption DEF Inv, LoopType, Tick, Live
<1>2. LoopType'
  <2>1. due' \in 0..Gap /\ (phase' = "ping" => due' = Gap)
    BY <1>1 DEF Tick
  <2> QED BY <1>1, <2>1 DEF Inv, LoopType, Tick, loop, Phases
<1>3. link' = [c \in Conn |-> Later(link[c], k)]
  BY DEF Tick
<1>4. \A c \in Conn : Sound(link[c], Since(c)) /\ Since(c) \in Nat
  BY InvTable DEF Inv
<1>5. \A c \in Conn : Sound(link'[c], Since(c) + k)
  BY <1>1, <1>3, <1>4, LaterSound
<1>6. \A c \in Conn : Since(c)' \in Nat
  <2> TAKE c \in Conn
  <2>1. due' \in 0..Gap
    BY <1>2 DEF LoopType
  <2> QED BY <2>1, SinceCheckNat DEF Since
<1>7. \A c \in Conn : Sound(link'[c], Since(c)')
  <2> TAKE c \in Conn
  <2>1. CASE c \in Live(link)
    <3>1. Since(c) + k <= Since(c)'
      BY <1>1, <2>1 DEF Tick, Since, SinceCheck
    <3> QED BY <1>1, <1>4, <1>5, <1>6, <3>1, SoundLater
  <2>2. CASE c \notin Live(link)
    <3>1. link[c].kind = "free"
      BY <2>2 DEF Live
    <3>2. link'[c] = link[c]
      BY <1>3, <3>1 DEF Later
    <3>3. Sound(link[c], 0)
      BY <1>4, <3>1, LinkIOAssumption
         DEF Sound, Times, RegisteredTimes, UnknownTimes, Registered, Wait
    <3> QED BY <1>6, <3>2, <3>3, SoundLater
  <2> QED BY <2>1, <2>2
<1> QED BY <1>2, <1>3, <1>7 DEF Inv, Sound

LEMMA CheckPingInv ==
  ASSUME Inv, NEW c \in Conn, CheckPing(c) PROVE Inv'
<1>1. LoopType'
  BY DEF Inv, LoopType, CheckPing, loop
<1>2. /\ Since(c) = Wait /\ Since(c)' = 0
      /\ \A d \in Conn \ {c} : Since(d)' = Since(d)
  <2>1. due = Gap /\ Gap \in Nat \ {0} /\ phase = "ping" /\ phase' = "ping"
    BY LinkIOAssumption DEF Inv, LoopType, CheckPing
  <2>2. c \in todo /\ todo' = todo \ {c} /\ due' = due
    BY DEF CheckPing
  <2> QED BY <2>1, <2>2 DEF Since, SinceCheck, Wait
<1>3. PICK l : Sound(l, 0) /\ link' = [link EXCEPT ![c] = l]
  <2>1. CASE link[c].kind = "free"
    <3>1. Sound(link[c], 0)
      BY <2>1, LinkIOAssumption DEF Inv, Sound, Times, RegisteredTimes,
         UnknownTimes, Registered, Wait
    <3>2. link' = [link EXCEPT ![c] = link[c]]
      BY <2>1 DEF CheckPing, Inv
    <3> QED BY <3>1, <3>2
  <2>2. CASE link[c].kind # "free"
    <3>1. PICK l \in Checked(link[c]) : link' = [link EXCEPT ![c] = l]
      BY <2>2 DEF CheckPing
    <3> QED BY <1>2, <2>2, <3>1, CheckedSound DEF Inv
  <2> QED BY <2>1, <2>2
<1>4. \A d \in Conn : Sound(link'[d], Since(d)')
  BY <1>2, <1>3 DEF Inv
<1>5. link' \in [Conn -> Link]
  BY <1>3 DEF Inv, Sound
<1> QED BY <1>1, <1>4, <1>5 DEF Inv, Sound

LEMMA PingsCheckedInv == ASSUME Inv, PingsChecked PROVE Inv'
<1>1. LoopType'
  BY DEF Inv, LoopType, PingsChecked, loop, Phases, Live
<1>2. SoundTable(link')
  BY InvTable DEF PingsChecked
<1>3. \A c \in Conn : Since(c) <= Since(c)'
  BY LinkIOAssumption DEF Inv, LoopType, PingsChecked, Since, SinceCheck
<1> QED BY <1>1, <1>2, <1>3, TableStep DEF Inv

LEMMA FlushConnectionInv ==
  ASSUME Inv, NEW c \in Conn, FlushConnection(c) PROVE Inv'
<1>1. PICK l \in SendQueued(link[c]) : link' = [link EXCEPT ![c] = l]
  BY DEF FlushConnection
<1>2. Sound(link[c], Since(c)) /\ Since(c) \in Nat
  BY InvTable DEF Inv
<1>3. Sound(l, Since(c))
  BY <1>2, SendQueuedSound DEF Sound, FlagsFit
<1>4. SoundTable(link')
  BY <1>1, <1>3, InvTable, TableExcept
<1> QED BY <1>4, InsidePass DEF FlushConnection, Phases, Inv, LoopType

LEMMA EndOfPassInv == ASSUME Inv, EndOfPass PROVE Inv'
<1>1. SoundTable(link')
  BY InvTable DEF EndOfPass
<1> QED BY <1>1, InsidePass DEF EndOfPass, Phases, Inv, LoopType

LEMMA OtherWorkInv ==
  ASSUME Inv, NEW c \in Conn, OtherWork(c) PROVE Inv'
<1>1. PICK l \in SendBufToOne(link[c]) \cup {Free} :
        link' = [link EXCEPT ![c] = l]
  BY DEF OtherWork
<1>2. Sound(link[c], Since(c)) /\ Since(c) \in Nat
  BY InvTable DEF Inv
<1>3. Sound(l, Since(c))
  BY <1>1, <1>2, SendBufToOneSound, FreeSound
<1>4. SoundTable(link')
  BY <1>1, <1>3, InvTable, TableExcept
<1>5. LoopType' /\ \A d \in Conn : Since(d) <= Since(d)'
  BY InvTable DEF Inv, LoopType, OtherWork, loop, Since
<1> QED BY <1>4, <1>5, TableStep DEF Inv

LEMMA NextInv == Inv /\ [Next]_vars => Inv'
<1> SUFFICES ASSUME Inv, [Next]_vars PROVE Inv'
  OBVIOUS
<1>1. CASE UNCHANGED vars
  BY <1>1 DEF vars, Inv, LoopType, Since, SinceCheck, Sound
<1>2. CASE \E c \in Conn : AddConnection(c) \/ LookUp(c) \/ OtherWork(c)
  BY <1>2, AddConnectionInv, LookUpInv, OtherWorkInv
<1>3. CASE LoopStep
  <2>1. CASE Poll \/ StartVisits
    BY <2>1, PollInv, StartVisitsInv
  <2>2. CASE \E c \in Conn : \/ VisitNothing(c) \/ VisitFails(c)
                             \/ VisitQuiet(c) \/ VisitAgain(c)
                             \/ VisitReads(c)
    BY <2>2, VisitNothingInv, VisitFailsInv, VisitQuietInv, VisitAgainInv,
       VisitReadsInv
  <2>3. CASE \E c \in Conn : CheckPing(c) \/ FlushConnection(c)
    BY <2>3, CheckPingInv, FlushConnectionInv
  <2>4. CASE Command \/ NoLine \/ BecameServer \/ ServerCommand
    BY <2>4, CommandInv, NoLineInv, BecameServerInv, ServerCommandInv
  <2>5. CASE EndOfInput \/ FlushVisited
    BY <2>5, EndOfInputInv, FlushVisitedInv
  <2>6. CASE \E k \in 0..MaxDelay : Tick(k)
    BY <2>6, TickInv
  <2>7. CASE PingsChecked \/ EndOfPass
    BY <2>7, PingsCheckedInv, EndOfPassInv
  <2> QED BY <1>3, <2>1, <2>2, <2>3, <2>4, <2>5, <2>6, <2>7 DEF LoopStep
<1> QED BY <1>1, <1>2, <1>3 DEF Next

(***************************************************************************)
(* The theorems.                                                           *)
(***************************************************************************)

(* The invariant that all of the following rest on.                        *)
THEOREM Invariant == Spec => []Inv
BY InitInv, NextInv, PTL DEF Spec

(* What the loop keeps for its connections always has its type.            *)
THEOREM Typed == Spec => []TypeOK
<1>1. Inv => TypeOK
  BY LinkIOAssumption DEF Inv, LoopType, TypeOK
<1> QED BY <1>1, Invariant, PTL

(* A connection that send_queued has blocked has a sendQ, so that it is    *)
(* polled for output.                                                      *)
THEOREM BlockedOnesArePolled == Spec => []BlockedHasQueue
<1>1. Inv => BlockedHasQueue
  BY DEF Inv, Sound, FlagsFit, BlockedHasQueue, Alive
<1> QED BY <1>1, Invariant, PTL

(* sendbufto_one tries the sendQ of a connection that is not blocked each  *)
(* time it has grown by the 1024 bytes that lastsq counts.                 *)
THEOREM QueueTriedAsItGrows == Spec => []GrowthIsTried
<1>1. Inv => GrowthIsTried
  BY DEF Inv, Sound, FlagsFit, GrowthIsTried, Alive
<1> QED BY <1>1, Invariant, PTL

(* No complete line waits behind FLAGS_NONL.                               *)
THEOREM NoLineWaits == Spec => []NoLineStuck
<1>1. Inv => NoLineStuck
  BY DEF Inv, Sound, FlagsFit, NoLineStuck
<1> QED BY <1>1, Invariant, PTL

(* check_pings removes a registered peer that says nothing in the time of  *)
(* two pings and two waits for check_pings.                                *)
THEOREM SilentPeersGo == Spec => []SilentGone
<1>1. ASSUME Inv, NEW c \in Conn, link[c].kind \in Registered
      PROVE  link[c].heard <= 2 * (Ping + Gap + MaxDelay - 2)
  <2> DEFINE l == link[c]
  <2>1. /\ l \in Link /\ RegisteredTimes(l, Since(c))
        /\ Since(c) \in Nat /\ Since(c) <= Wait
    BY <1>1, SinceRange DEF Inv, Sound, Times
  <2>2. l.heard \in Nat /\ l.asked \in Nat /\ l.pinged \in BOOLEAN
    BY <2>1 DEF Link
  <2>3. Ping \in Nat \ {0} /\ Gap \in Nat \ {0} /\ MaxDelay \in Nat \ {0}
    BY LinkIOAssumption
  <2>4. CASE ~l.pinged
    BY <1>1, <2>1, <2>2, <2>3, <2>4 DEF RegisteredTimes, Wait
  <2>5. CASE l.pinged
    BY <1>1, <2>1, <2>2, <2>3, <2>5 DEF RegisteredTimes, Wait
  <2> QED BY <2>2, <2>4, <2>5
<1>2. Inv => SilentGone
  BY <1>1 DEF SilentGone
<1> QED BY <1>2, Invariant, PTL

(* No connection stays unregistered for longer than check_pings allows,    *)
(* even if a look-up that is given up starts its time again.               *)
THEOREM UnknownOnesGo == Spec => []UnknownGone
<1>1. ASSUME Inv, NEW c \in Conn
      PROVE  link[c].open <= 2 * (MaxUnknown + Gap + MaxDelay)
  <2>1. /\ link[c] \in Link /\ Times(link[c], Since(c))
        /\ Since(c) \in Nat /\ Since(c) <= Wait
    BY <1>1, SinceRange DEF Inv, Sound
  <2> QED BY <2>1, LinkIOAssumption DEF Times, UnknownTimes, Link, Wait
<1>2. Inv => UnknownGone
  BY <1>1 DEF UnknownGone
<1> QED BY <1>2, Invariant, PTL

(* A connection that dead_link has marked is closed by the next            *)
(* check_pings at the latest.                                              *)
THEOREM DeadOnesGo == Spec => []DeadGone
<1>1. ASSUME Inv, NEW c \in Conn PROVE link[c].corpse < Gap + MaxDelay
  <2>1. /\ link[c] \in Link /\ link[c].corpse <= Since(c)
        /\ Since(c) \in Nat /\ Since(c) <= Wait
    BY <1>1, SinceRange DEF Inv, Sound, Times
  <2> QED BY <2>1, LinkIOAssumption DEF Link, Wait
<1>2. Inv => DeadGone
  BY <1>1 DEF DeadGone
<1> QED BY <1>2, Invariant, PTL

(* What is queued is never forgotten: blocked connections are polled for   *)
(* output, and others are tried as their sendQ grows.                      *)
THEOREM QueuedIsTried == Spec => []BlockedTried
<1>1. BlockedHasQueue /\ GrowthIsTried => BlockedTried
  BY DEF BlockedTried
<1> QED BY <1>1, BlockedOnesArePolled, QueueTriedAsItGrows, PTL

(* Silent, unregistered and dead connections are closed in bounded time.   *)
THEOREM GoneOnesGo == Spec => []GoneInTime
<1>1. SilentGone /\ UnknownGone /\ DeadGone => GoneInTime
  BY DEF GoneInTime
<1> QED BY <1>1, SilentPeersGo, UnknownOnesGo, DeadOnesGo, PTL

(* What TimeoutIsSilence says of one connection.                           *)
Unanswered(c) ==
  /\ phase = "ping" /\ c \in todo \ todo'
  /\ Alive(c) /\ link[c].kind \in Registered /\ link'[c].kind = "free"
  => link[c].pinged /\ link[c].asked >= Ping

(* Nobody who has answered, or who has not been given a whole ping time to *)
(* answer, is removed for a ping timeout.                                  *)
THEOREM TimeoutsAreSilence == Spec => TimeoutIsSilence
<1>1. ASSUME Inv, Next, NEW c \in Conn,
             phase = "ping", c \in todo, c \notin todo'
      PROVE  CheckPing(c)
  <2>1. ASSUME NEW d \in Conn, CheckPing(d) PROVE d = c
    BY <1>1, <2>1 DEF CheckPing
  <2> QED BY <1>1, <2>1
          DEF Next, LoopStep, Poll, StartVisits, VisitNothing, VisitFails,
              VisitQuiet, VisitAgain, VisitReads, Visiting, FlushConnection,
              Command, NoLine, BecameServer, ServerCommand, In, EndOfInput,
              FlushVisited, Tick, PingsChecked, EndOfPass, AddConnection,
              LookUp, OtherWork
<1>2. ASSUME NEW l, l \in Link, RegisteredTimes(l, Wait), ~l.dead,
             l.kind \in Registered, NEW m \in Checked(l), m.kind = "free"
      PROVE  l.pinged /\ l.asked >= Ping
  <2>1. l.kind # "free" /\ l.kind # "lookup" /\ PingOf(l) = Ping
        /\ ~TooLongUnknown(l)
    BY <1>2 DEF Registered, PingOf, TooLongUnknown
  <2>2. CASE Overdue(l)
    BY <1>2, <2>1, <2>2, LinkIOAssumption
       DEF Overdue, RegisteredTimes, Link
  <2>3. CASE ~Overdue(l) /\ l.idle >= Ping /\ ~l.pinged
    <3> DEFINE p == [l EXCEPT !.pinged = TRUE, !.idle = Ping]
               q == [p EXCEPT !.sendQ = @ + 1]
    <3>1. m \in SendBufToOne(p)
      BY <1>2, <2>1, <2>3 DEF Checked, PingSent
    <3>2. p.kind = l.kind /\ q.kind = l.kind /\ DeadLink(p).kind = l.kind
      BY <1>2 DEF Link, DeadLink
    <3>3. \A r \in SendQueued(q) : r.kind = l.kind
      BY <1>2, <3>2 DEF SendQueued, DeadLink, Written, Link
    <3>4. m.kind = l.kind
      BY <3>1, <3>2, <3>3 DEF SendBufToOne
    <3> QED BY <1>2, <2>1, <3>4
  <2>4. CASE ~Overdue(l) /\ ~(l.idle >= Ping /\ ~l.pinged)
    BY <1>2, <2>1, <2>4 DEF Checked
  <2> QED BY <2>2, <2>3, <2>4
<1>3. ASSUME Inv, [Next]_vars, NEW c \in Conn PROVE Unanswered(c)
  <2> SUFFICES ASSUME phase = "ping", c \in todo \ todo', Alive(c),
                      link[c].kind \in Registered, link'[c].kind = "free"
               PROVE  link[c].pinged /\ link[c].asked >= Ping
    BY DEF Unanswered
  <2>1. CheckPing(c)
    BY <1>1, <1>3 DEF vars
  <2>2. PICK l \in Checked(link[c]) : link' = [link EXCEPT ![c] = l]
    BY <2>1 DEF CheckPing, Alive
  <2>3. l.kind = "free"
    BY <1>3, <2>2 DEF Inv
  <2>4. Since(c) = Wait
    BY DEF Since, SinceCheck, Wait
  <2>5. link[c] \in Link /\ RegisteredTimes(link[c], Wait)
    BY <1>3, <2>4 DEF Inv, Sound, Times
  <2> QED BY <1>2, <2>2, <2>3, <2>5 DEF Alive
<1>4. Inv /\ [Next]_vars => [\A c \in Conn : Unanswered(c)]_vars
  BY <1>3
<1> QED BY <1>4, Invariant, PTL DEF Spec, TimeoutIsSilence, Unanswered

(***************************************************************************)
(* read_message for select serves every connection: from the start of a    *)
(* pass, one that is left with a line it could execute is still to be      *)
(* visited, or is the one whose lines are being executed.                  *)
(***************************************************************************)
InPass == {"visit", "lines", "packet", "after"}
Waiting(c) == c \in todo \/ (phase = "lines" /\ c = cur)
Served ==
  /\ phase = "packet" => link[cur].kind = "server"
  /\ build = "select" /\ phase \in InPass =>
       \A c \in Conn : Waiting(c) \/ ~Unserved(link[c])

(* Sending leaves the recvQ alone, or empties it.                          *)
LEMMA SendQueuedKeeps ==
  ASSUME NEW l \in Link, NEW m \in SendQueued(l)
  PROVE  m.kind = l.kind /\ (Unserved(m) => Unserved(l))
<1>1. CASE m = l
  BY <1>1
<1>2. CASE m = DeadLink(l)
  BY <1>2 DEF DeadLink, Link, Unserved
<1>3. ASSUME NEW n \in 0..l.sendQ, m = Written(l, n)
      PROVE  m.kind = l.kind /\ (Unserved(m) => Unserved(l))
  BY <1>3 DEF Written, Link, Unserved, MoreInput, RecvQ
<1> QED
  BY <1>1, <1>2, <1>3 DEF SendQueued

LEMMA SendBufKeeps ==
  ASSUME NEW l \in Link, NEW m \in SendBufToOne(l)
  PROVE  m.kind = l.kind /\ (Unserved(m) => Unserved(l))
<1> DEFINE queued == [l EXCEPT !.sendQ = @ + 1]
<1>1. queued \in Link /\ queued.kind = l.kind /\ (Unserved(queued) => Unserved(l))
  BY DEF Link, Unserved, MoreInput, RecvQ
<1>2. m \in {l, DeadLink(l), queued} \cup SendQueued(queued)
  BY DEF SendBufToOne
<1> HIDE DEF queued
<1>3. CASE m = DeadLink(l)
  BY <1>3 DEF DeadLink, Link, Unserved
<1> QED
  BY <1>1, <1>2, <1>3, SendQueuedKeeps

(* A command of c leaves nobody else with more to do.                      *)
LEMMA ExecutesServes ==
  ASSUME NEW f, f \in [Conn -> Link], NEW c \in Conn, NEW n, Executes(f, c, n)
  PROVE  /\ \A d \in Conn : d # c /\ Unserved(link'[d]) => Unserved(f[d])
         /\ \/ phase' = "visit" /\ ~Unserved(link'[c])
            \/ phase' = phase /\ (f[c].kind = "server" => link'[c].kind = "server")
<1>1. ~Unserved(Free) /\ Free \in Link
  BY DEF Free, Unserved, Link, Kinds
<1>2. PICK g \in Effects(f, c) :
        \/ link' = [g EXCEPT ![c] = Free] /\ phase' = "visit"
        \/ link' = g /\ phase' = phase /\ g[c].kind # "free"
  BY DEF Executes
<1> DEFINE Fine == /\ DOMAIN g = Conn
                   /\ \A d \in Conn : d # c /\ Unserved(g[d]) => Unserved(f[d])
                   /\ g[c].kind # "free" /\ f[c].kind = "server" => g[c].kind = "server"
<1>3. Fine
  <2>1. CASE g = f
    BY <2>1
  <2>2. ASSUME NEW d \in Live(f), NEW l \in {Free} \cup SendBufToOne(f[d]),
               g = [f EXCEPT ![d] = l]
        PROVE  Fine
    <3>1. d \in Conn /\ f[d] \in Link
      BY DEF Live
    <3>2. CASE l = Free
      <4>1. Free.kind = "free"
        BY DEF Free
      <4> QED
        BY <1>1, <2>2, <3>1, <3>2, <4>1
    <3>3. CASE l \in SendBufToOne(f[d])
      <4>1. (Unserved(l) => Unserved(f[d])) /\ l.kind = f[d].kind
        BY <3>1, <3>3, SendBufKeeps
      <4> QED
        BY <2>2, <3>1, <4>1
    <3> QED
      BY <3>2, <3>3
  <2>3. ASSUME NEW k \in Registered, f[c].kind = "unknown",
               g = [f EXCEPT ![c] = Registration(f[c], k)]
        PROVE  Fine
    <3>1. /\ DOMAIN g = Conn /\ f[c].kind # "server"
          /\ \A d \in Conn : d # c => g[d] = f[d]
      BY <2>3
    <3> QED
      BY <3>1
  <2>4. \/ g = f
        \/ \E d \in Live(f) : \E l \in {Free} \cup SendBufToOne(f[d]) :
             g = [f EXCEPT ![d] = l]
        \/ f[c].kind = "unknown" /\ \E k \in Registered :
             g = [f EXCEPT ![c] = Registration(f[c], k)]
    BY ONLY g \in Effects(f, c), EffectsAre
  <2> HIDE DEF Fine
  <2> QED
    BY <2>1, <2>2, <2>3, <2>4
<1> QED
  BY <1>1, <1>2, <1>3

LEMMA ServedOutside ==
  ASSUME phase' \notin InPass PROVE Served'
BY DEF Served, InPass

(* A step of the pass that takes only c off todo.                          *)
LEMMA ServedVisit ==
  ASSUME Served, Inv, NEW c \in Conn, phase = "visit", todo' = todo \ {c},
         build' = build, \A d \in Conn : d # c => link'[d] = link[d],
         phase' \in InPass,
         \/ phase' = "lines" /\ cur' = c
         \/ ~Unserved(link'[c]),
         phase' = "packet" => cur' = c /\ link'[c].kind = "server"
  PROVE  Served'
BY DEF Served, InPass, Waiting

LEMMA NextServed == Inv /\ Served /\ [Next]_vars => Served'
<1> SUFFICES ASSUME Inv, Served, [Next]_vars PROVE Served'
  OBVIOUS
<1>1. /\ link \in [Conn -> Link] /\ cur \in Conn
      /\ ~Unserved(Free) /\ Free \in Link
  BY DEF Inv, LoopType, Free, Unserved, Link, Kinds
<1>2. CASE UNCHANGED vars
  BY <1>2 DEF vars, Served, Waiting, InPass
<1>3. ASSUME NEW c \in Conn, AddConnection(c) \/ LookUp(c) PROVE Served'
  BY <1>3, ServedOutside DEF AddConnection, LookUp, InPass
<1>4. ASSUME NEW c \in Conn, OtherWork(c) PROVE Served'
  <2>1. PICK l \in SendBufToOne(link[c]) \cup {Free} : link' = [link EXCEPT ![c] = l]
    BY <1>4 DEF OtherWork
  <2>2. Unserved(l) => Unserved(link[c])
    BY <1>1, SendBufKeeps
  <2>3. \A d \in Conn : Unserved(link'[d]) => Unserved(link[d])
    BY <1>1, <2>1, <2>2
  <2>4. UNCHANGED <<build, phase, todo, cur>> /\ phase # "packet"
    BY <1>4 DEF OtherWork, loop
  <2> QED
    BY <2>3, <2>4 DEF Served, Waiting, InPass
<1>5. CASE Poll
  BY <1>5, ServedOutside DEF Poll, InPass
<1>6. CASE StartVisits
  <2>1. build' = build /\ link' = link /\ phase' = "visit" /\ todo' = Visited
    BY <1>6 DEF StartVisits, loop
  <2>2. \A c \in Conn : build = "select" => c \in todo' \/ ~Unserved(link[c])
    BY <2>1 DEF Visited, Live, Unserved
  <2> QED
    BY <2>1, <2>2 DEF Served, Waiting
<1>7. ASSUME NEW c \in Conn, VisitNothing(c) PROVE Served'
  <2>1. ~Unserved(link[c])
    BY <1>7 DEF VisitNothing, Polled, Unserved
  <2> QED
    BY <1>7, <2>1, ServedVisit DEF VisitNothing, Visiting, loop, InPass
<1>8. ASSUME NEW c \in Conn, VisitFails(c) PROVE Served'
  <2>1. link' = [link EXCEPT ![c] = Free] /\ phase' = phase
    BY <1>8 DEF VisitFails, Leave
  <2>2. link'[c] = Free /\ \A d \in Conn : d # c => link'[d] = link[d]
    BY <1>1, <2>1
  <2> QED
    BY <1>1, <1>8, <2>1, <2>2, ServedVisit DEF VisitFails, Visiting, loop, InPass
<1>9. ASSUME NEW c \in Conn, VisitQuiet(c) PROVE Served'
  <2>1. PICK l \in GoesOn(c) :
          /\ link' = [link EXCEPT ![c] = l]
          /\ Process(c, IF RecvQ(l) > 0 /\ l.kind # "server" THEN "lines" ELSE "after", 0)
    BY <1>9 DEF VisitQuiet
  <2>2. link'[c] = l /\ \A d \in Conn : d # c => link'[d] = link[d]
    BY <1>1, <2>1
  <2>3. \/ phase' = "lines" /\ cur' = c
        \/ phase' = "after" /\ ~Unserved(l)
    BY <2>1 DEF Process, Unserved, MoreInput
  <2> QED
    BY <1>9, <2>2, <2>3, ServedVisit DEF VisitQuiet, Visiting, loop, InPass
<1>10. ASSUME NEW c \in Conn, VisitAgain(c) PROVE Served'
  <2>1. PICK l \in GoesOn(c) : link' = [link EXCEPT ![c] = Heard(l)]
    BY <1>10 DEF VisitAgain
  <2>2. link'[c] = Heard(l) /\ \A d \in Conn : d # c => link'[d] = link[d]
    BY <1>1, <2>1
  <2>3. ~Unserved(Heard(l))
    BY GoesOnSound DEF Sound, Heard, Link, Unserved
  <2> QED
    BY <1>10, <2>2, <2>3, ServedVisit DEF VisitAgain, Visiting, Process, loop, InPass
<1>11. ASSUME NEW c \in Conn, VisitReads(c) PROVE Served'
  <2>1. PICK l \in GoesOn(c) :
          \/ /\ l.kind = "server" /\ link' = [link EXCEPT ![c] = Heard(l)]
             /\ phase' = "packet" /\ cur' = c
          \/ /\ \A d \in Conn : d # c => link'[d] = link[d]
             /\ phase' = "lines" /\ cur' = c
          \/ link' = [link EXCEPT ![c] = Free] /\ phase' = "visit"
    BY <1>1, <1>11 DEF VisitReads, Visiting, Process, Leave
  <2>2. \A d \in Conn : d # c => link'[d] = link[d]
    BY <1>1, <2>1
  <2>3. \/ phase' = "packet" /\ cur' = c /\ link'[c].kind = "server"
        \/ phase' = "lines" /\ cur' = c
        \/ phase' = "visit" /\ link'[c] = Free
    <3>1. l \in Link
      BY GoesOnSound DEF Sound
    <3>2. Heard(l).kind = l.kind
      BY <3>1 DEF Heard, Link
    <3> QED
      BY <1>1, <2>1, <3>2
  <2>4. \/ phase' = "lines" /\ cur' = c
        \/ ~Unserved(link'[c])
    BY <1>1, <2>3 DEF Unserved
  <2>5. phase = "visit" /\ todo' = todo \ {c} /\ build' = build
    BY <1>11 DEF VisitReads, Visiting, loop
  <2>6. phase' \in InPass /\ (phase' = "packet" => cur' = c /\ link'[c].kind = "server")
    BY <2>3 DEF InPass
  <2> QED
    BY <2>2, <2>4, <2>5, <2>6, ServedVisit
<1>12. ASSUME NEW c \in Conn, CheckPing(c) \/ FlushConnection(c) PROVE Served'
  BY <1>12, ServedOutside DEF CheckPing, FlushConnection, InPass
<1>13. CASE Command
  <2>1. PICK p \in Penalty :
          Executes([link EXCEPT ![cur].lines = @ - 1, ![cur].lag = @ + p], cur, 0)
    BY <1>13 DEF Command
  <2> DEFINE f == [link EXCEPT ![cur].lines = @ - 1, ![cur].lag = @ + p]
  <2>2. f \in [Conn -> Link] /\ \A d \in Conn : d # cur => f[d] = link[d]
    <3> DEFINE m == [link[cur] EXCEPT !.lines = @ - 1, !.lag = @ + p]
    <3>1. p \in Nat /\ link[cur].lines - 1 \in Nat /\ link[cur].lag + p \in Int
      BY <1>1, <1>13, LinkIOAssumption DEF Command, Link
    <3>2. m \in Link
      BY <1>1, <3>1 DEF Link
    <3>3. f = [link EXCEPT ![cur] = m]
      BY <1>1
    <3> QED
      BY <1>1, <3>2, <3>3
  <2>3. phase = "lines" /\ UNCHANGED <<build, todo, cur>>
    BY <1>13 DEF Command, In, loop
  <2>4. /\ \A d \in Conn : d # cur /\ Unserved(link'[d]) => Unserved(link[d])
        /\ \/ phase' = "visit" /\ ~Unserved(link'[cur])
           \/ phase' = "lines"
    BY <1>1, <2>1, <2>2, <2>3, ExecutesServes
  <2> QED
    BY <2>3, <2>4 DEF Served, InPass, Waiting
<1>14. CASE NoLine
  <2>1. phase = "lines" /\ UNCHANGED <<build, todo, cur, phase>>
    BY <1>14 DEF NoLine, In, loop
  <2>2. \A d \in Conn : d # cur => link'[d] = link[d]
    BY <1>1, <1>14 DEF NoLine
  <2> QED
    BY <2>1, <2>2 DEF Served, InPass, Waiting
<1>15. CASE BecameServer
  <2>1. phase = "lines" /\ phase' = "packet" /\ UNCHANGED <<build, todo, cur>>
    BY <1>15 DEF BecameServer, In, loop
  <2>2. \A d \in Conn : d # cur => link'[d] = link[d]
    BY <1>1, <1>15 DEF BecameServer
  <2>3. link'[cur].kind = "server"
    BY <1>1, <1>15 DEF BecameServer, Link
  <2> QED
    BY <1>1, <2>1, <2>2, <2>3 DEF Served, InPass, Waiting, Unserved
<1>16. CASE ServerCommand
  <2>1. phase = "packet" /\ UNCHANGED <<build, todo, cur>> /\ Executes(link, cur, batch - 1)
    BY <1>16 DEF ServerCommand, In, loop
  <2>2. /\ \A d \in Conn : d # cur /\ Unserved(link'[d]) => Unserved(link[d])
        /\ \/ phase' = "visit" /\ ~Unserved(link'[cur])
           \/ phase' = "packet" /\ link'[cur].kind = "server"
    BY <1>1, <2>1, ExecutesServes DEF Served
  <2> QED
    BY <1>1, <2>1, <2>2 DEF Served, InPass, Waiting, Unserved
<1>17. CASE EndOfInput
  <2>1. /\ phase \in {"lines", "packet"} /\ phase' = "after"
        /\ phase = "lines" => ~MoreInput(link[cur])
        /\ UNCHANGED <<build, todo, cur, link>>
    BY <1>17 DEF EndOfInput, loop
  <2> QED
    BY <2>1 DEF Served, InPass, Waiting, Unserved
<1>18. CASE FlushVisited
  <2>1. PICK l \in SendQueued(link[cur]) :
          link' = [link EXCEPT ![cur] = IF l.dead THEN Free ELSE l]
    BY <1>18 DEF FlushVisited
  <2>2. \A d \in Conn : Unserved(link'[d]) => Unserved(link[d])
    <3>1. (Unserved(l) => Unserved(link[cur])) /\ link'[cur] \in {Free, l}
      BY <1>1, <2>1, SendQueuedKeeps
    <3>2. \A d \in Conn : d # cur => link'[d] = link[d]
      BY <1>1, <2>1
    <3> QED
      BY <1>1, <3>1, <3>2
  <2>3. phase = "after" /\ phase' = "visit" /\ UNCHANGED <<build, todo, cur>>
    BY <1>18 DEF FlushVisited, In, loop
  <2> QED
    BY <2>2, <2>3 DEF Served, InPass, Waiting
<1>19. ASSUME NEW k \in 0..MaxDelay, Tick(k) PROVE Served'
  <2>1. phase' \in {"ping", "flush"}
    BY <1>19 DEF Tick
  <2> QED
    BY <2>1, ServedOutside DEF InPass
<1>20. CASE PingsChecked \/ EndOfPass
  BY <1>20, ServedOutside DEF PingsChecked, EndOfPass, InPass
<1> QED
  BY <1>2, <1>3, <1>4, <1>5, <1>6, <1>7, <1>8, <1>9, <1>10, <1>11, <1>12, <1>13,
     <1>14, <1>15, <1>16, <1>17, <1>18, <1>19, <1>20 DEF Next, LoopStep

(* "If we don't have anything to read and we have any recvQ, then          *)
(* read_packet must still be called": with select it is, for every client  *)
(* in every pass (read_message; with poll it is not, RecvQServed fails).   *)
THEOREM SelectServesAll == Spec => []SelectServes
<1>1. Init => Served
  BY DEF Init, Served, InPass
<1>2. Served => SelectServes
  BY DEF Served, SelectServes, RecvQServed, InPass, Waiting
<1> QED
  BY <1>1, <1>2, NextServed, Invariant, PTL DEF Spec
=============================================================================
