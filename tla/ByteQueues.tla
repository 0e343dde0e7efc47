---------------------------- MODULE ByteQueues ----------------------------
(***************************************************************************)
(* What dbuf.h promises: every queue is a stream of bytes.  A put appends  *)
(* all of its bytes, or fails and leaves the queue empty; a get takes the  *)
(* bytes at the front; a getmsg takes the first line that is not empty,    *)
(* hands out the front of it and drops the rest.                           *)
(***************************************************************************)
EXTENDS Naturals, Sequences

CONSTANTS Queue, Byte, EndOfLine, MaxPut, MaxGet

VARIABLES content, out

Least(a, b) == IF a < b THEN a ELSE b
Drop(s, n) == SubSeq(s, n + 1, Len(s))
Blank(s) == \A i \in DOMAIN s : s[i] = EndOfLine

Init == content = [q \in Queue |-> << >>] /\ out = << >>

Put(q, buf) ==
  /\ out' = << >>
  /\ \/ content' = [content EXCEPT ![q] = @ \o buf]
     \/ content' = [content EXCEPT ![q] = << >>]

Get(q, n) ==
  LET k == Least(n, Len(content[q])) IN
  /\ out' = SubSeq(content[q], 1, k)
  /\ content' = [content EXCEPT ![q] = Drop(@, k)]

Delete(q, n) ==
  /\ out' = << >>
  /\ content' = [content EXCEPT ![q] = Drop(@, Least(n, Len(@)))]

(* The queue starts with b line ends; a line of k bytes follows.           *)
GetMsg(q, n) ==
  \E b \in 0..Len(content[q]) :
     LET s == Drop(content[q], b) IN
     /\ Blank(SubSeq(content[q], 1, b))
     /\ s # << >> => s[1] # EndOfLine
     /\ \/ /\ \A i \in 1..Least(n, Len(s)) : s[i] # EndOfLine
           /\ out' = << >>
           /\ content' = [content EXCEPT ![q] = s]
        \/ \E k \in 2..Least(n, Len(s)) :
              /\ s[k] = EndOfLine /\ \A i \in 1..k-1 : s[i] # EndOfLine
              /\ \E j \in 1..k : out' = SubSeq(s, 1, j)
              /\ content' = [content EXCEPT ![q] = Drop(s, k)]

Next == \E q \in Queue :
  \/ \E n \in 1..MaxPut : \E buf \in [1..n -> Byte] : Put(q, buf)
  \/ \E n \in 1..MaxGet : Get(q, n) \/ Delete(q, n) \/ GetMsg(q, n)

Spec == Init /\ [][Next]_<<content, out>>
=============================================================================
