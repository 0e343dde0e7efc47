------------------------------- MODULE Lists --------------------------------
(***************************************************************************)
(* Linked lists as sequences: what is left when a walk takes members off.  *)
(***************************************************************************)
EXTENDS Integers, Sequences

(* What is left of the list s when only the members of A stay.             *)
Keep(s, A) ==
  LET kept[n \in 0..Len(s)] ==
        IF n = 0 THEN <<>>
        ELSE IF s[n] \in A THEN Append(kept[n-1], s[n]) ELSE kept[n-1]
  IN kept[Len(s)]
=============================================================================
