----------------------------- MODULE AllowList ------------------------------
(* What the program at the end of a push promises of the list it keeps: the   *)
(* list changes as a whole, and only to one that was settled before, from an  *)
(* accepted envelope and one reading of the clock.  Several lists may be on   *)
(* their way at once; they come in any order, and any of them may be lost.    *)
CONSTANTS
  Lists,   \* those that may be settled
  None     \* what there is before the first

VARIABLES
  coming,  \* lists on their way
  list     \* the list that counts

vars == <<coming, list>>

Init == coming = {} /\ list = None

Settle(L) ==
  /\ coming' = coming \cup {L}
  /\ UNCHANGED list

\* the same list may be on its way more than once
Replace(L) ==
  /\ list' = L
  /\ coming' \in {coming, coming \ {L}}

Lose ==
  /\ coming' \in SUBSET coming
  /\ UNCHANGED list

Next ==
  \/ \E L \in Lists : Settle(L)
  \/ \E L \in coming : Replace(L)
  \/ Lose

Spec == Init /\ [][Next]_vars
=============================================================================
