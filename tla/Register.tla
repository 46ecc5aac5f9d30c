------------------------------ MODULE Register ------------------------------
(* What internal/atomicfile promises to its callers: the file at a path is a  *)
(* register.  It holds no document or one whole document that somebody asked  *)
(* to be written; a request takes effect in one step or not at all; and a     *)
(* power failure may take back requests that the disk had not made durable,   *)
(* but only to an earlier whole document.                                     *)
CONSTANTS Doc, None

VARIABLES
  asked,   \* documents whose writing has been requested
  value,   \* what a reader of the path finds
  earlier  \* what the path may go back to when the power fails

vars == <<asked, value, earlier>>

Init == asked = {} /\ value = None /\ earlier = {}

Ask(d) ==
  /\ asked' = asked \cup {d}
  /\ UNCHANGED <<value, earlier>>

Take(d) ==
  /\ d \in asked
  /\ value' = d
  /\ earlier' = earlier \cup {value}
  /\ UNCHANGED asked

MakeDurable ==
  /\ earlier' = {}
  /\ UNCHANGED <<asked, value>>

PowerFailure ==
  /\ value' \in earlier \cup {value}
  /\ earlier' = {}
  /\ UNCHANGED asked

Next ==
  \/ \E d \in Doc : Ask(d) \/ Take(d)
  \/ MakeDurable
  \/ PowerFailure

Spec == Init /\ [][Next]_vars
=============================================================================
