------------------------------ MODULE MCReceive ------------------------------
(* Receive on a small instance: two processes at a time, three runs, and the  *)
(* envelopes a server and a broken producer may send.                         *)
EXTENDS Receive, TLC

CONSTANTS p1, p2, b, c, a24, bad, ra, rb, rc

MCRaw == {ra, rb, rc, bad}

\* ra is a24 written with its host bits set, bad is of a family not allowed
MCCanon == (ra :> a24) @@ (rb :> b) @@ (rc :> c) @@ (bad :> Invalid)

Entry(raw, t) == [cidr |-> raw, expires |-> t]

Env(t, es) == [signed |-> TRUE, version |-> 1, expires |-> t, entries |-> es]

MCInputs ==
  { Env(2, {Entry(ra, 1), Entry(rb, 2)}),              \* one entry expires on the way
    Env(1, {Entry(rc, 2), Entry(bad, 2)}),             \* the envelope may; one entry is dropped
    Env(2, {}),                                        \* the server's list is empty
    Env(2, {Entry(ra, 2), Entry(rb, 2), Entry(bad, 2)}),  \* too many before bad is dropped
    Env(2, {Entry(ra, 2), Entry(rb, 2), Entry(rc, 2)}),   \* more CIDRs than max_entries
    [Env(2, {Entry(ra, 2)}) EXCEPT !.signed = FALSE],
    [Env(2, {Entry(ra, 2)}) EXCEPT !.version = 2],
    Env(0, {Entry(ra, 2)}) }                           \* no expiry

\* processes are told apart by nothing but their name
ProcSymmetry == Permutations(Proc)
=============================================================================
