---------------------------- MODULE MCAtomicFile ----------------------------
(* AtomicFile with three calls on one path and two documents.                 *)
EXTENDS AtomicFile, TLC

CONSTANTS w1, w2, w3, d1, d2
=============================================================================
