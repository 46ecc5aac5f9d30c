------------------------------- MODULE MCStore -------------------------------
(* Store on a small instance: three CIDRs, of which one or two fit.           *)
EXTENDS Store, TLC

CONSTANTS c1, c2, c3

MCLimits == {1, 2}

\* the CIDRs are interchangeable, and no temporal property is checked with it
Symmetry == Permutations(CIDR)
==============================================================================
