------------------------------ MODULE Pipeline ------------------------------
(* internal/pipeline: what VerifyAndFilter decides about a signed envelope.   *)
(* The HMAC is a flag: an envelope is signed iff it is, unchanged, one that   *)
(* the auth-server signed with the shared secret.  Its entries are a set: the *)
(* server builds them from a map keyed by CIDR, so no CIDR occurs twice.      *)
EXTENDS Integers, FiniteSets

CONSTANTS
  RawCIDR,    \* the strings entries carry
  CIDR,       \* canonical CIDRs
  Invalid,    \* not a CIDR of an allowed family
  Canon,      \* ipx.CanonicalCIDR, as a function of the string
  MaxEntries  \* cfg.MaxEntries of this receiver or puller

ASSUME PipelineConstants ==
  /\ Canon \in [RawCIDR -> CIDR \cup {Invalid}]
  /\ Invalid \notin CIDR
  /\ MaxEntries \in Nat \ {0}

(* Time 0 is Go's zero time, a field the sender left out.                     *)
EnvEntry == [cidr : RawCIDR, expires : Nat]

Envelope == [signed : BOOLEAN, version : Nat, expires : Nat, entries : SUBSET EnvEntry]

\* mutant: the age of the envelope is not looked at
AcceptsStale(env, now) ==
  /\ env.signed
  /\ env.version = 1
  /\ env.expires # 0
  /\ Cardinality(env.entries) <= MaxEntries

\* the checks that make VerifyAndFilter return an error, all negated
Accepts(env, now) ==
  /\ env.signed
  /\ env.version = 1
  /\ env.expires # 0
  /\ env.expires > now
  /\ Cardinality(env.entries) <= MaxEntries

\* mutant: a CIDR that CanonicalCIDR refuses is kept as it came
KeptAnyFamily(env, now) == {e \in env.entries : e.expires > now}

\* Result.Kept
Kept(env, now) ==
  {e \in env.entries : e.expires > now /\ Canon[e.cidr] # Invalid}

\* Result.CIDRs, sorted and without duplicates: a set
Cidrs(env, now) == {Canon[e.cidr] : e \in Kept(env, now)}
=============================================================================
