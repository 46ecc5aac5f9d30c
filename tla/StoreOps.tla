------------------------------ MODULE StoreOps ------------------------------
(* The operators internal/store/store.go is made of, as functions of the map *)
(* they work on.  A store is a total function from CIDRs: NoEntry is the key *)
(* missing from the Go map.  Of signer.Entry only what the code branches on  *)
(* is kept: ExpiresAt and LastSeenAt, in whole seconds.                      *)
(*                                                                           *)
(* Whole seconds lose nothing: Record truncates both times, and for a whole  *)
(* second x the comparison "x is not after now" has the same outcome for now *)
(* and for now truncated, so Purge and Snapshot, which do not truncate,      *)
(* decide as they would on the truncated reading.                            *)
EXTENDS Integers, FiniteSets

CONSTANTS
  CIDR,     \* the keys of Store.entries
  NoEntry,  \* an absent key
  TTL       \* cfg.TTLSeconds, a positive number (ServerConfig.Validate)

\* signer.Entry, reduced to the fields that decide anything
Entry == [expires : Nat, seen : Nat]

Slot == Entry \cup {NoEntry}

ASSUME StoreConstants ==
  /\ IsFiniteSet(CIDR)
  /\ NoEntry \notin Entry
  /\ TTL \in Nat \ {0}

Held(E) == {c \in CIDR : E[c] # NoEntry}

\* !e.ExpiresAt.After(now)
Expired(E, now) == {c \in Held(E) : E[c].expires <= now}

\* the CIDRs of Snapshot(now)
Live(E, now) == {c \in Held(E) : E[c].expires > now}

\* delete(s.entries, k) for every k of gone
Drop(E, gone) == [c \in CIDR |-> IF c \in gone THEN NoEntry ELSE E[c]]

\* mutant: both times shifted by the TTL
TouchBackdated(E, c, now) ==
  [E EXCEPT ![c] = [expires |-> now + TTL, seen |-> now - TTL]]

\* mutant: a refresh adds a TTL to what is left instead of starting a new one
TouchExtending(E, c, now) ==
  [E EXCEPT ![c] =
     [expires |-> (IF E[c] = NoEntry THEN now ELSE E[c].expires) + TTL, seen |-> now]]

\* Record's first half: a refresh and a new entry set the same two times
Touch(E, c, now) ==
  [E EXCEPT ![c] = [expires |-> now + TTL, seen |-> now]]

\* mutant: off by one in "still over the limit"
ExcessOffByOne(E, limit) ==
  IF Cardinality(Held(E)) > limit + 1 THEN Cardinality(Held(E)) - limit - 1 ELSE 0

\* how many entries the second loop of enforceLimitLocked deletes
Excess(E, limit) ==
  IF Cardinality(Held(E)) > limit THEN Cardinality(Held(E)) - limit ELSE 0

\* mutant: the comparison of the sort turned round
MostRecent(E, limit) ==
  {V \in SUBSET Held(E) :
     /\ Cardinality(V) = Excess(E, limit)
     /\ \A v \in V, k \in Held(E) \ V : E[v].seen >= E[k].seen}

(* The sets of least-recently-seen entries that loop may delete.  The list   *)
(* it walks comes out of a map in random order and sort.Slice is not stable, *)
(* so entries seen in the same second may be deleted in any order.           *)
LeastRecent(E, limit) ==
  {V \in SUBSET Held(E) :
     /\ Cardinality(V) = Excess(E, limit)
     /\ \A v \in V, k \in Held(E) \ V : E[v].seen <= E[k].seen}

(* What Record(c, now) may leave in memory, with the CIDRs it reports as     *)
(* evicted: expired entries go first, then least-recently-seen ones.         *)
RecordOutcomes(E, c, now, limit) ==
  LET T   == Touch(E, c, now)
      Old == Expired(T, now)
      L   == Drop(T, Old)
  IN  {[mem |-> Drop(L, V), evicted |-> Old \cup V] : V \in LeastRecent(L, limit)}
=============================================================================
