----------------------------- MODULE StoreProofs -----------------------------
(* What holds of Store for every set of CIDRs, TTL, limit, lag and clock.     *)
EXTENDS Store, FiniteSetTheorems, TLAPS

(* enforceLimitLocked and Purge delete from a map, they never add to it.      *)
LEMMA DropType ==
  ASSUME NEW E \in [CIDR -> Slot], NEW gone
  PROVE  Drop(E, gone) \in [CIDR -> Slot]
BY DEF Drop, Slot

(* A refresh or a new entry carries the caller's reading and the TTL.         *)
LEMMA TouchType ==
  ASSUME NEW E \in [CIDR -> Slot], NEW c \in CIDR, NEW now \in Nat
  PROVE  /\ Touch(E, c, now) \in [CIDR -> Slot]
         /\ Touch(E, c, now)[c] = [expires |-> now + TTL, seen |-> now]
         /\ \A d \in CIDR \ {c} : Touch(E, c, now)[d] = E[d]
BY StoreConstants DEF Touch, Slot, Entry

(* Whatever Record leaves in memory, each slot is empty, or as it was, or the *)
(* recorded CIDR's new entry; and an evicted CIDR is the only kind missing.   *)
LEMMA RecordShape ==
  ASSUME NEW E \in [CIDR -> Slot], NEW c \in CIDR, NEW now \in Nat, NEW m,
         NEW out \in RecordOutcomes(E, c, now, m)
  PROVE  /\ out.mem \in [CIDR -> Slot]
         /\ out.evicted \in SUBSET CIDR
         /\ out.mem = Drop(Touch(E, c, now), out.evicted)
<1> DEFINE T   == Touch(E, c, now)
           Old == Expired(T, now)
           L   == Drop(T, Old)
<1>1. T \in [CIDR -> Slot]
  BY TouchType
<1>2. L \in [CIDR -> Slot]
  BY <1>1, DropType
<1>3. PICK V \in LeastRecent(L, m) : out = [mem |-> Drop(L, V), evicted |-> Old \cup V]
  BY DEF RecordOutcomes
<1>4. V \subseteq CIDR /\ Old \subseteq CIDR
  BY DEF LeastRecent, Expired, Held
<1>5. out.mem \in [CIDR -> Slot]
  BY <1>2, <1>3, DropType
<1>6. out.mem = Drop(T, Old \cup V)
  BY <1>3 DEF Drop
<1> QED
  BY <1>3, <1>4, <1>5, <1>6

(* The store New sets up is well typed.                                       *)
LEMMA InitTypeOK == Init => TypeOK
<1> SUFFICES ASSUME Init PROVE TypeOK
  OBVIOUS
<1>1. clock \in 0 .. MaxClock
  BY RunConstants DEF Init
<1>2. entries \in [CIDR -> Slot] /\ disk \in [CIDR -> Slot] /\ acked \in [CIDR -> Nat]
  BY DEF Init, Empty, Slot
<1>3. limit \in Limits /\ dirty \in BOOLEAN /\ reply \in Reply \cup {NoReply}
  BY Zenon DEF Init
<1> QED
  BY <1>1, <1>2, <1>3 DEF TypeOK

(* Every method, a restart and the clock keep the types.                      *)
LEMMA NextTypeOK == TypeOK /\ [Next]_vars => TypeOK'
<1> SUFFICES ASSUME TypeOK, [Next]_vars PROVE TypeOK'
  OBVIOUS
<1>1. ASSUME NEW c \in CIDR, NEW now \in Readings, NEW ok \in BOOLEAN, Record(c, now, ok)
      PROVE  TypeOK'
  <2>1. now \in Nat
    BY DEF Readings
  <2>2. PICK out \in RecordOutcomes(entries, c, now, limit) :
          /\ entries' = out.mem
          /\ Persist(out.mem, ok)
          /\ reply' = [call |-> TRUE, cidr |-> c, ok |-> ok, evicted |-> out.evicted]
          /\ Confirm(c, now, ok, out.evicted)
          /\ UNCHANGED <<clock, limit>>
    BY <1>1 DEF Record
  <2>3. out.mem \in [CIDR -> Slot] /\ out.evicted \in SUBSET CIDR
    BY <2>1, RecordShape DEF TypeOK
  <2>4. disk' \in [CIDR -> Slot] /\ dirty' \in BOOLEAN
    BY <2>2, <2>3 DEF Persist, TypeOK
  <2>5. acked' \in [CIDR -> Nat]
    BY <2>1, <2>2, StoreConstants DEF Confirm, TypeOK
  <2>6. reply' \in Reply
    BY <2>2, <2>3 DEF Reply
  <2> QED
    BY <2>2, <2>3, <2>4, <2>5, <2>6 DEF TypeOK
<1>2. ASSUME NEW now \in Readings, NEW ok \in BOOLEAN, Purge(now, ok)
      PROVE  TypeOK'
  <2>1. Drop(entries, Expired(entries, now)) \in [CIDR -> Slot]
    BY DropType DEF TypeOK
  <2> QED
    BY <1>2, <2>1 DEF Purge, Persist, TypeOK
<1>3. CASE Restart
  BY <1>3 DEF Restart, TypeOK
<1>4. CASE Tick
  BY <1>4, RunConstants DEF Tick, TypeOK
<1>5. CASE UNCHANGED vars
  BY <1>5 DEF vars, TypeOK
<1> QED
  BY <1>1, <1>2, <1>3, <1>4, <1>5 DEF Next

(* Every variable keeps its type (MaxClock bounds the clock and nothing else).*)
THEOREM TypeCorrect == Spec => []TypeOK
BY InitTypeOK, NextTypeOK, PTL DEF Spec

-----------------------------------------------------------------------------
(* After the eviction loop at most max_entries are held; it deletes only      *)
(* expired entries and, when it needs room, entries seen no later than all    *)
(* that stay, down to exactly the limit.                                      *)
LEMMA EvictionMakesRoom ==
  ASSUME NEW E \in [CIDR -> Slot], NEW c \in CIDR, NEW now \in Nat, NEW m \in Nat,
         NEW out \in RecordOutcomes(E, c, now, m)
  PROVE  /\ Cardinality(Held(out.mem)) <= m
         /\ \A d \in out.evicted \ Expired(Touch(E, c, now), now) :
              /\ Cardinality(Held(out.mem)) = m
              /\ \A k \in Held(out.mem) : Touch(E, c, now)[d].seen <= Touch(E, c, now)[k].seen
<1> DEFINE T   == Touch(E, c, now)
           Old == Expired(T, now)
           L   == Drop(T, Old)
           H   == Held(L)
<1>1. PICK V \in LeastRecent(L, m) : out = [mem |-> Drop(L, V), evicted |-> Old \cup V]
  BY DEF RecordOutcomes
<1>2. /\ V \subseteq H
      /\ Cardinality(V) = Excess(L, m)
      /\ \A v \in V, k \in H \ V : L[v].seen <= L[k].seen
  BY DEF LeastRecent
<1>3. IsFiniteSet(H) /\ IsFiniteSet(V)
  <2>1. H \subseteq CIDR
    BY DEF Held
  <2> QED
    BY <2>1, <1>2, StoreConstants, FS_Subset
<1>4. Held(out.mem) = H \ V
  BY <1>1 DEF Held, Drop
<1>5. Cardinality(H \ V) = Cardinality(H) - Cardinality(V)
  <2>1. H \cap V = V
    BY <1>2
  <2>2. Cardinality(H \ V) = Cardinality(H) - Cardinality(H \cap V)
    BY <1>3, FS_Difference
  <2> QED
    BY <2>1, <2>2
<1>6. Cardinality(H) \in Nat
  BY <1>3, FS_CardinalityType
<1>7. Cardinality(Held(out.mem)) <= m
  BY <1>2, <1>4, <1>5, <1>6 DEF Excess
<1>8. ASSUME NEW d \in out.evicted \ Old
      PROVE  /\ Cardinality(Held(out.mem)) = m
             /\ \A k \in Held(out.mem) : T[d].seen <= T[k].seen
  <2>1. d \in V
    BY <1>1, <1>8
  <2>2. Cardinality(V) # 0
    BY <2>1, <1>3, FS_EmptySet
  <2>3. Cardinality(Held(out.mem)) = m
    BY <2>2, <1>2, <1>4, <1>5, <1>6 DEF Excess
  <2>4. ASSUME NEW k \in Held(out.mem)
        PROVE  T[d].seen <= T[k].seen
    <3>1. k \in H \ V
      BY <2>4, <1>4
    <3>2. L[d].seen <= L[k].seen
      BY <2>1, <3>1, <1>2
    <3>3. d \in CIDR /\ k \in CIDR /\ d \in H /\ k \in H
      BY <2>1, <3>1, <1>2 DEF Held
    <3>4. L[d] = T[d] /\ L[k] = T[k]
      BY <3>3 DEF Drop, Held
    <3> QED
      BY <3>2, <3>4
  <2> QED
    BY <2>3, <2>4
<1> QED
  BY <1>7, <1>8

-----------------------------------------------------------------------------
(* The inductive invariant.  AckedSurvives is not inductive alone: that a     *)
(* failed refresh does not shorten a confirmed expiry by more than MaxLag     *)
(* needs NeverPermanent's bound on what was confirmed.                        *)
StoreInv == TypeOK /\ DiskAgrees /\ NeverPermanent /\ AckedSurvives

(* The invariant holds of the empty store New finds when there is no file.    *)
LEMMA InitStoreInv == Init => StoreInv
<1> SUFFICES ASSUME Init PROVE StoreInv
  OBVIOUS
<1>1. TypeOK
  BY InitTypeOK
<1>2. DiskAgrees
  BY DEF Init, DiskAgrees
<1>3. Held(entries) = {} /\ Held(disk) = {}
  BY DEF Init, Held, Empty
<1>4. NeverPermanent
  BY <1>3, StoreConstants DEF Init, NeverPermanent
<1>5. AckedSurvives
  BY RunConstants DEF Init, AckedSurvives
<1> QED
  BY <1>1, <1>2, <1>4, <1>5 DEF StoreInv

(* Record keeps it, whether the write succeeds or not.                        *)
LEMMA RecordStoreInv ==
  ASSUME StoreInv, TypeOK',
         NEW c \in CIDR, NEW now \in Readings, NEW ok \in BOOLEAN, Record(c, now, ok)
  PROVE  StoreInv'
<1> USE DEF StoreInv
<1>1. now \in Nat /\ now <= clock /\ now + MaxLag >= clock /\ clock \in Nat
  BY RunConstants DEF Readings, TypeOK
<1>2. PICK out \in RecordOutcomes(entries, c, now, limit) :
        /\ entries' = out.mem
        /\ Persist(out.mem, ok)
        /\ reply' = [call |-> TRUE, cidr |-> c, ok |-> ok, evicted |-> out.evicted]
        /\ Confirm(c, now, ok, out.evicted)
        /\ UNCHANGED <<clock, limit>>
  BY DEF Record
<1>3. /\ entries' \in [CIDR -> Slot]
      /\ entries' = Drop(Touch(entries, c, now), out.evicted)
  BY <1>1, <1>2, RecordShape DEF TypeOK
<1>4. \A d \in out.evicted : d \in CIDR => entries'[d] = NoEntry
  BY <1>3 DEF Drop
<1>5. \A d \in CIDR \ out.evicted :
        entries'[d] = IF d = c THEN [expires |-> now + TTL, seen |-> now] ELSE entries[d]
  BY <1>1, <1>3, TouchType DEF Drop, TypeOK
<1>6. disk' \in {disk, entries'} /\ (ok => disk' = entries')
  BY <1>2 DEF Persist
<1>7. DiskAgrees'
  BY <1>2 DEF Persist, DiskAgrees
<1>8. clock' = clock
  BY <1>2
<1>9. \A d \in CIDR : acked'[d] = IF d \in out.evicted THEN 0
                                  ELSE IF d = c /\ ok THEN now + TTL ELSE acked[d]
  BY <1>2 DEF Confirm
<1>10. NeverPermanent'
  <2>1. ASSUME NEW d \in Held(entries')
        PROVE  entries'[d].expires = entries'[d].seen + TTL /\ entries'[d].seen <= clock
    <3>1. d \in CIDR \ out.evicted
      BY <1>4 DEF Held
    <3>2. CASE d = c
      BY <1>1, <1>5, <3>1, <3>2
    <3>3. CASE d # c
      BY <1>5, <3>1, <3>3, <2>1 DEF NeverPermanent, Held
    <3> QED
      BY <3>2, <3>3
  <2>2. \A d \in Held(disk') : disk'[d].expires = disk'[d].seen + TTL /\ disk'[d].seen <= clock
    BY <1>6, <2>1 DEF NeverPermanent
  <2>3. \A d \in CIDR : acked'[d] <= clock + TTL
    BY <1>1, <1>9, StoreConstants DEF NeverPermanent, TypeOK
  <2> QED
    BY <1>8, <2>1, <2>2, <2>3 DEF NeverPermanent
<1>11. AckedSurvives'
  <2> SUFFICES ASSUME NEW d \in CIDR, acked'[d] > clock + MaxLag
               PROVE  \A E \in {entries', disk'} : E[d] # NoEntry /\ E[d].expires + MaxLag >= acked'[d]
    BY <1>8 DEF AckedSurvives
  <2>1. d \notin out.evicted
    BY <1>1, <1>9, RunConstants
  <2>2. CASE d = c /\ ok
    <3>1. entries'[d] = [expires |-> now + TTL, seen |-> now] /\ acked'[d] = now + TTL
      BY <1>5, <1>9, <2>1, <2>2
    <3>2. entries'[d] # NoEntry
      BY <3>1, <1>1, StoreConstants DEF Entry
    <3> QED
      BY <1>1, <1>6, <2>2, <3>1, <3>2, StoreConstants, RunConstants
  <2>3. CASE ~(d = c /\ ok)
    <3>1. acked'[d] = acked[d]
      BY <1>9, <2>1, <2>3
    <3>2. \A E \in {entries, disk} : E[d] # NoEntry /\ E[d].expires + MaxLag >= acked[d]
      BY <3>1 DEF AckedSurvives
    <3>3. entries'[d] # NoEntry /\ entries'[d].expires + MaxLag >= acked[d]
      <4>1. CASE d = c
        <5>1. entries'[d] = [expires |-> now + TTL, seen |-> now]
          BY <1>5, <2>1, <4>1
        <5>2. entries'[d] # NoEntry
          BY <5>1, <1>1, StoreConstants DEF Entry
        <5>3. acked[d] <= clock + TTL /\ acked[d] \in Nat
          BY DEF NeverPermanent, TypeOK
        <5> QED
          BY <5>1, <5>2, <5>3, <1>1, StoreConstants, RunConstants
      <4>2. CASE d # c
        BY <1>5, <2>1, <3>2, <4>2
      <4> QED
        BY <4>1, <4>2
    <3> QED
      BY <1>6, <3>1, <3>2, <3>3
  <2> QED
    BY <2>2, <2>3
<1> QED
  BY <1>7, <1>10, <1>11

(* Purge keeps it: what it drops is past every confirmed expiry.              *)
LEMMA PurgeStoreInv ==
  ASSUME StoreInv, TypeOK', NEW now \in Readings, NEW ok \in BOOLEAN, Purge(now, ok)
  PROVE  StoreInv'
<1> USE DEF StoreInv
<1> DEFINE gone == Expired(entries, now)
<1>1. now <= clock /\ now \in Nat /\ clock \in Nat
  BY DEF Readings, TypeOK
<1>2. entries' = Drop(entries, gone) /\ UNCHANGED <<clock, acked>>
  BY DEF Purge
<1>3. disk' \in {disk, entries'}
  BY <1>2 DEF Purge, Persist
<1>4. DiskAgrees'
  BY DEF Purge, Persist, DiskAgrees
<1>5. \A d \in CIDR : entries'[d] = IF d \in gone THEN NoEntry ELSE entries[d]
  BY <1>2 DEF Drop
<1>6. NeverPermanent'
  BY <1>2, <1>3, <1>5 DEF NeverPermanent, Held
<1>7. AckedSurvives'
  <2> SUFFICES ASSUME NEW d \in CIDR, acked[d] > clock + MaxLag
               PROVE  \A E \in {entries', disk'} : E[d] # NoEntry /\ E[d].expires + MaxLag >= acked[d]
    BY <1>2 DEF AckedSurvives
  <2>1. \A E \in {entries, disk} : E[d] # NoEntry /\ E[d].expires + MaxLag >= acked[d]
    BY DEF AckedSurvives
  <2>2. entries[d].expires \in Nat /\ acked[d] \in Nat
    BY <2>1 DEF TypeOK, Slot, Entry
  <2>3. d \notin gone
    BY <1>1, <2>1, <2>2, RunConstants DEF Expired
  <2> QED
    BY <1>3, <1>5, <2>1, <2>3
<1> QED
  BY <1>4, <1>6, <1>7

(* Every step of the specification keeps it.                                  *)
LEMMA NextStoreInv == StoreInv /\ [Next]_vars => StoreInv'
<1> SUFFICES ASSUME StoreInv, [Next]_vars PROVE StoreInv'
  OBVIOUS
<1>1. TypeOK'
  BY NextTypeOK DEF StoreInv
<1>2. ASSUME NEW c \in CIDR, NEW now \in Readings, NEW ok \in BOOLEAN, Record(c, now, ok)
      PROVE  StoreInv'
  BY <1>1, <1>2, RecordStoreInv
<1>3. ASSUME NEW now \in Readings, NEW ok \in BOOLEAN, Purge(now, ok)
      PROVE  StoreInv'
  BY <1>1, <1>3, PurgeStoreInv
<1>4. CASE Restart
  <2>1. entries' = disk /\ disk' = disk /\ acked' = acked /\ clock' = clock
    BY <1>4 DEF Restart
  <2> QED
    BY <1>1, <2>1 DEF StoreInv, DiskAgrees, NeverPermanent, AckedSurvives, Held
<1>5. CASE Tick
  <2>1. UNCHANGED <<entries, disk, acked, dirty>> /\ clock' = clock + 1
    BY <1>5 DEF Tick
  <2>2. DiskAgrees'
    BY <2>1 DEF StoreInv, DiskAgrees
  <2>3. NeverPermanent'
    <3>1. \A E \in {entries, disk} : \A c \in Held(E) : E[c].seen \in Nat
      BY DEF StoreInv, TypeOK, Held, Slot, Entry
    <3> QED
      BY <2>1, <3>1, StoreConstants DEF StoreInv, TypeOK, NeverPermanent
  <2>4. AckedSurvives'
    BY <2>1, RunConstants DEF StoreInv, TypeOK, AckedSurvives
  <2> QED
    BY <1>1, <2>2, <2>3, <2>4 DEF StoreInv
<1>6. CASE UNCHANGED vars
  BY <1>1, <1>6 DEF vars, StoreInv, DiskAgrees, NeverPermanent, AckedSurvives, Held
<1> QED
  BY <1>2, <1>3, <1>4, <1>5, <1>6 DEF Next

(* The whole invariant, for the theorems below.                               *)
LEMMA StoreInvariant == Spec => []StoreInv
<1> QED
  BY InitStoreInv, NextStoreInv, PTL DEF Spec

(* Memory and entries.json agree unless the last write failed.                *)
THEOREM DiskAgreement == Spec => []DiskAgrees
BY StoreInvariant, PTL DEF StoreInv

(* No entry and no confirmation outlives the TTL of an authentication.        *)
THEOREM NothingPermanent == Spec => []NeverPermanent
BY StoreInvariant, PTL DEF StoreInv

(* A confirmed expiry survives failed writes, purges and restarts.            *)
THEOREM AckedDurability == Spec => []AckedSurvives
BY StoreInvariant, PTL DEF StoreInv

-----------------------------------------------------------------------------
(* What one call of Record does to the other entries: those it drops were     *)
(* expired on the caller's reading, or the least recently seen of a full      *)
(* store; those it keeps are unchanged.                                       *)
LEMMA RecordSteps ==
  ASSUME StoreInv, NEW c \in CIDR, NEW now \in Readings, NEW ok \in BOOLEAN,
         Record(c, now, ok)
  PROVE  LimitStep /\ LeaveStep /\ ReturnStep
<1> DEFINE T == Touch(entries, c, now)
<1>1. now \in Nat /\ now <= clock /\ clock \in Nat /\ limit \in Nat
  BY RunConstants DEF StoreInv, Readings, TypeOK
<1>2. entries \in [CIDR -> Slot]
  BY DEF StoreInv, TypeOK
<1>3. PICK out \in RecordOutcomes(entries, c, now, limit) :
        /\ entries' = out.mem
        /\ reply' = [call |-> TRUE, cidr |-> c, ok |-> ok, evicted |-> out.evicted]
        /\ UNCHANGED <<clock, limit>>
  BY DEF Record
<1>4. /\ entries' = Drop(T, out.evicted)
      /\ out.evicted \in SUBSET CIDR
  BY <1>1, <1>2, <1>3, RecordShape
<1>5. \A d \in CIDR \ {c} : T[d] = entries[d]
  BY <1>2 DEF Touch
<1>6. /\ Cardinality(Held(entries')) <= limit
      /\ \A d \in out.evicted \ Expired(T, now) :
           /\ Cardinality(Held(entries')) = limit
           /\ \A k \in Held(entries') : T[d].seen <= T[k].seen
  BY <1>1, <1>2, <1>3, EvictionMakesRoom
<1>7. reply'.call /\ reply'.cidr = c /\ reply'.evicted = out.evicted
  BY <1>3
<1>8. LimitStep
  <2>1. Cardinality(Held(entries')) \in Nat
    <3>1. Held(entries') \subseteq CIDR
      BY DEF Held
    <3> QED
      BY <3>1, StoreConstants, FS_Subset, FS_CardinalityType
  <2> QED
    BY <1>1, <1>3, <1>6, <2>1 DEF LimitStep
<1>9. LeaveStep
  <2> SUFFICES ASSUME NEW d \in Live(entries, clock), entries'[d] = NoEntry, d # c
               PROVE  /\ d \in out.evicted
                      /\ Cardinality(Held(entries')) = limit
                      /\ \A k \in Held(entries') \ {c} : entries[d].seen <= entries[k].seen
    BY <1>7 DEF LeaveStep
  <2>1. d \in CIDR /\ entries[d] # NoEntry /\ entries[d].expires > clock
    BY DEF Live, Held
  <2>2. d \in out.evicted
    BY <1>4, <1>5, <2>1 DEF Drop
  <2>3. d \notin Expired(T, now)
    <3>1. entries[d].expires \in Nat
      BY <1>2, <2>1 DEF Slot, Entry
    <3> QED
      BY <1>1, <1>5, <2>1, <3>1 DEF Expired
  <2>4. Cardinality(Held(entries')) = limit
    BY <1>6, <2>2, <2>3
  <2>5. ASSUME NEW k \in Held(entries') \ {c}
        PROVE  entries[d].seen <= entries[k].seen
    <3>1. T[d].seen <= T[k].seen
      BY <1>6, <2>2, <2>3
    <3>2. T[d] = entries[d] /\ T[k] = entries[k]
      BY <1>5, <2>1 DEF Held
    <3> QED
      BY <3>1, <3>2
  <2> QED
    BY <2>2, <2>4, <2>5
<1>10. ReturnStep
  <2> SUFFICES ASSUME NEW d \in Live(entries', clock') \ Live(entries, clock)
               PROVE  d = c
    BY <1>7 DEF ReturnStep
  <2> SUFFICES ASSUME d # c PROVE FALSE
    OBVIOUS
  <2>1. d \in CIDR /\ entries'[d] # NoEntry /\ entries'[d].expires > clock
    BY <1>3 DEF Live, Held
  <2>2. entries'[d] = entries[d]
    BY <1>4, <1>5, <2>1 DEF Drop
  <2> QED
    BY <2>1, <2>2 DEF Live, Held
<1> QED
  BY <1>8, <1>9, <1>10

(* The three action properties hold of every step, from the invariant.        *)
LEMMA StepProperties ==
  StoreInv /\ [Next]_vars => [LimitStep]_vars /\ [LeaveStep]_vars /\ [ReturnStep]_vars
<1> SUFFICES ASSUME StoreInv, Next
             PROVE  LimitStep /\ LeaveStep /\ ReturnStep
  OBVIOUS
<1>1. ASSUME NEW c \in CIDR, NEW now \in Readings, NEW ok \in BOOLEAN, Record(c, now, ok)
      PROVE  LimitStep /\ LeaveStep /\ ReturnStep
  BY <1>1, RecordSteps
<1>2. ASSUME NEW now \in Readings, NEW ok \in BOOLEAN, Purge(now, ok)
      PROVE  LimitStep /\ LeaveStep /\ ReturnStep
  <2>1. /\ entries' = Drop(entries, Expired(entries, now))
        /\ reply' = NoReply
        /\ UNCHANGED <<clock, limit>>
    BY <1>2 DEF Purge
  <2>2. \A d \in CIDR : entries'[d] = IF d \in Expired(entries, now) THEN NoEntry ELSE entries[d]
    BY <2>1 DEF Drop
  <2>3. now <= clock /\ now \in Nat /\ clock \in Nat
    BY DEF StoreInv, TypeOK, Readings
  <2>4. LimitStep
    <3>1. Held(entries') \subseteq Held(entries)
      BY <2>2 DEF Held
    <3> QED
      BY <2>1, <3>1 DEF LimitStep, NoReply
  <2>5. LeaveStep
    <3>1. \A d \in Live(entries, clock) : entries[d].expires \in Nat
      BY DEF StoreInv, TypeOK, Live, Held, Slot, Entry
    <3>2. \A d \in Live(entries, clock) : d \notin Expired(entries, now)
      BY <2>3, <3>1 DEF Live, Expired
    <3>3. \A d \in Live(entries, clock) : entries'[d] # NoEntry
      BY <2>2, <3>2 DEF Live, Held
    <3> QED
      BY <3>3 DEF LeaveStep
  <2>6. ReturnStep
    BY <2>1, <2>2 DEF ReturnStep, Live, Held
  <2> QED
    BY <2>4, <2>5, <2>6
<1>3. CASE Restart
  <2>1. entries' = disk /\ clock' = clock
    BY <1>3 DEF Restart
  <2>2. dirty \/ disk = entries
    BY DEF StoreInv, DiskAgrees
  <2>3. LimitStep
    BY <2>1 DEF LimitStep
  <2>4. LeaveStep
    BY <2>1, <2>2 DEF LeaveStep, Live, Held
  <2>5. ReturnStep
    BY <2>1, <2>2 DEF ReturnStep
  <2> QED
    BY <2>3, <2>4, <2>5
<1>4. CASE Tick
  <2>1. UNCHANGED <<entries, limit>> /\ clock' = clock + 1 /\ reply' = NoReply
    BY <1>4 DEF Tick
  <2>2. LimitStep
    BY <2>1 DEF LimitStep, NoReply
  <2>3. LeaveStep
    BY <2>1 DEF LeaveStep, Live, Held
  <2>4. ReturnStep
    <3>1. clock \in Nat /\ \A d \in Held(entries) : entries[d].expires \in Nat
      BY DEF StoreInv, TypeOK, Held, Slot, Entry
    <3> QED
      BY <2>1, <3>1 DEF ReturnStep, Live
  <2> QED
    BY <2>2, <2>3, <2>4
<1> QED
  BY <1>1, <1>2, <1>3, <1>4 DEF Next

(* Beyond max_entries the store only shrinks, except for what a restart loads.*)
THEOREM LimitSafety == Spec => LimitHolds
BY StoreInvariant, StepProperties, PTL DEF Spec, LimitHolds

(* No live entry of another CIDR is lost but to make room, oldest first.      *)
THEOREM EvictionSafety == Spec => LeavesOnlyForRoom
BY StoreInvariant, StepProperties, PTL DEF Spec, LeavesOnlyForRoom

(* Nothing is allowed again without an authentication or a lost write.        *)
THEOREM ReturnSafety == Spec => ReturnsOnlyByRecord
BY StoreInvariant, StepProperties, PTL DEF Spec, ReturnsOnlyByRecord

-----------------------------------------------------------------------------
(* The refinement of Whitelist.tla.                                           *)

(* Whitelist.tla has its own name for the size of a set.                      *)
LEMMA SameSize == \A S : White!Cardinality(S) = Cardinality(S)
BY DEF White!Cardinality, Cardinality

(* A CIDR that is live has a grant that is not 0, and no other has one.       *)
LEMMA GrantsFacts ==
  ASSUME TypeOK, NEW E \in [CIDR -> Slot]
  PROVE  /\ White!Held(Grants(E)) = Live(E, clock)
         /\ \A c \in Live(E, clock) : Grants(E)[c] = E[c].expires /\ Grants(E)[c] > clock
         /\ \A c \in CIDR \ Live(E, clock) : Grants(E)[c] = 0
         /\ clock \in Nat
<1>1. clock \in Nat
  BY RunConstants DEF TypeOK
<1>2. \A c \in Live(E, clock) : c \in CIDR /\ E[c].expires > clock /\ E[c].expires # 0
  BY <1>1 DEF Live, Held, Slot, Entry
<1> QED
  BY <1>1, <1>2 DEF Grants, White!Held, Live, Held

(* An entry and what is left of its grant in a second that comes.             *)
LEMMA GrantsPass ==
  ASSUME TypeOK, NEW E \in [CIDR -> Slot]
  PROVE  [c \in CIDR |-> IF c \in Live(E, clock + 1) THEN E[c].expires ELSE 0]
           = White!Until(Grants(E), clock + 1)
<1>1. clock \in Nat
  BY RunConstants DEF TypeOK
<1>2. \A c \in Held(E) : E[c].expires \in Nat
  BY DEF Held, Slot, Entry
<1>3. ASSUME NEW c \in CIDR
      PROVE  (IF c \in Live(E, clock + 1) THEN E[c].expires ELSE 0)
               = (IF Grants(E)[c] > clock + 1 THEN Grants(E)[c] ELSE 0)
  <2>1. CASE c \in Live(E, clock)
    BY <1>1, <1>2, <2>1, GrantsFacts DEF Live
  <2>2. CASE c \notin Live(E, clock)
    <3>1. c \notin Live(E, clock + 1)
      BY <1>1, <1>2, <2>2 DEF Live
    <3> QED
      BY <1>1, <1>3, <2>2, <3>1, GrantsFacts
  <2> QED
    BY <2>1, <2>2
<1> QED
  BY <1>3 DEF White!Until

(* Record grants its CIDR.  What it takes from others was live, so the store  *)
(* was full of entries that end no sooner, all of them live as well.          *)
LEMMA RecordGrants ==
  ASSUME StoreInv, TypeOK', NEW c \in CIDR, NEW now \in Readings, NEW ok \in BOOLEAN,
         Record(c, now, ok)
  PROVE  White!Next
<1> DEFINE T   == Touch(entries, c, now)
           end == now + TTL
<1>0. TypeOK
  BY DEF StoreInv
<1>1. /\ now \in Nat /\ now <= clock /\ now + MaxLag >= clock /\ clock \in Nat
      /\ limit \in Nat /\ MaxLag \in Nat /\ TTL \in Nat /\ now <= MaxClock /\ MaxClock \in Nat
  BY <1>0, RunConstants, StoreConstants DEF Readings, TypeOK
<1>2. entries \in [CIDR -> Slot] /\ entries' \in [CIDR -> Slot]
  BY <1>0 DEF TypeOK
<1>3. PICK out \in RecordOutcomes(entries, c, now, limit) :
        /\ entries' = out.mem
        /\ Persist(out.mem, ok)
        /\ UNCHANGED <<clock, limit>>
  BY DEF Record
<1>4. entries' = Drop(T, out.evicted)
  BY <1>1, <1>2, <1>3, RecordShape
<1>5. /\ T \in [CIDR -> Slot]
      /\ T[c] = [expires |-> end, seen |-> now]
      /\ \A d \in CIDR \ {c} : T[d] = entries[d]
  BY <1>1, <1>2, TouchType
<1>6. /\ Cardinality(Held(entries')) <= limit
      /\ \A d \in out.evicted \ Expired(T, now) :
           /\ Cardinality(Held(entries')) = limit
           /\ \A k \in Held(entries') : T[d].seen <= T[k].seen
  BY <1>1, <1>2, <1>3, EvictionMakesRoom
<1>7. \A d \in Held(T) : T[d].expires = T[d].seen + TTL /\ T[d].seen \in Nat
  <2> SUFFICES ASSUME NEW d \in Held(T)
               PROVE  T[d].expires = T[d].seen + TTL /\ T[d].seen \in Nat
    OBVIOUS
  <2>1. CASE d = c
    BY <1>1, <1>5, <2>1
  <2>2. CASE d # c
    BY <1>2, <1>5, <2>2 DEF StoreInv, NeverPermanent, Held, Slot, Entry
  <2> QED
    BY <2>1, <2>2
<1> HIDE DEF T
<1> DEFINE G == White!Until([Grants(entries) EXCEPT ![c] = end], clock)
<1>8. G = Grants(T)
  <2>1. Grants(entries) \in [CIDR -> Nat]
    BY <1>2 DEF Grants, Live, Held, Slot, Entry
  <2>2. c \in Live(T, clock) <=> end > clock
    <3>1. T[c] # NoEntry
      BY <1>1, <1>5, StoreConstants DEF Entry
    <3> QED
      BY <1>5, <3>1 DEF Live, Held
  <2>3. \A d \in CIDR \ {c} : d \in Live(T, clock) <=> d \in Live(entries, clock)
    BY <1>5 DEF Live, Held
  <2>4. ASSUME NEW d \in CIDR PROVE G[d] = Grants(T)[d]
    <3>1. CASE d = c
      BY <1>1, <1>5, <2>1, <2>2, <3>1 DEF White!Until, Grants
    <3>2. CASE d # c
      <4>1. G[d] = IF Grants(entries)[d] > clock THEN Grants(entries)[d] ELSE 0
        BY <2>1, <3>2 DEF White!Until
      <4>2. G[d] = Grants(entries)[d]
        BY <1>0, <1>1, <1>2, <4>1, GrantsFacts
      <4> QED
        BY <1>5, <2>3, <3>2, <4>2 DEF Grants
    <3> QED
      BY <3>1, <3>2
  <2> QED
    BY <2>4 DEF White!Until, Grants
<1> HIDE DEF G
<1> DEFINE N == Grants(entries)'
<1>9. N = [d \in CIDR |-> IF d \in Live(entries', clock) THEN entries'[d].expires ELSE 0]
  BY <1>3 DEF Grants, Live, Held
<1>10. /\ White!Held(N) = Live(entries', clock)
       /\ \A d \in CIDR : N[d] # 0 => d \in Live(entries', clock) /\ N[d] = entries'[d].expires
  <2>1. \A d \in Live(entries', clock) : entries'[d].expires # 0 /\ d \in CIDR
    BY <1>1, <1>2 DEF Live, Held, Slot, Entry
  <2> QED
    BY <1>9, <2>1 DEF White!Held
<1> HIDE DEF N
<1> DEFINE gone == White!Held(G) \ White!Held(N)
<1>11. White!Held(G) = Live(T, clock) /\ \A d \in Live(T, clock) : G[d] = T[d].expires
  BY <1>0, <1>5, <1>8, GrantsFacts
<1>12. \A d \in CIDR : entries'[d] = IF d \in out.evicted THEN NoEntry ELSE T[d]
  BY <1>4 DEF Drop
<1>13. Live(entries', clock) = Live(T, clock) \ out.evicted
  BY <1>12 DEF Live, Held
<1>14. gone = Live(T, clock) \cap out.evicted
  BY <1>10, <1>11, <1>13
<1> HIDE DEF gone
<1>15. N = [d \in CIDR |-> IF d \in gone THEN 0 ELSE G[d]]
  <2>1. ASSUME NEW d \in CIDR PROVE N[d] = IF d \in gone THEN 0 ELSE G[d]
    <3>1. CASE d \in Live(entries', clock)
      BY <1>9, <1>11, <1>12, <1>13, <1>14, <3>1
    <3>2. CASE d \notin Live(entries', clock)
      <4>1. N[d] = 0
        BY <1>9, <3>2
      <4>2. d \in gone \/ d \notin Live(T, clock)
        BY <1>13, <1>14, <3>2
      <4>3. d \notin Live(T, clock) => G[d] = 0
        BY <1>0, <1>5, <1>8, GrantsFacts
      <4> QED
        BY <4>1, <4>2, <4>3
    <3> QED
      BY <3>1, <3>2
  <2> QED
    BY <1>9, <2>1
<1>16. Cardinality(White!Held(N)) <= limit
  <2>1. White!Held(N) \subseteq Held(entries') /\ IsFiniteSet(Held(entries'))
    <3>1. Held(entries') \subseteq CIDR
      BY DEF Held
    <3> QED
      BY <1>10, <3>1, StoreConstants, FS_Subset DEF Live
  <2>2. /\ Cardinality(White!Held(N)) <= Cardinality(Held(entries'))
        /\ Cardinality(White!Held(N)) \in Nat /\ Cardinality(Held(entries')) \in Nat
    BY <2>1, FS_Subset, FS_CardinalityType
  <2> QED
    BY <1>1, <1>6, <2>2
<1>17. ASSUME NEW d \in gone
       PROVE  /\ Cardinality(White!Held(N)) = limit
              /\ \A k \in White!Held(N) : G[d] <= G[k]
  <2>1. d \in Live(T, clock) /\ d \in out.evicted
    BY <1>14, <1>17
  <2>2. d \in Held(T) /\ T[d].expires > clock
    BY <2>1 DEF Live
  <2>3. T[d].expires \in Nat
    BY <1>1, <1>7, <2>2
  <2>4. d \notin Expired(T, now)
    BY <1>1, <2>2, <2>3 DEF Expired
  <2>5. /\ Cardinality(Held(entries')) = limit
        /\ \A k \in Held(entries') : T[d].seen <= T[k].seen
    BY <1>6, <2>1, <2>4
  <2>6. \A k \in Held(entries') : k \in Held(T) /\ entries'[k] = T[k]
    BY <1>12 DEF Held
  <2>7. \A k \in Held(entries') : T[d].expires <= T[k].expires /\ T[k].expires > clock
    BY <1>1, <1>7, <2>2, <2>5, <2>6
  <2>8. White!Held(N) = Held(entries')
    BY <1>10, <2>6, <2>7 DEF Live
  <2>9. \A k \in White!Held(N) : G[d] <= G[k]
    <3>1. \A k \in White!Held(N) : k \in Live(T, clock)
      BY <1>10, <1>13
    <3> QED
      BY <1>11, <2>1, <2>7, <2>8, <3>1
  <2> QED
    BY <2>5, <2>8, <2>9
<1>18. end + MaxLag >= Grants(entries)[c]
  <2>1. CASE c \in Live(entries, clock)
    <3>1. entries[c].expires = entries[c].seen + TTL /\ entries[c].seen <= clock
      BY <2>1 DEF StoreInv, NeverPermanent, Live
    <3>2. entries[c].seen \in Nat
      BY <1>2, <2>1 DEF Live, Held, Slot, Entry
    <3> QED
      BY <1>0, <1>1, <1>2, <2>1, <3>1, <3>2, GrantsFacts
  <2>2. CASE c \notin Live(entries, clock)
    BY <1>0, <1>1, <1>2, <2>2, GrantsFacts
  <2> QED
    BY <2>1, <2>2
<1>19. Grants(disk)' \in {N, Grants(disk)}
  <2>1. disk' = entries' \/ disk' = disk
    BY <1>3 DEF Persist
  <2> QED
    BY <1>3, <2>1 DEF Grants, N, Live, Held
<1>20. White!Grant(c, end)
  BY <1>3, <1>15, <1>16, <1>17, <1>18, <1>19, SameSize DEF White!Grant, G, N, gone
<1>21. end \in TTL .. MaxClock + TTL
  BY <1>1
<1> QED
  BY <1>20, <1>21 DEF White!Next

(* Every step of the store is one of the list, or leaves it alone.            *)
LEMMA WhitelistStep ==
  ASSUME StoreInv, TypeOK', [Next]_vars
  PROVE  [White!Next]_(White!vars)
<1>0. TypeOK
  BY DEF StoreInv
<1>1. ASSUME NEW c \in CIDR, NEW now \in Readings, NEW ok \in BOOLEAN, Record(c, now, ok)
      PROVE  White!Next
  BY <1>1, RecordGrants
<1>2. ASSUME NEW now \in Readings, NEW ok \in BOOLEAN, Purge(now, ok)
      PROVE  [White!Next]_(White!vars)
  <2>1. /\ entries' = Drop(entries, Expired(entries, now))
        /\ disk' = entries' \/ disk' = disk
        /\ UNCHANGED <<clock, limit>>
    BY <1>2 DEF Purge, Persist
  <2>2. now <= clock /\ now \in Nat /\ clock \in Nat
    BY <1>0 DEF TypeOK, Readings
  <2>3. Live(entries', clock) = Live(entries, clock)
    <3>1. \A d \in Held(entries) : entries[d].expires \in Nat
      BY <1>0 DEF TypeOK, Held, Slot, Entry
    <3>2. \A d \in Live(entries, clock) : d \notin Expired(entries, now)
      BY <2>2, <3>1 DEF Live, Expired
    <3> QED
      BY <2>1, <3>2 DEF Live, Held, Drop
  <2>4. \A d \in Live(entries, clock) : entries'[d] = entries[d]
    BY <2>1, <2>3 DEF Live, Held, Drop
  <2>5. Grants(entries)' = Grants(entries)
    BY <2>1, <2>3, <2>4 DEF Grants, Live, Held
  <2>6. CASE disk' = entries'
    <3>1. Grants(disk)' = Grants(entries)'
      BY <2>6 DEF Grants
    <3> QED
      BY <2>1, <2>5, <3>1 DEF White!Next, White!Save
  <2>7. CASE disk' = disk
    <3>1. Grants(disk)' = Grants(disk)
      BY <2>1, <2>7 DEF Grants, Live, Held
    <3> QED
      BY <2>1, <2>5, <3>1 DEF White!Next, White!vars
  <2> QED
    BY <2>1, <2>6, <2>7
<1>3. CASE Restart
  <2>1. Grants(entries)' = Grants(disk) /\ Grants(disk)' = Grants(disk)
    BY <1>3 DEF Restart, Grants, Live, Held
  <2> QED
    BY <1>3, <2>1 DEF Restart, White!Next, White!Restart
<1>4. CASE Tick
  <2>1. UNCHANGED <<entries, disk, limit>> /\ clock' = clock + 1
    BY <1>4 DEF Tick
  <2>2. entries \in [CIDR -> Slot] /\ disk \in [CIDR -> Slot]
    BY <1>0 DEF TypeOK
  <2>3. /\ Grants(entries)' = White!Until(Grants(entries), clock + 1)
        /\ Grants(disk)' = White!Until(Grants(disk), clock + 1)
    <3>1. /\ Grants(entries)' = [c \in CIDR |-> IF c \in Live(entries, clock + 1)
                                                THEN entries[c].expires ELSE 0]
          /\ Grants(disk)' = [c \in CIDR |-> IF c \in Live(disk, clock + 1)
                                             THEN disk[c].expires ELSE 0]
      BY <2>1 DEF Grants, Live, Held
    <3> QED
      BY <1>0, <2>2, <3>1, GrantsPass
  <2> QED
    BY <2>1, <2>3 DEF White!Next, White!Pass
<1>5. CASE UNCHANGED vars
  BY <1>5 DEF vars, White!vars, Grants, Live, Held
<1> QED
  BY <1>1, <1>2, <1>3, <1>4, <1>5 DEF Next

(* Memory and entries.json are the list of Whitelist.tla and its copy, for    *)
(* any limits, TTL, lag of readings, failing writes and restarts.             *)
THEOREM StoreIsWhitelist == Spec => ImplementsWhitelist
<1>1. Init => White!Init
  <2> SUFFICES ASSUME Init PROVE White!Init
    OBVIOUS
  <2>1. Grants(entries) = White!NoGrants /\ Grants(disk) = White!NoGrants
    BY DEF Init, Empty, Grants, Live, Held, White!NoGrants
  <2> QED
    BY <2>1 DEF Init, White!Init
<1>2. StoreInv /\ StoreInv' /\ [Next]_vars => [White!Next]_(White!vars)
  BY WhitelistStep DEF StoreInv
<1> QED
  BY <1>1, <1>2, StoreInvariant, PTL DEF Spec, ImplementsWhitelist, White!Spec
=============================================================================
