-------------------------- MODULE AuthServerProofs --------------------------
(* What holds of AuthServer for any number of handlers, targets, CIDRs and    *)
(* faults, any order of targets and any timeouts.                             *)
EXTENDS AuthServer, FiniteSetTheorems, SequenceTheorems, TLAPS

Steps == {"idle", "checked", "purged", "recorded", "push", "wait", "ended"}

\* what is left of the loop over the targets
Rests == {SubSeq(Order, k + 1, Len(Order)) : k \in 0 .. Len(Order)}

(* One worker's part of the state, given the stretch of the loop it is in.    *)
WorkerOK(w) ==
  /\ pc[w] \in {"push", "wait", "ended"} <=> todo[w] # <<>>
  /\ todo[w] # <<>> => left[w] > 0

WorkOK ==
  /\ pc \in [Worker -> Steps]
  /\ env \in [Worker -> Entries]
  /\ todo \in [Worker -> Rests]
  /\ left \in [Worker -> -WaitDelay .. Budget]
  /\ \A w \in Worker : WorkerOK(w)

ListsOK ==
  /\ limit \in Limits
  /\ stamp \in Stamps /\ lapsed \in 0 .. stamp
  /\ mem \in Entries /\ file \in Entries
  /\ frozen \in BOOLEAN
  /\ req \in [Handler -> CIDR \cup {NotAllowed}]
  /\ faults \in 0 .. MaxFaults
  /\ since \in 0 .. stamp
  /\ past \in 0 .. Cardinality(Handler)

TargetsOK ==
  /\ procs \in [Target -> SUBSET Process]
  /\ allow \in [Target -> SUBSET CIDR]
  /\ up \in [Target -> BOOLEAN]
  /\ delay \in [Target -> Delays]

(* The Records there may still be: every request that is past the check will  *)
(* make one at most, and while the server is frozen none is added to those    *)
(* that were past it when the freeze file was made.                           *)
Awaited ==
  /\ stamp + Cardinality(Pending) <= MaxStamp
  /\ frozen => since + Cardinality(Pending) <= past
  /\ ~frozen => since = 0

(* A worker has one process at a time.                                        *)
Solitary ==
  \A t \in Target : \A x, y \in procs[t] : x.by = y.by /\ x.by # Nobody => x = y

IInv ==
  /\ WorkOK /\ ListsOK /\ TargetsOK
  /\ Awaited
  /\ Solitary /\ AnswersMatch

-----------------------------------------------------------------------------
(* The loop over Order: what is left is made of targets, begins as Order, and *)
(* without its head is again a rest of it.                                    *)
LEMMA RestsOfOrder ==
  /\ Order \in Rests /\ <<>> \in Rests
  /\ \A s \in Rests : s \in Seq(Target)
  /\ \A s \in Rests : s # <<>> => Head(s) \in Target /\ Tail(s) \in Rests
  /\ \A s \in Rests : s # <<>> /\ Len(s) # 1 => Tail(s) # <<>>
<1> DEFINE n == Len(Order)
<1>1. Order \in Seq(Target) /\ n \in Nat /\ n > 0
  BY ServerConstants
<1>2. Order \in Rests
  BY <1>1, SubSeqFull, SubSeq(Order, 0 + 1, n) = Order DEF Rests
<1>3. <<>> \in Rests
  <2>1. SubSeq(Order, n + 1, n) = <<>>
    BY <1>1, SubSeqEmpty
  <2> QED
    BY <1>1, <2>1 DEF Rests
<1>4. ASSUME NEW k \in 0 .. n
      PROVE  /\ SubSeq(Order, k + 1, n) \in Seq(Target)
             /\ Len(SubSeq(Order, k + 1, n)) = n - k
  BY <1>1
<1>5. ASSUME NEW k \in 0 .. n, SubSeq(Order, k + 1, n) # <<>>
      PROVE  Tail(SubSeq(Order, k + 1, n)) = SubSeq(Order, k + 2, n) /\ k < n
  <2>1. k < n
    BY <1>1, <1>4, <1>5
  <2> QED
    BY <1>1, <2>1, HeadTailOfSubSeq, k + 1 \in 1 .. n, n \in k + 1 .. n, k + 1 + 1 = k + 2
<1>6. ASSUME NEW s \in Rests, s # <<>>
      PROVE  /\ Head(s) \in Target /\ Tail(s) \in Rests
             /\ Len(s) # 1 => Tail(s) # <<>>
  <2>1. PICK k \in 0 .. n : s = SubSeq(Order, k + 1, n)
    BY DEF Rests
  <2>2. Tail(s) = SubSeq(Order, k + 2, n) /\ k < n
    BY <1>5, <1>6, <2>1
  <2>3. Tail(s) \in Rests
    BY <1>1, <2>2, k + 1 \in 0 .. n, k + 2 = (k + 1) + 1 DEF Rests
  <2>4. s \in Seq(Target)
    BY <1>4, <2>1
  <2>5. Head(s) \in Target
    BY <1>6, <2>4, HeadTailProperties
  <2>6. Len(Tail(s)) = Len(s) - 1
    BY <1>6, <2>4, HeadTailProperties, Zenon
  <2>7. Len(s) \in Nat
    BY <2>4
  <2>8. ASSUME Tail(s) = <<>> PROVE Len(s) = 1
    <3> DEFINE m == Len(s)
               l == Len(Tail(s))
    <3>1. l = 0
      BY <2>8, EmptySeq, Zenon
    <3>2. l = m - 1 /\ m \in Nat
      BY <2>6, <2>7, Zenon
    <3> HIDE DEF m, l
    <3>3. m = 1
      BY <3>1, <3>2
    <3> QED
      BY <3>3 DEF m
  <2> QED
    BY <2>3, <2>5, <2>8
<1> QED
  BY <1>2, <1>3, <1>4, <1>6 DEF Rests

(* The store starts empty, and purging keeps a set of entries one.            *)
LEMMA EntriesFacts ==
  /\ NoEntries \in Entries
  /\ lapsed \in Nat /\ mem \in Entries => Purged(mem) \in Entries
BY ServerConstants DEF NoEntries, Entries, Stamps, Purged

(* What the loop does with one worker, and that it does nothing with another. *)
LEMMA AdvanceWork ==
  ASSUME WorkOK, NEW w \in Worker, NEW rest \in -WaitDelay .. Budget,
         pc[w] \in {"push", "wait", "ended"}, Advance(w, rest)
  PROVE  /\ WorkOK'
         /\ pc'[w] \in {"idle", "push"}
         /\ \A v \in Worker \ {w} :
              pc'[v] = pc[v] /\ env'[v] = env[v] /\ todo'[v] = todo[v]
<1> USE DEF WorkOK, WorkerOK, Goto, Steps
<1>1. todo[w] \in Rests /\ todo[w] # <<>>
  OBVIOUS
<1>2. CASE Idle(w, rest)
  <2>1. NoEntries \in Entries /\ <<>> \in Rests
    BY EntriesFacts, RestsOfOrder
  <2>2. 0 \in -WaitDelay .. Budget
    BY ServerConstants
  <2> QED
    BY <1>2, <2>1, <2>2 DEF Idle
<1>3. CASE TryNext(w, rest) /\ Len(todo[w]) # 1 /\ ~(rest <= 0)
  <2>1. Tail(todo[w]) \in Rests /\ Tail(todo[w]) # <<>>
    BY <1>1, <1>3, RestsOfOrder
  <2> DEFINE s == Tail(todo[w])
  <2>2. /\ pc' = [pc EXCEPT ![w] = "push"]
        /\ todo' = [todo EXCEPT ![w] = s]
        /\ left' = [left EXCEPT ![w] = rest]
        /\ env' = env
    BY <1>3 DEF TryNext
  <2>3. rest > 0
    BY <1>3, ServerConstants
  <2> HIDE DEF s
  <2>4. s \in Rests /\ s # <<>>
    BY <2>1 DEF s
  <2> QED
    BY <2>2, <2>3, <2>4
<1> QED
  BY <1>2, <1>3 DEF Advance

(* What a push leaves of the budget is never more than there was, and less    *)
(* than nothing only by the WaitDelay.                                        *)
LEMMA RestsInRange ==
  ASSUME WorkOK, NEW w \in Worker, pc[w] \in {"push", "wait", "ended"}
  PROVE  /\ left[w] \in -WaitDelay .. Budget
         /\ Spent(left[w]) \in -WaitDelay .. Budget
         /\ Spent(left[w]) - WaitDelay \in -WaitDelay .. Budget
         /\ TargetsOK /\ Quick(w) =>
              left[w] - delay[Head(todo[w])] \in -WaitDelay .. Budget
<1>1. left[w] \in -WaitDelay .. Budget /\ left[w] > 0
  BY DEF WorkOK, WorkerOK
<1>2. Budget \in Nat /\ WaitDelay \in Nat /\ Timeout \in Nat \ {0} /\ Delays \subseteq Nat
  BY ServerConstants
<1> DEFINE n == left[w]
<1>3. n \in 1 .. Budget
  BY <1>1, <1>2
<1> HIDE DEF n
<1>4. Spent(n) \in 0 .. Budget
  BY <1>2, <1>3 DEF Spent
<1>5. \A d \in Delays : d < n => n - d \in 0 .. Budget
  BY <1>2, <1>3
<1>6. n \in -WaitDelay .. Budget /\ 0 .. Budget \subseteq -WaitDelay .. Budget
  BY <1>2, <1>3
<1>7. Spent(n) - WaitDelay \in -WaitDelay .. Budget
  BY <1>2, <1>4
<1>8. TargetsOK => delay[Head(todo[w])] \in Delays
  BY RestsOfOrder DEF TargetsOK, WorkOK, WorkerOK
<1> QED
  BY <1>4, <1>5, <1>6, <1>7, <1>8 DEF n, Quick

(* A push that is given up takes its worker to the next target, with what is  *)
(* left of the budget.                                                        *)
LEMMA GiveUpWork ==
  ASSUME WorkOK, NEW w \in Worker, NEW fault \in BOOLEAN,
         pc[w] \in {"push", "wait", "ended"},
         GiveUp(w, fault), faults \in 0 .. MaxFaults
  PROVE  \E rest \in -WaitDelay .. Budget : Advance(w, rest) /\ faults' \in 0 .. MaxFaults
<1>1. PICK held \in {0, WaitDelay} :
        /\ IF fault \/ held > 0 THEN Fault ELSE UNCHANGED faults
        /\ Advance(w, Spent(left[w]) - held)
  BY DEF GiveUp
<1>2. faults' \in 0 .. MaxFaults
  BY <1>1, ServerConstants DEF Fault
<1>3. Spent(left[w]) - held \in -WaitDelay .. Budget
  BY RestsInRange, ServerConstants
<1> QED
  BY <1>1, <1>2, <1>3

(* A push that is answered does so too, with less or no time gone.            *)
LEMMA EndedWork ==
  ASSUME WorkOK, TargetsOK, NEW w \in Worker, pc[w] \in {"push", "wait", "ended"}, Ended(w)
  PROVE  \E rest \in -WaitDelay .. Budget : Advance(w, rest)
BY RestsInRange DEF Ended

-----------------------------------------------------------------------------
(* Requests past the check are finitely many.                                 *)
LEMMA PendingFacts ==
  /\ IsFiniteSet(Pending) /\ Cardinality(Pending) \in Nat
  /\ Cardinality(Handler) \in Nat /\ Cardinality(Pending) <= Cardinality(Handler)
  /\ \A h \in Pending : Cardinality(Pending \ {h}) = Cardinality(Pending) - 1
                       /\ Cardinality(Pending \ {h}) \in Nat
<1>1. Pending \subseteq Handler /\ IsFiniteSet(Handler)
  BY ServerConstants DEF Pending
<1>2. IsFiniteSet(Pending) /\ Cardinality(Pending) <= Cardinality(Handler)
  BY <1>1, FS_Subset
<1>3. \A h \in Pending : IsFiniteSet(Pending \ {h})
                        /\ Cardinality(Pending \ {h}) = Cardinality(Pending) - 1
  BY <1>2, FS_RemoveElement
<1> QED
  BY <1>1, <1>2, <1>3, FS_CardinalityType

(* What Record may make of the store are entries.                             *)
LEMMA RecordedEntries ==
  ASSUME ListsOK, NEW c \in CIDR, stamp + 1 \in Stamps
  PROVE  Joined(c) \in Entries /\ Recorded(c) \subseteq Entries
<1>1. Joined(c) \in Entries
  BY ServerConstants DEF Joined, Purged, ListsOK, Entries, Stamps
<1> QED
  BY <1>1, ServerConstants DEF Recorded, Entries, Stamps

(* The next Record has a stamp to use.                                        *)
LEMMA RecordRoom ==
  ASSUME ListsOK, Awaited, NEW h \in Handler, Record(h)
  PROVE  /\ stamp + 1 \in Stamps /\ h \in Pending /\ req[h] \in CIDR
         /\ mem' \in Entries /\ file' \in {file, mem'}
<1>1. h \in Pending /\ req[h] \in CIDR
  BY DEF Record, Pending, ListsOK
<1> DEFINE n == Cardinality(Pending)
<1>2. stamp + 1 \in Stamps
  <2>1. n \in Nat /\ n - 1 \in Nat
    BY <1>1, PendingFacts
  <2>2. stamp \in Nat /\ stamp + n <= MaxStamp /\ MaxStamp \in Nat
    BY ServerConstants DEF ListsOK, Awaited, Stamps
  <2> HIDE DEF n
  <2> QED
    BY <2>1, <2>2 DEF Stamps
<1> QED
  BY <1>1, <1>2, RecordedEntries DEF Record

(* The file is the memory or what it was; a fault is one of those there may   *)
(* still be.                                                                  *)
LEMMA PersistTypes ==
  ASSUME ListsOK, NEW E \in Entries, Persist(E)
  PROVE  file' \in Entries /\ faults' \in 0 .. MaxFaults
BY ServerConstants DEF Persist, Fault, ListsOK

(* Purge takes entries away and writes the file.                              *)
LEMMA PurgeTypes ==
  ASSUME ListsOK, PurgeStore
  PROVE  mem' \in Entries /\ file' \in Entries /\ faults' \in 0 .. MaxFaults
<1>1. Purged(mem) \in Entries
  BY EntriesFacts, ServerConstants DEF ListsOK, Stamps
<1> QED
  BY <1>1, PersistTypes DEF PurgeStore, ListsOK

(* A process that is not yet done has its worker waiting in the loop.         *)
LEMMA AwaitedBy ==
  ASSUME AnswersMatch, TargetsOK, NEW t \in Target, NEW x \in procs[t], x.by # Nobody
  PROVE  x.by \in Worker /\ pc[x.by] = "wait" /\ t = Head(todo[x.by])
BY DEF AnswersMatch, TargetsOK, Process

-----------------------------------------------------------------------------
Types == WorkOK /\ ListsOK /\ TargetsOK

(* A server that has just been started.                                       *)
LEMMA InitTypes == Init => Types
<1> SUFFICES ASSUME Init PROVE Types
  OBVIOUS
<1>0. 0 \in -WaitDelay .. Budget /\ NoEntries \in Entries /\ <<>> \in Rests
  BY ServerConstants, EntriesFacts, RestsOfOrder
<1>1. WorkOK
  <2>1. /\ pc = [w \in Worker |-> "idle"] /\ env = [w \in Worker |-> NoEntries]
        /\ todo = [w \in Worker |-> <<>>] /\ left = [w \in Worker |-> 0]
    BY DEF Init
  <2> QED
    BY <1>0, <2>1 DEF WorkOK, WorkerOK, Steps
<1>2. ListsOK
  <2>1. MaxStamp \in Nat /\ MaxFaults \in Nat
    BY ServerConstants
  <2>2. /\ limit \in Limits
        /\ stamp = 0 /\ lapsed = 0 /\ since = 0 /\ past = 0 /\ faults = MaxFaults
        /\ mem = NoEntries /\ file = NoEntries /\ frozen = FALSE
        /\ req = [h \in Handler |-> NotAllowed]
    BY DEF Init
  <2>3. frozen \in BOOLEAN
    BY <2>2
  <2> QED
    BY <1>0, <2>1, <2>2, <2>3, PendingFacts DEF ListsOK, Stamps
<1>3. TargetsOK
  BY DEF Init, TargetsOK
<1> QED
  BY <1>1, <1>2, <1>3 DEF Types

(* Every step of the loop over the targets changes the work of one worker so. *)
LEMMA LoopTypes ==
  ASSUME Types, NEW w \in Worker, pc[w] \in {"push", "wait", "ended"},
         NEW rest \in -WaitDelay .. Budget, Advance(w, rest),
         faults' \in 0 .. MaxFaults, TargetsOK',
         UNCHANGED <<store, lapsed, frozen, req, since, past>>
  PROVE  Types'
<1>1. WorkOK'
  BY AdvanceWork DEF Types
<1>2. ListsOK'
  BY DEF Types, ListsOK, store
<1> QED
  BY <1>1, <1>2 DEF Types

(* Every step keeps the types and the stretch of the loop each worker is in.  *)
LEMMA NextTypes ==
  ASSUME IInv, [Next]_vars
  PROVE  Types'
<1> USE DEF IInv, Types
<1>w. ASSUME NEW w \in Worker, NEW next \in Steps \ {"push", "wait", "ended"},
             pc[w] \notin {"push", "wait", "ended"}, Goto(w, next),
             UNCHANGED <<env, todo, left>>
      PROVE  WorkOK'
  BY <1>w DEF WorkOK, WorkerOK, Goto, Steps
<1>t. ASSUME UNCHANGED targets PROVE TargetsOK'
  BY <1>t DEF TargetsOK, targets
<1>h. Handler \subseteq Worker /\ Purger \in Worker /\ (Reconciles => Reconciler \in Worker)
  BY DEF Worker
<1>1. ASSUME NEW h \in Handler, NEW c \in CIDR \cup {NotAllowed}, Check(h, c)
      PROVE  Types'
  <2>1. WorkOK'
    BY <1>1, <1>h, ServerConstants DEF Check, WorkOK, WorkerOK, Goto, Steps
  <2>2. ListsOK'
    BY <1>1 DEF Check, ListsOK, store
  <2> QED
    BY <1>1, <1>t, <2>1, <2>2 DEF Check
<1>2. ASSUME NEW h \in Handler, PurgeFirst(h) PROVE Types'
  <2>1. WorkOK'
    BY <1>2, <1>h, <1>w DEF PurgeFirst, Steps
  <2>2. ListsOK'
    BY <1>2, PurgeTypes DEF PurgeFirst, ListsOK
  <2> QED
    BY <1>2, <1>t, <2>1, <2>2 DEF PurgeFirst
<1>3. ASSUME NEW h \in Handler, Refuse(h) PROVE Types'
  <2>1. WorkOK'
    BY <1>3, <1>h, <1>w DEF Refuse, Steps
  <2>2. ListsOK'
    BY <1>3 DEF Refuse, ListsOK, store
  <2> QED
    BY <1>3, <1>t, <2>1, <2>2 DEF Refuse
<1>4. ASSUME NEW h \in Handler, Record(h) PROVE Types'
  <2>1. WorkOK'
    BY <1>4, <1>h, <1>w DEF Record, Steps
  <2>2. stamp + 1 \in Stamps /\ mem' \in Entries /\ file' \in {file, mem'}
    BY <1>4, RecordRoom
  <2>3. faults' \in 0 .. MaxFaults /\ file' \in Entries /\ limit' \in Limits /\ past' = past
    BY <1>4, <2>2, ServerConstants DEF Record, Fault, ListsOK
  <2>4. stamp \in Nat /\ lapsed' \in 0 .. stamp /\ since \in 0 .. stamp
    BY <1>4 DEF Record, ListsOK, Stamps
  <2>5. stamp' = stamp + 1 /\ since' \in {since, since + 1} /\ mem' \in Entries
    BY <1>4, <2>2 DEF Record
  <2>6. stamp' \in Stamps /\ lapsed' \in 0 .. stamp' /\ since' \in 0 .. stamp'
    BY <2>2, <2>4, <2>5
  <2>7. req' \in [Handler -> CIDR \cup {NotAllowed}] /\ frozen' \in BOOLEAN
    BY <1>4 DEF Record, ListsOK
  <2>8. ListsOK'
    BY <2>2, <2>3, <2>5, <2>6, <2>7 DEF ListsOK, Stamps, Entries
  <2> QED
    BY <1>4, <1>t, <2>1, <2>8 DEF Record
<1>5. ASSUME PurgeTick PROVE Types'
  <2>1. WorkOK'
    BY <1>5, <1>h, <1>w DEF PurgeTick, Steps
  <2>2. ListsOK'
    BY <1>5, PurgeTypes DEF PurgeTick, ListsOK
  <2> QED
    BY <1>5, <1>t, <2>1, <2>2 DEF PurgeTick
<1>6. ASSUME ReconcileTick PROVE Types'
  <2>1. WorkOK'
    BY <1>6, <1>h, <1>w DEF ReconcileTick, Steps
  <2>2. ListsOK'
    BY <1>6, PurgeTypes DEF ReconcileTick, ListsOK
  <2> QED
    BY <1>6, <1>t, <2>1, <2>2 DEF ReconcileTick
<1>7. ASSUME NEW w \in Worker, BuildEnvelope(w) PROVE Types'
  <2>1. Order \in Rests /\ Order # <<>>
    BY RestsOfOrder, ServerConstants
  <2>2. lapsed \in Nat /\ Purged(mem) \in Entries
    BY EntriesFacts, ServerConstants DEF ListsOK, Stamps
  <2>3. Budget \in -WaitDelay .. Budget /\ Budget > 0
    BY ServerConstants
  <2>4. WorkOK'
    <3> DEFINE e == IF w \in Handler THEN Purged(mem) ELSE mem
    <3>1. e \in Entries
      BY <2>2 DEF ListsOK
    <3>2. /\ pc' = [pc EXCEPT ![w] = "push"] /\ env' = [env EXCEPT ![w] = e]
          /\ todo' = [todo EXCEPT ![w] = Order] /\ left' = [left EXCEPT ![w] = Budget]
      BY <1>7 DEF BuildEnvelope, Goto
    <3> HIDE DEF e
    <3> QED
      BY <2>1, <2>3, <3>1, <3>2 DEF WorkOK, WorkerOK, Steps
  <2>5. ListsOK'
    BY <1>7 DEF BuildEnvelope, ListsOK, store
  <2> QED
    BY <1>7, <1>t, <2>4, <2>5 DEF BuildEnvelope
<1>8. ASSUME NEW w \in Worker, Connect(w) PROVE Types'
  <2>1. WorkOK'
    BY <1>8 DEF Connect, WorkOK, WorkerOK, Goto, Steps
  <2>2. ListsOK'
    BY <1>8 DEF Connect, ListsOK, store
  <2>3. [by |-> w, kept |-> Live(env[w])] \in Process
    BY DEF Process, Live
  <2>4. TargetsOK'
    <3>1. CASE UNCHANGED procs
      BY <1>8, <3>1 DEF Connect, TargetsOK
    <3>2. CASE Cardinality(Held(env[w])) <= TargetLimit
      BY <1>8, <2>3, <3>2 DEF Connect, TargetsOK
    <3> QED
      BY <1>8, <3>1, <3>2 DEF Connect
  <2> QED
    BY <2>1, <2>2, <2>4
<1>9. ASSUME NEW w \in Worker, NoAnswer(w) PROVE Types'
  <2>1. TargetsOK' /\ UNCHANGED <<store, lapsed, frozen, req, since, past>>
    BY <1>9, <1>t DEF NoAnswer
  <2>2. \E rest \in -WaitDelay .. Budget : Advance(w, rest) /\ faults' \in 0 .. MaxFaults
    BY <1>9, GiveUpWork, EndedWork DEF NoAnswer, ListsOK
  <2> QED
    BY <1>9, <2>1, <2>2, LoopTypes DEF NoAnswer
<1>10. ASSUME NEW w \in Worker, Answer(w) PROVE Types'
  <2>1. TargetsOK' /\ UNCHANGED <<store, lapsed, frozen, req, since, past>>
    BY <1>10, <1>t DEF Answer
  <2>2. \E rest \in -WaitDelay .. Budget : Advance(w, rest)
    BY <1>10, EndedWork DEF Answer
  <2> QED
    BY <1>10, <2>1, <2>2, LoopTypes DEF Answer, ListsOK
<1>11. ASSUME NEW w \in Worker, TimeOut(w) PROVE Types'
  <2> DEFINE t == Head(todo[w])
  <2>1. todo[w] \in Rests /\ todo[w] # <<>>
    BY <1>11 DEF TimeOut, WorkOK, WorkerOK
  <2>2. t \in Target
    BY <2>1, RestsOfOrder
  <2>3. \A x \in procs[t] : [x EXCEPT !.by = Nobody] \in Process
    BY <2>2 DEF TargetsOK, Process
  <2>4. TargetsOK'
    BY <1>11, <2>2, <2>3 DEF TimeOut, TargetsOK
  <2>5. (up[t] /\ Quick(w)) \in BOOLEAN
    BY <2>2 DEF TargetsOK, Quick
  <2>6. \E rest \in -WaitDelay .. Budget : Advance(w, rest) /\ faults' \in 0 .. MaxFaults
    BY <1>11, <2>5, GiveUpWork DEF TimeOut, ListsOK
  <2> QED
    BY <1>11, <2>4, <2>6, LoopTypes DEF TimeOut
<1>12. ASSUME NEW t \in Target, NEW x \in procs[t], Apply(t, x) PROVE Types'
  <2>1. WorkOK'
    <3>1. CASE x.by = Nobody
      BY <1>12, <3>1 DEF Apply, WorkOK, WorkerOK
    <3>2. CASE x.by # Nobody
      <4>1. x.by \in Worker /\ pc[x.by] = "wait"
        BY <3>2, AwaitedBy
      <4> QED
        BY <1>12, <3>2, <4>1 DEF Apply, Goto, WorkOK, WorkerOK, Steps
    <3> QED
      BY <3>1, <3>2
  <2>2. ListsOK'
    BY <1>12 DEF Apply, ListsOK, store
  <2>3. TargetsOK'
    BY <1>12 DEF Apply, TargetsOK, Process
  <2> QED
    BY <2>1, <2>2, <2>3
<1>13. ASSUME NEW t \in Target, NEW x \in procs[t], RemoteFails(t, x) PROVE Types'
  <2>1. WorkOK'
    <3>1. CASE x.by = Nobody
      BY <1>13, <3>1 DEF RemoteFails, WorkOK, WorkerOK
    <3>2. CASE x.by # Nobody
      <4>1. x.by \in Worker /\ pc[x.by] = "wait"
        BY <3>2, AwaitedBy
      <4> QED
        BY <1>13, <3>2, <4>1 DEF RemoteFails, Goto, WorkOK, WorkerOK, Steps
    <3> QED
      BY <3>1, <3>2
  <2>2. ListsOK'
    BY <1>13, ServerConstants DEF RemoteFails, Fault, ListsOK, store
  <2>3. TargetsOK'
    BY <1>13 DEF RemoteFails, TargetsOK
  <2> QED
    BY <2>1, <2>2, <2>3
<1>14. ASSUME NEW t \in Target, LinkChanges(t) PROVE Types'
  <2>1. WorkOK'
    BY <1>14 DEF LinkChanges, work, WorkOK, WorkerOK
  <2>2. ListsOK'
    BY <1>14, ServerConstants DEF LinkChanges, work, store, Fault, ListsOK
  <2>3. TargetsOK'
    BY <1>14 DEF LinkChanges, TargetsOK
  <2> QED
    BY <2>1, <2>2, <2>3
<1>15. ASSUME Lapse PROVE Types'
  <2>1. WorkOK' /\ TargetsOK'
    BY <1>15, <1>t DEF Lapse, work, WorkOK, WorkerOK
  <2>2. ListsOK'
    BY <1>15 DEF Lapse, work, store, ListsOK, Stamps
  <2> QED
    BY <2>1, <2>2
<1>16. ASSUME Freeze PROVE Types'
  <2>1. WorkOK' /\ TargetsOK'
    BY <1>16, <1>t DEF Freeze, work, WorkOK, WorkerOK
  <2>2. ListsOK'
    <3>1. past' \in 0 .. Cardinality(Handler)
      BY <1>16, PendingFacts DEF Freeze
    <3>2. since' \in 0 .. stamp' /\ frozen' \in BOOLEAN
      BY <1>16 DEF Freeze, store, ListsOK, Stamps
    <3> QED
      BY <1>16, <3>1, <3>2 DEF Freeze, work, store, ListsOK
  <2> QED
    BY <2>1, <2>2
<1>17. ASSUME Crash PROVE Types'
  <2>0. 0 \in -WaitDelay .. Budget /\ NoEntries \in Entries /\ <<>> \in Rests
    BY ServerConstants, EntriesFacts, RestsOfOrder
  <2>1. WorkOK'
    BY <1>17, <2>0 DEF Crash, WorkOK, WorkerOK, Steps
  <2>2. ListsOK'
    <3>1. /\ mem' = file /\ UNCHANGED <<stamp, lapsed, file, frozen, since, past>>
          /\ req' = [h \in Handler |-> NotAllowed] /\ Fault /\ limit' \in Limits
      BY <1>17 DEF Crash
    <3>2. faults' \in 0 .. MaxFaults
      BY <3>1, ServerConstants DEF Fault, ListsOK
    <3> QED
      BY <3>1, <3>2 DEF ListsOK
  <2>3. \A t \in Target : \A x \in procs[t] : [x EXCEPT !.by = Nobody] \in Process
    BY DEF TargetsOK, Process
  <2>4. TargetsOK'
    BY <1>17, <2>3 DEF Crash, TargetsOK
  <2> QED
    BY <2>1, <2>2, <2>4
<1>18. ASSUME UNCHANGED vars PROVE Types'
  BY <1>18 DEF vars, WorkOK, WorkerOK, ListsOK, TargetsOK
<1> QED
  BY <1>1, <1>2, <1>3, <1>4, <1>5, <1>6, <1>7, <1>8, <1>9, <1>10, <1>11, <1>12, <1>13,
     <1>14, <1>15, <1>16, <1>17, <1>18 DEF Next, Serve, Push

-----------------------------------------------------------------------------
(* A step that adds no request to those that are awaited, and no Record.      *)
LEMMA NoMoreAwaited ==
  ASSUME Awaited, ListsOK, Pending' \subseteq Pending, stamp' = stamp,
         UNCHANGED <<frozen, since, past>>
  PROVE  Awaited'
<1> DEFINE n == Cardinality(Pending)
           m == Cardinality(Pending')
<1>1. m <= n /\ m \in Nat /\ n \in Nat
  <2>1. IsFiniteSet(Pending') /\ m <= n
    BY PendingFacts, FS_Subset
  <2> QED
    BY <2>1, PendingFacts, FS_CardinalityType
<1>2. /\ stamp \in Nat /\ MaxStamp \in Nat /\ stamp + n <= MaxStamp
      /\ since \in Nat /\ past \in Nat
  BY PendingFacts, ServerConstants DEF ListsOK, Stamps, Awaited
<1>3. (frozen => since + n <= past) /\ (~frozen => since = 0)
  BY DEF Awaited
<1> HIDE DEF n, m
<1>4. stamp' + m <= MaxStamp
  BY <1>1, <1>2
<1>5. (frozen' => since' + m <= past') /\ (~frozen' => since' = 0)
  BY <1>1, <1>2, <1>3
<1> QED
  BY <1>4, <1>5 DEF Awaited, m

(* The loop leaves the requests alone.                                        *)
LEMMA LoopAwaited ==
  ASSUME WorkOK, NEW w \in Worker, pc[w] \in {"push", "wait", "ended"},
         NEW rest \in -WaitDelay .. Budget, Advance(w, rest), UNCHANGED req
  PROVE  Pending' \subseteq Pending
<1>1. Handler \subseteq Worker
  BY DEF Worker
<1> QED
  BY <1>1, AdvanceWork DEF Pending

(* Only a request that passes the check adds to those awaited, and it passes  *)
(* only while the server is not frozen; a Record takes one away.              *)
LEMMA NextAwaited ==
  ASSUME IInv, [Next]_vars
  PROVE  Awaited'
<1> USE DEF IInv
<1>0. Handler \subseteq Worker /\ pc \in [Worker -> Steps]
  BY DEF Worker, WorkOK
<1>g. ASSUME NEW w \in Worker, NEW next \in Steps \ {"checked", "purged"}, Goto(w, next),
             UNCHANGED req
      PROVE  Pending' \subseteq Pending
  BY <1>g, <1>0 DEF Pending, Goto
<1>s. ASSUME UNCHANGED <<pc, req>> PROVE Pending' \subseteq Pending
  BY <1>s DEF Pending
<1>1. ASSUME NEW h \in Handler, NEW c \in CIDR \cup {NotAllowed}, Check(h, c)
      PROVE  Awaited'
  <2>1. CASE c = NotAllowed
    <3>1. Pending' \subseteq Pending
      BY <1>0, <1>1, <2>1 DEF Check, Goto, Pending, ListsOK
    <3> QED
      BY <1>1, <3>1, NoMoreAwaited DEF Check, store
  <2>2. CASE c # NotAllowed
    <3> DEFINE n == Cardinality(Pending)
    <3>1. Pending' = Pending \cup {h} /\ h \notin Pending
      BY <1>0, <1>1, <2>2 DEF Check, Goto, Pending, ListsOK
    <3>2. Cardinality(Pending') = n + 1 /\ n \in Nat
      BY <3>1, PendingFacts, FS_AddElement
    <3>3. stamp \in Nat /\ MaxStamp \in Nat /\ stamp + n < MaxStamp /\ stamp' = stamp
      BY <1>1, <2>2, ServerConstants DEF Check, ListsOK, Stamps, store
    <3>4. ~frozen' /\ since' = 0
      BY <1>1 DEF Check, Awaited
    <3> HIDE DEF n
    <3>5. stamp' + Cardinality(Pending') <= MaxStamp
      BY <3>2, <3>3
    <3> QED
      BY <3>4, <3>5 DEF Awaited
  <2> QED
    BY <2>1, <2>2
<1>2. ASSUME NEW h \in Handler, PurgeFirst(h) PROVE Awaited'
  <2>1. Pending' \subseteq Pending
    BY <1>0, <1>2 DEF PurgeFirst, Goto, Pending
  <2> QED
    BY <1>2, <2>1, NoMoreAwaited DEF PurgeFirst
<1>3. ASSUME NEW h \in Handler, Refuse(h) PROVE Awaited'
  <2>1. Pending' \subseteq Pending
    BY <1>0, <1>3, <1>g DEF Refuse, Steps
  <2> QED
    BY <1>3, <2>1, NoMoreAwaited DEF Refuse, store
<1>4. ASSUME NEW h \in Handler, Record(h) PROVE Awaited'
  <2> DEFINE n == Cardinality(Pending)
             m == Cardinality(Pending')
  <2>1. h \in Pending
    BY <1>4 DEF Record, Pending
  <2>2. Pending' = Pending \ {h}
    BY <1>0, <1>4 DEF Record, Goto, Pending, ListsOK
  <2>3. m = n - 1 /\ n \in Nat /\ m \in Nat
    BY <2>1, <2>2, PendingFacts
  <2>4. /\ stamp \in Nat /\ MaxStamp \in Nat /\ since \in Nat /\ past \in Nat
        /\ stamp + n <= MaxStamp
        /\ (frozen => since + n <= past) /\ (~frozen => since = 0)
    BY PendingFacts, ServerConstants DEF ListsOK, Stamps, Awaited
  <2>5. /\ stamp' = stamp + 1 /\ frozen' = frozen /\ past' = past
        /\ since' = IF frozen THEN since + 1 ELSE since
    BY <1>4 DEF Record
  <2> HIDE DEF n, m
  <2>6. stamp' + m <= MaxStamp
    BY <2>3, <2>4, <2>5
  <2>7. (frozen' => since' + m <= past') /\ (~frozen' => since' = 0)
    BY <2>3, <2>4, <2>5
  <2> QED
    BY <2>6, <2>7 DEF Awaited, m
<1>5. ASSUME PurgeTick \/ ReconcileTick PROVE Awaited'
  <2>1. Pending' \subseteq Pending
    <3>1. Purger \in Worker /\ (Reconciles => Reconciler \in Worker)
      BY DEF Worker
    <3> QED
      BY <1>5, <1>g, <3>1 DEF PurgeTick, ReconcileTick, Steps
  <2> QED
    BY <1>5, <2>1, NoMoreAwaited DEF PurgeTick, ReconcileTick
<1>6. ASSUME NEW w \in Worker, BuildEnvelope(w) \/ Connect(w) PROVE Awaited'
  <2>1. Pending' \subseteq Pending
    BY <1>6, <1>g DEF BuildEnvelope, Connect, Steps
  <2> QED
    BY <1>6, <2>1, NoMoreAwaited DEF BuildEnvelope, Connect, store
<1>7. ASSUME NEW w \in Worker, NoAnswer(w) \/ Answer(w) \/ TimeOut(w) PROVE Awaited'
  <2>1. pc[w] \in {"push", "wait", "ended"}
    BY <1>7 DEF NoAnswer, Answer, TimeOut
  <2>2. UNCHANGED req
    BY <1>7 DEF NoAnswer, Answer, TimeOut
  <2>3. \E rest \in -WaitDelay .. Budget : Advance(w, rest)
    <3>1. (up[Head(todo[w])] /\ Quick(w)) \in BOOLEAN
      BY DEF Quick
    <3> QED
      BY <1>7, <2>1, <3>1, GiveUpWork, EndedWork DEF NoAnswer, Answer, TimeOut, ListsOK
  <2>4. Pending' \subseteq Pending
    BY <2>1, <2>2, <2>3, LoopAwaited
  <2> QED
    BY <1>7, <2>4, NoMoreAwaited DEF NoAnswer, Answer, TimeOut, store
<1>8. ASSUME NEW t \in Target, NEW x \in procs[t], Apply(t, x) \/ RemoteFails(t, x)
      PROVE  Awaited'
  <2>1. UNCHANGED <<stamp, frozen, req, since, past>>
    BY <1>8 DEF Apply, RemoteFails, store
  <2>2. UNCHANGED pc \/ (x.by \in Worker /\ Goto(x.by, "ended"))
    BY <1>8, AwaitedBy DEF Apply, RemoteFails
  <2>3. Pending' \subseteq Pending
    BY <1>g, <1>s, <2>1, <2>2 DEF Steps
  <2> QED
    BY <2>1, <2>3, NoMoreAwaited
<1>9. ASSUME Freeze PROVE Awaited'
  <2> DEFINE n == Cardinality(Pending)
  <2>1. Pending' = Pending /\ stamp' = stamp
    BY <1>9 DEF Freeze, Pending, work, store
  <2>2. stamp + n <= MaxStamp /\ n \in Nat
    BY PendingFacts DEF Awaited
  <2>3. since' = 0 /\ (frozen' => past' = n)
    BY <1>9 DEF Freeze, ListsOK
  <2>4. Cardinality(Pending') = n
    BY <2>1
  <2> HIDE DEF n
  <2> QED
    BY <2>1, <2>2, <2>3, <2>4 DEF Awaited
<1>10. ASSUME NEW t \in Target, LinkChanges(t) PROVE Awaited'
  BY <1>10, <1>s, NoMoreAwaited DEF LinkChanges, work, store
<1>11. ASSUME Lapse PROVE Awaited'
  BY <1>11, <1>s, NoMoreAwaited DEF Lapse, work, store
<1>12. ASSUME Crash PROVE Awaited'
  <2>1. Pending' \subseteq Pending
    BY <1>0, <1>12 DEF Crash, Pending
  <2> QED
    BY <1>12, <2>1, NoMoreAwaited DEF Crash
<1>13. ASSUME UNCHANGED vars PROVE Awaited'
  BY <1>13, <1>s, NoMoreAwaited DEF vars
<1> QED
  BY <1>1, <1>2, <1>3, <1>4, <1>5, <1>6, <1>7, <1>8, <1>9, <1>10, <1>11, <1>12, <1>13
     DEF Next, Serve, Push

-----------------------------------------------------------------------------
(* Solitary and AnswersMatch together, in the form in which steps keep them:  *)
(* worker w has `mine' processes at its target, and none elsewhere.           *)
Alone(w) ==
  /\ pc[w] = "wait" => \E x \in procs[Head(todo[w])] : x.by = w
  /\ \A t \in Target : \A x, y \in procs[t] : x.by = w /\ y.by = w => x = y
  /\ \A t \in Target : \A x \in procs[t] :
       x.by = w => pc[w] = "wait" /\ t = Head(todo[w]) /\ x.kept \subseteq Held(env[w])

(* Every worker by itself: what Solitary and AnswersMatch say of all pushes   *)
(* together.                                                                  *)
LEMMA AloneIsMatch ==
  ASSUME TargetsOK
  PROVE  (\A w \in Worker : Alone(w)) <=> Solitary /\ AnswersMatch
<1>1. \A t \in Target : \A x \in procs[t] : x.by \in Worker \cup {Nobody}
  BY DEF TargetsOK, Process
<1>2. Nobody \notin Worker
  BY ServerConstants
<1> QED
  BY <1>1, <1>2 DEF Alone, Solitary, AnswersMatch

(* A worker that stays where it is, with the processes it has.                *)
LEMMA AloneKept ==
  ASSUME WorkOK, NEW v \in Worker, Alone(v),
         pc'[v] = pc[v], todo'[v] = todo[v], env'[v] = env[v],
         \A t \in Target : \A x : x.by = v => (x \in procs'[t] <=> x \in procs[t])
  PROVE  Alone(v)'
<1>1. pc[v] = "wait" => Head(todo[v]) \in Target
  BY RestsOfOrder DEF WorkOK, WorkerOK
<1> QED
  BY <1>1 DEF Alone, Held

(* A step by which worker w ends up waiting for nothing and without processes *)
(* while the others stay as they are.                                         *)
LEMMA AloneOf ==
  ASSUME WorkOK, \A v \in Worker : Alone(v), NEW w \in Worker,
         pc'[w] # "wait",
         \A v \in Worker \ {w} :
           pc'[v] = pc[v] /\ env'[v] = env[v] /\ todo'[v] = todo[v],
         \A t \in Target : \A x \in procs'[t] : x.by # w,
         \A t \in Target : \A x :
           x.by \in Worker \ {w} => (x \in procs'[t] <=> x \in procs[t])
  PROVE  \A v \in Worker : Alone(v)'
<1>1. Alone(w)'
  BY DEF Alone
<1>2. \A v \in Worker \ {w} : Alone(v)'
  BY AloneKept
<1> QED
  BY <1>1, <1>2

(* Every step keeps it: a worker gives up its process before it goes on.      *)
LEMMA NextAlone ==
  ASSUME IInv, [Next]_vars
  PROVE  \A v \in Worker : Alone(v)'
<1> USE DEF IInv
<1>0. /\ \A v \in Worker : Alone(v)
      /\ Nobody \notin Worker
      /\ pc \in [Worker -> Steps] /\ env \in [Worker -> Entries] /\ todo \in [Worker -> Rests]
  BY AloneIsMatch, ServerConstants DEF WorkOK
<1>n. ASSUME NEW w \in Worker, pc[w] # "wait"
      PROVE  \A t \in Target : \A x \in procs[t] : x.by # w
  BY <1>0, <1>n DEF Alone
<1>g. ASSUME NEW w \in Worker, NEW next \in Steps \ {"wait"}, pc[w] # "wait",
             Goto(w, next), UNCHANGED <<env, todo, procs>>
      PROVE  \A v \in Worker : Alone(v)'
  BY <1>0, <1>g, <1>n, AloneOf DEF Goto
<1>s. ASSUME UNCHANGED <<pc, env, todo, procs>>
      PROVE  \A v \in Worker : Alone(v)'
  BY <1>0, <1>s, AloneKept
<1>a. ASSUME NEW w \in Worker, pc[w] \in {"push", "ended"}, NEW rest \in -WaitDelay .. Budget,
             Advance(w, rest), UNCHANGED procs
      PROVE  \A v \in Worker : Alone(v)'
  BY <1>0, <1>a, <1>n, AdvanceWork, AloneOf
<1>1. ASSUME NEW h \in Handler,
             (\E c \in CIDR \cup {NotAllowed} : Check(h, c)) \/ Serve(h)
      PROVE  \A v \in Worker : Alone(v)'
  <2>1. h \in Worker /\ pc[h] # "wait" /\ UNCHANGED <<env, todo, procs>>
    BY <1>1 DEF Check, Serve, PurgeFirst, Refuse, Record, targets, Worker
  <2>2. \E next \in Steps \ {"wait"} : Goto(h, next)
    BY <1>1 DEF Check, Serve, PurgeFirst, Refuse, Record, Steps
  <2> QED
    BY <1>g, <2>1, <2>2
<1>2. ASSUME PurgeTick \/ ReconcileTick PROVE \A v \in Worker : Alone(v)'
  <2>1. PICK w \in Worker : pc[w] # "wait" /\ Goto(w, "recorded")
    BY <1>2 DEF PurgeTick, ReconcileTick, Worker
  <2> QED
    BY <1>2, <1>g, <2>1 DEF PurgeTick, ReconcileTick, targets, Steps
<1>3. ASSUME NEW w \in Worker, BuildEnvelope(w) PROVE \A v \in Worker : Alone(v)'
  <2>1. /\ pc' = [pc EXCEPT ![w] = "push"] /\ procs' = procs /\ pc[w] # "wait"
        /\ \A v \in Worker \ {w} : env'[v] = env[v] /\ todo'[v] = todo[v]
    BY <1>0, <1>3 DEF BuildEnvelope, Goto, targets
  <2> QED
    BY <1>0, <1>n, <2>1, AloneOf
<1>c. ASSUME NEW w \in Worker, Connect(w), Cardinality(Held(env[w])) <= TargetLimit
      PROVE  \A v \in Worker : Alone(v)'
  <2> DEFINE t0 == Head(todo[w])
             new == [by |-> w, kept |-> Live(env[w])]
  <2>1. /\ pc' = [pc EXCEPT ![w] = "wait"] /\ env' = env /\ todo' = todo /\ pc[w] # "wait"
        /\ procs' = [procs EXCEPT ![t0] = @ \cup {new}]
    BY <1>c DEF Connect, Goto
  <2>2. t0 \in Target
    BY <1>c, RestsOfOrder DEF Connect, WorkOK, WorkerOK
  <2>3. new.by = w /\ new.kept \subseteq Held(env[w])
    BY <1>0 DEF Live, Held, ListsOK, Entries, Stamps
  <2>4. procs \in [Target -> SUBSET Process]
    BY DEF TargetsOK
  <2> HIDE DEF new, t0
  <2>5. /\ procs'[t0] = procs[t0] \cup {new}
        /\ \A t \in Target \ {t0} : procs'[t] = procs[t]
    BY <2>1, <2>2, <2>4
  <2>6. pc'[w] = "wait" /\ \A v \in Worker \ {w} : pc'[v] = pc[v]
    BY <1>0, <2>1
  <2>7. Alone(w)'
    BY <1>n, <2>1, <2>2, <2>3, <2>5, <2>6 DEF Alone, t0, Held
  <2>8. ASSUME NEW v \in Worker \ {w} PROVE Alone(v)'
    BY <1>0, <2>1, <2>3, <2>5, <2>6, AloneKept
  <2> QED
    BY <2>7, <2>8
<1>4. ASSUME NEW w \in Worker, Connect(w) PROVE \A v \in Worker : Alone(v)'
  <2>1. CASE ~(Cardinality(Held(env[w])) <= TargetLimit)
    <3>1. Goto(w, "ended") /\ UNCHANGED <<env, todo, procs>> /\ pc[w] # "wait"
      BY <1>4, <2>1 DEF Connect
    <3> QED
      BY <1>g, <3>1 DEF Steps
  <2> QED
    BY <1>4, <1>c, <2>1
<1>5. ASSUME NEW w \in Worker, NoAnswer(w) \/ Answer(w)
      PROVE  \A v \in Worker : Alone(v)'
  <2>1. pc[w] \in {"push", "ended"} /\ UNCHANGED procs
    BY <1>5 DEF NoAnswer, Answer, targets
  <2>2. \E rest \in -WaitDelay .. Budget : Advance(w, rest)
    BY <1>5, <2>1, GiveUpWork, EndedWork DEF NoAnswer, Answer, ListsOK
  <2> QED
    BY <1>a, <2>1, <2>2
<1>6. ASSUME NEW w \in Worker, TimeOut(w) PROVE \A v \in Worker : Alone(v)'
  <2> DEFINE t0 == Head(todo[w])
             mine == {x \in procs[t0] : x.by = w}
             orphans == {[x EXCEPT !.by = Nobody] : x \in mine}
  <2>1. /\ t0 \in Target /\ (up[t0] /\ Quick(w)) \in BOOLEAN
        /\ procs \in [Target -> SUBSET Process]
    BY <1>6, RestsOfOrder DEF TimeOut, WorkOK, WorkerOK, TargetsOK, Quick
  <2>2. PICK rest \in -WaitDelay .. Budget : Advance(w, rest)
    BY <1>6, <2>1, GiveUpWork DEF TimeOut, ListsOK
  <2>3. /\ WorkOK' /\ pc'[w] # "wait"
        /\ \A v \in Worker \ {w} : pc'[v] = pc[v] /\ env'[v] = env[v] /\ todo'[v] = todo[v]
    BY <1>6, <2>2, AdvanceWork DEF TimeOut
  <2>4. \A x \in orphans : x.by = Nobody
    BY <2>1 DEF Process
  <2>5. /\ procs'[t0] \in {procs[t0] \ mine, (procs[t0] \ mine) \cup orphans}
        /\ \A t \in Target \ {t0} : procs'[t] = procs[t]
    BY <1>6, <2>1 DEF TimeOut
  <2>6. \A t \in Target \ {t0} : \A x \in procs[t] : x.by # w
    BY <1>0 DEF Alone
  <2>7. \A x : x \in mine <=> x \in procs[t0] /\ x.by = w
    OBVIOUS
  <2> HIDE DEF t0, mine, orphans
  <2>8. \A t \in Target : \A x \in procs'[t] : x.by # w
    BY <1>0, <2>4, <2>5, <2>6, <2>7
  <2>9. \A t \in Target : \A x :
          x.by \in Worker \ {w} => (x \in procs'[t] <=> x \in procs[t])
    BY <1>0, <2>4, <2>5, <2>7
  <2> QED
    BY <1>0, <2>3, <2>8, <2>9, AloneOf
<1>7. ASSUME NEW t \in Target, NEW x \in procs[t], Apply(t, x) \/ RemoteFails(t, x)
      PROVE  \A v \in Worker : Alone(v)'
  <2>1. /\ procs'[t] = procs[t] \ {x}
        /\ \A u \in Target \ {t} : procs'[u] = procs[u]
    BY <1>7 DEF Apply, RemoteFails, TargetsOK
  <2>2. CASE x.by = Nobody
    <3>1. UNCHANGED <<pc, env, todo>>
      BY <1>7, <2>2 DEF Apply, RemoteFails
    <3> QED
      BY <1>0, <2>1, <2>2, <3>1, AloneKept
  <2>3. CASE x.by # Nobody
    <3> DEFINE w == x.by
    <3>1. w \in Worker /\ pc[w] = "wait" /\ t = Head(todo[w])
      BY <2>3, AwaitedBy
    <3>2. \A u \in Target : \A y \in procs'[u] : y.by # w
      BY <1>0, <2>1, <3>1 DEF Alone
    <3>3. \A u \in Target : \A y :
            y.by \in Worker \ {w} => (y \in procs'[u] <=> y \in procs[u])
      BY <2>1
    <3>4. pc' = [pc EXCEPT ![w] = "ended"] /\ UNCHANGED <<env, todo>>
      BY <1>7, <2>3 DEF Apply, RemoteFails, Goto
    <3>5. /\ pc'[w] # "wait"
          /\ \A v \in Worker \ {w} :
               pc'[v] = pc[v] /\ env'[v] = env[v] /\ todo'[v] = todo[v]
      BY <1>0, <3>1, <3>4
    <3> QED
      BY <1>0, <3>1, <3>2, <3>3, <3>5, AloneOf
  <2> QED
    BY <2>2, <2>3
<1>8. ASSUME NEW t \in Target, LinkChanges(t) PROVE \A v \in Worker : Alone(v)'
  BY <1>8, <1>s DEF LinkChanges, work
<1>9. ASSUME Lapse \/ Freeze PROVE \A v \in Worker : Alone(v)'
  BY <1>9, <1>s DEF Lapse, Freeze, work, targets
<1>10. ASSUME Crash PROVE \A v \in Worker : Alone(v)'
  <2>1. pc' = [w \in Worker |-> "idle"]
    BY <1>10 DEF Crash
  <2>2. PICK lost : procs' = [t \in Target |-> {[x EXCEPT !.by = Nobody] : x \in procs[t] \ lost}]
    BY <1>10 DEF Crash
  <2>3. \A t \in Target : \A x \in procs'[t] : x.by = Nobody
    BY <2>2 DEF TargetsOK, Process
  <2> QED
    BY <1>0, <2>1, <2>3 DEF Alone
<1>11. ASSUME UNCHANGED vars PROVE \A v \in Worker : Alone(v)'
  BY <1>11, <1>s DEF vars
<1> QED
  BY <1>1, <1>2, <1>3, <1>4, <1>5, <1>6, <1>7, <1>8, <1>9, <1>10, <1>11 DEF Next, Push

-----------------------------------------------------------------------------
(* The invariant that the theorems below are read off, for every number of    *)
(* handlers, targets, records and faults.                                     *)
THEOREM Inductive == Spec => []IInv
<1>1. Init => IInv
  <2> SUFFICES ASSUME Init PROVE IInv
    OBVIOUS
  <2>1. Types
    BY InitTypes
  <2>2. Awaited
    <3>1. Pending = {}
      BY DEF Init, Pending
    <3>2. Cardinality(Pending) = 0 /\ stamp = 0 /\ since = 0 /\ frozen = FALSE
      BY <3>1, FS_EmptySet DEF Init
    <3> QED
      BY <3>2, ServerConstants DEF Awaited
  <2>3. Solitary /\ AnswersMatch
    BY DEF Init, Solitary, AnswersMatch
  <2> QED
    BY <2>1, <2>2, <2>3 DEF IInv, Types
<1>2. IInv /\ [Next]_vars => IInv'
  <2> SUFFICES ASSUME IInv, [Next]_vars PROVE IInv'
    OBVIOUS
  <2>1. Types'
    BY NextTypes
  <2>2. Awaited'
    BY NextAwaited
  <2>3. TargetsOK' => ((\A w \in Worker : Alone(w)') <=> (Solitary /\ AnswersMatch)')
    <3>1. (\A t \in Target : \A x \in procs'[t] : x.by \in Worker \cup {Nobody}) \/ ~TargetsOK'
      BY DEF TargetsOK, Process
    <3>2. Nobody \notin Worker
      BY ServerConstants
    <3> QED
      BY <3>1, <3>2 DEF Alone, Solitary, AnswersMatch
  <2>4. (Solitary /\ AnswersMatch)'
    BY <2>1, <2>3, NextAlone DEF Types
  <2> QED
    BY <2>1, <2>2, <2>4 DEF IInv, Types
<1> QED
  BY <1>1, <1>2, PTL DEF Spec

(* Every variable has its type, todo is always a rest of the configured order *)
(* of targets, a worker is in the loop exactly while there is something left  *)
(* to push to, and a push never starts on an empty budget.                    *)
THEOREM TypeCorrect == Spec => []TypeOK
<1>1. IInv => TypeOK
  <2> SUFFICES ASSUME IInv PROVE TypeOK
    OBVIOUS
  <2>1. \A w \in Worker : \E k \in 0 .. Len(Order) : todo[w] = SubSeq(Order, k + 1, Len(Order))
    BY DEF IInv, WorkOK, Rests
  <2>2. since \in Stamps /\ past \in 0 .. Cardinality(Handler)
    BY ServerConstants DEF IInv, ListsOK, Stamps
  <2> QED
    BY <2>1, <2>2 DEF IInv, WorkOK, WorkerOK, ListsOK, TargetsOK, TypeOK, Steps
<1> QED
  BY <1>1, Inductive, PTL

(* No worker takes the answer of an earlier push for that of its present one, *)
(* however many targets, handlers, time-outs and restarts there are.          *)
THEOREM NoForeignAnswer == Spec => []AnswersMatch
<1>1. IInv => AnswersMatch
  BY DEF IInv
<1> QED
  BY <1>1, Inductive, PTL

(* The brake holds for any number of handlers: what slips through while the   *)
(* freeze file exists are at most the requests that were past the check at    *)
(* the moment it was made, however long they take and whatever is restarted.  *)
THEOREM BrakeHolds == Spec => []FreezeBites
<1>1. IInv => FreezeBites
  <2> SUFFICES ASSUME IInv PROVE FreezeBites
    OBVIOUS
  <2> DEFINE n == Cardinality(Pending)
  <2>1. since \in Nat /\ past \in Nat /\ n \in Nat
    BY PendingFacts DEF IInv, ListsOK, Stamps
  <2>2. frozen \in BOOLEAN /\ (frozen => since + n <= past) /\ (~frozen => since = 0)
    BY DEF IInv, ListsOK, Awaited
  <2> HIDE DEF n
  <2> QED
    BY <2>1, <2>2 DEF FreezeBites
<1> QED
  BY <1>1, Inductive, PTL

(* Whatever the targets, their number and the timeouts: a handler is done     *)
(* before the WriteTimeout if budget, WaitDelay and the rest fit into it.     *)
THEOREM AlwaysInTime == Spec => []AnsweredInTime
<1>1. IInv => AnsweredInTime
  <2> SUFFICES ASSUME IInv, NEW h \in Handler
               PROVE  Before + (Budget - left[h]) <= WriteTimeout
    BY DEF AnsweredInTime
  <2> DEFINE n == left[h]
  <2>1. n \in -WaitDelay .. Budget
    BY DEF IInv, WorkOK, Worker
  <2>2. /\ Before \in Nat /\ Budget \in Nat /\ WaitDelay \in Nat /\ WriteTimeout \in Nat
        /\ Before + Budget + WaitDelay <= WriteTimeout
    BY ServerConstants
  <2> HIDE DEF n
  <2>3. Before + (Budget - n) <= WriteTimeout
    BY <2>1, <2>2
  <2> QED
    BY <2>3 DEF n
<1> QED
  BY <1>1, Inductive, PTL

-----------------------------------------------------------------------------
(* The refinement of AllowList.tla.                                           *)

\* what a process is going to write
Sent(t) == {x.kept : x \in procs[t]}

(* Any step is one of every target's list, or leaves it alone: a connection   *)
(* settles, the rename replaces, and what is given up, killed or left behind  *)
(* by a restart is lost or stays.                                             *)
LEMMA TargetStep ==
  ASSUME IInv, [Next]_vars, NEW t \in Target
  PROVE  At(t)!Next \/ UNCHANGED At(t)!vars
<1> USE DEF IInv
<1>1. procs \in [Target -> SUBSET Process] /\ allow \in [Target -> SUBSET CIDR]
  BY DEF TargetsOK
<1>s. ASSUME procs'[t] = procs[t], allow'[t] = allow[t] PROVE UNCHANGED At(t)!vars
  BY <1>s DEF At!vars
<1>l. ASSUME Sent(t)' \subseteq Sent(t), allow'[t] = allow[t] PROVE At(t)!Next
  <2>1. Sent(t)' \in SUBSET Sent(t)
    BY <1>l
  <2> QED
    BY <1>l, <2>1 DEF At!Next, At!Lose, Sent
<1>2. ASSUME NEW w \in Worker, Connect(w) PROVE At(t)!Next \/ UNCHANGED At(t)!vars
  <2> DEFINE u == Head(todo[w])
             L == Live(env[w])
             new == [by |-> w, kept |-> L]
  <2>1. u \in Target /\ env[w] \in Entries
    BY <1>2, RestsOfOrder DEF Connect, WorkOK, WorkerOK
  <2>2. CASE t = u /\ Cardinality(Held(env[w])) <= TargetLimit
    <3>1. procs'[t] = procs[t] \cup {new} /\ new.kept = L /\ allow' = allow
      BY <1>1, <1>2, <2>1, <2>2 DEF Connect
    <3>2. L \in Sendable
      <4>1. L \subseteq Held(env[w]) /\ Held(env[w]) \subseteq CIDR
        BY <2>1 DEF Live, Held, ListsOK, Entries, Stamps
      <4>2. IsFiniteSet(Held(env[w]))
        BY <4>1, ServerConstants, FS_Subset
      <4>3. IsFiniteSet(L) /\ Cardinality(L) <= Cardinality(Held(env[w]))
        BY <4>1, <4>2, FS_Subset
      <4>4. Cardinality(L) \in Nat /\ Cardinality(Held(env[w])) \in Nat
        BY <4>2, <4>3, FS_CardinalityType
      <4> QED
        BY <2>2, <4>1, <4>3, <4>4, ServerConstants DEF Sendable
    <3> HIDE DEF L, new
    <3>3. Sent(t)' = Sent(t) \cup {L}
      BY <3>1 DEF Sent
    <3> QED
      BY <3>1, <3>2, <3>3 DEF At!Next, At!Settle, Sent
  <2>3. CASE t # u \/ ~(Cardinality(Held(env[w])) <= TargetLimit)
    <3>1. procs'[t] = procs[t] /\ allow' = allow
      BY <1>1, <1>2, <2>1, <2>3 DEF Connect
    <3> QED
      BY <1>s, <3>1
  <2> QED
    BY <2>2, <2>3
<1>3. ASSUME NEW u \in Target, NEW x \in procs[u], Apply(u, x) \/ RemoteFails(u, x)
      PROVE  At(t)!Next \/ UNCHANGED At(t)!vars
  <2>1. procs' = [procs EXCEPT ![u] = @ \ {x}]
    BY <1>3 DEF Apply, RemoteFails
  <2>2. CASE t = u /\ Apply(u, x)
    <3>1. procs'[t] = procs[t] \ {x} /\ allow'[t] = x.kept
      BY <1>1, <2>1, <2>2 DEF Apply
    <3>2. x.kept \in Sent(t)
      BY <2>2 DEF Sent
    <3>3. Sent(t)' \in {Sent(t), Sent(t) \ {x.kept}}
      BY <3>1 DEF Sent
    <3> QED
      BY <3>1, <3>2, <3>3 DEF At!Next, At!Replace, Sent
  <2>3. CASE t = u /\ RemoteFails(u, x)
    <3>1. procs'[t] = procs[t] \ {x} /\ allow'[t] = allow[t]
      BY <1>1, <2>1, <2>3 DEF RemoteFails
    <3> QED
      BY <1>l, <3>1 DEF Sent
  <2>4. CASE t # u
    BY <1>1, <1>3, <1>s, <2>1, <2>4 DEF Apply, RemoteFails
  <2> QED
    BY <1>3, <2>2, <2>3, <2>4
<1>4. ASSUME NEW w \in Worker, TimeOut(w) PROVE At(t)!Next \/ UNCHANGED At(t)!vars
  <2> DEFINE u == Head(todo[w])
             mine == {x \in procs[u] : x.by = w}
  <2>1. u \in Target
    BY <1>4, RestsOfOrder DEF TimeOut, WorkOK, WorkerOK
  <2>2. /\ \/ procs' = [procs EXCEPT ![u] = @ \ mine]
           \/ procs' = [procs EXCEPT ![u] = (@ \ mine) \cup {[x EXCEPT !.by = Nobody] : x \in mine}]
        /\ allow' = allow
    BY <1>4 DEF TimeOut
  <2>3. CASE t = u
    <3>1. \A y \in procs'[t] : \E x \in procs[t] : y.kept = x.kept
      BY <1>1, <2>1, <2>2, <2>3 DEF Process
    <3>2. Sent(t)' \subseteq Sent(t)
      BY <3>1 DEF Sent
    <3> QED
      BY <1>l, <2>2, <3>2
  <2>4. CASE t # u
    BY <1>1, <1>s, <2>1, <2>2, <2>4
  <2> QED
    BY <2>3, <2>4
<1>5. ASSUME Crash PROVE At(t)!Next
  <2>1. PICK lost : procs' = [r \in Target |-> {[x EXCEPT !.by = Nobody] : x \in procs[r] \ lost}]
    BY <1>5 DEF Crash
  <2>2. \A y \in procs'[t] : \E x \in procs[t] : y.kept = x.kept
    BY <1>1, <2>1 DEF Process
  <2>3. Sent(t)' \subseteq Sent(t)
    BY <2>2 DEF Sent
  <2> QED
    BY <1>5, <1>l, <2>3 DEF Crash
<1>6. ASSUME UNCHANGED <<procs, allow>> PROVE UNCHANGED At(t)!vars
  BY <1>6, <1>s
<1>7. ASSUME NEW h \in Handler, (\E c \in CIDR \cup {NotAllowed} : Check(h, c)) \/ Serve(h)
      PROVE  UNCHANGED <<procs, allow>>
  BY <1>7 DEF Check, Serve, PurgeFirst, Refuse, Record, targets
<1>8. ASSUME NEW w \in Worker, BuildEnvelope(w) \/ NoAnswer(w) \/ Answer(w)
      PROVE  UNCHANGED <<procs, allow>>
  BY <1>8 DEF BuildEnvelope, NoAnswer, Answer, targets
<1>9. PurgeTick \/ ReconcileTick \/ Lapse \/ Freeze \/ UNCHANGED vars => UNCHANGED <<procs, allow>>
  BY DEF PurgeTick, ReconcileTick, Lapse, Freeze, targets, vars
<1>10. ASSUME NEW u \in Target, LinkChanges(u) PROVE UNCHANGED <<procs, allow>>
  BY <1>10 DEF LinkChanges
<1> HIDE DEF IInv
<1> QED
  BY <1>2, <1>3, <1>4, <1>5, <1>6, <1>7, <1>8, <1>9, <1>10 DEF Next, Push

(* Every target's allow.txt is the list of AllowList.tla, for any number of   *)
(* workers, targets and pushes under way: replaced as a whole, by a list that *)
(* was sent and that the target's own max_entries allows.                     *)
THEOREM TargetsHoldLists == Spec => ImplementsAllowList
<1>2. Init => \A t \in Target : At(t)!Init
  BY DEF Init, At!Init
<1>3. IInv /\ [Next]_vars => [\A t \in Target : At(t)!Next \/ UNCHANGED At(t)!vars]_vars
  BY TargetStep
<1> QED
  BY <1>2, <1>3, Inductive, PTL DEF Spec, ImplementsAllowList

-----------------------------------------------------------------------------
(* The refinement of Whitelist.tla.                                           *)

(* Stamps are in the past: what is granted anew is never granted for less.    *)
Dated == \A c \in CIDR : mem[c] <= stamp /\ file[c] <= stamp

(* Nothing is in the store or in its file but by a Record of its own.         *)
LEMMA NextDated == IInv /\ Dated /\ [Next]_vars => Dated'
<1> SUFFICES ASSUME IInv, Dated, [Next]_vars PROVE Dated'
  OBVIOUS
<1> USE DEF IInv
<1>0. stamp \in Nat /\ \A E \in {mem, file} : \A c \in CIDR : E[c] \in Nat
  BY ServerConstants DEF ListsOK, Entries, Stamps
<1>1. ASSUME UNCHANGED <<stamp, mem, file>> PROVE Dated'
  BY <1>1 DEF Dated
<1>2. ASSUME PurgeStore, UNCHANGED stamp PROVE Dated'
  <2>1. \A c \in CIDR : Purged(mem)[c] \in {0, mem[c]}
    BY DEF Purged
  <2>2. mem' = Purged(mem) /\ file' \in {file, Purged(mem)}
    BY <1>2 DEF PurgeStore, Persist
  <2> QED
    BY <1>0, <1>2, <2>1, <2>2 DEF Dated
<1>3. ASSUME NEW h \in Handler, Record(h) PROVE Dated'
  <2>1. stamp' = stamp + 1 /\ file' \in {file, mem'} /\ mem' \in Recorded(req[h])
    BY <1>3 DEF Record
  <2>2. \A d \in CIDR : Joined(req[h])[d] \in {0, stamp + 1, mem[d]}
    BY <1>0 DEF Joined, Purged, ListsOK, Entries
  <2>3. \A d \in CIDR : mem'[d] \in {0, Joined(req[h])[d]}
    BY <2>1 DEF Recorded
  <2>4. \A d \in CIDR : mem'[d] <= stamp'
    BY <1>0, <2>1, <2>2, <2>3 DEF Dated
  <2> QED
    BY <1>0, <2>1, <2>4 DEF Dated
<1>4. ASSUME Crash PROVE Dated'
  BY <1>4 DEF Crash, Dated
<1>5. ASSUME NEW h \in Handler, PurgeFirst(h) PROVE Dated'
  BY <1>2, <1>5 DEF PurgeFirst
<1>6. ASSUME PurgeTick \/ ReconcileTick PROVE Dated'
  BY <1>2, <1>6 DEF PurgeTick, ReconcileTick
<1>7. ASSUME NEW h \in Handler, Refuse(h) \/ \E c \in CIDR \cup {NotAllowed} : Check(h, c) PROVE Dated'
  BY <1>1, <1>7 DEF Check, Refuse, store
<1>8. ASSUME NEW w \in Worker, Push(w) PROVE Dated'
  BY <1>1, <1>8 DEF Push, BuildEnvelope, Connect, NoAnswer, Answer, TimeOut, store
<1>9. ASSUME NEW t \in Target, (\E x \in procs[t] : Apply(t, x) \/ RemoteFails(t, x)) \/ LinkChanges(t)
      PROVE  Dated'
  BY <1>1, <1>9 DEF Apply, RemoteFails, LinkChanges, store
<1>10. ASSUME Lapse \/ Freeze \/ UNCHANGED vars PROVE Dated'
  BY <1>1, <1>10 DEF Lapse, Freeze, store, vars
<1> HIDE DEF IInv
<1> QED
  BY <1>3, <1>4, <1>5, <1>6, <1>7, <1>8, <1>9, <1>10 DEF Next, Serve

(* Whitelist.tla has its own name for the size of a set.                      *)
LEMMA SameSize == \A S : White!Cardinality(S) = Cardinality(S)
BY DEF White!Cardinality, Cardinality

(* Purging twice at one time is purging once.                                 *)
LEMMA PurgedTwice == Purged(Purged(mem)) = Purged(mem)
BY DEF Purged, Live

(* Purging later is what remains of an earlier purge.                         *)
LEMMA PurgedLater ==
  ASSUME ListsOK, NEW E \in Entries
  PROVE  [c \in CIDR |-> IF E[c] > lapsed + 1 THEN E[c] ELSE 0]
           = White!Until(Purged(E), lapsed + 1)
<1>1. lapsed \in Nat /\ \A c \in CIDR : E[c] \in Nat
  BY ServerConstants DEF ListsOK, Entries, Stamps
<1> QED
  BY <1>1 DEF White!Until, Purged, Live

(* Record takes away as many entries as are over the limit, the least         *)
(* recently seen.                                                             *)
LEMMA RecordedDrops ==
  ASSUME ListsOK, NEW c \in CIDR, stamp + 1 \in Stamps, NEW R \in Recorded(c)
  PROVE  \E S \in SUBSET Held(Joined(c)) :
           /\ R = [d \in CIDR |-> IF d \in S THEN 0 ELSE Joined(c)[d]]
           /\ Held(R) = Held(Joined(c)) \ S
           /\ \A d \in S, k \in Held(Joined(c)) \ S : Joined(c)[d] <= Joined(c)[k]
           /\ Cardinality(Held(R)) <= limit
           /\ S # {} => Cardinality(Held(R)) = limit
<1> DEFINE L == Joined(c)
           H == Held(L)
<1>1. PICK S \in SUBSET H :
        /\ Cardinality(S) = Excess(L)
        /\ \A d \in S, k \in H \ S : L[d] <= L[k]
        /\ R = [d \in CIDR |-> IF d \in S THEN 0 ELSE L[d]]
  BY DEF Recorded
<1> HIDE DEF L
<1>2. Held(R) = H \ S
  BY <1>1 DEF Held
<1>3. IsFiniteSet(H) /\ Cardinality(H) \in Nat /\ limit \in Nat
  BY ServerConstants, FS_Subset, FS_CardinalityType DEF ListsOK, Held
<1>4. IsFiniteSet(S) /\ H \cap S = S
  BY <1>1, <1>3, FS_Subset
<1> HIDE DEF H
<1>5. Cardinality(H \ S) = Cardinality(H) - Cardinality(S) /\ Cardinality(S) \in Nat
  BY <1>3, <1>4, FS_Difference, FS_CardinalityType
<1>6. S # {} => Cardinality(S) # 0
  BY <1>4, FS_EmptySet
<1>7. Cardinality(S) = IF Cardinality(H) > limit THEN Cardinality(H) - limit ELSE 0
  BY <1>1 DEF Excess, H
<1>8. /\ Cardinality(H \ S) <= limit
      /\ S # {} => Cardinality(H \ S) = limit
  BY <1>3, <1>5, <1>6, <1>7
<1> QED
  BY <1>1, <1>2, <1>8 DEF H, L

(* Record grants its CIDR and takes the grants away that are over the limit,  *)
(* those first that end first.                                                *)
LEMMA RecordGrants ==
  ASSUME IInv, Dated, NEW h \in Handler, Record(h)
  PROVE  White!Next
<1> DEFINE c == req[h]
           end == stamp + 1
           G == White!Until([Purged(mem) EXCEPT ![c] = end], lapsed)
           R == mem'
           gone == White!Held(G) \ White!Held(R)
<1>0. ListsOK
  BY DEF IInv
<1>1. /\ c \in CIDR /\ end \in Stamps /\ stamp \in Nat
      /\ R \in Entries /\ file' \in {file, R}
  BY RecordRoom, ServerConstants DEF IInv, ListsOK, Stamps
<1>2. R \in Recorded(c) /\ lapsed' = lapsed /\ limit' = limit
  BY DEF Record
<1>3. /\ lapsed \in Nat /\ lapsed <= stamp /\ mem \in Entries
      /\ \A d \in CIDR : mem[d] \in Nat /\ mem[d] <= stamp
  BY <1>0, ServerConstants DEF ListsOK, Entries, Stamps, Dated
<1>4. G = Joined(c)
  <2>1. [Purged(mem) EXCEPT ![c] = end] = [d \in CIDR |-> IF d = c THEN end ELSE Purged(mem)[d]]
    BY DEF Purged
  <2>2. [mem EXCEPT ![c] = end] = [d \in CIDR |-> IF d = c THEN end ELSE mem[d]]
    BY <1>3 DEF Entries
  <2>3. \A d \in CIDR : Purged(mem)[d] = IF mem[d] > lapsed THEN mem[d] ELSE 0
    BY DEF Purged, Live
  <2>4. \A d \in CIDR : G[d] = IF d = c THEN end ELSE IF mem[d] > lapsed THEN mem[d] ELSE 0
    BY <1>1, <1>3, <2>1, <2>3 DEF White!Until
  <2>5. \A d \in CIDR : Joined(c)[d] = IF d = c THEN end ELSE IF mem[d] > lapsed THEN mem[d] ELSE 0
    BY <1>1, <1>3, <2>2 DEF Joined, Purged, Live
  <2> QED
    BY <2>4, <2>5 DEF White!Until, Joined, Purged
<1>5. \A d \in CIDR : G[d] # 0 => G[d] > lapsed
  BY <1>3 DEF White!Until
<1> HIDE DEF G
<1>6. PICK S \in SUBSET Held(G) :
        /\ R = [d \in CIDR |-> IF d \in S THEN 0 ELSE G[d]]
        /\ Held(R) = Held(G) \ S
        /\ \A d \in S, k \in Held(G) \ S : G[d] <= G[k]
        /\ Cardinality(Held(R)) <= limit
        /\ S # {} => Cardinality(Held(R)) = limit
  <2> HIDE DEF R
  <2>1. PICK S \in SUBSET Held(Joined(c)) :
          /\ R = [d \in CIDR |-> IF d \in S THEN 0 ELSE Joined(c)[d]]
          /\ Held(R) = Held(Joined(c)) \ S
          /\ \A d \in S, k \in Held(Joined(c)) \ S : Joined(c)[d] <= Joined(c)[k]
          /\ Cardinality(Held(R)) <= limit
          /\ S # {} => Cardinality(Held(R)) = limit
    BY <1>0, <1>1, <1>2, RecordedDrops
  <2> QED
    BY <1>4, <2>1
<1>7. \A d \in CIDR : R[d] # 0 => R[d] > lapsed
  BY <1>5, <1>6
<1>8. White!Held(R) = Held(R) /\ White!Held(G) = Held(G)
  BY DEF White!Held, Held
<1>9. gone = S
  BY <1>6, <1>8
<1> HIDE DEF R, gone
<1>10. Purged(mem)' = R
  <2>1. Purged(mem)' = [d \in CIDR |-> IF R[d] > lapsed THEN R[d] ELSE 0]
    BY <1>2 DEF R, Purged, Live
  <2>2. \A d \in CIDR : R[d] = IF R[d] > lapsed THEN R[d] ELSE 0
    BY <1>7
  <2> QED
    BY <1>1, <2>1, <2>2 DEF Entries
<1>11. Purged(file)' \in {R, Purged(file)}
  <2>1. CASE file' = file
    BY <1>2, <2>1 DEF Purged, Live
  <2>2. CASE file' = mem'
    <3>1. Purged(file)' = Purged(mem)'
      BY <2>2 DEF Purged, Live
    <3> QED
      BY <1>10, <3>1
  <2> QED
    BY <1>1, <2>1, <2>2 DEF R
<1>12. end + 0 >= Purged(mem)[c]
  BY <1>1, <1>3 DEF Purged
<1>13. /\ Purged(mem)' = [d \in CIDR |-> IF d \in gone THEN 0 ELSE G[d]]
       /\ Cardinality(White!Held(R)) <= limit
       /\ gone # {} => Cardinality(White!Held(R)) = limit
       /\ \A d \in gone, k \in White!Held(R) : G[d] <= G[k]
  BY <1>6, <1>8, <1>9, <1>10
<1>14. White!Grant(c, end)
  BY <1>2, <1>10, <1>11, <1>12, <1>13, SameSize DEF White!Grant, G, gone
<1>15. end \in 1 .. MaxStamp
  BY <1>1 DEF Stamps
<1> QED
  BY <1>1, <1>14, <1>15 DEF White!Next

(* Every step of the server is one of the list, or leaves it alone.           *)
LEMMA WhitelistStep ==
  ASSUME IInv, Dated, [Next]_vars
  PROVE  [White!Next]_(White!vars)
<1>1. ASSUME UNCHANGED <<limit, lapsed, mem, file>> PROVE UNCHANGED White!vars
  BY <1>1 DEF White!vars, Purged, Live
<1>2. ASSUME PurgeStore, UNCHANGED <<limit, lapsed>> PROVE [White!Next]_(White!vars)
  <2>1. mem' = Purged(mem) /\ file' \in {file, Purged(mem)}
    BY <1>2 DEF PurgeStore, Persist
  <2>2. Purged(mem)' = Purged(mem)
    <3>1. Purged(mem)' = Purged(Purged(mem))
      BY <1>2, <2>1 DEF Purged, Live
    <3> QED
      BY <3>1, PurgedTwice
  <2>3. CASE file' = file
    <3>1. Purged(file)' = Purged(file)
      BY <1>2, <2>3 DEF Purged, Live
    <3> QED
      BY <1>2, <2>2, <3>1 DEF White!vars
  <2>4. CASE file' = mem'
    <3>1. Purged(file)' = Purged(mem)'
      BY <2>4 DEF Purged, Live
    <3> QED
      BY <1>2, <2>2, <3>1 DEF White!Next, White!Save
  <2> QED
    BY <2>1, <2>3, <2>4
<1>3. ASSUME NEW h \in Handler, Record(h) PROVE White!Next
  BY <1>3, RecordGrants
<1>4. ASSUME Crash PROVE White!Next
  <2>1. mem' = file /\ file' = file /\ lapsed' = lapsed /\ limit' \in Limits
    BY <1>4 DEF Crash
  <2>2. Purged(mem)' = Purged(file) /\ Purged(file)' = Purged(file)
    BY <2>1 DEF Purged, Live
  <2> QED
    BY <2>1, <2>2 DEF White!Next, White!Restart
<1>5. ASSUME Lapse PROVE White!Next
  <2>1. mem' = mem /\ file' = file /\ lapsed' = lapsed + 1 /\ limit' = limit
    BY <1>5 DEF Lapse, store
  <2>2. ListsOK /\ mem \in Entries /\ file \in Entries
    BY DEF IInv, ListsOK
  <2>3. /\ Purged(mem)' = White!Until(Purged(mem), lapsed + 1)
        /\ Purged(file)' = White!Until(Purged(file), lapsed + 1)
    <3>1. /\ Purged(mem)' = [c \in CIDR |-> IF mem[c] > lapsed + 1 THEN mem[c] ELSE 0]
          /\ Purged(file)' = [c \in CIDR |-> IF file[c] > lapsed + 1 THEN file[c] ELSE 0]
      BY <2>1 DEF Purged, Live
    <3> QED
      BY <2>2, <3>1, PurgedLater
  <2> QED
    BY <2>1, <2>3 DEF White!Next, White!Pass
<1>6. ASSUME NEW h \in Handler, PurgeFirst(h) PROVE [White!Next]_(White!vars)
  BY <1>2, <1>6 DEF PurgeFirst
<1>7. ASSUME PurgeTick \/ ReconcileTick PROVE [White!Next]_(White!vars)
  BY <1>2, <1>7 DEF PurgeTick, ReconcileTick
<1>8. ASSUME NEW h \in Handler, Refuse(h) \/ \E c \in CIDR \cup {NotAllowed} : Check(h, c)
      PROVE  UNCHANGED White!vars
  BY <1>1, <1>8 DEF Check, Refuse, store
<1>9. ASSUME NEW w \in Worker, Push(w) PROVE UNCHANGED White!vars
  BY <1>1, <1>9 DEF Push, BuildEnvelope, Connect, NoAnswer, Answer, TimeOut, store
<1>10. ASSUME NEW t \in Target,
              (\E x \in procs[t] : Apply(t, x) \/ RemoteFails(t, x)) \/ LinkChanges(t)
       PROVE  UNCHANGED White!vars
  BY <1>1, <1>10 DEF Apply, RemoteFails, LinkChanges, store
<1>11. ASSUME Freeze \/ UNCHANGED vars PROVE UNCHANGED White!vars
  BY <1>1, <1>11 DEF Freeze, store, vars
<1> QED
  BY <1>3, <1>4, <1>5, <1>6, <1>7, <1>8, <1>9, <1>10, <1>11 DEF Next, Serve

(* The server's store and file are the list of Whitelist.tla and its copy,    *)
(* whatever handlers and tickers do beside each other and wherever it dies.   *)
THEOREM StoreIsWhitelist == Spec => ImplementsWhitelist
<1>1. Init => White!Init
  BY DEF Init, White!Init, White!NoGrants, Purged, NoEntries
<1>2. IInv /\ Dated /\ [Next]_vars => [White!Next]_(White!vars)
  BY WhitelistStep
<1>3. Init => Dated
  BY DEF Init, Dated, NoEntries
<1> QED
  BY <1>1, <1>2, <1>3, Inductive, NextDated, PTL DEF Spec, ImplementsWhitelist, White!Spec
=============================================================================
