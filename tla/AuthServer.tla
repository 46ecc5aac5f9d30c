----------------------------- MODULE AuthServer -----------------------------
(* cmd/auth-server and the hosts it pushes to: the handlers of POST /, the    *)
(* purge ticker and the reconcile ticker run concurrently on one store, each  *)
(* pushes over ssh to the configured targets one after the other, and the     *)
(* receiver processes those pushes start run on when ssh gives up on them.    *)
(*                                                                            *)
(* Time.  The n-th Record has time stamp n.  The TTL is one constant, so      *)
(* entries expire in the order they were last recorded, and "lapsed = k" says *)
(* that exactly the stamps up to k are past their ExpiresAt.  All clocks      *)
(* agree; Store.tla has clock readings and ties.  Push is enabled: without it *)
(* the server never leaves the store.                                         *)
EXTENDS Integers, FiniteSets, Sequences

CONSTANTS
  CIDR,
  Target,
  Order,       \* cfg.Push.Targets
  Handler,     \* requests served at the same time
  Purger, Reconciler,   \* the goroutines main starts
  Nobody,      \* no worker: the push that started a process is over
  NotAllowed,  \* a source address of a family that is switched off
  Limits,      \* cfg.MaxEntries, as the server may be started with
  TargetLimit, \* max_entries of the receivers
  Budget,      \* pushRequestBudget, in seconds, as the next five are
  Timeout,     \* cfg.Push.TimeoutSeconds
  Delays,      \* what a push to a target may take until ssh ends by itself
  WaitDelay,   \* of the ssh command, when it is killed
  WriteTimeout,\* of the HTTP server
  Before,      \* what a handler takes before it pushes
  Reconciles,  \* is push.reconcile_interval_seconds positive?
  Brakes,      \* does the operator use the freeze file?
  MaxStamp,    \* bound of the model: Records in a behaviour
  MaxFaults    \* bound of the model: faults in a behaviour

Worker == Handler \cup {Purger} \cup (IF Reconciles THEN {Reconciler} ELSE {})

ASSUME ServerConstants ==
  /\ IsFiniteSet(Handler) /\ {Purger, Reconciler} \cap Handler = {}
  /\ Purger # Reconciler
  /\ Order \in Seq(Target) /\ Order # <<>>
  /\ \A t \in Target : \E i \in 1 .. Len(Order) : Order[i] = t
  /\ Nobody \notin Worker
  /\ NotAllowed \notin CIDR
  /\ Reconciles \in BOOLEAN /\ Brakes \in BOOLEAN
  /\ IsFiniteSet(CIDR)
  /\ Limits \subseteq Nat \ {0} /\ Limits # {} /\ TargetLimit \in Nat
  /\ Budget \in Nat \ {0} /\ Timeout \in Nat \ {0}
  /\ Delays \subseteq Nat /\ Delays # {}
  /\ WaitDelay \in Nat /\ WriteTimeout \in Nat /\ Before \in Nat
  /\ Before + Budget + WaitDelay <= WriteTimeout
  /\ MaxStamp \in Nat /\ MaxFaults \in Nat

VARIABLES
  limit,    \* cfg.MaxEntries, as the server was started with it
  stamp,    \* how many Records there have been
  lapsed,   \* the stamps up to this one have expired
  mem,      \* the store: the stamp of each CIDR's last Record, 0 if it has none
  file,     \* entries.json, likewise
  frozen,   \* does the freeze file exist?
  pc,       \* per worker: the step it is at
  req,      \* per handler: the CIDR its request asks for, until it is recorded
  env,      \* per worker: the entries of the envelope it pushes
  todo,     \* per worker: the targets it has still to push to
  left,     \* per worker: what is left of the budget; afterwards, by how much it was
            \* overdrawn
  procs,    \* per target: the receiver processes running on it
  allow,    \* per target: its allow.txt
  up,       \* per target: does it answer?
  delay,    \* per target: how long a push to it takes at present, if it answers
  faults,   \* how many faults there may still be
  since,    \* history: Records since the operator froze the server
  past      \* history: requests that were past the check then

store   == <<limit, stamp, mem, file>>
work    == <<pc, req, env, todo, left>>
targets == <<procs, allow, up, delay>>
vars    == <<limit, stamp, lapsed, mem, file, frozen, pc, req, env, todo, left,
             procs, allow, up, delay, faults, since, past>>

Stamps == 0 .. MaxStamp
Entries == [CIDR -> Stamps]
Process == [by : Worker \cup {Nobody}, kept : SUBSET CIDR]

TypeOK ==
  /\ limit \in Limits
  /\ stamp \in Stamps /\ lapsed \in 0 .. stamp
  /\ mem \in Entries /\ file \in Entries
  /\ frozen \in BOOLEAN
  /\ pc \in [Worker -> {"idle", "checked", "purged", "recorded", "push", "wait", "ended"}]
  /\ req \in [Handler -> CIDR \cup {NotAllowed}]
  /\ env \in [Worker -> Entries]
  /\ \A w \in Worker : \E k \in 0 .. Len(Order) : todo[w] = SubSeq(Order, k + 1, Len(Order))
  /\ \A w \in Worker : pc[w] \in {"push", "wait", "ended"} <=> todo[w] # <<>>
  /\ left \in [Worker -> -WaitDelay .. Budget]
  /\ \A w \in Worker : todo[w] # <<>> => left[w] > 0
  /\ procs \in [Target -> SUBSET Process]
  /\ allow \in [Target -> SUBSET CIDR]
  /\ up \in [Target -> BOOLEAN]
  /\ delay \in [Target -> Delays]
  /\ faults \in 0 .. MaxFaults
  /\ since \in Stamps /\ past \in 0 .. Cardinality(Handler)

NoEntries == [c \in CIDR |-> 0]

Held(E) == {c \in CIDR : E[c] # 0}
Live(E) == {c \in CIDR : E[c] > lapsed}
Purged(E) == [c \in CIDR |-> IF c \in Live(E) THEN E[c] ELSE 0]

Init ==
  /\ limit \in Limits
  /\ stamp = 0 /\ lapsed = 0
  /\ mem = NoEntries /\ file = NoEntries
  /\ frozen = FALSE
  /\ pc = [w \in Worker |-> "idle"]
  /\ req = [h \in Handler |-> NotAllowed]
  /\ env = [w \in Worker |-> NoEntries]
  /\ todo = [w \in Worker |-> <<>>]
  /\ left = [w \in Worker |-> 0]
  /\ procs = [t \in Target |-> {}]
  /\ allow = [t \in Target |-> {}]
  /\ up \in [Target -> BOOLEAN]
  /\ delay \in [Target -> Delays]
  /\ faults = MaxFaults
  /\ since = 0 /\ past = 0

Goto(w, step) == pc' = [pc EXCEPT ![w] = step]

Fault == faults > 0 /\ faults' = faults - 1

(* persistLocked in one of its outcomes; on failure memory is ahead.          *)
Persist(E) ==
  \/ file' = E /\ UNCHANGED faults
  \/ UNCHANGED file /\ Fault

(* Purge: writes only if it removed something.                                *)
PurgeStore ==
  /\ mem' = Purged(mem)
  /\ IF Purged(mem) = mem THEN UNCHANGED <<file, faults>> ELSE Persist(Purged(mem))

-----------------------------------------------------------------------------
(* handleRoot for an authenticated POST, in the steps between which other     *)
(* goroutines can run.  The requests it turns away earlier (404, 405, 401,    *)
(* 429, 503, 400) and GET change nothing here.                                *)

Pending == {h \in Handler : pc[h] \in {"checked", "purged"} /\ req[h] # NotAllowed}

\* mutant: the brake is looked at for read-only requests only
CheckUnfrozen(h, c) ==
  /\ pc[h] = "idle"
  /\ c # NotAllowed => stamp + Cardinality(Pending) < MaxStamp
  /\ Goto(h, "checked")
  /\ req' = [req EXCEPT ![h] = c]
  /\ left' = [left EXCEPT ![h] = 0]
  /\ UNCHANGED <<store, lapsed, frozen, env, todo, targets, faults, since, past>>

(* frozen() is false; what follows does not look again.  The guard on MaxStamp*)
(* only bounds the model.                                                     *)
Check(h, c) ==
  /\ pc[h] = "idle"
  /\ ~frozen
  /\ c # NotAllowed => stamp + Cardinality(Pending) < MaxStamp
  /\ Goto(h, "checked")
  /\ req' = [req EXCEPT ![h] = c]
  /\ left' = [left EXCEPT ![h] = 0]
  /\ UNCHANGED <<store, lapsed, frozen, env, todo, targets, faults, since, past>>

(* The opportunistic purge; its result is audited and nothing else.           *)
PurgeFirst(h) ==
  /\ pc[h] = "checked"
  /\ Goto(h, "purged")
  /\ PurgeStore
  /\ UNCHANGED <<limit, stamp, lapsed, frozen, req, env, todo, left, targets, since, past>>

(* CIDRForRequest fails: 403, after the purge and without a push.             *)
Refuse(h) ==
  /\ pc[h] = "purged"
  /\ req[h] = NotAllowed
  /\ Goto(h, "idle")
  /\ UNCHANGED <<store, lapsed, frozen, req, env, todo, left, targets, faults, since, past>>

(* What enforceLimitLocked is given: the new entry, and what has not expired. *)
Joined(c) == Purged([mem EXCEPT ![c] = stamp + 1])

\* mutant: one entry too many is let stay
ExcessOneMore(E) ==
  IF Cardinality(Held(E)) > limit THEN Cardinality(Held(E)) - limit - 1 ELSE 0

\* how many entries are over the limit: several, after a restart with a lower one
Excess(E) ==
  IF Cardinality(Held(E)) > limit THEN Cardinality(Held(E)) - limit ELSE 0

(* enforceLimitLocked takes so many entries away, the least recently seen.    *)
Recorded(c) ==
  LET L == Joined(c) IN
    {[d \in CIDR |-> IF d \in S THEN 0 ELSE L[d]] :
       S \in {X \in SUBSET Held(L) :
                 /\ Cardinality(X) = Excess(L)
                 /\ \A d \in X, k \in Held(L) \ X : L[d] <= L[k]}}

(* On a failed write the client gets a 500 and nothing is pushed; the entry   *)
(* is in memory all the same.                                                 *)
Record(h) ==
  /\ pc[h] = "purged"
  /\ req[h] # NotAllowed
  /\ stamp' = stamp + 1
  /\ mem' \in Recorded(req[h])
  /\ \/ /\ file' = mem'
        /\ UNCHANGED faults
        /\ Goto(h, "recorded")
     \/ /\ UNCHANGED file
        /\ Fault
        /\ Goto(h, "idle")
  /\ req' = [req EXCEPT ![h] = NotAllowed]
  /\ since' = IF frozen THEN since + 1 ELSE since
  /\ UNCHANGED <<limit, lapsed, frozen, env, todo, left, targets, past>>

-----------------------------------------------------------------------------
(* purgeAndSync, up to the push: only if this purge removed something.        *)
PurgeTick ==
  /\ pc[Purger] = "idle"
  /\ Purged(mem) # mem
  /\ PurgeStore
  /\ Goto(Purger, "recorded")
  /\ UNCHANGED <<limit, stamp, lapsed, frozen, req, env, todo, left, targets, since, past>>

\* mutant: reconcile pushes under the condition purgeAndSync has
ReconcileIfPurged ==
  /\ Reconciles
  /\ pc[Reconciler] = "idle"
  /\ Purged(mem) # mem
  /\ PurgeStore
  /\ Goto(Reconciler, "recorded")
  /\ UNCHANGED <<limit, stamp, lapsed, frozen, req, env, todo, left, targets, since, past>>

(* reconcileSync, up to the push: unconditionally.                            *)
ReconcileTick ==
  /\ Reconciles
  /\ pc[Reconciler] = "idle"
  /\ PurgeStore
  /\ Goto(Reconciler, "recorded")
  /\ UNCHANGED <<limit, stamp, lapsed, frozen, req, env, todo, left, targets, since, past>>

-----------------------------------------------------------------------------
(* doPush.  A ticker signs with the clock reading its purge used, so what was *)
(* not expired then is all that is in the store; a handler reads it again.    *)
BuildEnvelope(w) ==
  /\ pc[w] = "recorded"
  /\ Goto(w, "push")
  /\ env' = [env EXCEPT ![w] = IF w \in Handler THEN Purged(mem) ELSE mem]
  /\ todo' = [todo EXCEPT ![w] = Order]
  /\ left' = [left EXCEPT ![w] = Budget]
  /\ UNCHANGED <<store, lapsed, frozen, req, targets, faults, since, past>>

\* mutant: the timeout is not cut down to what remains
SpentWhole(rest) == rest - Timeout

(* What a push that runs into its timeout leaves of a budget.                 *)
Spent(rest) == IF Timeout < rest THEN rest - Timeout ELSE 0

\* a handler that has overdrawn the budget is late with its answer
Idle(w, rest) ==
  /\ Goto(w, "idle")
  /\ env' = [env EXCEPT ![w] = NoEntries]
  /\ todo' = [todo EXCEPT ![w] = <<>>]
  /\ left' = [left EXCEPT ![w] = IF w \in Handler /\ rest < 0 THEN rest ELSE 0]

TryNext(w, rest) ==
  /\ Goto(w, "push")
  /\ todo' = [todo EXCEPT ![w] = Tail(@)]
  /\ left' = [left EXCEPT ![w] = rest]
  /\ UNCHANGED env

\* mutant: one iteration too many
AdvancePastLast(w, rest) ==
  IF Len(todo[w]) = 0 \/ rest <= 0 THEN Idle(w, rest) ELSE TryNext(w, rest)

(* The loop goes on with the next target.  After the last one, or when the    *)
(* budget is used up and the others are only reported as "push budget         *)
(* exhausted", nothing else happens but the page being rendered.              *)
Advance(w, rest) ==
  IF Len(todo[w]) = 1 \/ rest <= 0 THEN Idle(w, rest) ELSE TryNext(w, rest)

(* Can a push to this target be answered before its deadline, which is the    *)
(* timeout, or what is left of the budget if that is less?                    *)
Quick(w) ==
  LET d == delay[Head(todo[w])] IN d < left[w] /\ d < Timeout

(* The context kills ssh.  A child of ssh that holds on to its output costs   *)
(* WaitDelay more, budget or not.                                             *)
GiveUp(w, fault) ==
  \E held \in {0, WaitDelay} :
    /\ IF fault \/ held > 0 THEN Fault ELSE UNCHANGED faults
    /\ Advance(w, Spent(left[w]) - held)

\* mutant: an answer is charged with the whole timeout
EndedCharged(w) ==
  /\ Quick(w)
  /\ Advance(w, Spent(left[w]))

(* ssh ends by itself, before its deadline.                                   *)
Ended(w) ==
  /\ Quick(w)
  /\ Advance(w, left[w] - delay[Head(todo[w])])

(* ssh reaches the target, whose receiver rejects an envelope of more than    *)
(* its own max_entries as a whole; of any other it filters the entries by a   *)
(* reading of its clock, and what it is going to write is settled then.       *)
Connect(w) ==
  LET t == Head(todo[w]) IN
    /\ pc[w] = "push"
    /\ up[t]
    /\ IF Cardinality(Held(env[w])) <= TargetLimit
       THEN /\ Goto(w, "wait")
            /\ procs' = [procs EXCEPT ![t] = @ \cup {[by |-> w, kept |-> Live(env[w])]}]
       ELSE /\ Goto(w, "ended")
            /\ UNCHANGED procs
    /\ UNCHANGED <<store, lapsed, frozen, req, env, todo, left, allow, up, delay, faults,
                   since, past>>

(* The target refuses the connection, or does not answer until the timeout.   *)
NoAnswer(w) ==
  /\ pc[w] = "push"
  /\ ~up[Head(todo[w])]
  /\ GiveUp(w, FALSE) \/ (Ended(w) /\ UNCHANGED faults)
  /\ UNCHANGED <<store, lapsed, frozen, req, targets, since, past>>

(* The exit status of the receiver arrives in time, whatever it is.           *)
Answer(w) ==
  /\ pc[w] = "ended"
  /\ up[Head(todo[w])]
  /\ Ended(w)
  /\ UNCHANGED <<store, lapsed, frozen, req, targets, faults, since, past>>

\* mutant: no deadline on the ssh command
TimeOutNever(w) == FALSE /\ UNCHANGED vars

\* mutant: the push gives up but leaves its ssh running
TimeOutLeavingSsh(w) ==
  /\ pc[w] \in {"wait", "ended"}
  /\ GiveUp(w, up[Head(todo[w])] /\ Quick(w))
  /\ UNCHANGED <<store, lapsed, frozen, req, procs, allow, up, delay, since, past>>

(* The deadline passes first, whether or not the list has been applied: no    *)
(* accident if the target is slower than that, which it then is every time.   *)
(* The receiver process dies with the connection or goes on alone.            *)
TimeOut(w) ==
  LET t == Head(todo[w])
      mine == {x \in procs[t] : x.by = w}
  IN
    /\ pc[w] \in {"wait", "ended"}
    /\ GiveUp(w, up[t] /\ Quick(w))
    /\ procs' \in {[procs EXCEPT ![t] = @ \ mine],
                   [procs EXCEPT ![t] = (@ \ mine) \cup {[x EXCEPT !.by = Nobody] : x \in mine}]}
    /\ UNCHANGED <<store, lapsed, frozen, req, allow, up, delay, since, past>>

-----------------------------------------------------------------------------
\* mutant: the list is added to the file that is there
ApplyMerged(t, x) ==
  /\ x \in procs[t]
  /\ allow' = [allow EXCEPT ![t] = @ \cup x.kept]
  /\ procs' = [procs EXCEPT ![t] = @ \ {x}]
  /\ IF x.by = Nobody THEN UNCHANGED pc ELSE Goto(x.by, "ended")
  /\ UNCHANGED <<store, lapsed, frozen, req, env, todo, left, up, delay, faults, since, past>>

(* A receiver process renames its list over allow.txt (Receive.tla has the    *)
(* steps); the envelope's age is compared with nothing.                       *)
Apply(t, x) ==
  /\ x \in procs[t]
  /\ allow' = [allow EXCEPT ![t] = x.kept]
  /\ procs' = [procs EXCEPT ![t] = @ \ {x}]
  /\ IF x.by = Nobody THEN UNCHANGED pc ELSE Goto(x.by, "ended")
  /\ UNCHANGED <<store, lapsed, frozen, req, env, todo, left, up, delay, faults, since, past>>

(* It fails: the envelope was older than five minutes, a write failed, or the *)
(* process was killed.                                                        *)
RemoteFails(t, x) ==
  /\ x \in procs[t]
  /\ Fault
  /\ procs' = [procs EXCEPT ![t] = @ \ {x}]
  /\ IF x.by = Nobody THEN UNCHANGED pc ELSE Goto(x.by, "ended")
  /\ UNCHANGED <<store, lapsed, frozen, req, env, todo, left, allow, up, delay, since, past>>

-----------------------------------------------------------------------------
Lapse ==
  /\ lapsed < stamp
  /\ lapsed' = lapsed + 1
  /\ UNCHANGED <<store, frozen, work, targets, faults, since, past>>

(* touch freeze_file; rm freeze_file                                          *)
Freeze ==
  /\ Brakes
  /\ frozen' = ~frozen
  /\ since' = 0
  /\ past' = IF frozen THEN 0 ELSE Cardinality(Pending)
  /\ UNCHANGED <<store, lapsed, work, targets, faults>>

(* The way to a target breaks or comes back, or becomes slower or faster.     *)
LinkChanges(t) ==
  /\ Fault
  /\ \E u \in BOOLEAN, d \in Delays :
       /\ <<u, d>> # <<up[t], delay[t]>>
       /\ up' = [up EXCEPT ![t] = u]
       /\ delay' = [delay EXCEPT ![t] = d]
  /\ UNCHANGED <<store, lapsed, frozen, work, procs, allow, since, past>>

(* The server dies, in the middle of whatever its goroutines are doing, and   *)
(* systemd starts it again, maybe with another configuration: load takes what *)
(* entries.json has, also if that is more than max_entries now.  Its ssh      *)
(* processes die with it, but each of their receivers may have read its list  *)
(* already and go on alone.                                                   *)
Crash ==
  /\ Fault
  /\ limit' \in Limits
  /\ mem' = file
  /\ pc' = [w \in Worker |-> "idle"]
  /\ req' = [h \in Handler |-> NotAllowed]
  /\ env' = [w \in Worker |-> NoEntries]
  /\ todo' = [w \in Worker |-> <<>>]
  /\ left' = [w \in Worker |-> 0]
  /\ \E lost \in SUBSET {x \in UNION {procs[t] : t \in Target} : x.by # Nobody} :
       procs' = [t \in Target |-> {[x EXCEPT !.by = Nobody] : x \in procs[t] \ lost}]
  /\ UNCHANGED <<stamp, lapsed, file, frozen, allow, up, delay, since, past>>

Serve(h) == PurgeFirst(h) \/ Refuse(h) \/ Record(h)

Push(w) ==
  \/ BuildEnvelope(w) \/ Connect(w) \/ NoAnswer(w) \/ Answer(w) \/ TimeOut(w)

\* what a goroutine does by itself
Run(w) ==
  \/ w \in Handler /\ Serve(w)
  \/ w = Purger /\ PurgeTick
  \/ w = Reconciler /\ ReconcileTick
  \/ Push(w)

Next ==
  \/ \E h \in Handler : (\E c \in CIDR \cup {NotAllowed} : Check(h, c)) \/ Serve(h)
  \/ PurgeTick
  \/ ReconcileTick
  \/ \E w \in Worker : Push(w)
  \/ \E t \in Target : \E x \in procs[t] : Apply(t, x) \/ RemoteFails(t, x)
  \/ \E t \in Target : LinkChanges(t)
  \/ Lapse
  \/ Freeze
  \/ Crash

Spec == Init /\ [][Next]_vars

(* Goroutines that can run do, the tickers tick, and a receiver process that  *)
(* is not killed comes to its end.  Nothing is assumed of users, the operator,*)
(* the network or faults.  A worker has one process at a time, so fairness to *)
(* it is fairness to each of its processes.                                   *)
Fairness ==
  /\ \A w \in Worker : WF_vars(Run(w))
  /\ \A t \in Target, w \in Worker :
       WF_vars(\E x \in procs[t] : x.by = w /\ Apply(t, x))
  /\ \A t \in Target, K \in SUBSET CIDR :
       WF_vars(Apply(t, [by |-> Nobody, kept |-> K]))

FairSpec == Spec /\ Fairness

-----------------------------------------------------------------------------
(* The brake works for all but the requests that were past it: while the      *)
(* freeze file exists there are no more Records than requests were past the   *)
(* check at the moment the file was made.  That nothing is recorded then, as  *)
(* the comment on FreezeFile has it (config.go:101-102), is more than the     *)
(* code does: those requests do not look again.                               *)
FreezeBites == since <= past

(* A handler whose pushes hang is still done before the HTTP server's         *)
(* WriteTimeout, when the page could no longer be sent: the budget bounds the *)
(* sum of all pushes (push.go:14-17).                                         *)
AnsweredInTime ==
  \A h \in Handler : pc[h] = "idle" => Before + (Budget - left[h]) <= WriteTimeout

(* A worker waits only for a process that runs for it, and a process running  *)
(* for a worker has that worker waiting at its target: no late answer of an   *)
(* earlier push is taken for the answer of this one.                          *)
AnswersMatch ==
  \A w \in Worker :
    /\ pc[w] = "wait" => \E x \in procs[Head(todo[w])] : x.by = w
    /\ \A t \in Target : \A x \in procs[t] :
         x.by = w => pc[w] = "wait" /\ t = Head(todo[w]) /\ x.kept \subseteq Held(env[w])

(* Every request and every tick comes to its end although targets are down,   *)
(* answers are lost and the server is restarted: the pushes of doPush cannot  *)
(* hang a handler.                                                            *)
HandlersFinish == \A w \in Worker : []<>(pc[w] = "idle")

(* What is certainly left of a budget for the i-th target when those before it*)
(* take what they take at present: up to the timeout, if they do not answer.  *)
CertainlyLeft[i \in 1 .. Len(Order)] ==
  IF i = 1 THEN Budget
  ELSE LET t == Order[i - 1] IN
    CertainlyLeft[i - 1] - (IF up[t] /\ delay[t] < Timeout THEN delay[t] ELSE Timeout)

Served(i) ==
  LET t == Order[i] IN up[t] /\ delay[t] < Timeout /\ delay[t] < CertainlyLeft[i]

(* The reconcile push brings every target to the server's list that answers   *)
(* within what the targets before it leave of the budget, unless the list is  *)
(* too long for it: after lost pushes, failed writes, restarts and late       *)
(* deliveries of old lists (push.go:143-145).                                 *)
ServedConverge ==
  <>[](\A i \in 1 .. Len(Order) :
         Served(i) /\ Cardinality(Live(mem)) <= TargetLimit => allow[Order[i]] = Live(mem))

(* "A target that missed a push converges back to the server state"           *)
(* (push.go:143-145), whenever it is one that answers.                        *)
Converges == <>[](\A t \in Target : up[t] => allow[t] = Live(mem))

(* The purge tick pushes the smaller list "so expired IPs stop being allowed  *)
(* there" (push.go:129): a CIDR that is not in the server's list does not     *)
(* stay in the list of a target that answers.                                 *)
ExpiredLeaves ==
  \A t \in Target, c \in CIDR :
    [](c \notin Live(mem) /\ c \in allow[t] /\ up[t]
         => <>(c \in Live(mem) \/ c \notin allow[t] \/ ~up[t]))

(* Every target's allow.txt is a list in the sense of AllowList.tla, with any *)
(* number of pushes under way to it, some of them given up long ago: it       *)
(* changes as a whole, to one that was sent, and never to one longer than the *)
(* target's own max_entries, whatever the server was started with.            *)
Sendable == {L \in SUBSET CIDR : Cardinality(L) <= TargetLimit}

At(t) == INSTANCE AllowList WITH
           coming <- {x.kept : x \in procs[t]}, list <- allow[t],
           Lists <- Sendable, None <- {}

ImplementsAllowList ==
  /\ \A t \in Target : At(t)!Init
  /\ [][\A t \in Target : At(t)!Next \/ UNCHANGED At(t)!vars]_vars

(* The store in its simpler form is the list of Whitelist.tla as the one of   *)
(* Store.tla is, with Records for the ticks of its clock: no interleaving of  *)
(* handlers and tickers, failed write, crash or lower max_entries makes it    *)
(* anything else.                                                             *)
White == INSTANCE Whitelist WITH
           Ends <- 1 .. MaxStamp, Slack <- 0, Rooms <- Limits, now <- lapsed,
           room <- limit, list <- Purged(mem), durable <- Purged(file)

ImplementsWhitelist == White!Spec
=============================================================================
