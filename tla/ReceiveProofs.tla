---------------------------- MODULE ReceiveProofs ----------------------------
(* What holds of Receive for any number of processes and runs, any envelopes  *)
(* and any assignment of canonical CIDRs.                                     *)
EXTENDS Receive, FiniteSetTheorems, TLAPS

(* The list that is written consists of canonical CIDRs, and there are no     *)
(* more of them than entries: what MaxEntries bounds.                         *)
LEMMA CidrsBounded ==
  ASSUME NEW in \in Inputs, NEW t
  PROVE  /\ Kept(in, t) \subseteq in.entries
         /\ Cidrs(in, t) \subseteq CIDR
         /\ Cardinality(Cidrs(in, t)) \in Nat
         /\ Cardinality(Cidrs(in, t)) <= Cardinality(in.entries)
         /\ in.entries \subseteq EnvEntry
<1> DEFINE K == Kept(in, t)
           C == Cidrs(in, t)
           f == [e \in K |-> Canon[e.cidr]]
<1>1. in.entries \subseteq EnvEntry /\ IsFiniteSet(in.entries)
  BY ReceiveConstants DEF Envelope
<1>2. K \subseteq in.entries
  BY DEF Kept
<1>3. C \subseteq CIDR
  BY <1>1, <1>2, PipelineConstants DEF Cidrs, Kept, EnvEntry
<1>4. IsFiniteSet(K) /\ Cardinality(K) <= Cardinality(in.entries)
  BY <1>1, <1>2, FS_Subset
<1>5. f \in Surjection(K, C)
  BY DEF Surjection, Cidrs
<1>6. IsFiniteSet(C) /\ Cardinality(C) <= Cardinality(K)
  BY <1>4, <1>5, FS_Surjection DEF ExistsSurjection
<1>7. Cardinality(C) \in Nat /\ Cardinality(K) \in Nat /\ Cardinality(in.entries) \in Nat
  BY <1>1, <1>4, <1>6, FS_CardinalityType
<1> QED
  BY <1>1, <1>2, <1>3, <1>4, <1>6, <1>7

(* A process that is past its verdict has one, and it was positive; and every *)
(* running process has a number.                                              *)
Judged ==
  \A p \in Proc :
    /\ pc[p] # "idle" => id[p] \in Runs
    /\ pc[p] \in {"inbox", "state", "allow"} => env[p] \in Inputs /\ Accepts(env[p], now[p])

TypeInv == TypeOK /\ Judged

(* The files an installer leaves, and no run yet.                             *)
LEMMA InitTypeInv == Init => TypeInv
BY ReceiveConstants DEF Init, TypeInv, TypeOK, Judged, Steps, Results, Runs, EnvEntry

(* Every step of a run, its end, and the clock keep the types.                *)
LEMMA NextTypeInv == TypeInv /\ [Next]_vars => TypeInv'
<1> SUFFICES ASSUME TypeInv, [Next]_vars PROVE TypeInv'
  OBVIOUS
<1> USE DEF TypeInv, TypeOK, Judged, Goto, Finish, Replace, files, procs, Steps, Results
<1>1. ASSUME NEW p \in Proc, Start(p) PROVE TypeInv'
  <2> DEFINE r == Cardinality(Started) + 1
  <2>1. r \in Runs
    BY <1>1 DEF Start
  <2>2. {id[q] : q \in Active} \subseteq Runs
    BY DEF Active
  <2>3. overlap' \subseteq Runs
    BY <1>1, <2>1, <2>2 DEF Start
  <2> HIDE DEF r
  <2>4. /\ pc' = [pc EXCEPT ![p] = "read"]
        /\ now' = [now EXCEPT ![p] = clock]
        /\ id' = [id EXCEPT ![p] = r]
        /\ result' = [result EXCEPT ![r] = "run"]
        /\ UNCHANGED <<clock, env, inbox, state, allow, wrote>>
    BY <1>1 DEF Start, r
  <2> QED
    BY <2>1, <2>3, <2>4 DEF Runs
<1>2. ASSUME NEW p \in Proc, NEW in \in Inputs \cup {Garbage}, Verify(p, in)
      PROVE  TypeInv'
  BY <1>2 DEF Verify
<1>3. ASSUME NEW p \in Proc, NEW in \in Inputs \cup {Garbage}, Reject(p, in)
      PROVE  TypeInv'
  BY <1>3 DEF Reject
<1>4. ASSUME NEW p \in Proc, WriteInbox(p) PROVE TypeInv'
  BY <1>4 DEF WriteInbox, Runs
<1>5. ASSUME NEW p \in Proc, WriteState(p) PROVE TypeInv'
  <2>1. env[p] \in Inputs /\ id[p] \in 0 .. MaxRuns /\ now[p] \in 0 .. MaxClock
    BY <1>5 DEF WriteState, Runs
  <2>2. Kept(env[p], now[p]) \subseteq EnvEntry
    BY <2>1, CidrsBounded
  <2> QED
    BY <1>5, <2>1, <2>2 DEF WriteState
<1>6. ASSUME NEW p \in Proc, WriteAllow(p) PROVE TypeInv'
  <2>1. env[p] \in Inputs /\ id[p] \in 0 .. MaxRuns /\ now[p] \in 0 .. MaxClock
    BY <1>6 DEF WriteAllow, Runs
  <2>2. Cidrs(env[p], now[p]) \subseteq CIDR
    BY <2>1, CidrsBounded
  <2> QED
    BY <1>6, <2>1, <2>2 DEF WriteAllow
<1>7. ASSUME NEW p \in Proc, Report(p) \/ WriteFails(p) PROVE TypeInv'
  BY <1>7 DEF Report, WriteFails
<1>8. ASSUME NEW p \in Proc, Killed(p) PROVE TypeInv'
  BY <1>8 DEF Killed
<1>9. CASE Tick
  BY <1>9, ReceiveConstants DEF Tick
<1>10. CASE UNCHANGED vars
  BY <1>10 DEF vars
<1> QED
  BY <1>1, <1>2, <1>3, <1>4, <1>5, <1>6, <1>7, <1>8, <1>9, <1>10 DEF Next

(* The types of Receive, for any processes, envelopes and bounds.             *)
THEOREM TypeCorrect == Spec => []TypeOK
<1>1. TypeInv => TypeOK
  BY DEF TypeInv
<1> QED
  BY <1>1, InitTypeInv, NextTypeInv, PTL DEF Spec

-----------------------------------------------------------------------------
(* At first allow.txt is the installer's, of which nothing is claimed.        *)
LEMMA InitAllow == Init => AllowIsVerified
BY DEF Init, AllowIsVerified

(* Only the last write of a run touches allow.txt, and by then the envelope   *)
(* has passed the checks as of the reading that is written with it.           *)
LEMMA NextAllow == TypeInv /\ AllowIsVerified /\ [Next]_vars => AllowIsVerified'
<1> SUFFICES ASSUME TypeInv, AllowIsVerified, [Next]_vars PROVE AllowIsVerified'
  OBVIOUS
<1>1. ASSUME NEW p \in Proc, WriteAllow(p) PROVE AllowIsVerified'
  <2> DEFINE in == env[p]
             t  == now[p]
  <2>1. in \in Inputs /\ Accepts(in, t) /\ t \in Nat
    BY <1>1 DEF WriteAllow, TypeInv, Judged, TypeOK
  <2>2. allow'.at = t /\ allow'.cidrs = Cidrs(in, t)
    BY <1>1 DEF WriteAllow
  <2>3. in.signed /\ in.expires > t
    BY <2>1 DEF Accepts
  <2>4. Cardinality(Cidrs(in, t)) <= MaxEntries
    <3>1. /\ Cardinality(Cidrs(in, t)) <= Cardinality(in.entries)
          /\ Cardinality(Cidrs(in, t)) \in Nat
      BY <2>1, CidrsBounded
    <3>2. Cardinality(in.entries) <= MaxEntries
      BY <2>1 DEF Accepts
    <3>3. Cardinality(in.entries) \in Nat
      BY <2>1, ReceiveConstants, FS_CardinalityType
    <3> QED
      BY <3>1, <3>2, <3>3, PipelineConstants
  <2>5. \A c \in CIDR : c \in Cidrs(in, t) <=>
          \E e \in in.entries : Canon[e.cidr] = c /\ e.expires > t
    BY PipelineConstants DEF Cidrs, Kept
  <2> HIDE DEF in, t
  <2> QED
    BY <2>1, <2>2, <2>3, <2>4, <2>5 DEF AllowIsVerified
<1>2. ASSUME UNCHANGED allow PROVE AllowIsVerified'
  BY <1>2 DEF AllowIsVerified
<1>3. ASSUME NEW p \in Proc, NEW in \in Inputs \cup {Garbage},
             Start(p) \/ Verify(p, in) \/ Reject(p, in) \/ WriteInbox(p)
               \/ WriteState(p) \/ Report(p) \/ WriteFails(p) \/ Killed(p)
      PROVE  UNCHANGED allow
  BY <1>3 DEF Start, Verify, Reject, WriteInbox, WriteState, Report, WriteFails, Killed, files
<1>4. Tick \/ UNCHANGED vars => UNCHANGED allow
  BY DEF Tick, vars, files
<1> QED
  BY <1>1, <1>2, <1>3, <1>4 DEF Next

(* allow.txt is exactly what one signed and fresh envelope allowed when the   *)
(* run that wrote it started, and it is never longer than max_entries.        *)
THEOREM AllowVerified == Spec => []AllowIsVerified
BY InitTypeInv, NextTypeInv, InitAllow, NextAllow, PTL DEF Spec

-----------------------------------------------------------------------------
(* Runs are numbered in the order of their starts, each by one process that   *)
(* runs once, and the step a process is at tells which files it has replaced. *)
Numbered == \E n \in 0 .. MaxRuns : Started = 1 .. n

Owned ==
  /\ \A p \in Active : result[id[p]] = "run"
  /\ \A p, q \in Active : id[p] = id[q] => p = q

Progress ==
  /\ \A r \in Runs : result[r] = "none" => wrote[r] = {}
  /\ \A p \in Proc :
       /\ pc[p] \in {"read", "inbox"} => wrote[id[p]] = {}
       /\ pc[p] = "state" => wrote[id[p]] = {"inbox"}
       /\ pc[p] = "allow" => wrote[id[p]] = {"inbox", "state"}
       /\ pc[p] = "report" => wrote[id[p]] = {"inbox", "state", "allow"}

RunInv == Numbered /\ Owned /\ Progress /\ OutcomeTellsApplied

(* The number Start takes is the next one, and no run has had it.             *)
LEMMA NextNumber ==
  ASSUME TypeOK, NEW n \in 0 .. MaxRuns, Started = 1 .. n
  PROVE  Cardinality(Started) = n /\ \A r \in Runs : r > n => result[r] = "none"
<1>1. Cardinality(1 .. n) = n
  BY FS_Interval, ReceiveConstants
<1>2. \A r \in Runs : r > n => r \notin 1 .. n
  BY ReceiveConstants DEF Runs
<1> QED
  BY <1>1, <1>2 DEF Started

(* Nothing has run.                                                           *)
LEMMA InitRunInv == Init => RunInv
<1> SUFFICES ASSUME Init PROVE RunInv
  OBVIOUS
<1>1. Started = 1 .. 0
  BY DEF Init, Started
<1>2. 0 \in 0 .. MaxRuns
  BY ReceiveConstants
<1> QED
  BY <1>1, <1>2 DEF Init, RunInv, Numbered, Owned, Progress, OutcomeTellsApplied, Active

(* A new run begins with nothing written.                                     *)
LEMMA StartRunInv ==
  ASSUME TypeInv, RunInv, NEW p \in Proc, Start(p)
  PROVE  RunInv'
<1>1. PICK n \in 0 .. MaxRuns : Started = 1 .. n
  BY DEF RunInv, Numbered
<1> DEFINE r == n + 1
<1>2. /\ r \in Runs /\ result[r] = "none"
      /\ pc[p] = "idle"
      /\ pc' = [pc EXCEPT ![p] = "read"]
      /\ id' = [id EXCEPT ![p] = r]
      /\ result' = [result EXCEPT ![r] = "run"]
      /\ UNCHANGED wrote
  <2>1. Cardinality(Started) = n
    BY <1>1, NextNumber DEF TypeInv
  <2>2. r \in Runs
    BY <2>1 DEF Start
  <2>3. result[r] = "none"
    BY <1>1, <2>2, NextNumber, ReceiveConstants DEF TypeInv, Runs
  <2> QED
    BY <2>1, <2>2, <2>3 DEF Start, Goto
<1>3. Started' = 1 .. r /\ r \in 0 .. MaxRuns
  BY <1>1, <1>2, ReceiveConstants DEF Started, TypeInv, TypeOK, Runs
<1>4. \A q \in Active : id[q] # r /\ q # p
  BY <1>2 DEF RunInv, Owned, Active
<1>5. Owned'
  BY <1>2, <1>4 DEF RunInv, Owned, Active, TypeInv, TypeOK, Judged
<1>6. Progress'
  BY <1>2, <1>4 DEF RunInv, Progress, Active, TypeInv, TypeOK, Judged
<1>7. OutcomeTellsApplied'
  BY <1>2 DEF RunInv, OutcomeTellsApplied, TypeInv, TypeOK
<1> QED
  BY <1>3, <1>5, <1>6, <1>7 DEF RunInv, Numbered

(* A run goes on to its next step, with or without replacing a file.          *)
LEMMA AdvanceRunInv ==
  ASSUME TypeInv, RunInv, NEW p \in Proc,
         Verify(p, env'[p]) \/ WriteInbox(p) \/ WriteState(p) \/ WriteAllow(p)
  PROVE  RunInv'
<1>1. pc[p] # "idle" /\ id[p] \in Runs /\ result[id[p]] = "run" /\ UNCHANGED <<id, result>>
  BY DEF Verify, WriteInbox, WriteState, WriteAllow, TypeInv, Judged, RunInv, Owned, Active
<1>2. Started' = Started
  BY <1>1 DEF Started
<1>3. Active' = Active
  BY <1>1 DEF Verify, WriteInbox, WriteState, WriteAllow, Goto, Active, TypeInv, TypeOK
<1>4. Owned'
  BY <1>1, <1>3 DEF RunInv, Owned
<1>5. \A q \in Active : q # p => id[q] # id[p]
  BY <1>1 DEF RunInv, Owned, Active
<1>6. Progress' /\ OutcomeTellsApplied'
  <2> USE DEF RunInv, Progress, OutcomeTellsApplied, Goto, Replace, TypeInv, TypeOK, Judged, Active
  <2>1. CASE Verify(p, env'[p])
    BY <1>1, <1>5, <2>1 DEF Verify
  <2>2. CASE WriteInbox(p)
    BY <1>1, <1>5, <2>2 DEF WriteInbox
  <2>3. CASE WriteState(p)
    BY <1>1, <1>5, <2>3 DEF WriteState
  <2>4. CASE WriteAllow(p)
    BY <1>1, <1>5, <2>4 DEF WriteAllow
  <2> QED
    BY <2>1, <2>2, <2>3, <2>4
<1> QED
  BY <1>2, <1>4, <1>6 DEF RunInv, Numbered

(* A run ends, in one of its four ways.                                       *)
LEMMA FinishRunInv ==
  ASSUME TypeInv, RunInv, NEW p \in Proc,
         \/ Report(p) \/ WriteFails(p) \/ Killed(p)
         \/ \E in \in Inputs \cup {Garbage} : Reject(p, in)
  PROVE  RunInv'
<1>1. PICK how \in {"ok", "error", "killed"} :
        /\ pc[p] # "idle"
        /\ pc' = [pc EXCEPT ![p] = "idle"]
        /\ result' = [result EXCEPT ![id[p]] = how]
        /\ UNCHANGED <<id, wrote>>
        /\ how = "ok" => pc[p] = "report"
        /\ how = "error" => pc[p] \in {"read", "inbox", "state", "allow"}
  BY DEF Report, WriteFails, Killed, Reject, Finish, Goto
<1>2. id[p] \in Runs /\ result[id[p]] = "run"
  BY <1>1 DEF TypeInv, Judged, RunInv, Owned, Active
<1>3. Started' = Started
  BY <1>1, <1>2 DEF Started, TypeInv, TypeOK
<1>4. Active' = Active \ {p}
  BY <1>1 DEF Active, TypeInv, TypeOK
<1>5. \A q \in Active : q # p => id[q] # id[p]
  BY <1>1 DEF RunInv, Owned, Active
<1>6. Owned'
  BY <1>1, <1>2, <1>4, <1>5 DEF RunInv, Owned, Active, TypeInv, TypeOK, Judged
<1>7. Progress'
  BY <1>1, <1>2, <1>5 DEF RunInv, Progress, Active, TypeInv, TypeOK, Judged
<1>8. /\ how = "ok" => wrote[id[p]] = {"inbox", "state", "allow"}
      /\ how = "error" => "allow" \notin wrote[id[p]]
  BY <1>1 DEF RunInv, Progress
<1>9. OutcomeTellsApplied'
  BY <1>1, <1>2, <1>8 DEF RunInv, OutcomeTellsApplied, TypeInv, TypeOK
<1> QED
  BY <1>3, <1>6, <1>7, <1>9 DEF RunInv, Numbered

(* Every step keeps the books.                                                *)
LEMMA NextRunInv == TypeInv /\ RunInv /\ [Next]_vars => RunInv'
<1> SUFFICES ASSUME TypeInv, RunInv, [Next]_vars PROVE RunInv'
  OBVIOUS
<1>1. ASSUME NEW p \in Proc, NEW in \in Inputs \cup {Garbage}, Verify(p, in)
      PROVE  RunInv'
  <2>1. Verify(p, env'[p])
    BY <1>1 DEF Verify, TypeInv, TypeOK
  <2> QED
    BY <2>1, AdvanceRunInv
<1>2. ASSUME Tick \/ UNCHANGED vars PROVE RunInv'
  BY <1>2 DEF Tick, vars, procs, files, RunInv, Numbered, Owned, Progress,
              OutcomeTellsApplied, Started, Active
<1> QED
  BY <1>1, <1>2, StartRunInv, AdvanceRunInv, FinishRunInv DEF Next

(* The invariant of the runs, for any number of concurrent processes.         *)
LEMMA RunInvariant == Spec => [](TypeInv /\ RunInv)
BY InitTypeInv, NextTypeInv, InitRunInv, NextRunInv, PTL DEF Spec

(* What run returns tells whether allow.txt was replaced, whatever fails and  *)
(* however many receivers run beside this one; and a list is in place only    *)
(* with its records, also when the process was killed.                        *)
THEOREM OutcomeIsTrue == Spec => []OutcomeTellsApplied
<1>1. TypeInv /\ RunInv => OutcomeTellsApplied
  BY DEF RunInv
<1> QED
  BY <1>1, RunInvariant, PTL

-----------------------------------------------------------------------------
(* While no two runs have overlapped, only the latest run can be active, and  *)
(* the files it has replaced carry its number; all others are of runs before. *)
Alone ==
  /\ \A p, q \in Active : p = q
  /\ \A p \in Active : \A r \in Started : r <= id[p]
  /\ {inbox.run, state.run, allow.run} \subseteq Started \cup {0}
  /\ allow.run <= state.run /\ state.run <= inbox.run
  /\ \A p \in Proc :
       /\ pc[p] \in {"state", "allow", "report"} => inbox.run = id[p]
       /\ pc[p] \in {"allow", "report"} => state.run = id[p]

OrderInv == overlap = {} => Alone

(* The installer's files are all of run 0.                                    *)
LEMMA InitOrder == Init => OrderInv
BY DEF Init, OrderInv, Alone, Active

(* The run that starts is the latest; if another is active, both overlap.     *)
LEMMA StartOrder ==
  ASSUME TypeInv, RunInv, OrderInv, NEW p \in Proc, Start(p)
  PROVE  OrderInv'
<1> SUFFICES ASSUME overlap' = {} PROVE Alone'
  BY DEF OrderInv
<1>1. PICK n \in 0 .. MaxRuns : Started = 1 .. n
  BY DEF RunInv, Numbered
<1> DEFINE r == n + 1
<1>2. Cardinality(Started) = n
  BY <1>1, NextNumber DEF TypeInv
<1>3. /\ r \in Runs
      /\ pc' = [pc EXCEPT ![p] = "read"]
      /\ id' = [id EXCEPT ![p] = r]
      /\ result' = [result EXCEPT ![r] = "run"]
      /\ UNCHANGED <<inbox, state, allow>>
  BY <1>2 DEF Start, Goto, files
<1>4. Active = {} /\ overlap = {}
  BY <1>2 DEF Start
<1>5. Alone
  BY <1>4 DEF OrderInv
<1>6. Active' = {p}
  BY <1>3, <1>4 DEF Active, TypeInv, TypeOK
<1>7. Started' = 1 .. r /\ Started \subseteq Started'
  BY <1>1, <1>3, ReceiveConstants DEF Started, TypeInv, TypeOK, Runs
<1>8. \A q \in Active' : \A k \in Started' : k <= id'[q]
  BY <1>3, <1>6, <1>7 DEF TypeInv, TypeOK
<1>9. \A q \in Proc : pc'[q] \notin {"state", "allow", "report"}
  BY <1>3, <1>4 DEF Active, TypeInv, TypeOK
<1> QED
  BY <1>3, <1>5, <1>6, <1>7, <1>8, <1>9 DEF Alone

(* What the other steps leave of the numbers: the active processes go, stay   *)
(* or end, and no run starts.                                                 *)
LEMMA OtherSteps ==
  ASSUME TypeInv, RunInv, NEW p \in Proc, NEW in \in Inputs \cup {Garbage},
         Verify(p, in) \/ Reject(p, in) \/ WriteInbox(p) \/ WriteState(p)
           \/ WriteAllow(p) \/ Report(p) \/ WriteFails(p) \/ Killed(p)
  PROVE  /\ p \in Active /\ id[p] \in Started /\ id[p] \in Nat
         /\ Active' \subseteq Active
         /\ Started' = Started
         /\ \A q \in Proc : q # p => pc'[q] = pc[q]
         /\ UNCHANGED <<id, overlap>>
<1>1. p \in Active
  BY DEF Active, Verify, Reject, WriteInbox, WriteState, WriteAllow, Report, WriteFails, Killed
<1>2. id[p] \in Runs /\ result[id[p]] = "run"
  BY <1>1 DEF TypeInv, Judged, RunInv, Owned, Active
<1>3. /\ \E step \in Steps : pc' = [pc EXCEPT ![p] = step]
      /\ \/ UNCHANGED result
         \/ \E how \in {"ok", "error", "killed"} : result' = [result EXCEPT ![id[p]] = how]
      /\ UNCHANGED <<id, overlap>>
  BY DEF Verify, Reject, WriteInbox, WriteState, WriteAllow, Report, WriteFails, Killed,
         Goto, Finish, Steps
<1>4. Started' = Started
  BY <1>2, <1>3 DEF Started, TypeInv, TypeOK
<1>5. Active' \subseteq Active /\ \A q \in Proc : q # p => pc'[q] = pc[q]
  BY <1>1, <1>3 DEF Active, TypeInv, TypeOK
<1> QED
  BY <1>1, <1>2, <1>3, <1>4, <1>5 DEF Started, Runs

(* A file is replaced by the latest run, after the file before it.            *)
LEMMA OtherOrder ==
  ASSUME TypeInv, RunInv, OrderInv, NEW p \in Proc, NEW in \in Inputs \cup {Garbage},
         Verify(p, in) \/ Reject(p, in) \/ WriteInbox(p) \/ WriteState(p)
           \/ WriteAllow(p) \/ Report(p) \/ WriteFails(p) \/ Killed(p)
  PROVE  OrderInv'
<1> SUFFICES ASSUME overlap' = {} PROVE Alone'
  BY DEF OrderInv
<1>1. /\ p \in Active /\ id[p] \in Started /\ id[p] \in Nat
      /\ Active' \subseteq Active
      /\ Started' = Started
      /\ \A q \in Proc : q # p => pc'[q] = pc[q]
      /\ UNCHANGED <<id, overlap>>
  BY OtherSteps
<1>2. Alone
  BY <1>1 DEF OrderInv
<1>3. \A q \in Proc : q # p => pc'[q] = "idle"
  BY <1>1, <1>2 DEF Alone, Active
<1>4. {inbox.run, state.run, allow.run} \subseteq Nat
  BY DEF TypeInv, TypeOK
<1>5. inbox.run <= id[p] /\ state.run <= id[p] /\ allow.run <= id[p]
  BY <1>1, <1>2, <1>4 DEF Alone
<1>6. /\ {inbox'.run, state'.run, allow'.run} \subseteq Started \cup {0}
      /\ allow'.run <= state'.run /\ state'.run <= inbox'.run
      /\ pc'[p] \in {"state", "allow", "report"} => inbox'.run = id[p]
      /\ pc'[p] \in {"allow", "report"} => state'.run = id[p]
  <2> USE DEF TypeInv, TypeOK, Goto, Finish, files
  <2>1. CASE Verify(p, in) \/ Reject(p, in) \/ Report(p) \/ WriteFails(p) \/ Killed(p)
    BY <1>2, <2>1 DEF Alone, Verify, Reject, Report, WriteFails, Killed
  <2>2. CASE WriteInbox(p)
    BY <1>1, <1>2, <1>4, <1>5, <2>2 DEF Alone, WriteInbox
  <2>3. CASE WriteState(p)
    BY <1>1, <1>2, <1>4, <1>5, <2>3 DEF Alone, WriteState
  <2>4. CASE WriteAllow(p)
    BY <1>1, <1>2, <1>4, <1>5, <2>4 DEF Alone, WriteAllow
  <2> QED
    BY <2>1, <2>2, <2>3, <2>4
<1> QED
  BY <1>1, <1>2, <1>3, <1>6 DEF Alone

(* Every step keeps the files in order until two runs overlap.                *)
LEMMA NextOrder == TypeInv /\ RunInv /\ OrderInv /\ [Next]_vars => OrderInv'
<1> SUFFICES ASSUME TypeInv, RunInv, OrderInv, [Next]_vars PROVE OrderInv'
  OBVIOUS
<1>1. ASSUME Tick \/ UNCHANGED vars PROVE OrderInv'
  BY <1>1 DEF Tick, vars, procs, files, OrderInv, Alone, Started, Active
<1>2. Garbage \in Inputs \cup {Garbage}
  OBVIOUS
<1> QED
  BY <1>1, <1>2, StartOrder, OtherOrder DEF Next

(* Until two receivers overlap, the debug records are never behind the live   *)
(* list: the order in which run writes its files, with every write able to    *)
(* fail and every run able to die.                                            *)
THEOREM RecordsFirst == Spec => []RecordsComeFirst
<1>1. OrderInv => RecordsComeFirst
  BY DEF OrderInv, Alone, RecordsComeFirst
<1> QED
  BY <1>1, RunInvariant, InitOrder, NextOrder, PTL DEF Spec

-----------------------------------------------------------------------------
(* If the latest run overlaps with none, it alone is active, and the files it *)
(* has come past carry its number, whatever earlier runs did.                 *)
Latest(n) ==
  /\ \A p \in Active :
       /\ id[p] = n
       /\ pc[p] \in {"state", "allow", "report"} => inbox.run = n
       /\ pc[p] \in {"allow", "report"} => state.run = n
       /\ pc[p] = "report" => allow.run = n
  /\ result[n] = "ok" => inbox.run = n /\ state.run = n /\ allow.run = n

LastInv == \A n \in Runs \ overlap : Started = 1 .. n => Latest(n)

(* No run is the latest yet.                                                  *)
LEMMA InitLast == Init => LastInv
<1>1. Init => Started = {}
  BY DEF Init, Started
<1>2. \A n \in Runs : 1 \in 1 .. n
  BY ReceiveConstants DEF Runs
<1> QED
  BY <1>1, <1>2 DEF LastInv

(* A run that starts alone has come past no file.                             *)
LEMMA StartLast ==
  ASSUME TypeInv, RunInv, NEW p \in Proc, Start(p)
  PROVE  LastInv'
<1>1. PICK n \in 0 .. MaxRuns : Started = 1 .. n
  BY DEF RunInv, Numbered
<1> DEFINE r == n + 1
<1>2. Cardinality(Started) = n
  BY <1>1, NextNumber DEF TypeInv
<1>3. /\ r \in Runs
      /\ pc' = [pc EXCEPT ![p] = "read"]
      /\ id' = [id EXCEPT ![p] = r]
      /\ result' = [result EXCEPT ![r] = "run"]
      /\ Active # {} => r \in overlap'
  BY <1>2 DEF Start, Goto
<1>4. Started' = 1 .. r
  BY <1>1, <1>3, ReceiveConstants DEF Started, TypeInv, TypeOK, Runs
<1> SUFFICES ASSUME NEW k \in Runs, k \notin overlap', Started' = 1 .. k
             PROVE  Latest(k)'
  BY DEF LastInv
<1>5. k = r
  BY <1>3, <1>4, ReceiveConstants DEF Runs
<1>6. Active' = {p}
  BY <1>3, <1>5 DEF Active, TypeInv, TypeOK
<1> QED
  BY <1>3, <1>5, <1>6 DEF Latest, TypeInv, TypeOK

(* Only the latest run can take a step then, and it replaces its files in     *)
(* order before it ends well.                                                 *)
LEMMA OtherLast ==
  ASSUME TypeInv, RunInv, LastInv, NEW p \in Proc, NEW in \in Inputs \cup {Garbage},
         Verify(p, in) \/ Reject(p, in) \/ WriteInbox(p) \/ WriteState(p)
           \/ WriteAllow(p) \/ Report(p) \/ WriteFails(p) \/ Killed(p)
  PROVE  LastInv'
<1>1. /\ p \in Active /\ Active' \subseteq Active
      /\ Started' = Started
      /\ \A q \in Proc : q # p => pc'[q] = pc[q]
      /\ UNCHANGED <<id, overlap>>
  BY OtherSteps
<1> SUFFICES ASSUME NEW n \in Runs, n \notin overlap, Started = 1 .. n
             PROVE  Latest(n)'
  BY <1>1 DEF LastInv
<1>2. Latest(n)
  BY DEF LastInv
<1>3. id[p] = n /\ result[n] = "run" /\ \A q \in Active : q = p
  BY <1>1, <1>2 DEF Latest, RunInv, Owned
<1> USE DEF TypeInv, TypeOK, Goto, Finish, files, Latest, Active
<1>4. CASE Verify(p, in) \/ Reject(p, in) \/ Report(p) \/ WriteFails(p) \/ Killed(p)
  BY <1>1, <1>2, <1>3, <1>4 DEF Verify, Reject, Report, WriteFails, Killed
<1>5. CASE WriteInbox(p)
  BY <1>1, <1>2, <1>3, <1>5 DEF WriteInbox
<1>6. CASE WriteState(p)
  BY <1>1, <1>2, <1>3, <1>6 DEF WriteState
<1>7. CASE WriteAllow(p)
  BY <1>1, <1>2, <1>3, <1>7 DEF WriteAllow
<1> QED
  BY <1>4, <1>5, <1>6, <1>7

(* Every step keeps the latest run's books.                                   *)
LEMMA NextLast == TypeInv /\ RunInv /\ LastInv /\ [Next]_vars => LastInv'
<1> SUFFICES ASSUME TypeInv, RunInv, LastInv, [Next]_vars PROVE LastInv'
  OBVIOUS
<1>1. ASSUME Tick \/ UNCHANGED vars PROVE LastInv'
  BY <1>1 DEF Tick, vars, procs, files, LastInv, Latest, Started, Active
<1>2. Garbage \in Inputs \cup {Garbage}
  OBVIOUS
<1> QED
  BY <1>1, <1>2, StartLast, OtherLast DEF Next

(* A receiver that ran alone and ended well leaves three files of one         *)
(* envelope, whatever overlapped, failed or was killed before it: the files   *)
(* are repaired by the next push.                                             *)
THEOREM AloneAgrees == Spec => []AloneMeansAgreement
<1>1. TypeInv /\ RunInv /\ LastInv => AloneMeansAgreement
  <2> SUFFICES ASSUME TypeInv, RunInv, LastInv PROVE AloneMeansAgreement
    OBVIOUS
  <2>1. PICK n \in 0 .. MaxRuns : Started = 1 .. n
    BY DEF RunInv, Numbered
  <2>2. Cardinality(Started) = n
    BY <2>1, NextNumber DEF TypeInv
  <2>3. n # 0 => n \in Runs
    BY ReceiveConstants DEF Runs
  <2> QED
    BY <2>1, <2>2, <2>3 DEF AloneMeansAgreement, LastInv, Latest
<1> QED
  BY <1>1, RunInvariant, InitLast, NextLast, PTL DEF Spec

-----------------------------------------------------------------------------
(* The refinement of AllowList.tla.                                           *)

Deciding == {p \in Proc : pc[p] \in {"inbox", "state", "allow"}}

\* a step of process p leaves the others alone
Others(p) ==
  \A q \in Proc \ {p} : pc'[q] = pc[q] /\ env'[q] = env[q] /\ now'[q] = now[q]

(* What the lists under way are after a step of p: those of the others, which *)
(* were there before, and its own.                                            *)
LEMMA SettledBut ==
  ASSUME NEW p \in Proc, Others(p)
  PROVE  /\ Settled \ {Cidrs(env[p], now[p])} \subseteq Settled'
         /\ p \notin Deciding => Settled \subseteq Settled'
         /\ p \notin Deciding' => Settled' \subseteq Settled
         /\ Settled' \subseteq Settled \cup {Cidrs(env'[p], now'[p])}
         /\ p \in Deciding => Cidrs(env[p], now[p]) \in Settled
         /\ p \in Deciding' => Cidrs(env'[p], now'[p]) \in Settled'
<1>1. \A q \in Proc \ {p} :
        /\ q \in Deciding <=> q \in Deciding'
        /\ Cidrs(env[q], now[q]) = Cidrs(env'[q], now'[q])
  BY DEF Deciding, Others
<1>2. Settled = {Cidrs(env[q], now[q]) : q \in Deciding}
  BY DEF Settled, Deciding
<1>3. Settled' = {Cidrs(env'[q], now'[q]) : q \in Deciding'}
  BY DEF Settled, Deciding
<1>4. Deciding \subseteq Proc /\ Deciding' \subseteq Proc
  BY DEF Deciding
<1> QED
  BY <1>1, <1>2, <1>3, <1>4

(* A verdict settles a list, the last write of a run replaces allow.txt by    *)
(* the one it settled, and a run that ends before it may lose it.             *)
LEMMA AllowListStep == TypeInv /\ [Next]_vars => [File!Next]_(File!vars)
<1> SUFFICES ASSUME TypeInv, [Next]_vars PROVE [File!Next]_(File!vars)
  OBVIOUS
<1> USE DEF File!Next, File!Settle, File!Replace, File!Lose, File!vars
<1>1. ASSUME NEW p \in Proc, NEW in \in Inputs \cup {Garbage}, Verify(p, in)
      PROVE  [File!Next]_(File!vars)
  <2>1. Others(p) /\ p \notin Deciding /\ p \in Deciding'
    BY <1>1 DEF Verify, Goto, Others, Deciding, TypeInv, TypeOK
  <2>2. env'[p] = in /\ now'[p] = now[p] /\ UNCHANGED allow
    BY <1>1 DEF Verify, files, TypeInv, TypeOK
  <2>3. Settled' = Settled \cup {Cidrs(in, now[p])}
    BY <2>1, <2>2, SettledBut
  <2>4. in \in Inputs /\ now[p] \in 0 .. MaxClock /\ Accepts(in, now[p])
    BY <1>1 DEF Verify, TypeInv, TypeOK
  <2>5. Cidrs(in, now[p]) \in Verdicts
    BY <2>4 DEF Verdicts
  <2> QED
    BY <2>2, <2>3, <2>5
<1>2. ASSUME NEW p \in Proc, WriteAllow(p) PROVE [File!Next]_(File!vars)
  <2> DEFINE L == Cidrs(env[p], now[p])
  <2>1. Others(p) /\ p \in Deciding /\ p \notin Deciding'
    BY <1>2 DEF WriteAllow, Finish, Goto, Others, Deciding, TypeInv, TypeOK
  <2>2. allow'.cidrs = L
    BY <1>2 DEF WriteAllow
  <2>3. L \in Settled /\ Settled' \in {Settled, Settled \ {L}}
    BY <2>1, SettledBut
  <2> QED
    BY <2>2, <2>3
<1>3. ASSUME NEW p \in Proc, WriteFails(p) \/ Killed(p) PROVE [File!Next]_(File!vars)
  <2>1. Others(p) /\ p \notin Deciding' /\ UNCHANGED allow
    BY <1>3 DEF WriteFails, Killed, Finish, Goto, Others, Deciding, files, TypeInv, TypeOK
  <2> QED
    BY <2>1, SettledBut
<1>4. ASSUME NEW p \in Proc, NEW in \in Inputs \cup {Garbage},
             Start(p) \/ Reject(p, in) \/ Report(p)
      PROVE  [File!Next]_(File!vars)
  <2>1. Others(p) /\ p \notin Deciding /\ p \notin Deciding' /\ UNCHANGED allow
    BY <1>4 DEF Start, Reject, Report, Finish, Goto, Others, Deciding, files, TypeInv, TypeOK
  <2> QED
    BY <2>1, SettledBut
<1>5. ASSUME NEW p \in Proc, WriteInbox(p) \/ WriteState(p) PROVE [File!Next]_(File!vars)
  <2>1. /\ Others(p) /\ p \in Deciding /\ p \in Deciding'
        /\ UNCHANGED <<env, now, allow>>
    BY <1>5 DEF WriteInbox, WriteState, Goto, Others, Deciding, TypeInv, TypeOK
  <2>2. Settled' = Settled
    BY <2>1, SettledBut
  <2> QED
    BY <2>1, <2>2
<1>6. CASE Tick \/ UNCHANGED vars
  <2>1. UNCHANGED <<pc, now, env, allow>>
    BY <1>6 DEF Tick, vars, procs, files
  <2> QED
    BY <2>1 DEF Settled
<1> QED
  BY <1>1, <1>2, <1>3, <1>4, <1>5, <1>6 DEF Next

(* allow.txt of a host with any number of receivers is the list of            *)
(* AllowList.tla: what one envelope allowed at one moment, as a whole.        *)
THEOREM FileIsAllowList == Spec => ImplementsAllowList
<1>1. Init => File!Init
  BY DEF Init, File!Init, Settled
<1> QED
  BY <1>1, InitTypeInv, NextTypeInv, AllowListStep, PTL DEF Spec, ImplementsAllowList, File!Spec
=============================================================================
