------------------------------- MODULE Receive -------------------------------
(* cmd/receive on one host: sshd starts one nft-auth-receive per push, so     *)
(* several of them may run at the same time, on the same three files and      *)
(* without a lock.  Each write is the atomic replacement of AtomicFile.tla.   *)
EXTENDS Pipeline

CONSTANTS
  Proc,     \* processes that can run at the same time
  Inputs,   \* the envelopes that arrive
  Garbage,  \* any other input: unreadable, over input_max_bytes, empty, no JSON
  MaxRuns,  \* bound of the model: this many processes are ever started
  MaxClock  \* bound of the model: the clock stops here

ASSUME ReceiveConstants ==
  /\ Inputs \subseteq Envelope
  /\ \A in \in Inputs : IsFiniteSet(in.entries)
  /\ Garbage \notin Inputs
  /\ MaxRuns \in Nat /\ MaxClock \in Nat

VARIABLES
  clock,
  pc,       \* per process: the step of run it is at
  now,      \* per process: the clock as run read it, before reading stdin
  env,      \* per process: the envelope it has verified
  id,       \* history, per process: the number of its current run
  inbox,    \* inbox_allow_json: the envelope, and the run that wrote it
  state,    \* output_state_json: the kept entries, and the run
  allow,    \* output_allow_txt: the CIDRs, and the run
  result,   \* history, per run: "run", "ok", "error" or "killed"
  wrote,    \* history, per run: the files it has replaced
  overlap   \* history: runs that were not alone from start to end

procs == <<pc, now, env, id>>
files == <<inbox, state, allow>>
vars  == <<clock, pc, now, env, id, inbox, state, allow, result, wrote, overlap>>

Runs == 1 .. MaxRuns

Steps == {"idle", "read", "inbox", "state", "allow", "report"}

Results == {"none", "run", "ok", "error", "killed"}

TypeOK ==
  /\ clock \in 0 .. MaxClock
  /\ pc \in [Proc -> Steps]
  /\ now \in [Proc -> 0 .. MaxClock]
  /\ env \in [Proc -> Inputs \cup {Garbage}]
  /\ id \in [Proc -> 0 .. MaxRuns]
  /\ inbox \in [run : 0 .. MaxRuns, env : Inputs \cup {Garbage}]
  /\ state \in [run : 0 .. MaxRuns, at : 0 .. MaxClock, kept : SUBSET EnvEntry]
  /\ allow \in [run : 0 .. MaxRuns, at : 0 .. MaxClock, cidrs : SUBSET CIDR]
  /\ result \in [Runs -> Results]
  /\ wrote \in [Runs -> SUBSET {"inbox", "state", "allow"}]
  /\ overlap \subseteq Runs

(* Before the first push: run 0 stands for the files the installer leaves.    *)
Init ==
  /\ clock = 0
  /\ pc = [p \in Proc |-> "idle"]
  /\ now = [p \in Proc |-> 0]
  /\ env = [p \in Proc |-> Garbage]
  /\ id = [p \in Proc |-> 0]
  /\ inbox = [run |-> 0, env |-> Garbage]
  /\ state = [run |-> 0, at |-> 0, kept |-> {}]
  /\ allow = [run |-> 0, at |-> 0, cidrs |-> {}]
  /\ result = [r \in Runs |-> "none"]
  /\ wrote = [r \in Runs |-> {}]
  /\ overlap = {}

Started == {r \in Runs : result[r] # "none"}

Active == {p \in Proc : pc[p] # "idle"}

Goto(p, step) == pc' = [pc EXCEPT ![p] = step]

Finish(p, how) ==
  /\ Goto(p, "idle")
  /\ result' = [result EXCEPT ![id[p]] = how]

Replace(p, file) == wrote' = [wrote EXCEPT ![id[p]] = @ \cup {file}]

-----------------------------------------------------------------------------
(* sshd starts the process; run reads the clock first.                        *)
Start(p) ==
  LET r == Cardinality(Started) + 1 IN
    /\ pc[p] = "idle"
    /\ r \in Runs
    /\ Goto(p, "read")
    /\ now' = [now EXCEPT ![p] = clock]
    /\ id' = [id EXCEPT ![p] = r]
    /\ result' = [result EXCEPT ![r] = "run"]
    /\ overlap' = IF Active = {} THEN overlap
                  ELSE overlap \cup {r} \cup {id[q] : q \in Active}
    /\ UNCHANGED <<clock, env, files, wrote>>

(* Everything from the end of stdin to the verdict: nothing shared is touched *)
(* in between, and the verdict is as of the reading taken at the start.       *)
Verify(p, in) ==
  /\ pc[p] = "read"
  /\ in # Garbage /\ Accepts(in, now[p])
  /\ Goto(p, "inbox")
  /\ env' = [env EXCEPT ![p] = in]
  /\ UNCHANGED <<clock, now, id, files, result, wrote, overlap>>

Reject(p, in) ==
  /\ pc[p] = "read"
  /\ in # Garbage => ~Accepts(in, now[p])
  /\ Finish(p, "error")
  /\ UNCHANGED <<clock, now, env, id, files, wrote, overlap>>

WriteInbox(p) ==
  /\ pc[p] = "inbox"
  /\ Goto(p, "state")
  /\ inbox' = [run |-> id[p], env |-> env[p]]
  /\ Replace(p, "inbox")
  /\ UNCHANGED <<clock, now, env, id, state, allow, result, overlap>>

\* mutant: the error of the state file is logged and not returned
WriteStateOrNot(p) ==
  /\ pc[p] = "state"
  /\ Goto(p, "allow")
  /\ \/ /\ state' = [run |-> id[p], at |-> now[p], kept |-> Kept(env[p], now[p])]
        /\ Replace(p, "state")
     \/ UNCHANGED <<state, wrote>>
  /\ UNCHANGED <<clock, now, env, id, inbox, allow, result, overlap>>

WriteState(p) ==
  /\ pc[p] = "state"
  /\ Goto(p, "allow")
  /\ state' = [run |-> id[p], at |-> now[p], kept |-> Kept(env[p], now[p])]
  /\ Replace(p, "state")
  /\ UNCHANGED <<clock, now, env, id, inbox, allow, result, overlap>>

\* mutant: the error of the last write is dropped like the one of Purge is
WriteAllowUnchecked(p) ==
  /\ pc[p] = "allow"
  /\ Goto(p, "report")
  /\ \/ /\ allow' = [run |-> id[p], at |-> now[p], cidrs |-> Cidrs(env[p], now[p])]
        /\ Replace(p, "allow")
     \/ UNCHANGED <<allow, wrote>>
  /\ UNCHANGED <<clock, now, env, id, inbox, state, result, overlap>>

\* mutant: the list is worked out from the entries once more, by a later reading
WriteAllowLater(p) ==
  /\ pc[p] = "allow"
  /\ Goto(p, "report")
  /\ allow' = [run |-> id[p], at |-> now[p], cidrs |-> Cidrs(env[p], clock)]
  /\ Replace(p, "allow")
  /\ UNCHANGED <<clock, now, env, id, inbox, state, result, overlap>>

(* The operative list, the last of the three files.                           *)
WriteAllow(p) ==
  /\ pc[p] = "allow"
  /\ Goto(p, "report")
  /\ allow' = [run |-> id[p], at |-> now[p], cidrs |-> Cidrs(env[p], now[p])]
  /\ Replace(p, "allow")
  /\ UNCHANGED <<clock, now, env, id, inbox, state, result, overlap>>

(* One of the three writes fails: run returns its error.                      *)
WriteFails(p) ==
  /\ pc[p] \in {"inbox", "state", "allow"}
  /\ Finish(p, "error")
  /\ UNCHANGED <<clock, now, env, id, files, wrote, overlap>>

(* The audit line and the line on stdout, whose errors are dropped, and run   *)
(* returns nil.                                                               *)
Report(p) ==
  /\ pc[p] = "report"
  /\ Finish(p, "ok")
  /\ UNCHANGED <<clock, now, env, id, files, wrote, overlap>>

(* The connection breaks, or the pushing side's timeout kills ssh, and the    *)
(* process dies with it: also while it reports, with allow.txt replaced.      *)
Killed(p) ==
  /\ pc[p] # "idle"
  /\ Finish(p, "killed")
  /\ UNCHANGED <<clock, now, env, id, files, wrote, overlap>>

Tick ==
  /\ clock < MaxClock
  /\ clock' = clock + 1
  /\ UNCHANGED <<procs, files, result, wrote, overlap>>

Next ==
  \/ \E p \in Proc :
       \/ Start(p)
       \/ \E in \in Inputs \cup {Garbage} : Verify(p, in) \/ Reject(p, in)
       \/ WriteInbox(p) \/ WriteState(p) \/ WriteAllow(p) \/ Report(p)
       \/ WriteFails(p) \/ Killed(p)
  \/ Tick

Spec == Init /\ [][Next]_vars

-----------------------------------------------------------------------------
(* "Success means the new allow.txt was applied; on any failure the live      *)
(* allow.txt is left unchanged" (receive.go:30-32): so it is for what run     *)
(* returns, its error or nil, and a list is only applied with its two records *)
(* in place.  Of a process that is killed neither half can be said: it may    *)
(* have replaced allow.txt and not come to tell.                              *)
OutcomeTellsApplied ==
  \A r \in Runs :
    /\ result[r] = "ok" => wrote[r] = {"inbox", "state", "allow"}
    /\ result[r] = "error" => "allow" \notin wrote[r]
    /\ "allow" \in wrote[r] => {"inbox", "state"} \subseteq wrote[r]

(* Every line of allow.txt is the canonical form of an entry that the server  *)
(* signed and that had not expired, nor had the envelope, when its writer     *)
(* started; and every such entry of that envelope is there.                   *)
AllowIsVerified ==
  allow.run # 0 =>
    \E in \in Inputs :
      /\ in.signed /\ in.expires > allow.at
      /\ Cardinality(allow.cidrs) <= MaxEntries
      /\ \A c \in CIDR : c \in allow.cidrs <=>
           \E e \in in.entries : Canon[e.cidr] = c /\ e.expires > allow.at

(* Runs that do not overlap leave the three files describing one envelope,    *)
(* unless the last of them failed or died.                                    *)
AloneMeansAgreement ==
  LET last == Cardinality(Started) IN
    Active = {} /\ last # 0 /\ last \notin overlap /\ result[last] = "ok" =>
      inbox.run = last /\ state.run = last /\ allow.run = last

(* While no two runs overlap, allow.txt is never ahead of its records: each   *)
(* file is from the same run as the one written after it, or from a later one.*)
RecordsComeFirst ==
  overlap = {} => allow.run <= state.run /\ state.run <= inbox.run

(* "It may briefly be a step ahead of allow.txt if a later write fails"       *)
(* (pipeline.go:51): at rest, and with no run that failed or died, the state  *)
(* file and allow.txt are from the same run.                                  *)
AheadOnlyAfterFailure ==
  Active = {} /\ (\A r \in Started : result[r] = "ok") => state.run = allow.run

(* allow.txt is a list in the sense of AllowList.tla, settled by the verdict  *)
(* of a run and written or lost at its end, whatever the other runs do in     *)
(* between and however late the last write comes.                             *)
Verdicts ==
  UNION {{Cidrs(in, t) : in \in {x \in Inputs : Accepts(x, t)}} : t \in 0 .. MaxClock}

Settled == {Cidrs(env[p], now[p]) : p \in {q \in Proc : pc[q] \in {"inbox", "state", "allow"}}}

File == INSTANCE AllowList WITH
          coming <- Settled, list <- allow.cidrs, Lists <- Verdicts, None <- {}

ImplementsAllowList == File!Spec
=============================================================================
