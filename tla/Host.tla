-------------------------------- MODULE Host --------------------------------
(* One host that gets the list both ways, as configs/ sets it up: sshd runs   *)
(* cmd/receive for every push of the auth-server, a systemd timer and now and *)
(* then an operator run cmd/puller, and the programs share files by the paths *)
(* of their configurations.  With --apply the puller also replaces the        *)
(* project's nftables table.  No lock keeps any two of them apart.            *)
EXTENDS Pipeline, HostConfig

CONSTANTS
  Timer, Operators, \* processes of the puller
  Sessions,    \* processes of the receiver
  Granted,     \* the CIDRs the auth-server may record, as it writes them
  PullerDocs, ReceiveDocs,  \* configuration files
  Units,       \* the flags an ExecStart may have
  Manual,      \* and those an operator may give
  TTL,         \* of an entry of the auth-server
  Life,        \* envelopeTTL
  MaxClock,    \* bound of the model: the clock stops here
  MaxFaults,   \* bound of the model: faults in a behaviour
  MaxManual    \* bound of the model: runs the operators start

Pullers == {Timer} \cup Operators
Proc    == Pullers \cup Sessions
Paths   == {Clean[text] : text \in DOMAIN Clean}

Flags == [dry : BOOLEAN, apply : BOOLEAN]   \* --dry-run, --apply

ASSUME HostConstants ==
  /\ Pullers \cap Sessions = {}
  /\ Granted \subseteq RawCIDR
  /\ \A d \in PullerDocs : PullerValid(LoadPuller(d)) =>
       LET c == LoadPuller(d) IN
         {c.allow, c.state, c.input} \ {""} \subseteq DOMAIN Clean
  /\ \A d \in ReceiveDocs : ReceiveValid(LoadReceive(d)) =>
       LET c == LoadReceive(d) IN {c.allow, c.state, c.inbox} \subseteq DOMAIN Clean
  /\ Units \subseteq Flags /\ Manual \subseteq Flags
  /\ TTL \in Nat \ {0} /\ Life \in Nat \ {0}
  /\ MaxClock \in Nat /\ MaxFaults \in Nat /\ MaxManual \in Nat

VARIABLES
  clock,
  srv,     \* the auth-server: when each CIDR's entry expires, 0 if it has none
  cfg,     \* the puller's configuration
  rcfg,    \* the receiver's
  unit,    \* the flags in ExecStart of the timer's unit
  disk,    \* per path: what the file there holds
  table,   \* the nftables table: the list its sets were made of
  pc,      \* per process: the step it is at
  flags,   \* per puller: --dry-run and --apply of its run
  now,     \* per process: the clock as it read it at its start
  env,     \* per process: the envelope it has verified
  wrote,   \* per process: what its run has replaced
  faults,  \* how many faults there may still be
  manual   \* how many runs operators may still start

config == <<cfg, rcfg, unit>>
run    == <<pc, flags, now, env, wrote>>
vars   == <<clock, srv, cfg, rcfg, unit, disk, table, pc, flags, now, env,
            wrote, faults, manual>>
bounds == <<faults, manual>>

NoFlags == [dry |-> FALSE, apply |-> FALSE]
Targets == {"inbox", "state", "allow", "table"}

Ends == {"ok", "error", "nft error", "killed"}   \* of a run
Nothing == [kind |-> "nothing"]
NoEnvelope == [signed |-> FALSE, version |-> 0, expires |-> 0, entries |-> {}]

TypeOK ==
  /\ clock \in 0 .. MaxClock
  /\ srv \in [Granted -> 0 .. MaxClock + TTL]
  /\ cfg.source \in {"http", "file"} /\ cfg.mode \in {"export", "nft"}
  /\ {cfg.allow, rcfg.allow, rcfg.state, rcfg.inbox} \subseteq DOMAIN Clean
  /\ cfg.source = "file" => cfg.input \in DOMAIN Clean
  /\ unit \in Flags /\ flags \in [Pullers -> Flags]
  /\ \A f \in Paths : disk[f].kind \in {"nothing", "envelope", "state", "list"}
  /\ table.kind \in {"nothing", "list"}
  /\ pc \in [Proc -> {"idle", "fetch", "inbox", "state", "allow", "nft"} \cup Ends]
  /\ now \in [Proc -> 0 .. MaxClock]
  /\ env \in [Proc -> Envelope]
  /\ wrote \in [Proc -> SUBSET Targets]
  /\ faults \in 0 .. MaxFaults /\ manual \in 0 .. MaxManual

(* main: a configuration that does not load or validate ends the program.     *)
Init ==
  /\ clock = 0
  /\ srv = [c \in Granted |-> 0]
  /\ \E d \in PullerDocs :
       /\ Decodes(d, PullerPreset) /\ PullerValid(LoadPuller(d))
       /\ cfg = LoadPuller(d)
  /\ \E d \in ReceiveDocs :
       /\ Decodes(d, ReceivePreset) /\ ReceiveValid(LoadReceive(d))
       /\ rcfg = LoadReceive(d)
  /\ unit \in Units
  /\ disk = [f \in Paths |-> Nothing]
  /\ table = Nothing
  /\ pc = [p \in Proc |-> "idle"]
  /\ flags = [p \in Pullers |-> NoFlags]
  /\ now = [p \in Proc |-> 0]
  /\ env = [p \in Proc |-> NoEnvelope]
  /\ wrote = [p \in Proc |-> {}]
  /\ faults = MaxFaults /\ manual = MaxManual

Conf(p) == IF p \in Sessions THEN rcfg ELSE cfg

Goto(p, step) == pc' = [pc EXCEPT ![p] = step]

(* p's run is over and returns `how'.                                         *)
End(p, how, what) ==
  /\ Goto(p, how)
  /\ wrote' = [wrote EXCEPT ![p] = @ \cup what]
  /\ now' = [now EXCEPT ![p] = 0] /\ env' = [env EXCEPT ![p] = NoEnvelope]
  /\ UNCHANGED flags

Finish(p, how) == End(p, how, {})

Fault == faults > 0 /\ faults' = faults - 1 /\ UNCHANGED manual

(* p goes on to `step', having replaced `what'.                               *)
Step(p, what, step) ==
  /\ Goto(p, step)
  /\ wrote' = [wrote EXCEPT ![p] = @ \cup what]
  /\ UNCHANGED <<flags, now, env>>

Put(path, content) == disk' = [disk EXCEPT ![Clean[path]] = content]

\* Store.BuildEnvelope, at the auth-server
Signed(t) ==
  [signed |-> TRUE, version |-> 1, expires |-> t + Life,
   entries |-> {[cidr |-> c, expires |-> srv[c]] : c \in {d \in Granted : srv[d] > t}}]

\* what p makes of its envelope, with the reading it judged it by
List(p) ==
  [kind |-> "list", cidrs |-> Cidrs(env[p], now[p])]

\* the step after the verdict: output_state_json is optional for a puller
FirstWrite(p) == IF Conf(p).state = "" THEN "allow" ELSE "state"

-----------------------------------------------------------------------------
(* runOnce of the puller.                                                     *)

Begin(p, f) ==
  /\ pc[p] = "idle"
  /\ Goto(p, "fetch")
  /\ flags' = [flags EXCEPT ![p] = f]
  /\ now' = [now EXCEPT ![p] = clock]
  /\ IF p = Timer THEN UNCHANGED bounds
     ELSE manual > 0 /\ manual' = manual - 1 /\ UNCHANGED faults
  /\ UNCHANGED <<clock, srv, config, disk, table, env, wrote>>

\* require_https, before anything else
Plain == cfg.source # "file" /\ cfg.https /\ cfg.url # "https"

\* what fetchEnvelope would return now: GET /allow.json, or the file
Source ==
  IF cfg.source = "http" THEN Signed(clock)
  ELSE LET f == disk[Clean[cfg.input]] IN
         IF f.kind = "envelope" THEN f.env ELSE NoEnvelope

Take(p) ==
  /\ env' = [env EXCEPT ![p] = Source]
  /\ Goto(p, FirstWrite(p))
  /\ UNCHANGED <<flags, now, wrote>>

\* mutant: --dry-run is looked at where the table would be applied
FetchDryLate(p) ==
  /\ pc[p] = "fetch" /\ ~Plain
  /\ Accepts(Source, now[p])
  /\ Take(p)
  /\ UNCHANGED <<clock, srv, config, disk, table, bounds>>

\* mutant: only the signature is looked at
FetchSigned(p) ==
  /\ pc[p] = "fetch" /\ ~Plain
  /\ Source.signed
  /\ IF flags[p].dry THEN Finish(p, "ok") ELSE Take(p)
  /\ UNCHANGED <<clock, srv, config, disk, table, bounds>>

(* Fetched and accepted.  A dry run prints and is done.                       *)
Fetch(p) ==
  /\ pc[p] = "fetch" /\ ~Plain
  /\ Accepts(Source, now[p])
  /\ IF flags[p].dry THEN Finish(p, "ok") ELSE Take(p)
  /\ UNCHANGED <<clock, srv, config, disk, table, bounds>>

(* Refused, or no envelope: a plain http URL, nothing or something else in    *)
(* the file, an envelope that is not accepted; or, as a fault, no answer of   *)
(* the server, another status than 200, or a body that is no envelope.        *)
FetchFails(p) ==
  /\ pc[p] = "fetch"
  /\ \/ (Plain \/ ~Accepts(Source, now[p])) /\ UNCHANGED bounds
     \/ Fault
  /\ Finish(p, "error")
  /\ UNCHANGED <<clock, srv, config, disk, table>>

\* mutant: --apply alone is enough to have a table, mode=nft is not
GuardEnabled == cfg.guard

\* applyAllowed
ApplyAllowed == cfg.mode = "nft" \/ cfg.guard

Applies(p) == p \in Pullers /\ flags[p].apply /\ ApplyAllowed

(* nftguard.Apply: nft checks the generated script, then replaces the whole   *)
(* table in one transaction.                                                  *)
Apply(p) ==
  /\ pc[p] = "nft"
  /\ table' = List(p)
  /\ End(p, "ok", {"table"})
  /\ UNCHANGED <<clock, srv, config, disk, bounds>>

\* no nft, the check fails, or the transaction does
ApplyFails(p) ==
  /\ pc[p] = "nft"
  /\ Fault
  /\ Finish(p, "nft error")
  /\ UNCHANGED <<clock, srv, config, disk, table>>

-----------------------------------------------------------------------------
(* run of a receiver: a push arrives with an accepted envelope (one that is   *)
(* not accepted changes nothing; Receive.tla has it).                         *)
Deliver(p) ==
  /\ pc[p] = "idle"
  /\ Accepts(Signed(clock), clock)
  /\ Goto(p, "inbox")
  /\ now' = [now EXCEPT ![p] = clock]
  /\ env' = [env EXCEPT ![p] = Signed(clock)]
  /\ UNCHANGED <<clock, srv, config, disk, table, flags, wrote, bounds>>

WriteInbox(p) ==
  /\ pc[p] = "inbox"
  /\ Put(rcfg.inbox, [kind |-> "envelope", env |-> env[p]])
  /\ Step(p, {"inbox"}, FirstWrite(p))
  /\ UNCHANGED <<clock, srv, config, table, bounds>>

(* pipeline.WriteOutputs, of both programs.                                   *)
WriteState(p) ==
  /\ pc[p] = "state"
  /\ Put(Conf(p).state, [kind |-> "state"])
  /\ Step(p, {"state"}, "allow")
  /\ UNCHANGED <<clock, srv, config, table, bounds>>

\* mutant: the puller takes the list from its source once more
WriteAllowReread(p) ==
  /\ pc[p] = "allow"
  /\ Put(Conf(p).allow,
         IF p \in Sessions THEN List(p) ELSE [kind |-> "list", cidrs |-> Cidrs(Source, now[p])])
  /\ IF Applies(p) THEN Step(p, {"allow"}, "nft")
     ELSE End(p, "ok", {"allow"})
  /\ UNCHANGED <<clock, srv, config, table, bounds>>

WriteAllow(p) ==
  /\ pc[p] = "allow"
  /\ Put(Conf(p).allow, List(p))
  /\ IF Applies(p) THEN Step(p, {"allow"}, "nft")
     ELSE End(p, "ok", {"allow"})
  /\ UNCHANGED <<clock, srv, config, table, bounds>>

\* mutant: the error is logged and the table applied all the same
WriteFailsLogged(p) ==
  /\ pc[p] \in {"inbox", "state", "allow"}
  /\ Fault
  /\ IF Applies(p) THEN Step(p, {}, "nft") ELSE Finish(p, "error")
  /\ UNCHANGED <<clock, srv, config, disk, table>>

WriteFails(p) ==
  /\ pc[p] \in {"inbox", "state", "allow"}
  /\ Fault
  /\ Finish(p, "error")
  /\ UNCHANGED <<clock, srv, config, disk, table>>

\* by systemd, by the operator, or with the connection
Killed(p) ==
  /\ pc[p] \notin {"idle"} \cup Ends
  /\ Fault
  /\ Finish(p, "killed")
  /\ UNCHANGED <<clock, srv, config, disk, table>>

\* the program prints what its run returned, and exits
Collect(p) ==
  /\ pc[p] \in Ends
  /\ Goto(p, "idle")
  /\ flags' = [q \in Pullers |-> IF q = p THEN NoFlags ELSE flags[q]]
  /\ wrote' = [wrote EXCEPT ![p] = {}]
  /\ UNCHANGED <<clock, srv, config, disk, table, now, env, bounds>>

-----------------------------------------------------------------------------
\* an address is authenticated at the auth-server
Grant(c) ==
  /\ srv' = [srv EXCEPT ![c] = clock + TTL]
  /\ UNCHANGED <<clock, config, disk, table, run, bounds>>

Tick ==
  /\ clock < MaxClock
  /\ clock' = clock + 1
  /\ UNCHANGED <<srv, config, disk, table, run, bounds>>

Advance(p) ==
  \/ p \in Pullers /\ (Fetch(p) \/ FetchFails(p) \/ Apply(p))
  \/ p \in Sessions /\ WriteInbox(p)
  \/ WriteState(p) \/ WriteAllow(p) \/ Collect(p)

Next ==
  \/ Begin(Timer, unit)
  \/ \E p \in Operators, f \in Manual : Begin(p, f)
  \/ \E p \in Sessions : Deliver(p)
  \/ \E p \in Proc : Advance(p) \/ WriteFails(p) \/ Killed(p)
  \/ \E p \in Pullers : ApplyFails(p)
  \/ \E c \in Granted : Grant(c)
  \/ Tick

Spec == Init /\ [][Next]_vars

(* The timer elapses again and again, the auth-server pushes at least its     *)
(* reconcile, and a process that has started goes on.  Nothing is assumed of  *)
(* operators, users, the clock or faults.                                     *)
Fairness ==
  /\ WF_vars(Begin(Timer, unit))
  /\ \A p \in Sessions : WF_vars(Deliver(p))
  /\ \A p \in Proc : WF_vars(Advance(p))

FairSpec == Spec /\ Fairness

-----------------------------------------------------------------------------
(* Where the two programs agree on one allow.txt, the configurations they     *)
(* accept keep their records away from it, however its path is spelled: who   *)
(* reads it finds a list ("a state (or file-source input) write can never     *)
(* clobber it", config.go:514).                                               *)
ListStaysList ==
  Clean[cfg.allow] = Clean[rcfg.allow] => disk[Clean[cfg.allow]].kind \in {"nothing", "list"}

(* What is about to be put in allow.txt or in the kernel's sets is a subset   *)
(* of what the auth-server had granted and what had not expired when the run  *)
(* started, from an envelope that was fresh then: an inbox file that is read  *)
(* again and again is no exception, nor one that was replaced meanwhile.      *)
ListsAreVerified ==
  \A p \in Proc : pc[p] \in {"inbox", "state", "allow", "nft"} =>
    /\ env[p].expires > now[p]
    /\ \A d \in List(p).cidrs : \E c \in Granted : Canon[c] = d /\ srv[c] > now[p]

(* How a run ended tells what it replaced.  An error before nft means that    *)
(* allow.txt is the old one; an error of nft that it is the new one while the *)
(* kernel has the old table; a dry run and a run without both halves of the   *)
(* gate leave the kernel alone.                                               *)
OutcomeTells ==
  /\ \A p \in Sessions : pc[p] = "ok" => wrote[p] = {"inbox", "state", "allow"}
  /\ \A p \in Pullers : pc[p] = "ok" =>
       /\ "allow" \in wrote[p] <=> ~flags[p].dry
       /\ "table" \in wrote[p] <=>
            ~flags[p].dry /\ flags[p].apply /\ (cfg.mode = "nft" \/ cfg.guard)
  /\ \A p \in Proc :
       /\ pc[p] = "error" => {"allow", "table"} \cap wrote[p] = {}
       /\ pc[p] = "nft error" => "allow" \in wrote[p] /\ "table" \notin wrote[p]
       /\ p \in Pullers /\ flags[p].dry => wrote[p] = {}

(* In the end allow.txt and, where the timer's runs apply it, the kernel's    *)
(* table are the auth-server's list, in spite of failed fetches, writes and   *)
(* nft calls, kills, old inbox files and overlapping runs.                    *)
Wanted == {Canon[c] : c \in {d \in Granted : srv[d] > clock /\ Canon[d] # Invalid}}

Converges ==
  <>[](/\ disk[Clean[rcfg.allow]].kind = "list" /\ disk[Clean[rcfg.allow]].cidrs = Wanted
       /\ unit.apply /\ (cfg.mode = "nft" \/ cfg.guard) /\ ~Plain =>
            table.kind = "list" /\ table.cidrs = Wanted)

(* The list passes through two stages, each of them a list in the sense of    *)
(* AllowList.tla.  In allow.txt, where the programs agree on it, it is settled*)
(* by a verdict of any of them; in the kernel it is settled by having been    *)
(* written to allow.txt.  No file or table holds anything else, whatever      *)
(* fails, runs beside it or is read from the files meanwhile.                 *)
Grantable ==
  [kind : {"list"}, cidrs : SUBSET ({Canon[c] : c \in Granted} \ {Invalid})]

Verdicts == {List(p) : p \in {q \in Proc : pc[q] \in {"inbox", "state", "allow"}}}
Written  == {List(p) : p \in {q \in Proc : pc[q] = "nft" /\ "allow" \in wrote[q]}}

OnDisk == INSTANCE AllowList WITH
            coming <- Verdicts, list <- disk[Clean[cfg.allow]], Lists <- Grantable, None <- Nothing

InKernel == INSTANCE AllowList WITH
              coming <- Written, list <- table, Lists <- Grantable, None <- Nothing

Agreed == Clean[cfg.allow] = Clean[rcfg.allow]

FileIsAllowList ==
  /\ Agreed => OnDisk!Init
  /\ [][Agreed => OnDisk!Next \/ UNCHANGED OnDisk!vars]_vars

KernelIsAllowList == InKernel!Spec
=============================================================================
