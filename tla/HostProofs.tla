----------------------------- MODULE HostProofs -----------------------------
(* What holds of Host for any number of receivers and operators, any grants,  *)
(* any faults and any two configurations that the programs accept.            *)
EXTENDS Host, TLAPS

(* What the loaders let through, as far as the steps rely on it.              *)
ConfigOK ==
  /\ cfg.source \in {"http", "file"} /\ cfg.mode \in {"export", "nft"}
  /\ {cfg.allow, rcfg.allow, rcfg.state, rcfg.inbox} \subseteq DOMAIN Clean
  /\ cfg.source = "file" => cfg.input \in DOMAIN Clean
  /\ cfg.state # "" => cfg.state \in DOMAIN Clean
  /\ rcfg.state # ""
  /\ cfg.state # "" => Clean[cfg.state] # Clean[cfg.allow]
  /\ Clean[rcfg.allow] \notin {Clean[rcfg.state], Clean[rcfg.inbox]}
  /\ unit \in Flags

(* No entry of an envelope, wherever one lies, outlives what is granted.      *)
Honest(e) ==
  \A x \in e.entries : x.cidr \in Granted /\ x.expires <= srv[x.cidr]

DataOK ==
  /\ clock \in 0 .. MaxClock
  /\ srv \in [Granted -> 0 .. MaxClock + TTL]
  /\ \A c \in Granted : srv[c] <= clock + TTL
  /\ DOMAIN disk = Paths
  /\ \A f \in Paths :
       /\ disk[f].kind \in {"nothing", "envelope", "state", "list"}
       /\ disk[f].kind = "envelope" => disk[f].env \in Envelope /\ Honest(disk[f].env)
  /\ table.kind \in {"nothing", "list"}
  /\ now \in [Proc -> 0 .. MaxClock]
  /\ env \in [Proc -> Envelope]
  /\ \A p \in Proc : Honest(env[p])
  /\ faults \in 0 .. MaxFaults /\ manual \in 0 .. MaxManual

Writing == {"inbox", "state", "allow", "nft"}

(* The books of one process: what it has replaced by the time it gets there.  *)
Books(p) ==
  /\ pc[p] \in Writing => env[p].expires > now[p]
  /\ pc[p] \in {"idle", "fetch", "inbox"} => wrote[p] = {}
  /\ p \in Sessions =>
       /\ pc[p] \in {"idle", "inbox", "state", "allow", "ok", "error", "killed"}
       /\ pc[p] = "state" => wrote[p] = {"inbox"}
       /\ pc[p] = "allow" => wrote[p] = {"inbox", "state"}
       /\ pc[p] = "ok" => wrote[p] = {"inbox", "state", "allow"}
  /\ p \in Pullers =>
       /\ pc[p] # "inbox"
       /\ pc[p] = "state" => cfg.state # ""
       /\ pc[p] \in Writing => ~flags[p].dry
       /\ pc[p] \in {"state", "allow"} => wrote[p] \subseteq {"state"}
       /\ pc[p] = "nft" => Applies(p) /\ "allow" \in wrote[p] /\ "table" \notin wrote[p]
       /\ pc[p] = "ok" => ("allow" \in wrote[p] <=> ~flags[p].dry)
       /\ pc[p] = "ok" => ("table" \in wrote[p] <=> ~flags[p].dry /\ Applies(p))
       /\ flags[p].dry => wrote[p] = {}
  /\ pc[p] = "error" => {"allow", "table"} \cap wrote[p] = {}
  /\ pc[p] = "nft error" => "allow" \in wrote[p] /\ "table" \notin wrote[p]

RunsOK ==
  /\ pc \in [Proc -> {"idle", "fetch"} \cup Writing \cup Ends]
  /\ flags \in [Pullers -> Flags]
  /\ wrote \in [Proc -> SUBSET Targets]
  /\ \A p \in Proc : Books(p)

HostInv == ConfigOK /\ DataOK /\ RunsOK

-----------------------------------------------------------------------------
(* What the steps need of the constants, the configuration files aside.       *)
LEMMA Plainly ==
  /\ Pullers \cap Sessions = {}
  /\ Granted \subseteq RawCIDR
  /\ Units \subseteq Flags /\ Manual \subseteq Flags
  /\ TTL \in Nat \ {0} /\ Life \in Nat \ {0}
  /\ MaxClock \in Nat /\ MaxFaults \in Nat /\ MaxManual \in Nat
BY HostConstants

(* The server signs no more than it has granted.                              *)
LEMMA SignedHonest ==
  ASSUME DataOK, NEW t \in 0 .. MaxClock
  PROVE  Signed(t) \in Envelope /\ Honest(Signed(t))
<1> DEFINE live == {d \in Granted : srv[d] > t}
           es == {[cidr |-> c, expires |-> srv[c]] : c \in live}
<1>1. \A x \in es : x \in EnvEntry /\ x.cidr \in Granted /\ x.expires = srv[x.cidr]
  <2>1. \A c \in live : c \in RawCIDR /\ c \in Granted /\ srv[c] \in Nat
    BY Plainly DEF DataOK
  <2> QED
    BY <2>1 DEF EnvEntry
<1>2. t + Life \in Nat
  BY Plainly
<1>3. \A x \in es : x.expires <= srv[x.cidr]
  BY <1>1, Plainly DEF DataOK
<1>4. Signed(t).entries = es /\ es \in SUBSET EnvEntry
  BY <1>1 DEF Signed
<1>5. Signed(t) \in Envelope
  BY <1>2, <1>4 DEF Signed, Envelope
<1>6. Honest(Signed(t))
  BY <1>1, <1>3, <1>4 DEF Honest
<1> QED
  BY <1>5, <1>6

(* So does what a puller fetches, from the server or from a file.             *)
LEMMA SourceHonest ==
  ASSUME ConfigOK, DataOK
  PROVE  Source \in Envelope /\ Honest(Source)
<1>1. CASE cfg.source = "http"
  BY <1>1, SignedHonest DEF Source, DataOK
<1>2. CASE cfg.source = "file"
  <2>1. Clean[cfg.input] \in Paths
    BY <1>2 DEF ConfigOK, Paths
  <2>2. NoEnvelope \in Envelope /\ Honest(NoEnvelope)
    BY DEF NoEnvelope, Envelope, EnvEntry, Honest
  <2> QED
    BY <1>2, <2>1, <2>2 DEF Source, DataOK
<1> QED
  BY <1>1, <1>2 DEF ConfigOK

(* A host that is set up and has run nothing.                                 *)
LEMMA InitHost == Init => HostInv
<1> SUFFICES ASSUME Init PROVE HostInv
  OBVIOUS
<1>1. ConfigOK
  <2>1. PICK d \in PullerDocs : PullerValid(LoadPuller(d)) /\ cfg = LoadPuller(d)
    BY DEF Init
  <2>2. PICK e \in ReceiveDocs : ReceiveValid(LoadReceive(e)) /\ rcfg = LoadReceive(e)
    BY DEF Init
  <2>3. {cfg.allow, cfg.state, cfg.input} \ {""} \subseteq DOMAIN Clean /\ PullerValid(cfg)
    BY <2>1, HostConstants
  <2>4. {rcfg.allow, rcfg.state, rcfg.inbox} \subseteq DOMAIN Clean /\ ReceiveValid(rcfg)
    BY <2>2, HostConstants
  <2>5. cfg.source \in {"http", "file"} /\ (cfg.source = "file" => cfg.input # "") /\ cfg.allow # ""
        /\ cfg.mode \in {"export", "nft"}
    BY <2>3 DEF PullerValid, SourceValid
  <2>6. rcfg.state # ""
    BY <2>4 DEF ReceiveValid
  <2>8. cfg.state # "" => Clean[cfg.state] # Clean[cfg.allow]
    BY <2>3, <2>5 DEF PullerValid, SamePath
  <2>9. Clean[rcfg.allow] \notin {Clean[rcfg.state], Clean[rcfg.inbox]}
    BY <2>4 DEF ReceiveValid, SamePath
  <2>7. unit \in Flags
    BY Plainly DEF Init
  <2> QED
    BY <2>3, <2>4, <2>5, <2>6, <2>7, <2>8, <2>9 DEF ConfigOK
<1>2. DataOK
  <2>1. NoEnvelope \in Envelope /\ Honest(NoEnvelope)
    BY DEF NoEnvelope, Envelope, EnvEntry, Honest
  <2>2. disk = [f \in Paths |-> Nothing]
    BY DEF Init
  <2> QED
    BY <2>1, <2>2, Plainly DEF Init, DataOK, Nothing
<1>3. RunsOK
  BY Plainly DEF Init, RunsOK, Books, NoFlags, Flags, Writing
<1> QED
  BY <1>1, <1>2, <1>3 DEF HostInv

-----------------------------------------------------------------------------
(* The two ways in which the steps of a process change what it carries.       *)
LEMMA CarriedData ==
  ASSUME DataOK, NEW p \in Proc, NEW e \in Envelope, Honest(e),
         NEW t \in 0 .. MaxClock,
         UNCHANGED <<clock, srv>>,
         env' = env \/ env' = [env EXCEPT ![p] = e],
         now' = now \/ now' = [now EXCEPT ![p] = t]
  PROVE  /\ clock' \in 0 .. MaxClock
         /\ srv' \in [Granted -> 0 .. MaxClock + TTL]
         /\ \A c \in Granted : srv'[c] <= clock' + TTL
         /\ now' \in [Proc -> 0 .. MaxClock]
         /\ env' \in [Proc -> Envelope]
         /\ \A q \in Proc : Honest(env[q])'
<1>1. \A q \in Proc : Honest(env[q])'
  BY DEF DataOK, Honest
<1> QED
  BY <1>1 DEF DataOK

(* A process that ends carries nothing.                                       *)
LEMMA NothingCarried == NoEnvelope \in Envelope /\ Honest(NoEnvelope) /\ 0 \in 0 .. MaxClock
BY Plainly DEF NoEnvelope, Envelope, EnvEntry, Honest

(* What lies on the disk stays honest while the server grants nothing.        *)
LEMMA DiskData ==
  ASSUME DataOK, UNCHANGED srv,
         \/ UNCHANGED disk
         \/ \E path \in DOMAIN Clean, content \in
              {[kind |-> "envelope", env |-> env[p]] : p \in Proc}
              \cup {[kind |-> "state"]} \cup {List(p) : p \in Proc} :
                Put(path, content)
  PROVE  /\ DOMAIN disk' = Paths
         /\ \A f \in Paths :
              /\ disk'[f].kind \in {"nothing", "envelope", "state", "list"}
              /\ disk'[f].kind = "envelope" => disk'[f].env \in Envelope /\ Honest(disk[f].env)'
<1>1. CASE UNCHANGED disk
  BY <1>1 DEF DataOK, Honest
<1>2. ASSUME NEW path \in DOMAIN Clean, NEW content,
             content.kind \in {"envelope", "state", "list"},
             content.kind = "envelope" => content.env \in Envelope /\ Honest(content.env),
             Put(path, content)
      PROVE  /\ DOMAIN disk' = Paths
             /\ \A f \in Paths :
                  /\ disk'[f].kind \in {"nothing", "envelope", "state", "list"}
                  /\ disk'[f].kind = "envelope" => disk'[f].env \in Envelope /\ Honest(disk[f].env)'
  <2>1. DOMAIN disk' = Paths /\ \A f \in Paths : disk'[f] = IF f = Clean[path] THEN content ELSE disk[f]
    BY <1>2 DEF Put, DataOK
  <2>2. \A f \in Paths : disk'[f].kind = "envelope" => Honest(disk'[f].env)
    BY <1>2, <2>1 DEF DataOK
  <2>3. \A f \in Paths : disk'[f].kind = "envelope" => Honest(disk[f].env)'
    BY <2>2 DEF Honest
  <2> QED
    BY <1>2, <2>1, <2>3 DEF DataOK
<1>3. \A p \in Proc : env[p] \in Envelope /\ Honest(env[p])
  BY DEF DataOK
<1>4. \A p \in Proc : List(p).kind = "list"
  BY DEF List
<1> QED
  BY <1>1, <1>2, <1>3, <1>4

(* Only the server's own steps change what the envelopes may say.             *)
LEMMA NextData == ConfigOK /\ DataOK /\ RunsOK /\ [Next]_vars => DataOK'
<1> SUFFICES ASSUME ConfigOK, DataOK, RunsOK, [Next]_vars PROVE DataOK'
  OBVIOUS
<1>1. ASSUME NEW c \in Granted, Grant(c) PROVE DataOK'
  <2>1. /\ srv' = [srv EXCEPT ![c] = clock + TTL]
        /\ UNCHANGED <<clock, disk, table, now, env, faults, manual>>
    BY <1>1 DEF Grant, run, bounds
  <2>2. \A d \in Granted : srv'[d] \in 0 .. MaxClock + TTL /\ srv[d] <= srv'[d] /\ srv'[d] <= clock + TTL
    BY <2>1, Plainly DEF DataOK
  <2>3. srv' \in [Granted -> 0 .. MaxClock + TTL]
    BY <2>1, <2>2 DEF DataOK
  <2>4. ASSUME NEW e \in Envelope, Honest(e)
        PROVE  \A x \in e.entries : x.cidr \in Granted /\ x.expires <= srv'[x.cidr]
    <3> SUFFICES ASSUME NEW x \in e.entries PROVE x.cidr \in Granted /\ x.expires <= srv'[x.cidr]
      OBVIOUS
    <3>1. x.cidr \in Granted /\ x.expires <= srv[x.cidr] /\ x.expires \in Nat
      BY <2>4 DEF Honest, Envelope, EnvEntry
    <3>2. srv[x.cidr] \in Nat /\ srv'[x.cidr] \in Nat
      BY <3>1, <2>2, Plainly DEF DataOK
    <3> QED
      BY <3>1, <3>2, <2>2
  <2>5. \A p \in Proc : Honest(env[p])'
    BY <2>1, <2>4 DEF DataOK, Honest
  <2>6. \A f \in Paths : disk'[f].kind = "envelope" => disk'[f].env \in Envelope /\ Honest(disk[f].env)'
    BY <2>1, <2>4 DEF DataOK, Honest
  <2> QED
    BY <2>1, <2>2, <2>3, <2>5, <2>6 DEF DataOK
<1>2. CASE Tick
  BY <1>2, Plainly DEF Tick, run, bounds, DataOK, Honest
<1>3. CASE UNCHANGED vars
  BY <1>3 DEF vars, DataOK, Honest
<1>4. ASSUME NEW p \in Pullers, NEW f \in Flags, Begin(p, f) PROVE DataOK'
  <2>1. /\ now' = [now EXCEPT ![p] = clock] /\ clock \in 0 .. MaxClock /\ p \in Proc
        /\ faults' \in 0 .. MaxFaults /\ manual' \in 0 .. MaxManual
        /\ UNCHANGED <<clock, srv, disk, table, env>>
    BY <1>4, Plainly DEF Begin, bounds, DataOK, Proc
  <2> QED
    BY <2>1, NothingCarried, CarriedData, DiskData DEF DataOK
<1>5. ASSUME NEW p \in Sessions, Deliver(p) PROVE DataOK'
  <2>1. /\ now' = [now EXCEPT ![p] = clock] /\ clock \in 0 .. MaxClock /\ p \in Proc
        /\ env' = [env EXCEPT ![p] = Signed(clock)]
        /\ UNCHANGED <<clock, srv, disk, table, bounds>>
    BY <1>5 DEF Deliver, DataOK, Proc
  <2> QED
    BY <2>1, SignedHonest, CarriedData, DiskData DEF DataOK, bounds
<1>6. ASSUME NEW p \in Proc,
             Fetch(p) \/ FetchFails(p) \/ Collect(p) \/ WriteFails(p) \/ Killed(p) \/ ApplyFails(p)
      PROVE  DataOK'
  <2>1. UNCHANGED <<clock, srv, disk, table>>
    BY <1>6 DEF Fetch, FetchFails, Collect, WriteFails, Killed, ApplyFails
  <2>2. faults' \in 0 .. MaxFaults /\ manual' \in 0 .. MaxManual
    <3>1. UNCHANGED bounds \/ Fault
      BY <1>6 DEF Fetch, FetchFails, Collect, WriteFails, Killed, ApplyFails
    <3> QED
      BY <3>1, Plainly DEF Fault, bounds, DataOK
  <2>3. \/ UNCHANGED <<env, now>>
        \/ env' = [env EXCEPT ![p] = NoEnvelope] /\ now' = [now EXCEPT ![p] = 0]
        \/ env' = [env EXCEPT ![p] = Source] /\ UNCHANGED now
    BY <1>6 DEF Fetch, FetchFails, Collect, WriteFails, Killed, ApplyFails, Finish, End, Take
  <2> QED
    BY <2>1, <2>2, <2>3, NothingCarried, SourceHonest, CarriedData, DiskData DEF DataOK
<1>7. ASSUME NEW p \in Proc, Apply(p) PROVE DataOK'
  <2>1. /\ table'.kind = "list"
        /\ env' = [env EXCEPT ![p] = NoEnvelope] /\ now' = [now EXCEPT ![p] = 0]
        /\ UNCHANGED <<clock, srv, disk, bounds>>
    BY <1>7 DEF Apply, End, List
  <2> QED
    BY <2>1, NothingCarried, CarriedData, DiskData DEF DataOK, bounds
<1>8. ASSUME NEW p \in Proc, WriteState(p) \/ WriteAllow(p) \/ (p \in Sessions /\ WriteInbox(p))
      PROVE  DataOK'
  <2>1. UNCHANGED <<clock, srv, table, bounds>>
    BY <1>8 DEF WriteState, WriteAllow, WriteInbox
  <2>2. \/ UNCHANGED <<env, now>>
        \/ env' = [env EXCEPT ![p] = NoEnvelope] /\ now' = [now EXCEPT ![p] = 0]
    BY <1>8 DEF WriteState, WriteAllow, WriteInbox, Step, End
  <2>3. \E path \in DOMAIN Clean, content \in
              {[kind |-> "envelope", env |-> env[q]] : q \in Proc}
              \cup {[kind |-> "state"]} \cup {List(q) : q \in Proc} :
                Put(path, content)
    <3>1. Conf(p).allow \in DOMAIN Clean /\ rcfg.inbox \in DOMAIN Clean
      BY DEF Conf, ConfigOK
    <3>2. pc[p] = "state" => Conf(p).state \in DOMAIN Clean
      <4>1. pc[p] = "state" /\ p \in Pullers => cfg.state # ""
        BY DEF RunsOK, Books
      <4> QED
        BY <4>1 DEF Conf, ConfigOK, Proc
    <3>3. CASE WriteState(p)
      BY <3>2, <3>3 DEF WriteState
    <3>4. CASE WriteAllow(p)
      BY <3>1, <3>4 DEF WriteAllow
    <3>5. CASE WriteInbox(p)
      BY <3>1, <3>5 DEF WriteInbox
    <3> QED
      BY <1>8, <3>3, <3>4, <3>5
  <2> QED
    BY <2>1, <2>2, <2>3, NothingCarried, CarriedData, DiskData DEF DataOK, bounds
<1>9. unit \in Flags /\ Manual \subseteq Flags
  BY Plainly DEF ConfigOK
<1> QED
  BY <1>1, <1>2, <1>3, <1>4, <1>5, <1>6, <1>7, <1>8, <1>9 DEF Next, Advance, Proc, Pullers

(* No program reads its configuration again.                                  *)
LEMMA NextConfig == ConfigOK /\ [Next]_vars => ConfigOK'
<1> SUFFICES ASSUME ConfigOK, [Next]_vars PROVE ConfigOK'
  OBVIOUS
<1>1. UNCHANGED config
  BY DEF Next, Begin, Deliver, Advance, Fetch, FetchFails, Apply, WriteInbox, WriteState,
         WriteAllow, Collect, WriteFails, Killed, ApplyFails, Grant, Tick, config, vars
<1> QED
  BY <1>1 DEF config, ConfigOK

-----------------------------------------------------------------------------
(* A step that leaves the books of a process alone.                           *)
LEMMA BooksKept ==
  ASSUME NEW q \in Proc, Books(q),
         pc'[q] = pc[q], wrote'[q] = wrote[q], env'[q] = env[q], now'[q] = now[q],
         q \in Pullers => flags'[q] = flags[q],
         UNCHANGED cfg
  PROVE  Books(q)'
BY DEF Books, Applies, ApplyAllowed, Writing

(* A process that takes a step is the only one whose books change.            *)
LEMMA BooksOf ==
  ASSUME RunsOK, DataOK, NEW p \in Proc,
         UNCHANGED cfg,
         NEW step \in {"idle", "fetch"} \cup Writing \cup Ends,
         pc' = [pc EXCEPT ![p] = step],
         NEW what \in SUBSET Targets,
         wrote' = [wrote EXCEPT ![p] = what],
         flags' \in [Pullers -> Flags],
         \A q \in Pullers : q # p => flags'[q] = flags[q],
         \A q \in Proc : q # p => env'[q] = env[q] /\ now'[q] = now[q],
         Books(p)'
  PROVE  RunsOK'
<1>1. \A q \in Proc : q # p => pc'[q] = pc[q] /\ wrote'[q] = wrote[q]
  BY DEF RunsOK
<1>2. \A q \in Proc : Books(q)'
  BY <1>1, BooksKept DEF RunsOK
<1> QED
  BY <1>2 DEF RunsOK

(* How a run ends, with what it has replaced until then.                      *)
LEMMA EndBooks ==
  ASSUME ConfigOK, DataOK, RunsOK, UNCHANGED cfg, NEW p \in Proc,
         NEW how \in Ends, NEW what \in SUBSET Targets, End(p, how, what),
         p \in Sessions /\ how = "ok" => wrote[p] \cup what = {"inbox", "state", "allow"},
         p \in Sessions => how # "nft error",
         p \in Pullers /\ how = "ok" =>
           /\ "allow" \in wrote[p] \cup what <=> ~flags[p].dry
           /\ "table" \in wrote[p] \cup what <=> ~flags[p].dry /\ Applies(p),
         p \in Pullers /\ flags[p].dry => wrote[p] \cup what = {},
         how = "error" => {"allow", "table"} \cap (wrote[p] \cup what) = {},
         how = "nft error" => "allow" \in wrote[p] \cup what /\ "table" \notin wrote[p] \cup what
  PROVE  RunsOK'
<1>1. /\ pc' = [pc EXCEPT ![p] = how]
      /\ wrote' = [wrote EXCEPT ![p] = wrote[p] \cup what]
      /\ wrote[p] \cup what \in SUBSET Targets
      /\ flags' = flags /\ flags' \in [Pullers -> Flags]
      /\ \A q \in Proc : q # p => env'[q] = env[q] /\ now'[q] = now[q]
  BY DEF End, Goto, RunsOK, DataOK
<1>2. pc'[p] = how /\ wrote'[p] = wrote[p] \cup what
  BY <1>1 DEF RunsOK
<1>3. Applies(p)' <=> Applies(p)
  BY <1>1 DEF Applies, ApplyAllowed
<1>4. Books(p)'
  BY <1>1, <1>2, <1>3, Plainly DEF Books, Ends, Writing
<1> QED
  BY <1>1, <1>4, BooksOf DEF Ends

(* A run goes on to its next step.                                            *)
LEMMA StepBooks ==
  ASSUME ConfigOK, DataOK, RunsOK, UNCHANGED cfg, NEW p \in Proc,
         NEW step \in {"state", "allow", "nft"}, NEW what \in SUBSET Targets,
         Step(p, what, step),
         pc[p] \in Writing,
         p \in Sessions =>
           \/ step = "state" /\ wrote[p] \cup what = {"inbox"}
           \/ step = "allow" /\ wrote[p] \cup what = {"inbox", "state"},
         p \in Pullers =>
           /\ step = "state" => cfg.state # ""
           /\ step \in {"state", "allow"} => wrote[p] \cup what \subseteq {"state"}
           /\ step = "nft" =>
                Applies(p) /\ "allow" \in wrote[p] \cup what /\ "table" \notin wrote[p] \cup what
  PROVE  RunsOK'
<1>1. /\ pc' = [pc EXCEPT ![p] = step]
      /\ wrote' = [wrote EXCEPT ![p] = wrote[p] \cup what]
      /\ wrote[p] \cup what \in SUBSET Targets
      /\ flags' = flags /\ flags' \in [Pullers -> Flags]
      /\ env' = env /\ now' = now
  BY DEF Step, Goto, RunsOK
<1>2. pc'[p] = step /\ wrote'[p] = wrote[p] \cup what
  BY <1>1 DEF RunsOK
<1>3. Applies(p)' <=> Applies(p)
  BY <1>1 DEF Applies, ApplyAllowed
<1>4. env[p].expires > now[p] /\ (p \in Pullers => ~flags[p].dry)
  BY DEF RunsOK, Books
<1>5. Books(p)'
  BY <1>1, <1>2, <1>3, <1>4, Plainly DEF Books, Ends, Writing
<1> QED
  BY <1>1, <1>5, BooksOf DEF Writing

(* Every step keeps the books.                                                *)
LEMMA NextRuns == ConfigOK /\ DataOK /\ RunsOK /\ [Next]_vars => RunsOK'
<1> SUFFICES ASSUME ConfigOK, DataOK, RunsOK, [Next]_vars PROVE RunsOK'
  OBVIOUS
<1>1. UNCHANGED cfg
  BY DEF Next, Begin, Deliver, Advance, Fetch, FetchFails, Apply, WriteInbox, WriteState,
         WriteAllow, Collect, WriteFails, Killed, ApplyFails, Grant, Tick, config, vars
<1>2. ASSUME UNCHANGED run PROVE RunsOK'
  <2>1. UNCHANGED <<pc, flags, now, env, wrote>>
    BY <1>2 DEF run
  <2>2. \A p \in Proc : Books(p)'
    BY <1>1, <2>1, BooksKept DEF RunsOK
  <2> QED
    BY <2>1, <2>2 DEF RunsOK
<1>3. ASSUME NEW p \in Pullers, NEW f \in Flags, Begin(p, f) PROVE RunsOK'
  <2>1. /\ p \in Proc /\ p \notin Sessions
        /\ pc[p] = "idle" /\ wrote[p] = {}
        /\ pc' = [pc EXCEPT ![p] = "fetch"]
        /\ flags' = [flags EXCEPT ![p] = f]
        /\ now' = [now EXCEPT ![p] = clock]
        /\ UNCHANGED <<env, wrote>>
    BY <1>3, Plainly DEF Begin, Goto, Proc, RunsOK, Books
  <2>2. wrote' = [wrote EXCEPT ![p] = {}] /\ wrote'[p] = {} /\ pc'[p] = "fetch"
    BY <2>1 DEF RunsOK
  <2>3. Books(p)'
    BY <2>1, <2>2 DEF Books, Writing
  <2>4. flags' \in [Pullers -> Flags] /\ \A q \in Pullers : q # p => flags'[q] = flags[q]
    BY <2>1 DEF RunsOK
  <2>5. \A q \in Proc : q # p => env'[q] = env[q] /\ now'[q] = now[q]
    BY <2>1 DEF DataOK
  <2> QED
    BY <1>1, <2>1, <2>2, <2>3, <2>4, <2>5, BooksOf DEF Targets
<1>4. ASSUME NEW p \in Sessions, Deliver(p) PROVE RunsOK'
  <2>1. /\ p \in Proc /\ p \notin Pullers
        /\ pc[p] = "idle" /\ wrote[p] = {}
        /\ Signed(clock).expires > clock
        /\ pc' = [pc EXCEPT ![p] = "inbox"]
        /\ now' = [now EXCEPT ![p] = clock]
        /\ env' = [env EXCEPT ![p] = Signed(clock)]
        /\ UNCHANGED <<flags, wrote>>
    BY <1>4, Plainly DEF Deliver, Accepts, Goto, Proc, RunsOK, Books
  <2>2. /\ wrote' = [wrote EXCEPT ![p] = {}] /\ wrote'[p] = {} /\ pc'[p] = "inbox"
        /\ env'[p].expires > now'[p]
        /\ \A q \in Proc : q # p => env'[q] = env[q] /\ now'[q] = now[q]
    BY <2>1 DEF RunsOK, DataOK
  <2>3. Books(p)'
    BY <2>1, <2>2 DEF Books, Writing
  <2>4. flags' \in [Pullers -> Flags] /\ \A q \in Pullers : flags'[q] = flags[q]
    BY <2>1 DEF RunsOK
  <2> QED
    BY <1>1, <2>1, <2>2, <2>3, <2>4, BooksOf DEF Targets, Writing
<1>5. ASSUME NEW p \in Pullers, Fetch(p) PROVE RunsOK'
  <2>1. /\ p \in Proc /\ p \notin Sessions /\ pc[p] = "fetch" /\ wrote[p] = {}
        /\ Source.expires > now[p]
    BY <1>5, Plainly DEF Fetch, Accepts, Proc, RunsOK, Books
  <2>2. CASE flags[p].dry
    <3>1. End(p, "ok", {})
      BY <1>5, <2>2 DEF Fetch, Finish
    <3> QED
      BY <1>1, <2>1, <2>2, <3>1, EndBooks DEF Ends, Targets
  <2>3. CASE ~flags[p].dry
    <3> DEFINE step == FirstWrite(p)
    <3>1. /\ env' = [env EXCEPT ![p] = Source]
          /\ pc' = [pc EXCEPT ![p] = step]
          /\ UNCHANGED <<flags, now, wrote>>
      BY <1>5, <2>3 DEF Fetch, Take, Goto
    <3>2. step \in {"state", "allow"} /\ (step = "state" => cfg.state # "")
      BY <2>1 DEF FirstWrite, Conf
    <3> HIDE DEF step
    <3>3. /\ wrote' = [wrote EXCEPT ![p] = {}] /\ wrote'[p] = {} /\ pc'[p] = step
          /\ env'[p].expires > now'[p] /\ ~flags'[p].dry
          /\ \A q \in Proc : q # p => env'[q] = env[q] /\ now'[q] = now[q]
      BY <2>1, <2>3, <3>1 DEF RunsOK, DataOK
    <3>4. Books(p)'
      BY <1>1, <2>1, <3>2, <3>3 DEF Books, Writing
    <3>5. flags' \in [Pullers -> Flags] /\ \A q \in Pullers : flags'[q] = flags[q]
      BY <3>1 DEF RunsOK
    <3> QED
      BY <1>1, <2>1, <3>1, <3>2, <3>3, <3>4, <3>5, BooksOf DEF Targets, Writing
  <2> QED
    BY <2>2, <2>3
<1>6. ASSUME NEW p \in Proc, FetchFails(p) \/ WriteFails(p) PROVE RunsOK'
  <2>1. pc[p] \in {"fetch", "inbox", "state", "allow"} /\ End(p, "error", {})
    BY <1>6 DEF FetchFails, WriteFails, Finish
  <2>2. {"allow", "table"} \cap wrote[p] = {} /\ (p \in Pullers /\ flags[p].dry => wrote[p] = {})
    BY <2>1, Plainly DEF RunsOK, Books, Proc
  <2> QED
    BY <1>1, <2>1, <2>2, EndBooks DEF Ends, Targets
<1>7. ASSUME NEW p \in Proc, Killed(p) PROVE RunsOK'
  <2>1. End(p, "killed", {}) /\ (p \in Pullers /\ flags[p].dry => wrote[p] = {})
    BY <1>7 DEF Killed, Finish, RunsOK, Books
  <2> QED
    BY <1>1, <2>1, EndBooks DEF Ends, Targets
<1>8. ASSUME NEW p \in Pullers, ApplyFails(p) PROVE RunsOK'
  <2>1. /\ p \in Proc /\ p \notin Sessions /\ End(p, "nft error", {})
        /\ "allow" \in wrote[p] /\ "table" \notin wrote[p] /\ ~flags[p].dry
    BY <1>8, Plainly DEF ApplyFails, Finish, RunsOK, Books, Proc, Writing
  <2> QED
    BY <1>1, <2>1, EndBooks DEF Ends, Targets
<1>9. ASSUME NEW p \in Pullers, Apply(p) PROVE RunsOK'
  <2>1. /\ p \in Proc /\ p \notin Sessions /\ End(p, "ok", {"table"})
        /\ "allow" \in wrote[p] /\ ~flags[p].dry /\ Applies(p)
    BY <1>9, Plainly DEF Apply, RunsOK, Books, Proc, Writing
  <2> QED
    BY <1>1, <2>1, EndBooks DEF Ends, Targets
<1>10. ASSUME NEW p \in Sessions, WriteInbox(p) PROVE RunsOK'
  <2>1. /\ p \in Proc /\ p \notin Pullers /\ pc[p] = "inbox" /\ wrote[p] = {}
        /\ FirstWrite(p) = "state" /\ Step(p, {"inbox"}, FirstWrite(p))
    BY <1>10, Plainly DEF WriteInbox, FirstWrite, Conf, ConfigOK, RunsOK, Books, Proc
  <2> QED
    BY <1>1, <2>1, StepBooks DEF Targets, Writing
<1>11. ASSUME NEW p \in Proc, WriteState(p) PROVE RunsOK'
  <2>1. /\ pc[p] = "state" /\ Step(p, {"state"}, "allow")
        /\ p \in Sessions => wrote[p] = {"inbox"}
        /\ p \in Pullers => wrote[p] \subseteq {"state"}
    BY <1>11 DEF WriteState, RunsOK, Books
  <2> QED
    BY <1>1, <2>1, StepBooks, Plainly DEF Targets, Writing, Proc
<1>12. ASSUME NEW p \in Proc, WriteAllow(p) PROVE RunsOK'
  <2>1. /\ pc[p] = "allow"
        /\ p \in Sessions => wrote[p] = {"inbox", "state"} /\ p \notin Pullers
        /\ p \in Pullers => wrote[p] \subseteq {"state"} /\ p \notin Sessions /\ ~flags[p].dry
    BY <1>12, Plainly DEF WriteAllow, RunsOK, Books, Writing
  <2>2. CASE Applies(p)
    <3>1. p \in Pullers /\ Step(p, {"allow"}, "nft")
      BY <1>12, <2>2 DEF WriteAllow, Applies
    <3> QED
      BY <1>1, <2>1, <2>2, <3>1, StepBooks DEF Targets, Writing
  <2>3. CASE ~Applies(p)
    <3>1. End(p, "ok", {"allow"})
      BY <1>12, <2>3 DEF WriteAllow
    <3> QED
      BY <1>1, <2>1, <2>3, <3>1, EndBooks DEF Ends, Targets
  <2> QED
    BY <2>2, <2>3
<1>13. ASSUME NEW p \in Proc, Collect(p) PROVE RunsOK'
  <2>1. /\ pc' = [pc EXCEPT ![p] = "idle"]
        /\ wrote' = [wrote EXCEPT ![p] = {}]
        /\ flags' = [q \in Pullers |-> IF q = p THEN NoFlags ELSE flags[q]]
        /\ UNCHANGED <<now, env>>
    BY <1>13 DEF Collect, Goto
  <2>2. pc'[p] = "idle" /\ wrote'[p] = {}
    BY <2>1 DEF RunsOK
  <2>3. flags' \in [Pullers -> Flags] /\ \A q \in Pullers : q # p => flags'[q] = flags[q]
    BY <2>1 DEF RunsOK, NoFlags, Flags
  <2>4. Books(p)'
    BY <2>2, Plainly DEF Books, Writing
  <2>5. \A q \in Proc : q # p => env'[q] = env[q] /\ now'[q] = now[q]
    BY <2>1
  <2>6. {} \in SUBSET Targets /\ "idle" \in {"idle", "fetch"} \cup Writing \cup Ends
    OBVIOUS
  <2> QED
    BY <1>1, <2>1, <2>3, <2>4, <2>5, <2>6, BooksOf
<1>14. unit \in Flags /\ Manual \subseteq Flags
  BY Plainly DEF ConfigOK
<1>15. ASSUME UNCHANGED vars \/ Tick \/ \E c \in Granted : Grant(c) PROVE UNCHANGED run
  BY <1>15 DEF vars, run, Tick, Grant
<1> QED
  BY <1>2, <1>3, <1>4, <1>5, <1>6, <1>7, <1>8, <1>9, <1>10, <1>11, <1>12, <1>13, <1>14, <1>15
     DEF Next, Advance, Proc, Pullers

(* The invariant, for the theorems below.                                     *)
LEMMA HostInvariant == Spec => []HostInv
<1>1. HostInv /\ [Next]_vars => HostInv'
  BY NextConfig, NextData, NextRuns DEF HostInv
<1> QED
  BY <1>1, InitHost, PTL DEF Spec

-----------------------------------------------------------------------------
(* Every variable has its type; and a file, if anything, is one of the three  *)
(* documents the programs write.                                              *)
THEOREM TypeCorrect == Spec => []TypeOK
<1>1. HostInv => TypeOK
  BY DEF HostInv, ConfigOK, DataOK, RunsOK, TypeOK, Writing
<1> QED
  BY <1>1, HostInvariant, PTL

(* What a run returns tells which of allow.txt and the kernel's table it      *)
(* replaced, whatever runs beside it, fails or is killed.                     *)
THEOREM OutcomeIsTrue == Spec => []OutcomeTells
<1>1. HostInv => OutcomeTells
  <2> SUFFICES ASSUME HostInv PROVE OutcomeTells
    OBVIOUS
  <2>1. \A p \in Proc : Books(p)
    BY DEF HostInv, RunsOK
  <2>2. Sessions \subseteq Proc /\ Pullers \subseteq Proc
    BY DEF Proc
  <2>3. \A p \in Sessions : pc[p] = "ok" => wrote[p] = {"inbox", "state", "allow"}
    BY <2>1, <2>2 DEF Books
  <2>4. \A p \in Pullers : pc[p] = "ok" =>
          /\ "allow" \in wrote[p] <=> ~flags[p].dry
          /\ "table" \in wrote[p] <=> ~flags[p].dry /\ Applies(p)
    BY <2>1, <2>2 DEF Books
  <2>5. \A p \in Proc :
          /\ pc[p] = "error" => {"allow", "table"} \cap wrote[p] = {}
          /\ pc[p] = "nft error" => "allow" \in wrote[p] /\ "table" \notin wrote[p]
          /\ p \in Pullers /\ flags[p].dry => wrote[p] = {}
    BY <2>1 DEF Books
  <2> QED
    BY <2>3, <2>4, <2>5 DEF OutcomeTells, Applies, ApplyAllowed
<1> QED
  BY <1>1, HostInvariant, PTL

(* Whatever lies in the file a puller reads, and however often it is read: no *)
(* list holds more than the server had granted and had not let expire.        *)
THEOREM VerifiedLists == Spec => []ListsAreVerified
<1>1. HostInv => ListsAreVerified
  <2> SUFFICES ASSUME HostInv, NEW p \in Proc, pc[p] \in Writing
               PROVE  /\ env[p].expires > now[p]
                      /\ \A d \in List(p).cidrs : \E c \in Granted : Canon[c] = d /\ srv[c] > now[p]
    BY DEF ListsAreVerified, Writing
  <2>1. Books(p) /\ env[p] \in Envelope /\ Honest(env[p]) /\ now[p] \in 0 .. MaxClock
    BY DEF HostInv, DataOK, RunsOK
  <2>2. ASSUME NEW x \in Kept(env[p], now[p]) PROVE x.cidr \in Granted /\ srv[x.cidr] > now[p]
    <3>1. /\ x \in env[p].entries /\ x.expires > now[p]
          /\ x.cidr \in Granted /\ x.expires <= srv[x.cidr] /\ x.expires \in Nat
      BY <2>1, <2>2 DEF Kept, Honest, Envelope, EnvEntry
    <3>2. srv[x.cidr] \in Nat /\ now[p] \in Nat
      BY <2>1, <3>1, Plainly DEF HostInv, DataOK
    <3> QED
      BY <3>1, <3>2
  <2> QED
    BY <2>1, <2>2 DEF Books, List, Cidrs
<1> QED
  BY <1>1, HostInvariant, PTL

-----------------------------------------------------------------------------
(* One step of a process puts a list in allow.txt or nothing.                 *)
LEMMA NextList == HostInv /\ ListStaysList /\ [Next]_vars => ListStaysList'
<1> SUFFICES ASSUME HostInv, ListStaysList, [Next]_vars PROVE ListStaysList'
  OBVIOUS
<1>1. UNCHANGED config
  BY DEF Next, Begin, Deliver, Advance, Fetch, FetchFails, Apply, WriteInbox, WriteState,
         WriteAllow, Collect, WriteFails, Killed, ApplyFails, Grant, Tick, config, vars
<1>2. CASE UNCHANGED disk
  BY <1>1, <1>2 DEF ListStaysList, config
<1>3. ASSUME NEW path \in DOMAIN Clean, NEW content, Put(path, content),
             content.kind = "list" \/ Clean[path] # Clean[cfg.allow] \/ Clean[path] # Clean[rcfg.allow]
      PROVE  ListStaysList'
  <2>1. Clean[cfg.allow] \in DOMAIN disk
    BY DEF HostInv, ConfigOK, DataOK, Paths
  <2> QED
    BY <1>1, <1>3, <2>1 DEF Put, ListStaysList, config
<1>4. ASSUME NEW p \in Proc, WriteState(p) \/ WriteAllow(p) \/ WriteInbox(p) PROVE ListStaysList'
  <2>1. CASE WriteInbox(p)
    BY <1>3, <2>1 DEF WriteInbox, HostInv, ConfigOK
  <2>2. CASE WriteState(p)
    <3>1. /\ Conf(p).state \in DOMAIN Clean /\ Put(Conf(p).state, [kind |-> "state"])
          /\ Clean[Conf(p).state] # Clean[Conf(p).allow]
      <4>1. p \in Pullers => cfg.state # ""
        BY <2>2 DEF WriteState, HostInv, RunsOK, Books
      <4> QED
        BY <2>2, <4>1 DEF WriteState, Conf, HostInv, ConfigOK, Proc
    <3> QED
      BY <1>3, <3>1 DEF Conf
  <2>3. CASE WriteAllow(p)
    <3>1. Conf(p).allow \in DOMAIN Clean /\ Put(Conf(p).allow, List(p)) /\ List(p).kind = "list"
      BY <2>3 DEF WriteAllow, Conf, List, HostInv, ConfigOK
    <3> QED
      BY <1>3, <3>1
  <2> QED
    BY <1>4, <2>1, <2>2, <2>3
<1>5. \/ UNCHANGED disk
      \/ \E p \in Proc : WriteState(p) \/ WriteAllow(p) \/ WriteInbox(p)
  BY DEF Next, Begin, Deliver, Advance, Fetch, FetchFails, Apply,
         Collect, WriteFails, Killed, ApplyFails, Grant, Tick, vars
<1> QED
  BY <1>2, <1>4, <1>5

(* Whatever the two configurations are, if both name one allow.txt, no state  *)
(* file and no inbox copy of either program ever lands on it.                 *)
THEOREM ListIsNeverClobbered == Spec => []ListStaysList
<1>1. Init => ListStaysList
  <2> SUFFICES ASSUME Init PROVE ListStaysList
    OBVIOUS
  <2>1. Clean[cfg.allow] \in Paths
    BY InitHost DEF HostInv, ConfigOK, Paths
  <2>2. disk = [f \in Paths |-> Nothing]
    BY DEF Init
  <2> QED
    BY <2>1, <2>2 DEF ListStaysList, Nothing
<1> QED
  BY <1>1, HostInvariant, NextList, PTL DEF Spec

-----------------------------------------------------------------------------
(* The refinement of AllowList.tla, by the file and by the kernel's table.    *)

Deciding == {p \in Proc : pc[p] \in {"inbox", "state", "allow"}}
Applying == {p \in Proc : pc[p] = "nft" /\ "allow" \in wrote[p]}

\* a step of process p leaves the others alone
Others(p) ==
  \A q \in Proc \ {p} :
    pc'[q] = pc[q] /\ env'[q] = env[q] /\ now'[q] = now[q] /\ wrote'[q] = wrote[q]

(* What is under way after a step of p: the lists of the others, which were   *)
(* under way before, and that of p.                                           *)
LEMMA ListsBut ==
  ASSUME NEW p \in Proc, Others(p)
  PROVE  /\ Verdicts \ {List(p)} \subseteq Verdicts'
         /\ Written \ {List(p)} \subseteq Written'
         /\ p \notin Deciding => Verdicts \subseteq Verdicts'
         /\ p \notin Applying => Written \subseteq Written'
         /\ p \notin Deciding' => Verdicts' \subseteq Verdicts
         /\ p \notin Applying' => Written' \subseteq Written
         /\ Verdicts' \subseteq Verdicts \cup {List(p)'}
         /\ Written' \subseteq Written \cup {List(p)'}
         /\ p \in Deciding => List(p) \in Verdicts
         /\ p \in Applying => List(p) \in Written
         /\ p \in Deciding' => List(p)' \in Verdicts'
         /\ p \in Applying' => List(p)' \in Written'
<1>1. \A q \in Proc \ {p} :
        /\ q \in Deciding <=> q \in Deciding'
        /\ q \in Applying <=> q \in Applying'
        /\ List(q) = List(q)'
  BY DEF Deciding, Applying, Others, List
<1>2. Verdicts = {List(q) : q \in Deciding} /\ Written = {List(q) : q \in Applying}
  BY DEF Verdicts, Written, Deciding, Applying
<1>3. Verdicts' = {List(q)' : q \in Deciding'} /\ Written' = {List(q)' : q \in Applying'}
  BY DEF Verdicts, Written, Deciding, Applying
<1>4. Deciding \subseteq Proc /\ Applying \subseteq Proc
  BY DEF Deciding, Applying
<1>5. Deciding' \subseteq Proc /\ Applying' \subseteq Proc
  BY DEF Deciding, Applying
<1> QED
  BY <1>1, <1>2, <1>3, <1>4, <1>5

(* Whatever a process makes of its envelope, the server granted it: now, and  *)
(* after a step.                                                              *)
LEMMA ListGrantable ==
  ASSUME NEW p \in Proc
  PROVE  /\ DataOK => List(p) \in Grantable
         /\ DataOK' => List(p)' \in Grantable
<1>1. ASSUME NEW e, NEW t, \A x \in e.entries : x.cidr \in Granted
      PROVE  [kind |-> "list", cidrs |-> Cidrs(e, t)] \in Grantable
  <2>1. Cidrs(e, t) \subseteq {Canon[c] : c \in Granted} \ {Invalid}
    BY <1>1 DEF Cidrs, Kept
  <2> QED
    BY <2>1 DEF Grantable
<1>2. DataOK => \A x \in env[p].entries : x.cidr \in Granted
  BY DEF DataOK, Honest
<1>3. DataOK' => \A x \in env'[p].entries : x.cidr \in Granted
  BY DEF DataOK, Honest
<1> QED
  BY <1>1, <1>2, <1>3 DEF List

(* What a step of one process has to do for the file: a verdict settles, and  *)
(* the end of a run loses.                                                    *)
LEMMA FileRule ==
  ASSUME HostInv, HostInv', NEW p \in Proc, Others(p),
         disk[Clean[cfg.allow]]' = disk[Clean[cfg.allow]],
         \/ p \notin Deciding
         \/ p \notin Deciding'
         \/ env'[p] = env[p] /\ now'[p] = now[p]
  PROVE  OnDisk!Next \/ UNCHANGED OnDisk!vars
<1> USE ListsBut DEF OnDisk!Next, OnDisk!Settle, OnDisk!Lose, OnDisk!vars
<1>1. CASE p \notin Deciding /\ p \in Deciding'
  <2>1. List(p)' \in Grantable
    BY ListGrantable DEF HostInv
  <2>2. Verdicts' = Verdicts \cup {List(p)'}
    BY <1>1
  <2> QED
    BY <2>1, <2>2
<1>2. CASE p \notin Deciding'
  BY <1>2
<1>3. CASE p \in Deciding /\ env'[p] = env[p] /\ now'[p] = now[p]
  <2>1. List(p)' = List(p)
    BY <1>3 DEF List
  <2>2. CASE p \in Deciding'
    BY <1>3, <2>1, <2>2
  <2> QED
    BY <1>2, <2>2
<1> QED
  BY <1>1, <1>2, <1>3

(* And for the table: allow.txt settles, a failed or killed run loses.        *)
LEMMA KernelRule ==
  ASSUME HostInv, HostInv', NEW p \in Proc, Others(p), UNCHANGED table,
         p \notin Applying \/ p \notin Applying'
  PROVE  InKernel!Next \/ UNCHANGED InKernel!vars
<1> USE ListsBut DEF InKernel!Next, InKernel!Settle, InKernel!Lose, InKernel!vars
<1>1. CASE p \notin Applying /\ p \in Applying'
  <2>1. List(p)' \in Grantable
    BY ListGrantable DEF HostInv
  <2>2. Written' = Written \cup {List(p)'}
    BY <1>1
  <2> QED
    BY <2>1, <2>2
<1>2. CASE p \notin Applying'
  BY <1>2
<1> QED
  BY <1>1, <1>2

(* The steps that replace neither.                                            *)
LEMMA QuietSteps ==
  ASSUME HostInv, HostInv', NEW p \in Proc, NEW f,
         \/ Begin(p, f) \/ Deliver(p) \/ Collect(p) \/ WriteFails(p) \/ Killed(p)
         \/ Fetch(p) \/ FetchFails(p) \/ ApplyFails(p)
  PROVE  /\ OnDisk!Next \/ UNCHANGED OnDisk!vars
         /\ InKernel!Next \/ UNCHANGED InKernel!vars
<1> USE DEF HostInv, RunsOK, DataOK, Goto, End, Finish, Step, Others, Deciding, Applying, Ends
<1>1. UNCHANGED <<disk, table, cfg>>
  BY DEF Begin, Deliver, Collect, WriteFails, Killed, Fetch, FetchFails, ApplyFails, config
<1>2. Others(p)
  <2>1. CASE Begin(p, f) \/ Deliver(p) \/ Collect(p)
    BY <2>1 DEF Begin, Deliver, Collect
  <2>2. CASE WriteFails(p) \/ Killed(p) \/ FetchFails(p) \/ ApplyFails(p)
    BY <2>2 DEF WriteFails, Killed, FetchFails, ApplyFails
  <2>3. CASE Fetch(p)
    BY <2>3 DEF Fetch, Take
  <2> QED
    BY <2>1, <2>2, <2>3
<1>3. p \notin Deciding \/ p \notin Deciding'
  BY DEF Begin, Deliver, Collect, WriteFails, Killed, Fetch, FetchFails, ApplyFails
<1>4. p \notin Applying \/ p \notin Applying'
  BY DEF Begin, Deliver, Collect, WriteFails, Killed, Fetch, FetchFails, ApplyFails
<1> HIDE DEF HostInv, RunsOK, DataOK, Goto, End, Finish, Step, Others, Deciding, Applying, Ends
<1> QED
  BY <1>1, <1>2, <1>3, <1>4, FileRule, KernelRule

(* The steps that replace a file.                                             *)
LEMMA WritingSteps ==
  ASSUME HostInv, HostInv', NEW p \in Proc,
         (p \in Sessions /\ WriteInbox(p)) \/ WriteState(p) \/ WriteAllow(p)
  PROVE  /\ Agreed => OnDisk!Next \/ UNCHANGED OnDisk!vars
         /\ InKernel!Next \/ UNCHANGED InKernel!vars
<1> DEFINE file == Clean[cfg.allow]
<1>1. UNCHANGED <<table, cfg, rcfg>>
  BY DEF WriteInbox, WriteState, WriteAllow, config
<1>2. Others(p)
  BY DEF WriteInbox, WriteState, WriteAllow, Step, End, Goto, Others, HostInv, RunsOK, DataOK
<1>3. p \notin Applying
  BY DEF WriteInbox, WriteState, WriteAllow, Applying
<1>4. InKernel!Next \/ UNCHANGED InKernel!vars
  BY <1>1, <1>2, <1>3, KernelRule
<1>5. file \in DOMAIN disk
  BY DEF HostInv, ConfigOK, DataOK, Paths
<1>6. ASSUME Agreed, (p \in Sessions /\ WriteInbox(p)) \/ WriteState(p)
      PROVE  OnDisk!Next \/ UNCHANGED OnDisk!vars
  <2>1. PICK path, content : Put(path, content) /\ Clean[path] # file
    <3>1. CASE p \in Sessions /\ WriteInbox(p)
      BY <1>6, <3>1 DEF WriteInbox, Agreed, HostInv, ConfigOK
    <3>2. CASE WriteState(p)
      <4>1. p \in Pullers => cfg.state # ""
        BY <3>2 DEF WriteState, HostInv, RunsOK, Books
      <4>2. Clean[Conf(p).state] # file
        BY <1>6, <4>1 DEF Agreed, Conf, HostInv, ConfigOK, Proc
      <4> QED
        BY <3>2, <4>2 DEF WriteState
    <3> QED
      BY <1>6, <3>1, <3>2
  <2>2. disk'[file] = disk[file]
    BY <1>5, <2>1 DEF Put
  <2>3. env'[p] = env[p] /\ now'[p] = now[p]
    BY <1>6 DEF WriteInbox, WriteState, Step
  <2> QED
    BY <1>1, <1>2, <2>2, <2>3, FileRule
<1>7. ASSUME Agreed, WriteAllow(p) PROVE List(p) \in Verdicts /\ OnDisk!Replace(List(p))
  <2>1. disk'[file] = List(p)
    BY <1>5, <1>7 DEF WriteAllow, Put, Conf, Agreed
  <2>2. p \in Deciding /\ p \notin Deciding'
    BY <1>7 DEF WriteAllow, Step, End, Goto, Deciding, HostInv, RunsOK
  <2>3. List(p) \in Verdicts /\ Verdicts' \in {Verdicts, Verdicts \ {List(p)}}
    BY <1>2, <2>2, ListsBut
  <2> QED
    BY <1>1, <2>1, <2>3 DEF OnDisk!Replace
<1> QED
  BY <1>4, <1>6, <1>7 DEF OnDisk!Next

(* The step that replaces the table.                                          *)
LEMMA ApplyingStep ==
  ASSUME HostInv, HostInv', NEW p \in Pullers, Apply(p)
  PROVE  /\ OnDisk!Next \/ UNCHANGED OnDisk!vars
         /\ InKernel!Next \/ UNCHANGED InKernel!vars
<1>1. p \in Proc
  BY DEF Proc
<1>2. Others(p) /\ UNCHANGED <<disk, cfg>> /\ table' = List(p)
  BY <1>1 DEF Apply, End, Goto, Others, config, HostInv, RunsOK, DataOK
<1>3. p \notin Deciding /\ p \in Applying /\ p \notin Applying'
  BY <1>1 DEF Apply, End, Goto, Deciding, Applying, Books, HostInv, RunsOK
<1>4. List(p) \in Written /\ Written' \in {Written, Written \ {List(p)}}
  BY <1>1, <1>2, <1>3, ListsBut
<1>5. InKernel!Next
  BY <1>2, <1>4 DEF InKernel!Next, InKernel!Replace
<1> QED
  BY <1>1, <1>2, <1>3, <1>5, FileRule

(* Every step of the host is one of each list, or none.                       *)
LEMMA ListStep ==
  HostInv /\ HostInv' /\ [Next]_vars =>
    /\ Agreed => OnDisk!Next \/ UNCHANGED OnDisk!vars
    /\ InKernel!Next \/ UNCHANGED InKernel!vars
<1> SUFFICES ASSUME HostInv, HostInv', [Next]_vars
             PROVE  /\ Agreed => OnDisk!Next \/ UNCHANGED OnDisk!vars
                    /\ InKernel!Next \/ UNCHANGED InKernel!vars
  OBVIOUS
<1>1. ASSUME NEW c \in Granted, Grant(c) \/ Tick \/ UNCHANGED vars
      PROVE  UNCHANGED OnDisk!vars /\ UNCHANGED InKernel!vars
  BY <1>1 DEF Grant, Tick, run, config, vars, OnDisk!vars, InKernel!vars, Verdicts, Written, List
<1>2. Tick \/ UNCHANGED vars => UNCHANGED OnDisk!vars /\ UNCHANGED InKernel!vars
  BY DEF Tick, run, config, vars, OnDisk!vars, InKernel!vars, Verdicts, Written, List
<1>3. Timer \in Proc /\ Operators \subseteq Proc /\ Sessions \subseteq Proc /\ Pullers \subseteq Proc
  BY DEF Proc, Pullers
<1> QED
  BY <1>1, <1>2, <1>3, QuietSteps, WritingSteps, ApplyingStep DEF Next, Advance

(* Where the programs agree on one allow.txt, it is the list of AllowList.tla:*)
(* everything in it is what one of the runs made of one envelope, whole.      *)
THEOREM FileIsList == Spec => FileIsAllowList
<1>1. Init /\ HostInv => OnDisk!Init
  <2> SUFFICES ASSUME Init, HostInv PROVE OnDisk!Init
    OBVIOUS
  <2>1. Clean[cfg.allow] \in Paths
    BY DEF HostInv, ConfigOK, Paths
  <2> QED
    BY <2>1 DEF Init, OnDisk!Init, Verdicts
<1>2. HostInv /\ HostInv' /\ [Next]_vars => [Agreed => OnDisk!Next \/ UNCHANGED OnDisk!vars]_vars
  BY ListStep
<1> QED
  BY <1>1, <1>2, HostInvariant, PTL DEF Spec, FileIsAllowList

(* And so is the kernel's table, with lists that were in allow.txt before.    *)
THEOREM KernelIsList == Spec => KernelIsAllowList
<1>1. Init => InKernel!Init
  BY DEF Init, InKernel!Init, Written
<1>2. HostInv /\ HostInv' /\ [Next]_vars => [InKernel!Next]_(InKernel!vars)
  BY ListStep
<1> QED
  BY <1>1, <1>2, HostInvariant, PTL DEF Spec, KernelIsAllowList, InKernel!Spec
=============================================================================
