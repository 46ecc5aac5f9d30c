# nft-auth-whitelist in TLA+

A verification development of the Go code of nft-auth-whitelist: TLA+ models of
its components, TLC runs that check them on small instances and proofs, checked
by TLAPS, of what holds for every instance. All paths are those of the
repository; `PROJECT.json` maps every definition to the lines it stands for.

## 1. The system

A user opens the page of **auth-server** and presses a button. The server takes
the source address of the request, records it for a limited time (a *CIDR* with
an expiry) and pushes a signed list of all live CIDRs, over ssh, to one or more
**targets**, where sshd starts **receive** for each push. It verifies the list
and replaces `allow.txt`, which a firewall reads. A target may instead fetch the
list over HTTPS or from a file with **puller**, which may also load it into nft.

    browser --POST /--> handleRoot --Record--> store --> entries.json
                            |                    ^
                            | doPush             | Purge
                            v                    |
       purge ticker -> purgeAndSync -------------+
       reconcile ticker -> reconcileSync --------+
                            |
                            v  ssh, one target after the other, 12 s in all
                        nft-auth-receive --> inbox, state, allow.txt

### Inventory

| part | state it keeps | operations | who interacts with it |
|---|---|---|---|
| `internal/store` | entries by CIDR under one mutex; `entries.json` | `Record`, `Purge`, `Snapshot`, `BuildEnvelope`, load at start | handlers and both tickers, concurrently |
| `internal/atomicfile` | a path and temporary files next to it | `write`: create, write, sync, close, chmod, rename | store, receive, puller; readers of the files |
| `internal/pipeline` | none; writes the state file and `allow.txt` | `VerifyAndFilter`, `WriteOutputs` | receive, puller |
| `cmd/receive` | three files, no lock | `run`: read, verify, inbox, state, allow.txt | one process per ssh connection |
| `cmd/auth-server` server.go | freeze file (read), the store | `handleRoot`: GET shows the page, POST records | users; the operator |
| `cmd/auth-server` ratelimit.go | failures per client and window, under one mutex | `blocked` with its cleanup | requests with wrong credentials |
| `internal/clientip` | none; trusted networks and header order from the configuration | `Extract` | handler, rate limiter |
| `cmd/auth-server` push.go, main.go | budget of a push | `doPush`, `purgeAndSync`, `reconcileSync`; two tickers | store, sshpush |
| `internal/sshpush` | one ssh child process | `Push` with a deadline | receive at the other end |
| `internal/signer`, `internal/ipx` | none | `Sign`, `Verify`; `CanonicalCIDR`, `CIDRForRequest` | store, pipeline, handler |
| `cmd/puller` | the same kinds of files | `runOnce`: fetch, verify, state, allow.txt, apply | timer, operator; /allow.json or the receiver's inbox |
| `internal/nftguard` | one nftables table of the kernel | `Apply` | puller |
| `internal/config` | none | three loaders: presets, decoding, defaults, validation | every main |
| `cmd/auth-server` notify.go | sends in flight | `Notify`, `wait` | handler, push |
| `scripts/ddns-whitelist-sync.sh` | one output file | resolve, compare, replace | timer |
| `internal/audit`, `internal/version`, install, build and preflight scripts | - | - | - |

### What is hard about it, and what makes each part correct

* **Store.** Memory is changed before the file is written, the clock is read
  before the lock is taken, times are whole seconds, and a restart may come with
  another `max_entries`. Correct means: file and memory agree unless the last
  write failed; what a user was told survives until its expiry; nothing outlives
  its TTL; entries leave only by expiry or to make room, least recently seen
  first, and come back only by a new authentication.
* **Files.** Every file is replaced while others read it and other processes
  replace it, and the machine may stop at any system call. Correct means: the
  path is an atomic register of whole documents; an error changes nothing.
* **Receive.** Three files are written one after the other, any write can fail,
  the process can be killed, several run at once. Correct means: `allow.txt`
  holds exactly what one verified envelope allows; a run that returns success has
  replaced it, one that returns an error has not, and one that is killed may have;
  the records are never behind it.
* **Auth-server and push.** Three kinds of goroutines share the store and push
  to the same targets; pushes time out while their receivers run on; targets go
  away and come back; the server restarts. Correct means: no push hangs its
  handler or outlasts the HTTP response; answers are matched to pushes; the targets
  that answer soon enough end up with the server's list, if it is not too long for
  them; the freeze file stops all requests but those that were past it.
* **The way in.** The recorded address is taken out of headers that anybody may
  have begun; the limiter's clock is read before its mutex is had; the page
  announces what another request will record. Correct means: the address is that
  of the last hop that is not ours, unless our own proxies pass on what somebody else
  put into a header; blocks are earned by the blocked client, and
  bounded; the page keeps its word.
* **One host, two programs.** A puller started by a timer, another started by
  hand and the receiver write the same files without a lock and, with `--apply`,
  a table of the kernel; their paths come from two configurations. Correct
  means: `allow.txt` is never overwritten by another kind of file; every list
  was granted and fresh; the outcome of a run tells what it replaced; in the end
  list and table are the server's.

The full list, line by line, is `hazards` in `PROJECT.json`.

## 2. Modules

| module | role |
|---|---|
| `StoreOps` | the operators on entries: expiry, refresh, eviction |
| `Store`, `StoreProofs` | `internal/store` with clock, lost writes and restarts |
| `Whitelist` | abstract: grants that end, and their durable copy |
| `AtomicFile`, `AtomicFileProofs` | `internal/atomicfile` as concurrent system calls |
| `Register` | abstract: a path is an atomic register |
| `Pipeline` | `VerifyAndFilter` as operators on envelopes |
| `Receive`, `ReceiveProofs` | concurrent receiver processes on one host |
| `AllowList` | abstract: a list that changes only to one that was settled before |
| `AuthServer`, `AuthServerProofs` | handlers, tickers, pushes and targets together |
| `ConfigFile` | what the three loaders of `internal/config` share |
| `ServerConfig`, `HostConfig` | the loaders of the server, of the puller and of the receiver |
| `ClientIP` | `internal/clientip` and `ipx.CIDRForRequest` as operators |
| `Front`, `FrontProofs`, `LimiterProofs` | a request up to the CIDR that is recorded, and the limiter |
| `Host`, `HostProofs` | puller, receiver and nftables table on one host |
| `MC...` | instances for TLC |

`Front` extends `ClientIP`, that `ServerConfig`; `Host` extends `Pipeline`, which
`Receive` shares, and `HostConfig`. `AuthServer` begins where `Front` ends: with an
authenticated POST and the CIDR it asks for.

Three abstract modules say what the others rely on, and refinements tie the detailed
modules to them and, through them, to each other:

    Register   <-  AtomicFile          every file write is one action elsewhere
    Whitelist  <-  Store, AuthServer   two models of one store, with different time
    AllowList  <-  Receive, Host (allow.txt and the kernel's table), AuthServer (every target)

Definitions marked `mutant:` are not part of a specification: each is a
definition above or below it changed the way a plausible bug would change the
code. `PROJECT.json` says which property each of them violates.

### Store

`entries` is `Store.entries` and `disk` is `entries.json`. Every method holds
the mutex throughout, so a call is one action; `Record` is refresh or insert,
then `enforceLimitLocked`, then `persistLocked`, with the write succeeding or
not (`ok`). The reading of the clock is the argument `now`, taken from
`Readings`: the caller evaluated `time.Now()` up to `MaxLag` seconds before it
got the lock. Times are whole seconds. `Record` truncates, and `Purge` and
`Snapshot` compare expiries, which are whole seconds, with an untruncated
reading, which gives the same result as comparing with the truncated one.

An entry is its two times; `IP`, `Source`, `CreatedAt` and `HitCount` influence
nothing. `LeastRecent` is a set of sets, because the list that is sorted comes
out of a map and the sort is not stable. A crash inside a call is covered: before
the rename of the write it is a failed call and a `Restart`, after it a
successful one and a `Restart`. A corrupt `entries.json` stops the server in
`New`; `AtomicFile` is why there is none.

`reply`, `dirty` and `acked` are history: what `Record` returned, whether the last
write failed, and the expiry each user was last told (0 once evicted).

`Whitelist` is the store without its representation: `list` is per CIDR the end of its
grant, `durable` the list as a restart would find it. A grant ends when it was said to,
and earlier only when there is no room, those first that end first; `durable` is the
whole list as some change left it, with time taken off. `Grants` is the mapping of
`Store` (the expiry of a live entry), `Purged` that of `AuthServer`. A purge is a
stutter of it, or the write that an earlier failure left out.

### AtomicFile and Register

One action per system call of `write`; `Fail` is an error at any of them with
the deferred `Remove`; `Kill` ends the process without it. An inode records
whether its content is complete and on disk. `os.Rename` is not followed by a
sync of the directory, so `PowerFailure` may bring back an earlier inode of the
path, and content that was not synced may be lost. `Register` says what callers
rely on: the path holds one of the documents asked for, changes only from one
whole document to another, and after a power failure shows an earlier one.
A temporary name that is freed by a rename and drawn again before the first
caller's deferred `Remove` runs is left out (32 random bits).

### Pipeline and Receive

`Accepts`, `Kept` and `Cidrs` are `VerifyAndFilter`. The signature is a flag,
entries are a set (the server builds them from a map), `Canon` is
`ipx.CanonicalCIDR` as a function. A run reads the clock (`Start`), then stdin up
to the verdict (`Verify` or `Reject`, local to the process), then writes inbox,
state and allow.txt, one action each, atomic by `AtomicFile`, and then the audit line
and the line on stdout (`Report`). `WriteFails` is an error of any of the three,
`Killed` the death of the process with its connection, at any step: also between the
rename of allow.txt and the end of `run` (receive.go:78-80), so that a push can be taken
for a failed one by the server although its list is in force. `OutcomeTellsApplied`
therefore says of a killed run only that its records are in place if its list is. Runs are numbered; the numbers, `result`, `wrote` and `overlap` are
history.

### AllowList

What the end of a push promises of the list it keeps: a list is settled (`Settle`),
then it replaces the one that counts (`Replace`) or is lost (`Lose`); several may be on
their way and come in any order. `Receive` implements it: a list is settled by `Verify`,
out of one accepted envelope and one reading of the clock, and nothing that is read or
written afterwards changes it. That is what `AuthServer` makes of a receiver, a process
with a list that was settled when it started, and `AuthServer` implements the same
module for each target, with the lists of at most the target's own `max_entries` CIDRs:
the server may have more, after a restart with a lower limit.
`Host` implements it twice: `allow.txt` takes what a verdict of either program settled,
the kernel's table what was written to `allow.txt` before. So a list passes the ends of
the two stages unchanged and in this order.

### AuthServer

The composition: the handlers of `POST /`, the purge ticker and the reconcile
ticker share the store and push to the targets. The steps of a handler are
those between which other goroutines can run: look at the freeze file
(`Check`), purge (`PurgeFirst`), resolve the CIDR or refuse (`Refuse`), record
(`Record`), build the envelope, and per target connect, wait, finish. Each
method of the store is atomic, as in `Store`. A push that times out leaves a
process that may still apply its list (`by = Nobody`). A receiver's run is one
step here, the rename of `allow.txt`; its verdict is settled when it starts.

The data differs from `Store` so that liveness can be checked: expiry is counted in
Records. The TTL is one constant, so entries expire in the order in which they
were last recorded, and `lapsed` tells how far expiry has come. The clocks of
server and targets agree. A ticker signs with the reading its own purge used, so
its envelope is all of the store.

`left` is what a push has of its 12 seconds (`pushRequestBudget`): each target gets
the smaller of it and `timeout_seconds`. Whether a target is down (`up`) and how long it
takes to answer (`delay`) is state, changed by `LinkChanges`, which costs a fault. An
answer comes if it takes less than the target gets (`Quick`); otherwise the deadline
kills ssh, at no cost and on every push as long as the target stays as slow. A target that
is quick enough can still run into its deadline, as a fault. A push that
is killed takes all it got, and `WaitDelay` more if a child of ssh holds the
output open, which is the only way below zero. By how much a handler has overdrawn is
kept until its next request, for `AnsweredInTime`.

`limit` is `max_entries` of the server, which may be another one after `Crash`: `load`
takes the file as it is, the envelope is as long, and the next `Record` evicts all that
is too much (`Excess`). `TargetLimit` is that of the receivers, which reject a longer
envelope as a whole. `past` is the number of requests that were past the look at the
freeze file when it was made, `since` that of the Records from then on. The orderly
shutdown of main (main.go:105-113, five seconds for requests in flight) leaves no state
that `Crash` does not.

### Front, ClientIP and the configuration

A configuration is a record of its fields; a document is the function of the
fields it sets. `Init` picks a document that decodes and validates, as main does,
so that the rules of `internal/config` decide which behaviours there are; the
others in `MCServerDocs` must be refused. A secret is its length or `Sample` (a
placeholder of `configs/`), a text is a token for what it says. A request is the list of
hosts it passed, what it asks for and the headers that arrive. `Arriving` in
`MCFront` is the environment: every proxy appends its caller to
`X-Forwarded-For`; the header `CF-Connecting-IP` is set by the first proxy, or passed on
as received beside an `X-Real-IP` that every proxy sets, which is the set-up of
docs/public-deployment.md:137 and 150; a client that comes directly may have written
anything.

`ProxiesTell` is the assumption on that environment, and TLC evaluates it on `MCFront`.
A request from a trusted peer has come from some host that is not one of the proxies;
the last such host is the one whose call `X-Forwarded-For` tells, behind whatever was
there before and in front of the proxies that followed, or it is not there at all; any
other header that is consulted has that host's address or none that is usable, or the
proxies have passed it on as received (`passed`), and then nothing is assumed of it.

`RecordsOrigin` is conditional accordingly. The documented proxies set `X-Real-IP` and
`X-Forwarded-For` and pass `CF-Connecting-IP` on, which is consulted first. In this set-up
the address is whatever that header says, whoever wrote it: the user's if every request
comes over an edge that sets the header, and what the client began it with if one comes
to the proxy directly. Both requests are in `MCFront`. So "the recorded IP is ALWAYS
the request source IP" (server.go:150) holds for headers the proxies set or extend, and
for the one they pass on as far as the edge does what the documentation expects of it;
the edge is not modelled. From a peer that is not trusted no header counts.

A visit is a state machine: a request with right credentials is served in one step
(nothing it reads can change but the freeze file, which may be there at any time),
`Show` and `Submit` are the confirmation page and its form, whose body is empty. One with
wrong credentials reads the clock (`Fail`) and counts later (`Limit`), up to
`MaxWait` ticks later. Right credentials do not come near the limiter, so users
and guessers come in separate behaviours (`Crowds`). Counts over the maximum are
not told apart, because nothing in the code does. `admitted` is history: each failure
that was counted and answered with 401, with its client, reading and window.

### Host

`disk` holds, per cleaned path, what the file there is: nothing, an envelope, a
state file or a list; `table` is the list the nft sets were made of. The puller's
`runOnce` is `Begin` (the clock), `Fetch` or `FetchFails`, then the two files of
`WriteOutputs`, then `Apply` or `ApplyFails`; a dry run ends at `Fetch`. The gate has
two halves, `--apply` and the configuration. The receiver is `Deliver` and three
writes. Each write is one action by `AtomicFile`; a kill between any two is
`Killed`. `Collect` is the exit of the program, `End` what its run returned: main of the
puller prints an error and exits with status 0, so the outcome is what it
prints. A file source reads whatever is at its path: the same envelope again,
or a file that is no envelope. The auth-server is only its entries (`srv`): what it
grants it signs.

## 3. Runs

| run | question | result |
|---|---|---|
| `store` | do memory, file and promises stay consistent over records, purges, failed writes, restarts, and are they a `Whitelist`? | holds |
| `store_tie` | is a recorded entry in the store? | **no**: same-second ties |
| `atomicfile` | is a path an atomic register for concurrent writers that fail, die and lose power? | holds |
| `receive` | do concurrent receivers apply only verified lists, as they were settled, and does what they return tell? | holds |
| `receive_race` | do the files disagree only after a failure? | **no**: two overlapping successes |
| `server` | do pushes end, in time, and does the target converge, with one fault of any kind, a restart with another `max_entries` included? Are store and target a `Whitelist` and an `AllowList`? | holds |
| `server_targets` | with two targets that are down, slow or quick, does each converge that answers within what is left for it? Does the freeze file stop all requests but those that were past it? | holds |
| `server_starved` | does a third target converge behind two dead ones? | **no**: shared budget |
| `server_refused` | does an expired entry leave the targets when reconcile is off? | **no**: purge without push |
| `host` | do two programs that share a host keep its files apart, its lists verified, its outcomes true, and converge? Is the table never ahead of `allow.txt`? | holds |
| `front` | who is recorded behind proxies that set, extend or pass on headers, who is blocked, and does the page keep its word? | holds |
| `front_legacy` | are headers ignored when only the legacy `trusted_proxies` are set? | **no**: nil means the defaults |

### Bounds, and why they are enough

* `store`: three CIDRs, limits 1 and 2 (a store can be over its limit by one or
  two, and is evicted from with ties and without), TTL 2, readings up to 1
  second old, clock to 4 (an entry can be recorded, refreshed, expire and come
  back). CIDRs are symmetric. The theorems remove the bounds.
* `atomicfile`: three calls and two documents; a call is made once, so three
  give a pair that overlaps and one before or after. The theorems remove the
  bounds.
* `receive`: two processes at a time, three runs, clock to 1, `max_entries` 2, and one
  envelope for each way of being accepted, filtered or rejected (`MCReceive`): one has
  more CIDRs than `max_entries`, one more entries than that but not more CIDRs. Every
  expiry falls before, at or after a reading. A third run is what can come after, or
  over, a pair that raced. Processes are symmetric. The theorems remove the bounds.
* `server`: one handler, both tickers, two CIDRs, room for one or two of them at the
  server, as it was started (so that a Record evicts, and a store is over its limit after
  a restart), and for one at the target (so that a list is refused and the next one is
  not), two Records, one fault. A fault is a failed write, a failed or
  killed receiver, a timeout of a push whose target answers in time, an ssh that outlives
  its kill, a change of a link or a crash of the server; a target that is down from the
  start needs none. Three workers can hold three lists of different age. Budget,
  `WaitDelay` and `WriteTimeout` are those of the code, 12, 2 and 15 seconds; the
  timeout is 15, which the configuration allows, as it bounds `timeout_seconds` from
  below only: it is the case in which the budget alone keeps a push in time. `Before`
  leaves one second for the rest of a handler. A handler and a fault suffice for one
  list in the hands of a process that nobody waits for, and another behind it.
* `server_targets`: two targets, each up or down and answering at once or after 7
  seconds, with the default timeout of 10: one that is slow is served behind one that is
  quick, but behind a slow or a dead one it runs into its deadline on every push,
  and `ServedConverge` claims nothing for it. One Record and no faults: how lost pushes,
  orphans and crashes are made good is the question of `server`, with one target. The
  operator uses the freeze file at any moment of it.
* `host`: the timer, one operator's run, one push at a time, one fault, one tick of
  the clock with a TTL and an envelope life of one (each may have expired by the
  time it is read again), a CIDR that the host takes and one that it does not, eight
  configurations of the puller, of which five are refused for a reason each, and two of
  the receiver. One fault is enough to lose any single step of any run, and three
  processes for a reader and two writers of one file. Deadlock is not checked: clock,
  faults and operators' runs are used up, and a behaviour may then stop.
* `front`: two handlers, so that two failures can wait for the mutex in either
  order, and can be exchanged; a window of three ticks, a wait of one, a clock up to four
  (a window, its end and the next, with readings from before it); limits off, 0, 1 and 2;
  no proxy, one or two, trusted or not, with headers of both kinds that are begun
  outside, set, extended and passed on, and a host in front that is no proxy of ours and
  sets one; every scope by query and by body.

`ServedConverge` and `Converges` of `Host` are checked only on these instances. In `host`
the configuration with source `file` keeps the gate of nft closed, so that its
`Converges` says of such a host that `allow.txt` follows the inbox, and of the kernel's
table only with source `http`.

`MaxStamp`, `MaxFaults`, `MaxRuns`, `MaxManual` and `MaxClock` only cut off behaviours. The
runs `atomicfile` and `receive` say `CHECK_DEADLOCK FALSE`: their calls and runs are
used up. In the runs of server and front deadlock is checked.

`ListStaysList` speaks of hosts where both programs name one `allow.txt`. Each
configuration is validated by itself, so nothing in the code could keep the state
path of one program from being the `allow.txt` of another. Paths are compared as the
code does it, by their spelling after `Clean`: two names of one file by a symbolic or
hard link are not covered.

### Fairness

`FairSpec` of `AuthServer` assumes that goroutines that can run do (Go's
scheduler), that the tickers tick (`time.Ticker`; a missed tick is followed by
another), and that a receiver process that is not killed ends (it reads a body
that is there and writes three files). A deadline that has passed is one way in
which a worker can go on (`TimeOut` in `Push`), and a dead link does not stop it
(`NoAnswer`). Nothing is assumed about users, the operator, the network, expiry
or faults: how long a target takes is not an assumption either, but the premise `Served`
of `ServedConverge`, which adds up what the targets in front of one take at present.
`ServedConverge` is `<>[]`: it speaks of what follows the last Record, expiry
and fault of a behaviour, all of which are bounded.

`FairSpec` of `Host` assumes that the timer elapses again and again (a systemd timer
starts the next run after the last), that the auth-server pushes (its reconcile),
and that a process that has started goes on. Operators, users, clock and faults
owe nothing.

`Front` and the modules below it have safety properties only.

### What the runs found

* **Ties** (`store_tie`): with `max_entries` reached, two Records in one second can
  evict the later one, which was just reported as recorded.
* **Files of two runs** (`receive_race`): overlapping receivers leave the state
  file of one and the `allow.txt` of the other, with no failure involved. It is a
  debug record, and the next push repairs it.
* **Budget** (`server_starved`): with the default 10 second timeout two targets that
  do not answer starve all targets after them, in every push, so that reconcile
  does not converge them. Slow targets do the same to slow ones behind them, as
  `Served` says.
* **Purge without push** (`server_refused`): a request that ends in 403 after it
  purged takes the expiry away from the purge tick. The same holds for a failed
  write (500). Reconcile, on by default, repairs it within its interval.
* **Legacy proxies** (`front_legacy`): `EffectiveClientIPHeaders` returns nil to say
  that no header counts, and `clientip.New` takes nil for "the default headers". With
  `trusted_proxies` alone the headers are consulted, contrary to the test that looks
  at the list only (config_test.go:404-405).
* **Freeze**: the freeze file is looked at once per request, so that requests past
  that line still record, although config.go:101-102 says that nothing is recorded
  while it exists. `FreezeBites` shows that it is no more than those requests, counted
  when the file is made.
* **Success that looks like failure**: a receiver that is killed after the rename of
  `allow.txt`, while it reports, has applied its list, and the server audits a failed
  push. The comment at receive.go:30-32 speaks of the errors `run` returns, for which
  `OutcomeTellsApplied` confirms it.
* **Lower limit**: a server that starts with a lower `max_entries` pushes lists of the old
  length until its next `Record`; receivers with the same lower limit reject them as a whole.
  `ServedConverge` is about lists that fit.
* **Failed apply**: puller.go:106-108 says that `runOnce` leaves the output files alone
  on any failure. When nft fails, `allow.txt` has been replaced already and the kernel
  keeps the old table; main exits with status 0. `OutcomeTells` states what does
  hold (an error before nft leaves the old list, an error of nft the new one), and
  `Converges` of `Host` that later runs of the timer bring the two together.
* **Failure budget**: around the end of a window a client gets twice the configured
  failures through, as fixed windows do. In a full minute it may be three times as many:
  the cleanup that another client's failure starts removes a window, and a failure
  whose clock was read before that begins the next window with its older reading.
  `BudgetHolds` is the bound that does hold, twice in a minute less two waits for the
  mutex.
* **X-Forwarded-For**: SECURITY.md:30 speaks of the first valid address; the code takes
  the last one that is not a trusted proxy, and `RecordsOrigin` is why that is
  right: the mutant that follows the document (`FirstForwarded`) violates it.

## 4. Proofs

`StoreProofs` proves every property of run `store` for all values of the constants
(`StoreConstants`: finitely many CIDRs, a TTL of at least a second;
`RunConstants`: positive limits). The invariant is

    StoreInv == TypeOK /\ DiskAgrees /\ NeverPermanent /\ AckedSurvives

`AckedSurvives` is not inductive by itself: that `Record` does not shorten a
promise by more than `MaxLag` needs the bound `acked[c] <= clock + TTL` of
`NeverPermanent`; that a restart keeps it needs that it speaks of file and memory
alike; and that a failed `Purge` keeps it is because what expired at a reading
not older than `MaxLag` is beyond the slack. `RecordShape` says what one `Record`
leaves of memory, whichever entries it evicts; `EvictionMakesRoom` that it leaves
at most `limit`. The three action properties follow from the invariant and these
lemmas, one step per action. `StoreIsWhitelist` is the refinement. Its hard step is
`Record`: it works with a reading up to `MaxLag` old, so that entries it deletes as
expired and entries it still counts differ from those at the present time. What it takes
from others was live, therefore not expired at the reading, therefore evicted; then the
store is full of entries seen no earlier, which by `NeverPermanent` end no sooner and are
all live: exactly `limit` grants remain.

`AtomicFileProofs` proves `TargetWhole` and `OnlySuccessShows` from

    FileInv == TypeOK /\ ReadyToRename /\ TargetWhole /\ NoLitter /\ OnlySuccessShows /\ HasDoc

for any number of calls: `ReadyToRename` says that a temporary file is complete
and synced when its call comes to the rename, which is what makes the target whole
after it. `FileIsRegister` is the refinement: with `DocOf(target)` for the
register's value, initial states map to initial states and every system call to a
write, to a power failure or to a stutter.

`ReceiveProofs` proves three properties of run `receive` for any number of processes,
runs and envelopes (`ReceiveConstants`: an envelope's entries are finitely many):

    TypeInv  == TypeOK /\ Judged
    RunInv   == Numbered /\ Owned /\ Progress /\ OutcomeTellsApplied
    OrderInv == overlap = {} => Alone

`Judged` (a process past its verdict has an accepted envelope) makes what it writes
well typed and gives `AllowIsVerified`; that the list is within `max_entries` although
the check counts entries and the file holds CIDRs is `CidrsBounded`. `OutcomeTellsApplied`
needs `Owned` (no two processes share a run, or one could spoil the books of the
other), which in turn needs `Numbered` for the run that starts. `RecordsComeFirst`
needs `Alone`: the only active run is the latest, and the files before the one it
writes next are its own.

`AloneMeansAgreement` is proved from `LastInv`: what the latest run has done so
far, and that it is untouched while that run is alone.

`FileIsAllowList` is the refinement: `Deciding` relates the lists on their way before and
after a step of one process (`SettledBut` those of the others), so that `Verify` settles,
`WriteAllow` replaces by a list that was settled, and errors and kills lose.

`AuthServerProofs` proves the four safety properties of `AuthServer` for any number of
handlers, targets (also with repetitions in the order), CIDRs and faults and for any
timeouts (`ServerConstants`: the time before a push, the budget and `WaitDelay` fit
into `WriteTimeout`). The invariant is

    IInv == WorkOK /\ ListsOK /\ TargetsOK /\ Awaited /\ Solitary /\ AnswersMatch

`WorkOK` ties each worker's step to its place in the loop over the targets and says
that it is still in the loop only while the budget is positive: what is left is
therefore at least `-WaitDelay` at the end, which is `AnsweredInTime`. `FreezeBites`
is not inductive: `Record` adds to `since` without looking at the freeze file. `Awaited`
counts the requests that are past the check (`Pending`) with it: while the server is
frozen, `since` and those are together at most `past`, because none joins them.
`AnswersMatch` needs `Solitary`: with two processes of one worker the answer of one would
leave the other behind unowned.

`TargetsHoldLists` maps every step to each target's list (a connection settles, the rename
replaces, a deadline, an error or a restart loses or leaves as it is). That no list is
over `TargetLimit` is by `Connect`: what a process keeps is a part of an envelope the
receiver has let pass, whatever limit the server had. `StoreIsWhitelist` maps them to the
store. `Dated` says that nothing in store or file has a stamp from the future, and is
inductive together with `IInv`. `RecordedDrops` is the step: what a `Record` takes away is
`Excess` many, and no kept entry is older; with those that are not expired that makes the
grants of `Whitelist` that end first, as few of them as there is no room for, also when
the store was over its limit. With Records for ticks no interleaving of handlers, tickers
and crashes is seen in it.

`HostProofs` proves the four safety properties of `Host` for any number of
receivers and operators and for every pair of configurations that the loaders
accept:

    HostInv == ConfigOK /\ DataOK /\ RunsOK

`ConfigOK` is what validation gives: paths that are set and, cleaned, differ.
`DataOK` says that no envelope, in a process or in a file, holds an entry that
outlives what the server granted (`Honest`); grants only grow, so it stays true of
old files, and with the test of freshness it gives `ListsAreVerified`. `RunsOK` keeps
the books of each process: what it has replaced by the step it is at.
`ListStaysList` is then one line per write, by `ConfigOK`.
`FileIsList` and `KernelIsList` are the refinements, the first where the two
configurations agree on `allow.txt`: `FileRule` and `KernelRule` say what a step of one
process does to the lists on their way, and `ConfigOK` that no write of another file is
seen by either.

`FrontProofs` proves `TypeOK`, `RecordsOrigin`, `WindowFixed` and `PageTells` for any
documents that validate, any requests, proxies and addresses. `TypeInv` adds to `TypeOK` that
the configuration comes from a loaded document and every visit from the crowd; part of
it is what a validated configuration promises to the other modules. `OriginIsTaken`
goes through the headers in the order in which they are consulted: under `ProxiesTell`
the first one with a usable address is one that was passed on, and then that address is
`Hearsay`, or has that of the last stranger, for `X-Forwarded-For` because `Extract` takes the last address that is no proxy of ours,
whatever a client began the header with. No failure moves a window before the minute
since it began is over (`WindowsAreFixed`). `PageInv` relates what the page of a visit
said to the request that led to it; `FormKeepsWord` that the form's request has the same
client and the announced width.

`LimiterProofs` proves `BudgetHolds` and `BlockedEarned`, from

    LimiterInv == TypeInv /\ Readings /\ Windows /\ Apart /\ Earned

`Readings`: a reading is at most `MaxWait` old, and windows begin with one. `Windows`: a
failure that got through lies in its window, which still stands or has been swept away
after its end. `Apart`: two windows of a client begin almost a minute apart, and no two
failures of a window have the same number. `Earned`: the failures of a window are
numbered without gaps, so that whoever is turned away has a full window behind him.
`TwoWindows` concludes that an interval of a minute less two waits meets two windows at
most, each with `failures` records at most; that is a bound on a cardinality, proved by
an injection into numbers, because induction over the set is out of reach.

Every invariant, action property and refinement that a run checks is a theorem. Only
model-checked are `HandlersFinish`, `ServedConverge` and `Converges` of `Host`: liveness
under fairness is out of reach of the prover. What the runs find violated is shown by the
counterexample.

## 5. Not modelled

* Notifications (`notify.go`): a send is started and forgotten, and nothing reads what
  became of it. `wait` is never called (listed as a hazard).
* `scripts/ddns-whitelist-sync.sh`: a program of its own, for another table, that
  shares no file with the others.
* `GET /allow.txt`: a read of the store that nothing in the repository uses.
* The text of CIDRs: `CanonicalCIDR` is the constant `Canon`, so that which spellings it
  takes is not examined; nor is the spelling of paths (`Clean`) or of proxy networks
  (`Covers`), which are library functions.
* Cryptography (a signature is a flag), JSON syntax, HTML, the text of the nft
  rules, the argument list of ssh, the audit log, the version string, and the
  install, build, package and preflight scripts: no state that other parts read, or
  run once by an operator.

## 6. Plan

Done, in this order: `StoreOps`/`Store` and proofs; `AtomicFile`/`Register` and proofs;
`Pipeline`/`Receive` and proofs; `AuthServer`; the configuration modules; `Host` and
proofs; `ClientIP`/`Front`; the time budget of a push in `AuthServer`; proofs for
`AuthServer` and `Front`, with type correctness and the limiter; the refinements of
`AllowList` and `Whitelist`.

1. The orderly shutdown of main with requests and notifications in flight, as a module
   of its own: `wait` of notify.go against what main does.
2. Safety lemmas on the way to `ServedConverge`: that a worker whose pushes all succeed
   leaves every target with the list it had built.
