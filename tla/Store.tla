-------------------------------- MODULE Store --------------------------------
(* internal/store: the TTL set of authenticated CIDRs, its copy on disk and   *)
(* the process restarts between them.                                         *)
(*                                                                            *)
(* Every method holds Store.mu from its first to its last line, so one call   *)
(* is one action.  What is not under the mutex is the clock reading: callers  *)
(* evaluate time.Now() and then wait for the lock, so a call works with a     *)
(* reading that is up to MaxLag seconds old and calls may be served in an     *)
(* order that is not the order of their readings.                             *)
EXTENDS StoreOps

CONSTANTS
  Limits,   \* the values cfg.MaxEntries takes over the restarts, after New
            \* has replaced a value that is not positive by 200
  MaxLag,   \* how old a caller's clock reading may be when it gets the lock
  MaxClock  \* bound of the model: the clock stops here

ASSUME RunConstants ==
  /\ Limits \subseteq Nat \ {0} /\ Limits # {}
  /\ MaxLag \in Nat
  /\ MaxClock \in Nat

VARIABLES
  clock,    \* wall clock, whole seconds
  entries,  \* Store.entries
  disk,     \* entries.json; a missing file loads as the empty store
  limit,    \* Store.maxEntries of the running process
  dirty,    \* history: memory changed and the last attempt to persist failed
  reply,    \* history: what Record returned, if the last step was a Record
  acked     \* history: per CIDR the expiry last confirmed to its user, 0 for none

vars == <<clock, entries, disk, limit, dirty, reply, acked>>

Empty == [c \in CIDR |-> NoEntry]

NoReply == [call |-> FALSE]

Reply == [call : {TRUE}, cidr : CIDR, ok : BOOLEAN, evicted : SUBSET CIDR]

Readings == {t \in 0 .. clock : t + MaxLag >= clock}

TypeOK ==
  /\ clock \in 0 .. MaxClock
  /\ entries \in [CIDR -> Slot]
  /\ disk \in [CIDR -> Slot]
  /\ limit \in Limits
  /\ dirty \in BOOLEAN
  /\ reply \in Reply \cup {NoReply}
  /\ acked \in [CIDR -> Nat]

Init ==
  /\ clock = 0
  /\ entries = Empty
  /\ disk = Empty
  /\ limit \in Limits
  /\ dirty = FALSE
  /\ reply = NoReply
  /\ acked = [c \in CIDR |-> 0]

-----------------------------------------------------------------------------
(* persistLocked writes a temp file and renames it, so entries.json holds the *)
(* old document or the new one, whichever step of the write fails.            *)
Persist(mem, ok) ==
  /\ disk' = IF ok THEN mem ELSE disk
  /\ dirty' = ~ok

(* What the users may still count on after a Record of c: its own expiry if   *)
(* the call succeeded, and nothing for an evicted CIDR.                       *)
Confirm(c, now, ok, evicted) ==
  acked' = [d \in CIDR |-> IF d \in evicted THEN 0
                           ELSE IF d = c /\ ok THEN now + TTL
                           ELSE acked[d]]

\* mutant: only new entries are written, a refresh stays in memory
RecordWritesNewOnly(c, now, ok) ==
  \E out \in RecordOutcomes(entries, c, now, limit) :
    /\ entries' = out.mem
    /\ IF entries[c] = NoEntry THEN Persist(out.mem, ok) ELSE UNCHANGED <<disk, dirty>>
    /\ reply' = [call |-> TRUE, cidr |-> c, ok |-> ok, evicted |-> out.evicted]
    /\ Confirm(c, now, ok, out.evicted)
    /\ UNCHANGED <<clock, limit>>

\* mutant: the write comes before the limit is enforced
RecordWritesFirst(c, now, ok) ==
  \E out \in RecordOutcomes(entries, c, now, limit) :
    /\ entries' = out.mem
    /\ Persist(Touch(entries, c, now), ok)
    /\ reply' = [call |-> TRUE, cidr |-> c, ok |-> ok, evicted |-> out.evicted]
    /\ Confirm(c, now, ok, out.evicted)
    /\ UNCHANGED <<clock, limit>>

(* Record: memory is changed before persistLocked runs, and stays changed     *)
(* when that fails; the caller then sees only the error.                      *)
Record(c, now, ok) ==
  \E out \in RecordOutcomes(entries, c, now, limit) :
    /\ entries' = out.mem
    /\ Persist(out.mem, ok)
    /\ reply' = [call |-> TRUE, cidr |-> c, ok |-> ok, evicted |-> out.evicted]
    /\ Confirm(c, now, ok, out.evicted)
    /\ UNCHANGED <<clock, limit>>

\* mutant: expired entries leave memory and stay in the file
PurgeMemoryOnly(now, ok) ==
  /\ Expired(entries, now) # {}
  /\ entries' = Drop(entries, Expired(entries, now))
  /\ reply' = NoReply
  /\ UNCHANGED <<clock, disk, dirty, limit, acked>>

(* Purge: nothing is written when nothing expired, and the error of the write *)
(* is dropped.                                                                *)
Purge(now, ok) ==
  LET gone == Expired(entries, now) IN
    /\ gone # {}
    /\ entries' = Drop(entries, gone)
    /\ Persist(Drop(entries, gone), ok)
    /\ reply' = NoReply
    /\ UNCHANGED <<clock, limit, acked>>

(* The process dies and New loads entries.json: neither the limit nor the TTL *)
(* is applied to what it finds.  The configuration may have been edited.      *)
Restart ==
  /\ entries' = disk
  /\ limit' \in Limits
  /\ dirty' = FALSE
  /\ reply' = NoReply
  /\ UNCHANGED <<clock, disk, acked>>

Tick ==
  /\ clock < MaxClock
  /\ clock' = clock + 1
  /\ reply' = NoReply
  /\ UNCHANGED <<entries, disk, limit, dirty, acked>>

Next ==
  \/ \E c \in CIDR, now \in Readings, ok \in BOOLEAN : Record(c, now, ok)
  \/ \E now \in Readings, ok \in BOOLEAN : Purge(now, ok)
  \/ Restart
  \/ Tick

Spec == Init /\ [][Next]_vars

-----------------------------------------------------------------------------
(* Unless the last write failed, a restart finds exactly what memory held: no *)
(* path of Record, eviction, Purge or load leaves the two apart.              *)
DiskAgrees == ~dirty => disk = entries

(* No entry, in memory or in the file a restart loads, outlives the TTL of    *)
(* its last authentication, and no user is told of a later expiry: nothing is *)
(* whitelisted for ever (README.md:93).                                       *)
NeverPermanent ==
  /\ \A E \in {entries, disk} : \A c \in Held(E) :
       /\ E[c].expires = E[c].seen + TTL
       /\ E[c].seen <= clock
  /\ \A c \in CIDR : acked[c] <= clock + TTL

(* "a refreshed expires_at survives a restart" (store.go:81): whatever later  *)
(* calls fail, and however often the process restarts, a confirmed and not    *)
(* evicted CIDR is in memory and in the file, for the time confirmed.  The    *)
(* slack is MaxLag: a refresh served late may carry an older reading.         *)
AckedSurvives ==
  \A c \in CIDR : acked[c] > clock + MaxLag =>
    \A E \in {entries, disk} :
      /\ E[c] # NoEntry
      /\ E[c].expires + MaxLag >= acked[c]

(* The store holds more than max_entries only because a restart, with a      *)
(* lower limit, loaded that many; such a store only shrinks, and the first    *)
(* Record brings it within the limit.                                         *)
LimitStep ==
  Cardinality(Held(entries')) > limit' =>
    \/ entries' = disk
    \/ /\ ~reply'.call
       /\ limit' = limit
       /\ Held(entries') \subseteq Held(entries)

LimitHolds == [][LimitStep]_vars

(* A live entry of another CIDR leaves the store only when Record makes room, *)
(* no more entries leave than needed, and none that was seen after one that   *)
(* stays; or it was never written and the process restarted.                  *)
LeaveStep ==
  \A c \in Live(entries, clock) : entries'[c] = NoEntry =>
    \/ dirty /\ entries' = disk
    \/ reply'.call /\ c = reply'.cidr
    \/ /\ reply'.call /\ c \in reply'.evicted
       /\ Cardinality(Held(entries')) = limit
       /\ \A k \in Held(entries') \ {reply'.cidr} : entries[c].seen <= entries[k].seen

LeavesOnlyForRoom == [][LeaveStep]_vars

(* What has left the allowlist, expired or evicted, is allowed again only by  *)
(* a new authentication - or by a restart when the write that dropped it had  *)
(* failed.                                                                    *)
ReturnStep ==
  \A c \in Live(entries', clock') \ Live(entries, clock) :
    \/ reply'.call /\ reply'.cidr = c
    \/ dirty /\ entries' = disk

ReturnsOnlyByRecord == [][ReturnStep]_vars

(* The page tells an authenticated user that its address has been recorded    *)
(* (server.go:329) whenever Record returns without an error.                  *)
RecordedIsHeld == reply.call /\ reply.ok => reply.cidr \notin reply.evicted

(* Memory and entries.json, seen through what is not expired, are the list of *)
(* Whitelist.tla and its durable copy: a Record grants its CIDR and takes     *)
(* grants of others only when the store is full, those that end first; no     *)
(* purge, failed write or restart changes a grant or makes a list that was    *)
(* never there.                                                               *)
Grants(E) == [c \in CIDR |-> IF c \in Live(E, clock) THEN E[c].expires ELSE 0]

White == INSTANCE Whitelist WITH
           Ends <- TTL .. MaxClock + TTL, Slack <- MaxLag, Rooms <- Limits, now <- clock,
           room <- limit, list <- Grants(entries), durable <- Grants(disk)

ImplementsWhitelist == White!Spec
=============================================================================
