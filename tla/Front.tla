------------------------------- MODULE Front --------------------------------
(* What cmd/auth-server does with a request before the store is touched:      *)
(* configuration, source address, credentials, failure limiter, confirmation  *)
(* page and the CIDR to record.  AuthServer.tla goes on from there.           *)
EXTENDS ClientIP, FiniteSets, Functions

CONSTANTS
  Handler,     \* visits at the same time
  ServerDocs,  \* configuration files
  Crowds,      \* sets of requests; those of one come in a behaviour.  A request
               \* is [path, good, post, query, body, sent, passed]: the hosts on
               \* its way, the browser's first and the server's peer last; are
               \* credentials right, is it a POST, ?scope=, the form's scope, its
               \* headers, and which of them our proxies passed on as received
  Minute,      \* the limiter's window, in ticks of the clock
  MaxWait,     \* the ticks a request may wait for the limiter's mutex
  MaxClock     \* bound of the model: the clock stops here

ASSUME FrontConstants ==
  /\ Minute \in Nat \ {0} /\ MaxWait \in 0 .. Minute - 1
  /\ MaxClock \in Nat
  /\ NoIP \notin Addr /\ V4 \subseteq Addr
  /\ \A c \in Crowds : \A r \in c :
       /\ DOMAIN r = {"path", "good", "post", "query", "body", "sent", "passed"}
       /\ r.path \in Seq(Addr \cup {NoIP}) /\ r.path # <<>>
       /\ \A name \in DOMAIN r.sent : r.sent[name] \in Seq(Addr \cup {NoIP})

\* in Go the types of the fields see to it
ASSUME FieldsAreTyped ==
  \A d \in ServerDocs :
    /\ \A f \in {"ttl", "max", "timeout", "failures"} \cap DOMAIN d : d[f] \in Int
    /\ \A f \in {"limit", "expand"} \cap DOMAIN d : d[f] \in BOOLEAN
    /\ "headers" \in DOMAIN d => d.headers \in Seq(STRING)

Peer(r) == r.path[Len(r.path)]

\* the hosts on the way that are no proxies of ours
Strangers(r, c) == {i \in DOMAIN r.path : ~Trusts(EffectiveProxies(c), r.path[i])}

\* the X-Forwarded-For of proxies that append their peer to what they get, or
\* of one that puts its peer in the place of that: from host o on, it is true
ForwardedTells(value, r, o) ==
  value # <<>> =>
    \E k \in 0 .. Len(value) :
      SubSeq(value, k + 1, Len(value)) = SubSeq(r.path, o, Len(r.path) - 1)

(* What proxies of ours have to do with the headers that are read, for a      *)
(* request that comes over them from somebody else.  They append to           *)
(* X-Forwarded-For or replace it, and set a header of one address to the host *)
(* they had the request from, or else pass it on as received: those of        *)
(* docs/public-deployment.md:137 and 150 do that with CF-Connecting-IP, and   *)
(* then whoever set it last is all there is behind it.                        *)
Vouched(r, c) ==
  Trusts(EffectiveProxies(c), Peer(r)) =>
    \E o \in Strangers(r, c) :
      /\ r.path[o] \in Addr
      /\ \A i \in Strangers(r, c) : i <= o
      /\ \A name \in DOMAIN r.sent \cap Range(Headers(EffectiveHeaders(c, DefaultHeaders))) :
           IF name = "X-Forwarded-For"
           THEN ForwardedTells(r.sent[name], r, o)
           ELSE name \in r.passed \/ SingleIP(r.sent[name]) \in {NoIP, Usable(r.path[o])}

ASSUME ProxiesTell ==
  \A d \in ServerDocs :
    Decodes(d, ServerPreset) /\ ServerValid(LoadServer(d)) =>
      \A c \in Crowds : \A r \in c : Vouched(r, LoadServer(d))

VARIABLES
  clock,
  cfg,
  crowd,       \* the requests that come
  buckets,     \* failureLimiter.buckets
  step,        \* per handler: idle, at the limiter's lock, what was answered, or
               \* that the browser shows the confirmation page
  req,         \* per handler: its request, or the one that led to the page
  shown,       \* per handler: what the page says
  now,         \* per handler: the clock as it read it for the limiter
  admitted     \* history: the failures that were counted and answered with 401:
               \* whose, the how manieth of that client, at which reading, in
               \* which window and the how manieth there

conf  == <<cfg, crowd>>
visit == <<req, shown>>
vars  == <<clock, cfg, crowd, buckets, step, req, shown, now, admitted>>

Keys  == Addr \cup {NoIP}
Times == 0 .. MaxClock
NoRequest == [path |-> <<>>]
NoPage == [bits |-> 0, query |-> ""]
Answers == {"401", "429", "503", "400", "403", "page", "recorded"}

\* what validated configurations promise to AuthServer.tla comes first
TypeOK ==
  /\ cfg.ttl > 0 /\ cfg.max > 0 /\ cfg.timeout > 0
  /\ cfg.push => cfg.targets # <<>> /\ \A s \in cfg.reconcile : s >= 0
  /\ clock \in Times
  /\ DOMAIN buckets \subseteq Keys
  /\ \A k \in DOMAIN buckets : buckets[k] \in [start : Times, count : 1 .. cfg.failures + 1]
  /\ step \in [Handler -> {"idle", "lock", "form"} \cup Answers]
  /\ \A h \in Handler : step[h] = "idle" <=> req[h] = NoRequest
  /\ shown \in [Handler -> [bits : {0, 24, 32, 128}, query : {"", "24"}]]
  /\ now \in [Handler -> Times]
  /\ admitted \subseteq [client : Keys, nth : Nat \ {0}, at : Times, start : Times,
                          count : 1 .. cfg.failures]

(* main and newServer.                                                        *)
Init ==
  /\ clock = 0
  /\ \E d \in ServerDocs :
       /\ Decodes(d, ServerPreset) /\ ServerValid(LoadServer(d))
       /\ cfg = LoadServer(d)
  /\ crowd \in Crowds
  /\ buckets = <<>>
  /\ step = [h \in Handler |-> "idle"]
  /\ req = [h \in Handler |-> NoRequest]
  /\ shown = [h \in Handler |-> NoPage]
  /\ now = [h \in Handler |-> 0]
  /\ admitted = {}

-----------------------------------------------------------------------------
(* handleRoot, what it computes.                                              *)

Client(r) ==
  Extract(Peer(r), r.sent, Headers(EffectiveHeaders(cfg, DefaultHeaders)),
          EffectiveProxies(cfg))

\* mutant: failures are counted for the peer
PeerKey(r) == Peer(r)

RateKey(r) == Client(r)

\* requestedScope
Scope(r) == IF r.query = "" /\ r.post THEN r.body ELSE r.query

\* renderAuthForm: what the page says will be recorded, and the form's action
PageUnasked(r) ==
  IF Client(r) \notin V4 THEN [bits |-> 128, query |-> ""]
  ELSE IF Scope(r) = "24" THEN [bits |-> 24, query |-> "24"]
  ELSE [bits |-> 32, query |-> ""]

Page(r) ==
  IF Client(r) \notin V4 THEN [bits |-> 128, query |-> ""]
  ELSE IF cfg.expand /\ Scope(r) = "24" THEN [bits |-> 24, query |-> "24"]
  ELSE [bits |-> 32, query |-> ""]

\* of a POST: the CIDR handed to Record
Recorded(r) == CIDRForRequest(Client(r), cfg.expand /\ Scope(r) = "24", cfg)

-----------------------------------------------------------------------------
Goto(h, next) == step' = [step EXCEPT ![h] = next]

(* A request with the right credentials: it does not come near the limiter.   *)
(* The freeze file may be there at any time.                                  *)
Serve(h, r) ==
  /\ \/ Goto(h, "503")
     \/ Client(r) = NoIP /\ Goto(h, "400")
     \/ Client(r) # NoIP /\ ~r.post /\ Goto(h, "page")
     \/ Client(r) # NoIP /\ r.post /\ Recorded(r) = Refused /\ Goto(h, "403")
     \/ Client(r) # NoIP /\ r.post /\ Recorded(r) # Refused /\ Goto(h, "recorded")
  /\ req' = [req EXCEPT ![h] = r]
  /\ UNCHANGED <<clock, conf, buckets, shown, now, admitted>>

Visit(h, r) == step[h] = "idle" /\ r.good /\ Serve(h, r)

\* the form of the page, sent from where the page was asked for: its action has
\* the query, its body is empty
Submit(h) ==
  /\ step[h] = "form"
  /\ Serve(h, [req[h] EXCEPT !.post = TRUE, !.query = shown[h].query, !.body = ""])

(* A request with wrong credentials: the clock is read, then the limiter's    *)
(* mutex is waited for.  404 and 405 come before and change nothing.          *)
Fail(h, r) ==
  /\ step[h] = "idle"
  /\ ~r.good
  /\ Goto(h, "lock")
  /\ req' = [req EXCEPT ![h] = r]
  /\ now' = [now EXCEPT ![h] = clock]
  /\ UNCHANGED <<clock, conf, buckets, shown, admitted>>

\* mutant: a bucket is dropped with the minute it began in
KeptShort(t) == Restrict(buckets, {k \in DOMAIN buckets : t - buckets[k].start < 1})

\* cleanupExpiredLocked
Kept(t) == Restrict(buckets, {k \in DOMAIN buckets : t - buckets[k].start < Minute})

\* max + 1 stands for every count over max
Incremented(n) == IF n > cfg.failures THEN n ELSE n + 1

\* mutant: every failure starts the window again
CountedSliding(k, t) ==
  LET old == Kept(t) IN
    [i \in DOMAIN old \cup {k} |->
       IF i # k THEN old[i]
       ELSE [start |-> t, count |-> IF k \in DOMAIN old THEN Incremented(old[k].count) ELSE 1]]

\* blocked: the failure is counted, in its window or in a new one
Counted(k, t) ==
  LET old == Kept(t) IN
    [i \in DOMAIN old \cup {k} |->
       CASE i # k                      -> old[i]
         [] i = k /\ k \in DOMAIN old -> [start |-> old[k].start, count |-> Incremented(old[k].count)]
         [] OTHER                      -> [start |-> t, count |-> 1]]

Over(b) == b.count > cfg.failures

\* the failures of client k that got through
Of(k) == {x \in admitted : x.client = k}

\* another one, read at t and counted in bucket b
Admit(k, t, b) ==
  admitted' = admitted \cup {[client |-> k, nth |-> Cardinality(Of(k)) + 1, at |-> t,
                             start |-> b.start, count |-> b.count]}

(* A failure is counted and answered with 401, or with 429 if that makes too  *)
(* many in its window; a limiter that is off counts nothing.                  *)
Limit(h) ==
  LET k == RateKey(req[h])
      counted == Counted(k, now[h])
  IN
    /\ step[h] = "lock"
    /\ IF cfg.limit /\ cfg.failures > 0
       THEN /\ buckets' = counted
            /\ IF Over(counted[k])
               THEN Goto(h, "429") /\ UNCHANGED admitted
               ELSE Goto(h, "401") /\ Admit(Client(req[h]), now[h], counted[k])
       ELSE Goto(h, "401") /\ UNCHANGED <<buckets, admitted>>
    /\ UNCHANGED <<clock, conf, visit, now>>

End(h) ==
  /\ Goto(h, "idle")
  /\ req' = [req EXCEPT ![h] = NoRequest]
  /\ shown' = [shown EXCEPT ![h] = NoPage]
  /\ now' = [now EXCEPT ![h] = 0]
  /\ UNCHANGED <<clock, conf, buckets, admitted>>

\* the page arrives, and the user thinks about it
Show(h) ==
  /\ step[h] = "page"
  /\ Goto(h, "form")
  /\ shown' = [shown EXCEPT ![h] = Page(req[h])]
  /\ UNCHANGED <<clock, conf, buckets, req, now, admitted>>

\* any other response is sent, or the page is closed
Reply(h) == step[h] \in (Answers \ {"page"}) \cup {"form"} /\ End(h)

Tick ==
  /\ clock < MaxClock
  /\ \A h \in Handler : step[h] = "lock" => clock - now[h] < MaxWait
  /\ clock' = clock + 1
  /\ UNCHANGED <<conf, buckets, step, visit, now, admitted>>

Next ==
  \/ \E h \in Handler, r \in crowd : Visit(h, r) \/ Fail(h, r)
  \/ \E h \in Handler : Submit(h) \/ Limit(h) \/ Show(h) \/ Reply(h)
  \/ Tick

Spec == Init /\ [][Next]_vars

-----------------------------------------------------------------------------
\* the last host on the request's way that is not a proxy of ours
Origin(r) ==
  LET hops == Strangers(r, cfg) IN
    IF hops = {} THEN NoIP ELSE r.path[CHOOSE i \in hops : \A j \in hops : j <= i]

\* what the headers say that are read and were passed on as received
Hearsay(r) ==
  {SingleIP(r.sent[name]) :
     name \in r.passed \cap DOMAIN r.sent
                       \cap Range(Headers(EffectiveHeaders(cfg, DefaultHeaders)))}

(* Who is recorded is the last host on the request's way that is not a proxy  *)
(* of ours, or the peer itself when no header tells ("the recorded IP is      *)
(* ALWAYS the request source IP", server.go:150); only where our own proxies  *)
(* pass a header of one address on as received is it, instead, what that      *)
(* header says, and from any other peer no header counts.                     *)
RecordsOrigin ==
  \A h \in Handler : req[h] # NoRequest =>
    LET r == req[h] IN
      \/ Client(r) \in {Origin(r), Peer(r)}
      \/ Trusts(EffectiveProxies(cfg), Peer(r)) /\ Client(r) \in Hearsay(r)

(* The confirmation page keeps its word: the form it shows, submitted from    *)
(* the same place, records a CIDR of the announced width if it records one,   *)
(* whatever ?scope= there was and whatever the configuration makes of it.     *)
PageTells ==
  \A h \in Handler : step[h] = "recorded" /\ shown[h] # NoPage =>
    Recorded(req[h]).bits = shown[h].bits

\* of client k, with readings in a set of times
Failures(k, T) == Cardinality({x \in Of(k) : x.at \in T})

(* A request is turned away with 429 only for what its own address has done:  *)
(* that address got the allowed number of failures within a minute, give or   *)
(* take the wait for the mutex.                                               *)
BlockedEarned ==
  \A h \in Handler : step[h] = "429" =>
    LET far == Minute - 1 + MaxWait IN
      Failures(Client(req[h]), now[h] - far .. now[h] + far) >= cfg.failures

(* Fixed windows let at most twice the configured failures of a client        *)
(* through in a minute, less twice the wait for the mutex.  In a full minute  *)
(* it may be three times as many: another client's failure sweeps a window    *)
(* away, and one that was read before that begins the next.                   *)
BudgetHolds ==
  cfg.limit /\ cfg.failures > 0 =>
    \A k \in Keys, t \in Times :
      Failures(k, t .. t + Minute - 2 * MaxWait) <= 2 * cfg.failures

(* Trying on does not prolong a block: no failure moves a window before the   *)
(* minute since it began is over.                                             *)
WindowFixed ==
  [][\A k \in DOMAIN buckets \cap DOMAIN buckets' :
       buckets'[k].start # buckets[k].start =>
         buckets'[k].start >= buckets[k].start + Minute]_vars

(* "legacy trusted_proxies alone must not enable default headers"             *)
(* (config_test.go:404): with no header list and no trusted_proxy_cidrs the   *)
(* peer is recorded.                                                          *)
LegacyEnablesNoHeaders ==
  cfg.proxies = <<>> /\ cfg.headers = <<>> /\ cfg.real = "" =>
    \A h \in Handler : req[h] # NoRequest => Client(req[h]) = Peer(req[h])
=============================================================================
