--------------------------- MODULE LimiterProofs ----------------------------
(* What the failure limiter of Front lets through and what it blocks, for any *)
(* number of clients and requests, any limit and any window.  Windows of one  *)
(* client may stand closer than a minute, because requests are counted in     *)
(* another order than they were read in and any request sweeps all windows:   *)
(* the invariant says how much closer, and what is known of a window that is  *)
(* gone.                                                                      *)
EXTENDS FrontProofs

InWindow(t, start) == start - MaxWait <= t /\ t <= start + Minute - 1

\* its window still stands
Open(x) == x.client \in DOMAIN buckets /\ buckets[x.client].start = x.start

Readings ==
  /\ \A h \in Handler : step[h] = "lock" => clock - MaxWait <= now[h] /\ now[h] <= clock
  /\ \A k \in DOMAIN buckets : buckets[k].start <= clock

Windows ==
  \A x \in admitted :
    /\ InWindow(x.at, x.start)
    /\ Open(x) => x.count <= buckets[x.client].count
    /\ ~Open(x) =>
         /\ x.start + Minute <= clock
         /\ x.client \in DOMAIN buckets =>
              buckets[x.client].start >= x.start + Minute - MaxWait

Apart ==
  \A x, y \in admitted : x.client = y.client =>
    /\ x.start < y.start =>
         /\ y.start >= x.start + Minute - MaxWait
         /\ y.at >= x.start + Minute - MaxWait
    /\ x.start = y.start /\ x.count = y.count => x = y

\* the first n of a window's failures got through
Full(k, start, n) ==
  \A i \in 1 .. cfg.failures : i <= n =>
    \E x \in admitted : x.client = k /\ x.start = start /\ x.count = i

Earned ==
  /\ \A k \in DOMAIN buckets : Full(k, buckets[k].start, buckets[k].count)
  /\ \A h \in Handler : step[h] = "429" =>
       \E s \in Times : InWindow(now[h], s) /\ Full(Client(req[h]), s, cfg.failures)

LimitInv == Readings /\ Windows /\ Apart /\ Earned

\* inductive
LimiterInv == TypeInv /\ LimitInv

-----------------------------------------------------------------------------
(* The numbers that are compared.                                             *)
LEMMA Numbers ==
  ASSUME TypeInv
  PROVE  /\ Minute \in Nat /\ MaxWait \in Nat /\ MaxWait < Minute /\ clock \in Nat
         /\ cfg.failures \in Int
         /\ \A k \in DOMAIN buckets : buckets[k].start \in Nat /\ buckets[k].count \in Nat
         /\ \A h \in Handler : now[h] \in Nat
         /\ \A x \in admitted :
              /\ x.client \in Keys /\ x.at \in Nat /\ x.start \in Nat
              /\ x.count \in 1 .. cfg.failures
<1>1. /\ clock \in Times /\ \A h \in Handler : now[h] \in Times
      /\ \A k \in DOMAIN buckets : buckets[k] \in [start : Times, count : 1 .. cfg.failures + 1]
      /\ admitted \subseteq [client : Keys, nth : Nat \ {0}, at : Times, start : Times,
                            count : 1 .. cfg.failures]
  BY DEF TypeInv, TypeOK
<1>2. Times \subseteq Nat /\ Minute \in Nat /\ MaxWait \in Nat /\ MaxWait < Minute
  BY FrontConstants DEF Times
<1>3. cfg.failures \in Int
  BY Configured DEF TypeInv
<1>4. \A x \in admitted : /\ x.client \in Keys /\ x.at \in Times /\ x.start \in Times
                          /\ x.count \in 1 .. cfg.failures
  BY <1>1
<1>5. \A k \in DOMAIN buckets : buckets[k].start \in Times /\ buckets[k].count \in Nat
  BY <1>1, <1>3
<1> QED
  BY <1>1, <1>2, <1>3, <1>4, <1>5

\* handler h counts a failure of client k, read at t, and that makes bucket b
Counts(h, k, t, b) ==
  /\ Limit(h) /\ cfg.limit /\ cfg.failures > 0
  /\ k = Client(req[h]) /\ t = now[h]
  /\ buckets' = Counted(k, t) /\ b = Counted(k, t)[k]

\* ... one window at a time
Outcome(h, k, t, b) ==
  /\ t \in Nat /\ clock - MaxWait <= t /\ t <= clock
  /\ DOMAIN buckets' = Standing(t) \cup {k} /\ buckets'[k] = b
  /\ \A i \in Standing(t) \ {k} : buckets'[i] = buckets[i]
  /\ k \in Standing(t) => /\ b.start = buckets[k].start
                         /\ b.count = Incremented(buckets[k].count)
  /\ k \notin Standing(t) => b.start = t /\ b.count = 1
  /\ Standing(t) = {i \in DOMAIN buckets : t < buckets[i].start + Minute}
  /\ UNCHANGED <<clock, cfg, req, now>>
  /\ \/ Over(b) /\ step' = [step EXCEPT ![h] = "429"] /\ UNCHANGED admitted
     \/ ~Over(b) /\ step' = [step EXCEPT ![h] = "401"] /\ Admit(k, t, b)

(* A counting is what Limit does.                                             *)
LEMMA Counting ==
  ASSUME TypeInv, Readings, NEW h \in Handler, NEW k, NEW t, NEW b, Counts(h, k, t, b)
  PROVE  Outcome(h, k, t, b)
<1> DEFINE c == Counted(k, t)
<1>1. /\ DOMAIN c = Standing(t) \cup {k}
      /\ \A i \in Standing(t) \ {k} : c[i] = buckets[i]
      /\ k \in Standing(t) =>
           c[k] = [start |-> buckets[k].start, count |-> Incremented(buckets[k].count)]
      /\ k \notin Standing(t) => c[k] = [start |-> t, count |-> 1]
  BY CountedIs
<1>2. buckets' = c /\ b = c[k] /\ t = now[h] /\ step[h] = "lock"
  BY DEF Counts, Limit
<1>3. t \in Nat /\ clock - MaxWait <= t /\ t <= clock
  BY <1>2, Numbers DEF Readings
<1>4. \A i \in DOMAIN buckets : i \in Standing(t) <=> t < buckets[i].start + Minute
  <2> SUFFICES ASSUME NEW i \in DOMAIN buckets
               PROVE  t - buckets[i].start < Minute <=> t < buckets[i].start + Minute
    BY DEF Standing
  <2>1. t \in Int /\ buckets[i].start \in Int /\ Minute \in Int
    BY <1>3, Numbers
  <2> QED
    BY <2>1
<1>5. UNCHANGED <<clock, cfg, req, now>>
  BY DEF Counts, Limit, conf, visit
<1>6. \/ Over(c[k]) /\ step' = [step EXCEPT ![h] = "429"] /\ UNCHANGED admitted
      \/ ~Over(c[k]) /\ step' = [step EXCEPT ![h] = "401"] /\ Admit(k, t, c[k])
  BY DEF Counts, Limit, Goto, RateKey
<1>7. Standing(t) = {i \in DOMAIN buckets : t < buckets[i].start + Minute}
  BY <1>4 DEF Standing
<1> HIDE DEF c
<1> QED
  BY <1>1, <1>2, <1>3, <1>5, <1>6, <1>7 DEF Outcome

(* What is known, when a failure is counted, of the failures of that client   *)
(* that got through before: they are in the same window, or in one that is    *)
(* over, and that began a minute before the new reading, less the wait.       *)
LEMMA Before ==
  ASSUME TypeInv, Readings, Windows, NEW h \in Handler, NEW k, NEW t, NEW b, Counts(h, k, t, b),
         NEW x \in admitted, x.client = k
  PROVE  /\ x.start = b.start =>
              k \in Standing(t) /\ Open(x) /\ x.count <= buckets[k].count
         /\ x.start # b.start =>
              /\ b.start >= x.start + Minute - MaxWait
              /\ t >= x.start + Minute - MaxWait
              /\ x.start + Minute <= clock
<1>0. Outcome(h, k, t, b)
  BY Counting
<1>1. /\ t \in Nat /\ clock - MaxWait <= t /\ t <= clock
      /\ k \in Standing(t) => b.start = buckets[k].start
      /\ k \notin Standing(t) => b.start = t
      /\ \A i \in DOMAIN buckets : i \in Standing(t) <=> t < buckets[i].start + Minute
  BY <1>0 DEF Outcome
<1>6. Standing(t) \subseteq DOMAIN buckets
  BY DEF Standing
<1>2. /\ Minute \in Nat /\ MaxWait \in Nat /\ MaxWait < Minute /\ clock \in Nat
      /\ x.start \in Nat /\ \A i \in DOMAIN buckets : buckets[i].start \in Nat
  BY Numbers
<1>3. /\ Open(x) => x.count <= buckets[k].count
      /\ ~Open(x) => /\ x.start + Minute <= clock
                     /\ k \in DOMAIN buckets => buckets[k].start >= x.start + Minute - MaxWait
      /\ Open(x) <=> k \in DOMAIN buckets /\ buckets[k].start = x.start
  BY DEF Windows, Open
<1>4. CASE k \in Standing(t)
  BY <1>1, <1>2, <1>3, <1>4, <1>6
<1>5. CASE k \notin Standing(t)
  <2>1. CASE Open(x)
    BY <1>1, <1>2, <1>3, <1>5, <1>6, <2>1
  <2>2. CASE ~Open(x)
    BY <1>1, <1>2, <1>3, <1>5, <1>6, <2>2
  <2> QED
    BY <2>1, <2>2
<1> QED
  BY <1>4, <1>5

-----------------------------------------------------------------------------
(* A counting keeps the windows' relation to what got through.                *)
LEMMA CountsWindows ==
  ASSUME TypeInv, Readings, Windows, NEW h \in Handler, NEW k, NEW t, NEW b, Counts(h, k, t, b)
  PROVE  Windows'
<1>1. Outcome(h, k, t, b)
  BY Counting
<1>2. /\ Minute \in Nat /\ MaxWait \in Nat /\ MaxWait < Minute /\ clock \in Nat
      /\ \A i \in DOMAIN buckets : buckets[i].start \in Nat /\ buckets[i].count \in Nat
      /\ \A x \in admitted : x.start \in Nat /\ x.at \in Nat
      /\ cfg.failures \in Int
  BY Numbers
<1>3. Standing(t) \subseteq DOMAIN buckets
  BY DEF Standing
<1>4. clock' = clock
  BY <1>1 DEF Outcome
<1> DEFINE Good(x) ==
             /\ InWindow(x.at, x.start)
             /\ Open(x)' => x.count <= buckets'[x.client].count
             /\ ~Open(x)' =>
                  /\ x.start + Minute <= clock
                  /\ x.client \in DOMAIN buckets' =>
                       buckets'[x.client].start >= x.start + Minute - MaxWait
<1>5. ASSUME NEW x \in admitted PROVE Good(x)
  <2>1. /\ InWindow(x.at, x.start)
        /\ Open(x) => x.count <= buckets[x.client].count
        /\ ~Open(x) =>
             /\ x.start + Minute <= clock
             /\ x.client \in DOMAIN buckets =>
                  buckets[x.client].start >= x.start + Minute - MaxWait
    BY DEF Windows
  <2>2. Open(x)' <=> x.client \in DOMAIN buckets' /\ buckets'[x.client].start = x.start
    BY DEF Open
  <2>3. Open(x) <=> x.client \in DOMAIN buckets /\ buckets[x.client].start = x.start
    BY DEF Open
  <2>4. CASE x.client = k
    <3>1. /\ k \in DOMAIN buckets' /\ buckets'[k] = b
          /\ k \in Standing(t) => b.count = Incremented(buckets[k].count)
      BY <1>1 DEF Outcome
    <3>2. CASE x.start = b.start
      <4>1. k \in Standing(t) /\ x.count <= buckets[k].count
        BY <2>4, <3>2, Before
      <4>2. buckets[k].count <= Incremented(buckets[k].count)
        BY <1>2, <1>3, <4>1 DEF Incremented
      <4>3. x.count \in Nat /\ Incremented(buckets[k].count) \in Nat /\ buckets[k].count \in Nat
        BY <1>2, <1>3, <4>1, Numbers DEF Incremented
      <4>4. x.count <= buckets'[x.client].count
        BY <2>4, <3>1, <4>1, <4>2, <4>3
      <4> QED
        BY <2>1, <2>2, <2>4, <3>1, <3>2, <4>4
    <3>3. CASE x.start # b.start
      <4>1. b.start >= x.start + Minute - MaxWait /\ x.start + Minute <= clock
        BY <2>4, <3>3, Before
      <4> QED
        BY <2>1, <2>2, <2>4, <3>1, <3>3, <4>1
    <3> QED
      BY <3>2, <3>3
  <2>5. CASE x.client # k /\ x.client \in Standing(t)
    <3>1. x.client \in DOMAIN buckets' /\ buckets'[x.client] = buckets[x.client]
      BY <1>1, <2>5 DEF Outcome
    <3> QED
      BY <1>3, <2>1, <2>2, <2>3, <2>5, <3>1
  <2>6. CASE x.client # k /\ x.client \notin Standing(t)
    <3>1. x.client \notin DOMAIN buckets'
      BY <1>1, <2>6 DEF Outcome
    <3>2. CASE Open(x)
      <4>1. ~(t < buckets[x.client].start + Minute) /\ t <= clock /\ t \in Nat
        BY <1>1, <2>3, <2>6, <3>2 DEF Outcome
      <4>2. x.start + Minute <= clock
        BY <1>2, <2>3, <3>2, <4>1
      <4> QED
        BY <2>1, <2>2, <3>1, <4>2
    <3>3. CASE ~Open(x)
      BY <2>1, <2>2, <3>1, <3>3
    <3> QED
      BY <3>2, <3>3
  <2> QED
    BY <2>4, <2>5, <2>6
<1>6. ASSUME NEW x, x.client = k, x.at = t, x.start = b.start, x.count = b.count, ~Over(b)
      PROVE  Good(x)
  <2>1. /\ k \in DOMAIN buckets' /\ buckets'[k] = b
        /\ t \in Nat /\ clock - MaxWait <= t /\ t <= clock
        /\ k \in Standing(t) => b.start = buckets[k].start /\ t < buckets[k].start + Minute
        /\ k \notin Standing(t) => b.start = t
    BY <1>1 DEF Outcome
  <2>2. Open(x)'
    BY <1>6, <2>1 DEF Open
  <2>3. k \in Standing(t) => buckets[k].start \in Nat /\ buckets[k].start <= clock
    BY <1>2, <1>3 DEF Readings
  <2>4. InWindow(t, b.start)
    BY <1>2, <2>1, <2>3 DEF InWindow
  <2>5. b.count <= b.count
    <3>1. b.count \in Int
      BY <1>1, <1>2, <1>3 DEF Outcome, Incremented
    <3> QED
      BY <3>1
  <2> QED
    BY <1>6, <2>1, <2>2, <2>4, <2>5
<1>7. CASE UNCHANGED admitted
  BY <1>4, <1>5, <1>7 DEF Windows, InWindow
<1>8. CASE ~Over(b) /\ Admit(k, t, b)
  <2> DEFINE y == [client |-> k, nth |-> Cardinality(Of(k)) + 1, at |-> t,
                   start |-> b.start, count |-> b.count]
  <2>1. admitted' = admitted \cup {y}
    BY <1>8 DEF Admit
  <2>2. y.client = k /\ y.at = t /\ y.start = b.start /\ y.count = b.count
    OBVIOUS
  <2> HIDE DEF y, Good
  <2>3. Good(y)
    BY <1>6, <1>8, <2>2
  <2>4. \A x \in admitted' : Good(x)
    BY <1>5, <2>1, <2>3
  <2> QED
    BY <1>4, <2>4 DEF Windows, InWindow, Good
<1> QED
  BY <1>1, <1>7, <1>8 DEF Outcome

(* ... and the distances of the windows.                                      *)
LEMMA CountsApart ==
  ASSUME TypeInv, Readings, Windows, Apart,
         NEW h \in Handler, NEW k, NEW t, NEW b, Counts(h, k, t, b)
  PROVE  Apart'
<1>1. Outcome(h, k, t, b)
  BY Counting
<1>2. /\ Minute \in Nat /\ MaxWait \in Nat /\ MaxWait < Minute
      /\ \A i \in DOMAIN buckets : buckets[i].start \in Nat /\ buckets[i].count \in Nat
      /\ \A x \in admitted : x.start \in Nat /\ x.at \in Nat /\ x.count \in Nat
      /\ cfg.failures \in Int
  BY Numbers
<1> DEFINE Far(x, y) ==
             x.client = y.client =>
               /\ x.start < y.start =>
                    /\ y.start >= x.start + Minute - MaxWait
                    /\ y.at >= x.start + Minute - MaxWait
               /\ x.start = y.start /\ x.count = y.count => x = y
<1>3. \A x, y \in admitted : Far(x, y)
  BY DEF Apart
<1>4. CASE UNCHANGED admitted
  BY <1>3, <1>4 DEF Apart
<1>5. CASE ~Over(b) /\ Admit(k, t, b)
  <2> DEFINE y == [client |-> k, nth |-> Cardinality(Of(k)) + 1, at |-> t,
                   start |-> b.start, count |-> b.count]
  <2>1. admitted' = admitted \cup {y}
    BY <1>5 DEF Admit
  <2>2. y.client = k /\ y.at = t /\ y.start = b.start /\ y.count = b.count
    OBVIOUS
  <2> HIDE DEF y
  <2>3. t \in Nat /\ b.start \in Nat
    BY <1>1, <1>2 DEF Outcome, Standing
  <2>4. ASSUME NEW x \in admitted, x.client = k PROVE Far(x, y) /\ Far(y, x)
    <3>1. CASE x.start = b.start
      <4>1. k \in Standing(t) /\ x.count <= buckets[k].count
        BY <2>4, <3>1, Before
      <4>2. b.count = Incremented(buckets[k].count) /\ buckets[k].count \in Nat
        BY <1>1, <1>2, <4>1 DEF Outcome, Standing
      <4>3. x.count < b.count
        BY <1>2, <1>5, <4>1, <4>2 DEF Over, Incremented
      <4> QED
        BY <1>2, <2>2, <2>3, <3>1, <4>2, <4>3
    <3>2. CASE x.start # b.start
      <4>1. b.start >= x.start + Minute - MaxWait /\ t >= x.start + Minute - MaxWait
        BY <2>4, <3>2, Before
      <4> QED
        BY <1>2, <2>2, <2>3, <3>2, <4>1
    <3> QED
      BY <3>1, <3>2
  <2>5. Far(y, y)
    BY <2>2, <2>3
  <2>6. \A x, z \in admitted' : Far(x, z)
    <3> SUFFICES ASSUME NEW x \in admitted', NEW z \in admitted', x.client = z.client PROVE Far(x, z)
      OBVIOUS
    <3>1. CASE x \in admitted /\ z \in admitted
      BY <1>3, <3>1
    <3>2. CASE x \in admitted /\ z = y
      BY <2>2, <2>4, <3>2
    <3>3. CASE x = y /\ z \in admitted
      BY <2>2, <2>4, <3>3
    <3>4. CASE x = y /\ z = y
      BY <2>5, <3>4
    <3> QED
      BY <2>1, <3>1, <3>2, <3>3, <3>4
  <2> QED
    BY <2>6 DEF Apart
<1> QED
  BY <1>1, <1>4, <1>5 DEF Outcome

(* Whom a request comes from is settled by the configuration.                 *)
LEMMA SameClient ==
  ASSUME UNCHANGED cfg, NEW h PROVE Client(req[h])' = Client(req'[h])
BY DEF Client, Peer

\* a visit that was turned away, and the window it has that from
Turned(h) ==
  step[h] = "429" =>
    \E s \in Times : InWindow(now[h], s) /\ Full(Client(req[h]), s, cfg.failures)

(* ... which stays true while it waits for its answer to be sent.             *)
LEMMA StaysTurned ==
  ASSUME admitted \subseteq admitted', UNCHANGED cfg, NEW h, Turned(h),
         step'[h] = "429" => step[h] = "429" /\ req'[h] = req[h] /\ now'[h] = now[h]
  PROVE  Turned(h)'
<1> SUFFICES ASSUME step'[h] = "429" PROVE Turned(h)'
  BY DEF Turned
<1>1. PICK s \in Times : InWindow(now[h], s) /\ Full(Client(req[h]), s, cfg.failures)
  BY DEF Turned
<1>2. PICK k : k = Client(req[h])
  OBVIOUS
<1>3. Client(req[h])' = k /\ now'[h] = now[h]
  BY <1>2, SameClient
<1>4. Full(k, s, cfg.failures)'
  BY <1>1, <1>2 DEF Full
<1>5. InWindow(now'[h], s)
  BY <1>1, <1>3
<1> QED
  BY <1>3, <1>4, <1>5 DEF Turned, Full, InWindow, Times

(* A counting keeps what the clients have earned.                             *)
LEMMA CountsEarned ==
  ASSUME TypeInv, Readings, Earned, NEW h \in Handler, NEW k, NEW t, NEW b, Counts(h, k, t, b)
  PROVE  Earned'
<1>1. Outcome(h, k, t, b)
  BY Counting
<1>2. /\ Minute \in Nat /\ MaxWait \in Nat /\ MaxWait < Minute /\ clock \in Nat
      /\ \A i \in DOMAIN buckets : buckets[i].start \in Nat /\ buckets[i].count \in Nat
      /\ cfg.failures \in Int /\ cfg.failures > 0
  BY Numbers DEF Counts
<1>3. Standing(t) \subseteq DOMAIN buckets
  BY DEF Standing
<1>4. /\ cfg' = cfg /\ req' = req /\ now' = now /\ admitted \subseteq admitted'
  BY <1>1 DEF Outcome, Admit
<1>5. Over(b) => k \in Standing(t) /\ buckets[k].count >= cfg.failures
  BY <1>1, <1>2, <1>3 DEF Outcome, Over, Incremented
<1>6. Over(b) => Full(k, b.start, cfg.failures)
  <2> SUFFICES ASSUME Over(b), NEW i \in 1 .. cfg.failures
               PROVE  \E x \in admitted : x.client = k /\ x.start = b.start /\ x.count = i
    BY DEF Full
  <2>1. k \in DOMAIN buckets /\ i <= buckets[k].count /\ b.start = buckets[k].start
    BY <1>1, <1>2, <1>3, <1>5 DEF Outcome
  <2> QED
    BY <2>1 DEF Earned, Full
<1>7. Full(k, b.start, b.count)'
  <2> SUFFICES ASSUME NEW i \in 1 .. cfg.failures, i <= b.count
               PROVE  \E x \in admitted' : x.client = k /\ x.start = b.start /\ x.count = i
    BY <1>4 DEF Full
  <2>1. CASE Over(b)
    <3>1. \E x \in admitted : x.client = k /\ x.start = b.start /\ x.count = i
      <4>1. i <= cfg.failures
        BY <1>2
      <4> QED
        BY <1>6, <2>1, <4>1 DEF Full
    <3> QED
      BY <1>4, <3>1
  <2>2. CASE ~Over(b) /\ i = b.count
    <3> DEFINE y == [client |-> k, nth |-> Cardinality(Of(k)) + 1, at |-> t,
                     start |-> b.start, count |-> b.count]
    <3>1. y \in admitted'
      BY <1>1, <2>2 DEF Outcome, Admit
    <3>2. y.client = k /\ y.start = b.start /\ y.count = i
      BY <2>2
    <3> HIDE DEF y
    <3> QED
      BY <3>1, <3>2
  <2>3. CASE ~Over(b) /\ i # b.count
    <3>1. k \in Standing(t)
      BY <1>1, <1>2, <2>3 DEF Outcome
    <3>2. b.start = buckets[k].start /\ i <= buckets[k].count
      BY <1>1, <1>2, <1>3, <2>3, <3>1 DEF Outcome, Incremented
    <3>3. \E x \in admitted : x.client = k /\ x.start = b.start /\ x.count = i
      BY <1>3, <3>1, <3>2 DEF Earned, Full
    <3> QED
      BY <1>4, <3>3
  <2> QED
    BY <2>1, <2>2, <2>3
<1>8. ASSUME NEW i \in DOMAIN buckets' PROVE Full(i, buckets[i].start, buckets[i].count)'
  <2>1. CASE i = k
    <3>1. buckets'[k] = b
      BY <1>1 DEF Outcome
    <3> QED
      BY <1>7, <2>1, <3>1 DEF Full
  <2>2. CASE i # k
    <3>1. i \in DOMAIN buckets /\ buckets'[i] = buckets[i]
      BY <1>1, <1>3, <2>2 DEF Outcome
    <3>2. Full(i, buckets[i].start, buckets[i].count)
      BY <3>1 DEF Earned
    <3> QED
      BY <1>4, <3>1, <3>2 DEF Full
  <2> QED
    BY <2>1, <2>2
<1>9. ASSUME NEW g \in Handler PROVE Turned(g)'
  <2>1. Turned(g)
    BY DEF Earned, Turned
  <2>2. DOMAIN step = Handler
    BY DEF TypeInv, TypeOK
  <2>3. CASE g = h /\ Over(b)
    <3>1. b.start \in Times /\ InWindow(t, b.start)
      <4>1. k \in DOMAIN buckets /\ b.start = buckets[k].start /\ t < b.start + Minute
        BY <1>1, <1>3, <1>5, <2>3 DEF Outcome
      <4>2. b.start \in Times /\ b.start <= clock /\ b.start \in Nat
        BY <1>2, <4>1 DEF TypeInv, TypeOK, Readings
      <4>3. clock - MaxWait <= t /\ t \in Nat
        BY <1>1 DEF Outcome
      <4> QED
        BY <1>2, <4>1, <4>2, <4>3 DEF InWindow
    <3>2. Full(k, b.start, cfg.failures)'
      BY <1>4, <1>6, <2>3 DEF Full
    <3>3. Client(req[g])' = k /\ now'[g] = t
      <4>1. k = Client(req[h]) /\ t = now[h]
        BY DEF Counts
      <4>2. Client(req[h])' = Client(req'[h])
        BY <1>4, SameClient
      <4>3. Client(req'[h]) = Client(req[h])
        BY <1>4
      <4> QED
        BY <1>4, <2>3, <4>1, <4>2, <4>3
    <3> QED
      BY <3>1, <3>2, <3>3 DEF Turned, Full, InWindow, Times
  <2>4. CASE g = h /\ ~Over(b)
    <3>1. step'[g] = "401"
      BY <1>1, <2>2, <2>4 DEF Outcome
    <3> QED
      BY <3>1 DEF Turned
  <2>5. CASE g # h
    <3>1. step'[g] = step[g] /\ req'[g] = req[g] /\ now'[g] = now[g]
      BY <1>1, <1>4, <2>2, <2>5 DEF Outcome
    <3> QED
      BY <1>4, <2>1, <3>1, StaysTurned
  <2> QED
    BY <2>3, <2>4, <2>5
<1> QED
  BY <1>8, <1>9 DEF Earned, Turned

-----------------------------------------------------------------------------
(* What the other steps leave alone: who is turned away was so before, and    *)
(* who is at the lock comes there now, or has been there for less than the    *)
(* longest wait when time goes on.                                            *)
Quiet ==
  /\ UNCHANGED <<buckets, admitted, cfg>> /\ clock' >= clock
  /\ \A g \in Handler :
       /\ step'[g] = "429" => step[g] = "429" /\ req'[g] = req[g] /\ now'[g] = now[g]
       /\ step'[g] = "lock" => clock' - MaxWait <= now'[g] /\ now'[g] <= clock'

(* A step of one visit that does not come to the limiter is of that kind.     *)
LEMMA OneIsQuiet ==
  ASSUME TypeInv, Readings, NEW h \in Handler,
         UNCHANGED <<buckets, admitted, clock, cfg>>,
         \A g \in Handler \ {h} : step'[g] = step[g] /\ req'[g] = req[g] /\ now'[g] = now[g],
         step'[h] \in {"idle", "lock", "form"} \cup (Answers \ {"429"}),
         step'[h] = "lock" => now'[h] = clock
  PROVE  Quiet
<1>1. clock \in Nat /\ MaxWait \in Nat
  BY Numbers
<1>2. ASSUME NEW g \in Handler
      PROVE  /\ step'[g] = "429" => step[g] = "429" /\ req'[g] = req[g] /\ now'[g] = now[g]
             /\ step'[g] = "lock" => clock' - MaxWait <= now'[g] /\ now'[g] <= clock'
  <2>1. CASE g = h
    BY <1>1, <2>1
  <2>2. CASE g # h
    BY <1>1, <2>2 DEF Readings
  <2> QED
    BY <2>1, <2>2
<1> QED
  BY <1>1, <1>2 DEF Quiet

(* Every step is, or counts a failure.                                        *)
LEMMA QuietOrCounts ==
  ASSUME TypeInv, Readings, [Next]_vars, ~Quiet
  PROVE  \E h \in Handler : \E k, t, b : Counts(h, k, t, b)
<1>1. /\ DOMAIN step = Handler /\ DOMAIN req = Handler /\ DOMAIN now = Handler
  BY DEF TypeInv, TypeOK, Asked
<1>2. ASSUME NEW h \in Handler, NEW r, Fail(h, r) PROVE Quiet
  <2>1. /\ UNCHANGED <<buckets, admitted, clock, cfg>>
        /\ \A g \in Handler \ {h} : step'[g] = step[g] /\ req'[g] = req[g] /\ now'[g] = now[g]
        /\ step'[h] = "lock" /\ now'[h] = clock
    BY <1>1, <1>2 DEF Fail, Goto, conf
  <2> QED
    BY <2>1, OneIsQuiet
<1>3. ASSUME NEW h \in Handler, NEW r, Serve(h, r) PROVE Quiet
  <2>1. PICK s \in {"503", "400", "page", "403", "recorded"} : step' = [step EXCEPT ![h] = s]
    BY <1>3 DEF Serve, Goto
  <2>2. req' = [req EXCEPT ![h] = r] /\ UNCHANGED <<buckets, admitted, clock, cfg, now>>
    BY <1>3 DEF Serve, conf
  <2>3. /\ \A g \in Handler \ {h} : step'[g] = step[g] /\ req'[g] = req[g] /\ now'[g] = now[g]
        /\ step'[h] = s
    BY <1>1, <2>1, <2>2
  <2> QED
    BY <2>2, <2>3, OneIsQuiet DEF Answers
<1>4. ASSUME NEW h \in Handler, Show(h) PROVE Quiet
  <2>1. /\ UNCHANGED <<buckets, admitted, clock, cfg>>
        /\ \A g \in Handler \ {h} : step'[g] = step[g] /\ req'[g] = req[g] /\ now'[g] = now[g]
        /\ step'[h] = "form"
    BY <1>1, <1>4 DEF Show, Goto, conf
  <2> QED
    BY <2>1, OneIsQuiet
<1>5. ASSUME NEW h \in Handler, End(h) PROVE Quiet
  <2>1. /\ UNCHANGED <<buckets, admitted, clock, cfg>>
        /\ \A g \in Handler \ {h} : step'[g] = step[g] /\ req'[g] = req[g] /\ now'[g] = now[g]
        /\ step'[h] = "idle"
    BY <1>1, <1>5 DEF End, Goto, conf
  <2> QED
    BY <2>1, OneIsQuiet
<1>6. ASSUME NEW h \in Handler, Limit(h), ~(cfg.limit /\ cfg.failures > 0) PROVE Quiet
  <2>1. /\ UNCHANGED <<buckets, admitted, clock, cfg, req, now>>
        /\ step' = [step EXCEPT ![h] = "401"]
    BY <1>6 DEF Limit, Goto, conf, visit
  <2>2. /\ \A g \in Handler \ {h} : step'[g] = step[g] /\ req'[g] = req[g] /\ now'[g] = now[g]
        /\ step'[h] = "401"
    BY <1>1, <2>1
  <2> QED
    BY <2>1, <2>2, OneIsQuiet DEF Answers
<1>7. ASSUME NEW h \in Handler, Limit(h), cfg.limit /\ cfg.failures > 0
      PROVE  \E k, t, b : Counts(h, k, t, b)
  <2>1. buckets' = Counted(Client(req[h]), now[h])
    BY <1>7 DEF Limit, RateKey
  <2> QED
    BY <1>7, <2>1 DEF Counts
<1>8. Tick => Quiet
  <2> SUFFICES ASSUME Tick PROVE Quiet
    OBVIOUS
  <2>1. /\ UNCHANGED <<buckets, admitted, cfg, step, req, now>> /\ clock' = clock + 1
        /\ \A g \in Handler : step[g] = "lock" => clock - now[g] < MaxWait
    BY DEF Tick, conf, visit
  <2>2. clock \in Nat /\ MaxWait \in Nat /\ \A g \in Handler : now[g] \in Nat
    BY Numbers
  <2>3. ASSUME NEW g \in Handler, step[g] = "lock"
        PROVE  clock' - MaxWait <= now'[g] /\ now'[g] <= clock'
    BY <2>1, <2>2, <2>3 DEF Readings
  <2> QED
    BY <2>1, <2>2, <2>3 DEF Quiet
<1>9. UNCHANGED vars => Quiet
  <2> SUFFICES ASSUME UNCHANGED vars PROVE Quiet
    OBVIOUS
  <2>1. UNCHANGED <<buckets, admitted, cfg, step, req, now, clock>>
    BY DEF vars, conf, visit
  <2> QED
    BY <2>1, Numbers DEF Quiet, Readings
<1> QED
  BY <1>2, <1>3, <1>4, <1>5, <1>6, <1>7, <1>8, <1>9 DEF Next, Visit, Submit, Reply

(* Every step keeps the invariant.                                            *)
LEMMA NextLimit == TypeInv /\ LimitInv /\ [Next]_vars => LimitInv'
<1> SUFFICES ASSUME TypeInv, LimitInv, [Next]_vars PROVE LimitInv'
  OBVIOUS
<1>1. Readings /\ Windows /\ Apart /\ Earned
  BY DEF LimitInv
<1>2. CASE Quiet
  <2>1. /\ UNCHANGED <<buckets, admitted, cfg>> /\ clock' >= clock
        /\ \A g \in Handler :
             /\ step'[g] = "429" => step[g] = "429" /\ req'[g] = req[g] /\ now'[g] = now[g]
             /\ step'[g] = "lock" => clock' - MaxWait <= now'[g] /\ now'[g] <= clock'
    BY <1>2 DEF Quiet
  <2>2. /\ clock \in Nat /\ clock' \in Nat /\ Minute \in Nat
        /\ \A k \in DOMAIN buckets : buckets[k].start \in Nat
        /\ \A x \in admitted : x.start \in Nat
    <3>1. clock' \in Nat
      <4>1. clock' \in Times
        BY NextTypes DEF TypeInv, TypeOK, Times
      <4> QED
        BY <4>1, FrontConstants DEF Times
    <3> QED
      BY <3>1, Numbers
  <2>3. Readings'
    BY <1>1, <2>1, <2>2 DEF Readings
  <2>4. Windows'
    <3>1. \A x : Open(x)' <=> Open(x)
      BY <2>1 DEF Open
    <3>2. \A x \in admitted : x.start + Minute <= clock => x.start + Minute <= clock'
      BY <2>1, <2>2
    <3> QED
      BY <1>1, <2>1, <3>1, <3>2 DEF Windows, InWindow
  <2>5. Apart'
    BY <1>1, <2>1 DEF Apart
  <2>6. Earned'
    <3>1. \A g \in Handler : Turned(g)'
      <4> SUFFICES ASSUME NEW g \in Handler PROVE Turned(g)'
        OBVIOUS
      <4>1. Turned(g)
        BY <1>1 DEF Earned, Turned
      <4> QED
        BY <2>1, <4>1, StaysTurned
    <3>2. \A k \in DOMAIN buckets' : Full(k, buckets[k].start, buckets[k].count)'
      BY <1>1, <2>1 DEF Earned, Full
    <3> QED
      BY <3>1, <3>2 DEF Earned, Turned
  <2> QED
    BY <2>3, <2>4, <2>5, <2>6 DEF LimitInv
<1>3. CASE ~Quiet
  <2>1. PICK h \in Handler : \E k, t, b : Counts(h, k, t, b)
    BY <1>1, <1>3, QuietOrCounts
  <2>2. PICK k, t, b : Counts(h, k, t, b)
    BY <2>1
  <2>3. Outcome(h, k, t, b)
    BY <1>1, <2>2, Counting
  <2>4. Readings'
    <3>1. ASSUME NEW g \in Handler, step'[g] = "lock"
          PROVE  clock' - MaxWait <= now'[g] /\ now'[g] <= clock'
      <4>1. DOMAIN step = Handler
        BY DEF TypeInv, TypeOK
      <4>2. step[g] = "lock" /\ now' = now /\ clock' = clock
        BY <2>3, <3>1, <4>1 DEF Outcome
      <4> QED
        BY <1>1, <4>2 DEF Readings
    <3>2. ASSUME NEW i \in DOMAIN buckets' PROVE buckets'[i].start <= clock'
      <4>1. Standing(t) \subseteq DOMAIN buckets
        BY DEF Standing
      <4> QED
        BY <1>1, <2>3, <4>1 DEF Outcome, Readings
    <3> QED
      BY <3>1, <3>2 DEF Readings
  <2> QED
    BY <1>1, <2>2, <2>4, CountsWindows, CountsApart, CountsEarned DEF LimitInv
<1> QED
  BY <1>2, <1>3

(* It holds before anybody came.                                              *)
LEMMA InitLimit == Init => LimitInv
BY DEF Init, LimitInv, Readings, Windows, Apart, Earned

-----------------------------------------------------------------------------
(* What a client gets through in a stretch of time comes from at most two of  *)
(* its windows, and of each there are at most as many as one may be had.      *)
LEMMA TwoWindows ==
  ASSUME TypeInv, Windows, Apart, cfg.failures > 0, NEW k, NEW t \in Times
  PROVE  Failures(k, t .. t + Minute - 2 * MaxWait) <= 2 * cfg.failures
<1> DEFINE F    == cfg.failures
           T    == t .. t + Minute - 2 * MaxWait
           A    == {x \in Of(k) : x.at \in T}
           Part(s) == {x \in A : x.start = s}
<1>1. /\ Minute \in Nat /\ MaxWait \in Nat /\ MaxWait < Minute /\ F \in Int /\ t \in Nat
      /\ \A x \in admitted : x.start \in Nat /\ x.at \in Nat /\ x.count \in 1 .. F
  BY Numbers, FrontConstants DEF Times
<1>2. A \subseteq admitted /\ \A x \in A : x.client = k /\ x.at \in T
  BY DEF Of
<1>3. ASSUME NEW x \in A, NEW y \in A, NEW z \in A, x.start < y.start, y.start < z.start
      PROVE  FALSE
  <2>1. /\ x.at <= x.start + Minute - 1
        /\ y.start >= x.start + Minute - MaxWait
        /\ z.at >= y.start + Minute - MaxWait
    BY <1>2, <1>3 DEF Windows, InWindow, Apart
  <2>2. x.at >= t /\ z.at <= t + Minute - 2 * MaxWait
    BY <1>1, <1>2
  <2>3. /\ x.at \in Nat /\ z.at \in Nat /\ x.start \in Nat /\ y.start \in Nat
    BY <1>1, <1>2
  <2> QED
    BY <1>1, <2>1, <2>2, <2>3
<1>4. \E s1, s2 : \A x \in A : x.start \in {s1, s2}
  <2> SUFFICES ASSUME NEW x \in A, NEW y \in A, x.start # y.start
               PROVE  \A z \in A : z.start \in {x.start, y.start}
    OBVIOUS
  <2> SUFFICES ASSUME NEW z \in A, z.start # x.start, z.start # y.start PROVE FALSE
    OBVIOUS
  <2>1. x.start \in Nat /\ y.start \in Nat /\ z.start \in Nat
    BY <1>1, <1>2
  <2>2. \/ x.start < y.start /\ y.start < z.start
        \/ x.start < z.start /\ z.start < y.start
        \/ y.start < x.start /\ x.start < z.start
        \/ y.start < z.start /\ z.start < x.start
        \/ z.start < x.start /\ x.start < y.start
        \/ z.start < y.start /\ y.start < x.start
    BY <2>1
  <2> HIDE DEF A
  <2> QED
    BY <1>3, <2>2
<1>5. ASSUME NEW s PROVE IsFiniteSet(Part(s)) /\ Cardinality(Part(s)) <= F /\ Cardinality(Part(s)) \in Nat
  <2> DEFINE f == [x \in Part(s) |-> x.count]
  <2>1. f \in Injection(Part(s), 1 .. F)
    <3>1. \A x \in Part(s) : x \in admitted /\ x.client = k /\ x.start = s /\ x.count \in 1 .. F
      BY <1>1, <1>2
    <3>2. \A x, y \in Part(s) : x.count = y.count => x = y
      BY <3>1 DEF Apart
    <3> HIDE DEF Part, A, F
    <3> QED
      BY <3>1, <3>2 DEF Injection, IsInjective
  <2>2. IsFiniteSet(1 .. F) /\ Cardinality(1 .. F) = F
    <3>1. 1 \in Int /\ F \in Int /\ F > 0
      BY <1>1
    <3> HIDE DEF F
    <3>2. IsFiniteSet(1 .. F) /\ Cardinality(1 .. F) = IF 1 > F THEN 0 ELSE F - 1 + 1
      BY <3>1, FS_Interval
    <3> QED
      BY <3>1, <3>2
  <2> HIDE DEF f, Part, F
  <2>3. IsFiniteSet(Part(s)) /\ Cardinality(Part(s)) <= F
    BY <2>1, <2>2, FS_Injection
  <2> QED
    BY <2>3, FS_CardinalityType
<1>6. PICK s1, s2 : \A x \in A : x.start \in {s1, s2}
  BY <1>4
<1>7. A = Part(s1) \cup Part(s2)
  BY <1>6
<1> HIDE DEF Part
<1>8. IsFiniteSet(Part(s1) \cap Part(s2))
  BY <1>5, FS_Subset
<1>9. Cardinality(Part(s1) \cap Part(s2)) \in Nat
  BY <1>8, FS_CardinalityType
<1>10. Cardinality(A) = Cardinality(Part(s1)) + Cardinality(Part(s2)) - Cardinality(Part(s1) \cap Part(s2))
  BY <1>5, <1>7, FS_Union
<1>11. Failures(k, T) = Cardinality(A)
  BY DEF Failures
<1> HIDE DEF A, T, F
<1>12. Cardinality(A) <= 2 * F
  BY <1>1, <1>5, <1>9, <1>10
<1> QED
  BY <1>11, <1>12 DEF T, F

(* Whoever is turned away has had all the failures of one window.             *)
LEMMA TurnedEarned ==
  ASSUME TypeInv, Windows, NEW h \in Handler, Turned(h), step[h] = "429"
  PROVE  LET far == Minute - 1 + MaxWait IN
           Failures(Client(req[h]), now[h] - far .. now[h] + far) >= cfg.failures
<1> DEFINE F   == cfg.failures
           far == Minute - 1 + MaxWait
           k   == Client(req[h])
           B   == {x \in Of(k) : x.at \in now[h] - far .. now[h] + far}
<1>1. PICK s \in Times : InWindow(now[h], s) /\ Full(k, s, F)
  BY DEF Turned
<1> DEFINE C == {x \in B : x.start = s}
           f == [x \in C |-> x.count]
<1>2. /\ Minute \in Nat /\ MaxWait \in Nat /\ F \in Int /\ s \in Nat /\ now[h] \in Nat
      /\ \A x \in admitted : x.start \in Nat /\ x.at \in Nat /\ x.count \in 1 .. F
  BY Numbers, FrontConstants DEF Times
<1>3. ASSUME NEW i \in 1 .. F PROVE \E x \in C : x.count = i
  <2>1. i <= F
    BY <1>2
  <2>2. PICK x \in admitted : x.client = k /\ x.start = s /\ x.count = i
    BY <1>1, <2>1 DEF Full
  <2>3. InWindow(x.at, s) /\ InWindow(now[h], s) /\ x.at \in Nat
    BY <1>1, <1>2, <2>2 DEF Windows
  <2>4. x.at \in now[h] - far .. now[h] + far
    BY <1>2, <2>3 DEF InWindow
  <2> QED
    BY <2>2, <2>4 DEF Of
<1>4. IsFiniteSet(B) /\ C \subseteq B /\ \A x \in C : x.count \in 1 .. F
  <2>1. B \subseteq admitted /\ IsFiniteSet(admitted)
    BY DEF Of, TypeInv
  <2>2. IsFiniteSet(B)
    BY <2>1, FS_Subset
  <2> QED
    BY <1>2, <2>1, <2>2
<1>5. Failures(k, now[h] - far .. now[h] + far) = Cardinality(B)
  BY DEF Failures
<1>6. IsFiniteSet(1 .. F) /\ (F >= 0 => Cardinality(1 .. F) = F)
  <2>1. 1 \in Int /\ F \in Int
    BY <1>2
  <2> HIDE DEF F
  <2>2. IsFiniteSet(1 .. F) /\ Cardinality(1 .. F) = IF 1 > F THEN 0 ELSE F - 1 + 1
    BY <2>1, FS_Interval
  <2> QED
    BY <2>1, <2>2
<1> HIDE DEF B, C, F
<1>7. f \in Surjection(C, 1 .. F)
  BY <1>3, <1>4 DEF Surjection
<1>8. IsFiniteSet(C) /\ Cardinality(C) <= Cardinality(B)
  BY <1>4, FS_Subset
<1> HIDE DEF f
<1>9. Cardinality(1 .. F) <= Cardinality(C)
  BY <1>7, <1>8, FS_Surjection
<1>10. Cardinality(B) \in Nat /\ Cardinality(C) \in Nat
  BY <1>4, <1>8, FS_CardinalityType
<1>11. Cardinality(B) >= F
  BY <1>2, <1>6, <1>8, <1>9, <1>10
<1> QED
  BY <1>5, <1>11 DEF F


(* However many clients and requests there are and however they overtake each *)
(* other on their way to the mutex, a client gets at most twice the allowed   *)
(* number of failures through in a minute less twice the wait.                *)
THEOREM BudgetIsKept == Spec => []BudgetHolds
<1>1. LimiterInv => BudgetHolds
  BY TwoWindows DEF LimiterInv, LimitInv, BudgetHolds
<1>2. Init => LimiterInv
  BY InitTypes, InitLimit DEF LimiterInv
<1>3. LimiterInv /\ [Next]_vars => LimiterInv'
  BY NextTypes, NextLimit DEF LimiterInv
<1> QED
  BY <1>1, <1>2, <1>3, PTL DEF Spec

(* Nobody is turned away for what others have done: an address that gets 429  *)
(* has itself got the allowed number of failures, within a minute of that,    *)
(* give or take the wait.                                                     *)
THEOREM BlocksAreEarned == Spec => []BlockedEarned
<1>1. LimiterInv => BlockedEarned
  <2> SUFFICES ASSUME LimiterInv, NEW h \in Handler, step[h] = "429"
               PROVE  LET far == Minute - 1 + MaxWait IN
                        Failures(Client(req[h]), now[h] - far .. now[h] + far) >= cfg.failures
    BY DEF BlockedEarned
  <2>1. TypeInv /\ Windows /\ Turned(h)
    BY DEF LimiterInv, LimitInv, Earned, Turned
  <2> QED
    BY <2>1, TurnedEarned
<1>2. Init => LimiterInv
  BY InitTypes, InitLimit DEF LimiterInv
<1>3. LimiterInv /\ [Next]_vars => LimiterInv'
  BY NextTypes, NextLimit DEF LimiterInv
<1> QED
  BY <1>1, <1>2, <1>3, PTL DEF Spec
====
