---------------------------- MODULE FrontProofs -----------------------------
(* What holds of Front for any configuration, any requests over any proxies,  *)
(* any number of them at a time and any window of the limiter: the types, who *)
(* is recorded, the page's word and the windows.  LimiterProofs goes on with  *)
(* what the limiter lets through.                                             *)
EXTENDS Front, TLAPS, FiniteSetTheorems, SequenceTheorems

(* A set of positions that is not empty has a last one: the positions up to   *)
(* one of the set are as many as the last one says.                           *)
LEMMA GreatestExists ==
  ASSUME NEW n \in Nat, NEW S \in SUBSET (1 .. n), S # {}
  PROVE  \E m \in S : \A i \in S : i <= m
<1> DEFINE below == {j \in 1 .. n : \E i \in S : j <= i}
           c     == Cardinality(below)
<1>1. IsFiniteSet(below) /\ c \in Nat
  <2>1. IsFiniteSet(1 .. n) /\ below \in SUBSET (1 .. n)
    BY FS_Interval
  <2>2. IsFiniteSet(below)
    BY <2>1, FS_Subset
  <2> QED
    BY <2>2, FS_CardinalityType
<1>2. ASSUME NEW j \in below PROVE j <= c
  <2>1. 1 .. j \subseteq below
    OBVIOUS
  <2>2. Cardinality(1 .. j) = j
    BY FS_Interval
  <2> QED
    BY <1>1, <2>1, <2>2, FS_Subset
<1>3. below = 1 .. c
  <2>1. below \subseteq 1 .. c
    BY <1>2
  <2>2. IsFiniteSet(1 .. c) /\ Cardinality(1 .. c) = c
    BY <1>1, FS_Interval
  <2> QED
    BY <2>1, <2>2, FS_Subset
<1> HIDE DEF c
<1>4. S \subseteq below
  OBVIOUS
<1>5. c \in below
  <2>1. PICK i \in S : i \in 1 .. c
    BY <1>3, <1>4
  <2>2. c \in 1 .. c
    BY <1>1, <2>1
  <2> QED
    BY <1>3, <2>2
<1>6. PICK m \in S : c <= m
  BY <1>5
<1>7. \A i \in S : i <= c
  BY <1>3, <1>4
<1> QED
  BY <1>1, <1>6, <1>7

(* ... and a first one.                                                      *)
LEMMA LeastExists ==
  ASSUME NEW n \in Nat, NEW S \in SUBSET (1 .. n), S # {}
  PROVE  \E m \in S : \A i \in S : m <= i
<1> DEFINE T == {j \in 1 .. n : n + 1 - j \in S}
<1>1. \A i \in S : i \in 1 .. n /\ n + 1 - i \in 1 .. n /\ n + 1 - (n + 1 - i) = i
  OBVIOUS
<1>2. \A i \in S : n + 1 - i \in T
  BY <1>1
<1>3. T \in SUBSET (1 .. n) /\ T # {}
  BY <1>2
<1>4. PICK j \in T : \A i \in T : i <= j
  BY <1>3, GreatestExists
<1>5. \A i \in S : n + 1 - i <= j
  BY <1>2, <1>4
<1>6. \A i \in S : n + 1 - j <= i
  BY <1>1, <1>5
<1> QED
  BY <1>6

-----------------------------------------------------------------------------
(* What the loader makes of a file that decodes.                              *)
LEMMA Loaded ==
  ASSUME NEW d \in ServerDocs, NEW c, c = LoadServer(d)
  PROVE  /\ c.ttl > 0 /\ c.max > 0 /\ c.timeout > 0
         /\ c.failures \in Int /\ c.limit \in BOOLEAN
         /\ c.headers \in Seq(STRING)
<1> DEFINE raw == Decoded(d, ServerPreset)
<1>1. DOMAIN raw = DOMAIN ServerPreset
  BY DEF Decoded
<1>4. {"ttl", "max", "timeout", "failures", "limit", "headers"} \subseteq DOMAIN ServerPreset
  BY SMT DEF ServerPreset
<1>3. /\ raw.ttl \in Int /\ raw.max \in Int /\ raw.timeout \in Int /\ raw.failures \in Int
      /\ raw.limit \in BOOLEAN
      /\ raw.headers \in Seq(STRING)
  <2>1. \A f \in DOMAIN ServerPreset : raw[f] = IF f \in DOMAIN d THEN d[f] ELSE ServerPreset[f]
    BY SMT DEF Decoded
  <2>2. /\ ServerPreset.ttl \in Int /\ ServerPreset.max \in Int /\ ServerPreset.timeout \in Int
        /\ ServerPreset.failures \in Int /\ ServerPreset.limit \in BOOLEAN
        /\ ServerPreset.headers = <<>>
    BY SMT DEF ServerPreset
  <2>3. <<>> \in Seq(STRING)
    BY EmptySeq
  <2> HIDE DEF raw
  <2>4. /\ raw.ttl \in Int /\ raw.max \in Int /\ raw.timeout \in Int /\ raw.failures \in Int
    BY SMT, <1>4, <2>1, <2>2, FieldsAreTyped
  <2>5. raw.limit \in BOOLEAN
    BY <1>4, <2>1, <2>2, FieldsAreTyped
  <2>6. raw.headers \in Seq(STRING)
    BY <1>4, <2>1, <2>2, <2>3, FieldsAreTyped
  <2> QED
    BY <2>4, <2>5, <2>6
<1>5. c = LoadServer(d)
  OBVIOUS
<1> HIDE DEF raw
<1>2. /\ c.ttl = Positive(raw.ttl, 1209600) /\ c.max = Positive(raw.max, 200)
      /\ c.timeout = Positive(raw.timeout, 10)
      /\ c.failures = raw.failures /\ c.limit = raw.limit /\ c.headers = raw.headers
  BY SMT, <1>1, <1>4 DEF LoadServer, Decoded, raw
<1> QED
  BY SMT, <1>2, <1>3 DEF Positive

\* a request as it may come, and what is read of it
Arrived(r) ==
  /\ r.path \in Seq(Keys) /\ r.path # <<>>
  /\ \A name \in DOMAIN r.sent : r.sent[name] \in Seq(Keys)

(* The headers that are looked at are a list.                                 *)
LEMMA HeadersAreList ==
  ASSUME NEW c, c.headers \in Seq(STRING)
  PROVE  \E n \in Nat : DOMAIN Headers(EffectiveHeaders(c, DefaultHeaders)) = 1 .. n
<1> DEFINE names == Headers(EffectiveHeaders(c, DefaultHeaders))
<1>1. names \in {c.headers, <<c.real>>, DefaultHeaders}
  BY DEF Headers, EffectiveHeaders
<1>2. DOMAIN c.headers = 1 .. Len(c.headers) /\ Len(c.headers) \in Nat
  OBVIOUS
<1>3. DOMAIN <<c.real>> = 1 .. 1 /\ DOMAIN DefaultHeaders = 1 .. 3
  BY DEF DefaultHeaders
<1> QED
  BY <1>1, <1>2, <1>3

(* What is taken is the peer, or what a header that is read gives.            *)
LEMMA ExtractGives ==
  ASSUME NEW peer, NEW sent, NEW names, NEW n \in Nat, DOMAIN names = 1 .. n, NEW entries,
         NEW ip, ip = Extract(peer, sent, names, entries)
  PROVE  \/ ip = peer
         \/ /\ Trusts(entries, peer) /\ ip # NoIP
            /\ \E i \in DOMAIN names :
                 LET value == IF names[i] \in DOMAIN sent THEN sent[names[i]] ELSE <<>> IN
                   ip = HeaderIP(names[i], value, entries)
<1> DEFINE Value(i) == IF names[i] \in DOMAIN sent THEN sent[names[i]] ELSE <<>>
           Ip(i)    == HeaderIP(names[i], Value(i), entries)
           good     == {i \in DOMAIN names : Named(names[i]) /\ Ip(i) # NoIP}
<1>1. CASE peer = NoIP \/ ~Trusts(entries, peer) \/ good = {}
  BY <1>1 DEF Extract
<1>2. CASE ~(peer = NoIP \/ ~Trusts(entries, peer) \/ good = {})
  <2>1. PICK m \in good : \A j \in good : m <= j
    BY <1>2, LeastExists
  <2> DEFINE first == CHOOSE i \in good : \A j \in good : i <= j
  <2>2. first \in good
    BY <2>1
  <2>3. ip = Ip(first)
    BY <1>2 DEF Extract
  <2> HIDE DEF first
  <2> QED
    BY <1>2, <2>2, <2>3
<1> QED
  BY <1>1, <1>2

(* The parts of a header that may be taken from X-Forwarded-For, and the one  *)
(* that is.                                                                   *)
LEMMA ForwardedGives ==
  ASSUME NEW value \in Seq(Keys), NEW entries
  PROVE  LET hops == {i \in DOMAIN value : value[i] \in Addr /\ ~Trusts(entries, value[i])} IN
           \/ hops = {} /\ Forwarded(value, entries) = NoIP
           \/ \E m \in hops :
                /\ \A j \in hops : j <= m
                /\ Forwarded(value, entries) = Usable(value[m])
<1> DEFINE hops == {i \in DOMAIN value : value[i] \in Addr /\ ~Trusts(entries, value[i])}
           last == CHOOSE i \in hops : \A j \in hops : j <= i
<1>1. CASE hops = {}
  BY <1>1 DEF Forwarded
<1>2. CASE hops # {}
  <2>1. hops \in SUBSET (1 .. Len(value)) /\ Len(value) \in Nat
    BY LenProperties
  <2>2. \E m \in hops : \A j \in hops : j <= m
    BY <1>2, <2>1, GreatestExists
  <2>3. last \in hops /\ \A j \in hops : j <= last
    BY <2>2
  <2>4. Forwarded(value, entries) = Usable(value[last])
    BY <1>2 DEF Forwarded
  <2> HIDE DEF last, hops
  <2>5. \E m \in hops : (\A j \in hops : j <= m) /\ Forwarded(value, entries) = Usable(value[m])
    BY <2>3, <2>4
  <2> QED
    BY <2>5 DEF hops
<1> QED
  BY <1>1, <1>2

(* A header that is absent gives nothing.                                     *)
LEMMA NothingForwarded == ASSUME NEW entries PROVE Forwarded(<<>>, entries) = NoIP
<1>1. {i \in DOMAIN <<>> : <<>>[i] \in Addr /\ ~Trusts(entries, <<>>[i])} = {}
  OBVIOUS
<1> QED
  BY <1>1 DEF Forwarded

(* Client is an address, or nil.                                              *)
LEMMA ClientIsKey ==
  ASSUME NEW r, Arrived(r), cfg.headers \in Seq(STRING)
  PROVE  Client(r) \in Keys
<1> DEFINE names   == Headers(EffectiveHeaders(cfg, DefaultHeaders))
           entries == EffectiveProxies(cfg)
<1>1. Peer(r) \in Keys
  BY DEF Peer, Arrived
<1>2. ASSUME NEW value \in Seq(Keys), NEW name PROVE HeaderIP(name, value, entries) \in Keys
  <2>1. SingleIP(value) \in Keys
    BY DEF SingleIP, Usable, Keys
  <2>2. Forwarded(value, entries) \in Keys
    BY ForwardedGives DEF Usable, Keys
  <2> QED
    BY <2>1, <2>2 DEF HeaderIP
<1>3. PICK n \in Nat : DOMAIN names = 1 .. n
  BY HeadersAreList
<1>4. \A name : (IF name \in DOMAIN r.sent THEN r.sent[name] ELSE <<>>) \in Seq(Keys)
  BY EmptySeq DEF Arrived
<1>5. Client(r) = Extract(Peer(r), r.sent, names, entries)
  BY DEF Client
<1> HIDE DEF names, entries
<1>6. \/ Client(r) = Peer(r)
      \/ \E i \in DOMAIN names :
           LET value == IF names[i] \in DOMAIN r.sent THEN r.sent[names[i]] ELSE <<>> IN
             Client(r) = HeaderIP(names[i], value, entries)
  BY <1>3, <1>5, ExtractGives
<1> QED
  BY <1>1, <1>2, <1>4, <1>6

-----------------------------------------------------------------------------
(* Of an X-Forwarded-For that proxies of ours made of whatever they got, the  *)
(* host that is taken is the last stranger on the way.                        *)
LEMMA ForwardedIsTold ==
  ASSUME NEW r, Arrived(r), NEW entries, Trusts(entries, Peer(r)),
         NEW o \in DOMAIN r.path, ~Trusts(entries, r.path[o]), r.path[o] \in Addr,
         \A i \in DOMAIN r.path : ~Trusts(entries, r.path[i]) => i <= o,
         NEW value \in Seq(Keys), ForwardedTells(value, r, o)
  PROVE  Forwarded(value, entries) \in {NoIP, Usable(r.path[o])}
<1> DEFINE hops == {i \in DOMAIN value : value[i] \in Addr /\ ~Trusts(entries, value[i])}
           n    == Len(r.path)
           v    == Len(value)
<1>1. /\ n \in Nat /\ DOMAIN r.path = 1 .. n
      /\ v \in Nat /\ DOMAIN value = 1 .. v
      /\ \A i \in 1 .. n : r.path[i] \in Keys
      /\ \A i \in 1 .. v : value[i] \in Keys
  BY LenProperties, ElementOfSeq DEF Arrived
<1>2. o \in 1 .. n /\ o # n
  BY <1>1 DEF Peer
<1>3. CASE value = <<>>
  BY <1>3, NothingForwarded
<1>4. CASE value # <<>>
  <2>1. PICK k \in 0 .. v : SubSeq(value, k + 1, v) = SubSeq(r.path, o, n - 1)
    BY <1>4 DEF ForwardedTells
  <2>2. /\ Len(SubSeq(r.path, o, n - 1)) = n - o
        /\ \A j \in 1 .. n - o : SubSeq(r.path, o, n - 1)[j] = r.path[o + j - 1]
    <3>1. o \in Int /\ n - 1 \in Int /\ o <= n - 1 /\ (n - 1) - o + 1 = n - o
      BY <1>1, <1>2
    <3>2. \A i \in o .. n - 1 : r.path[i] \in Keys
      BY <1>1, <1>2
    <3> QED
      BY <3>1, <3>2, SubSeqProperties
  <2>3. /\ Len(SubSeq(value, k + 1, v)) = v - k
        /\ \A j \in 1 .. v - k : SubSeq(value, k + 1, v)[j] = value[k + j]
    <3>1. PICK m \in Int : m = k + 1
      OBVIOUS
    <3>2. \A i \in m .. v : value[i] \in Keys
      BY <1>1, <3>1
    <3>3. /\ Len(SubSeq(value, m, v)) = IF m <= v THEN v - m + 1 ELSE 0
          /\ \A j \in 1 .. v - m + 1 : SubSeq(value, m, v)[j] = value[m + j - 1]
      BY <1>1, <3>2, SubSeqProperties
    <3>4. v \in Int /\ k \in Int /\ k <= v
      BY <1>1
    <3>5. v - m + 1 = v - k /\ (~(m <= v) => v - k = 0) /\ \A j \in 1 .. v - k : m + j - 1 = k + j
      BY <3>1, <3>4
    <3> QED
      BY <3>1, <3>3, <3>5
  <2>4. v - k = n - o /\ \A j \in 1 .. n - o : value[k + j] = r.path[o + j - 1]
    BY <2>1, <2>2, <2>3
  <2>5. k + 1 \in hops
    <3>1. value[k + 1] = r.path[o] /\ k + 1 \in 1 .. v
      BY <1>1, <1>2, <2>4
    <3> QED
      BY <1>1, <3>1
  <2>6. \A i \in hops : i <= k + 1
    <3> SUFFICES ASSUME NEW i \in 1 .. v, i > k + 1 PROVE Trusts(entries, value[i])
      BY <1>1
    <3>1. /\ i - k \in 1 .. n - o /\ k + (i - k) = i
          /\ o + (i - k) - 1 \in 1 .. n /\ o + (i - k) - 1 > o
      BY <1>1, <1>2, <2>4
    <3>2. value[i] = r.path[o + (i - k) - 1]
      BY <2>4, <3>1
    <3> QED
      BY <1>1, <3>1, <3>2
  <2>7. PICK m \in hops : (\A j \in hops : j <= m) /\ Forwarded(value, entries) = Usable(value[m])
    BY <2>5, ForwardedGives
  <2>8. m = k + 1
    BY <1>1, <2>5, <2>6, <2>7
  <2>9. value[k + 1] = r.path[o]
    BY <1>1, <1>2, <2>4
  <2> QED
    BY <2>7, <2>8, <2>9
<1> QED
  BY <1>3, <1>4

(* A request that came over proxies of ours is put down to the stranger they  *)
(* had it from, or to whom a header says that they passed on as received; any *)
(* other one to its peer.                                                     *)
LEMMA OriginIsTaken ==
  ASSUME NEW r, Arrived(r), cfg.headers \in Seq(STRING), Vouched(r, cfg)
  PROVE  \/ Client(r) \in {Origin(r), Peer(r)}
         \/ Trusts(EffectiveProxies(cfg), Peer(r)) /\ Client(r) \in Hearsay(r)
<1> DEFINE names   == Headers(EffectiveHeaders(cfg, DefaultHeaders))
           entries == EffectiveProxies(cfg)
           Value(i) == IF names[i] \in DOMAIN r.sent THEN r.sent[names[i]] ELSE <<>>
<1>1. PICK l \in Nat : DOMAIN names = 1 .. l
  BY HeadersAreList
<1>2. Client(r) = Extract(Peer(r), r.sent, names, entries)
  BY DEF Client
<1> SUFFICES ASSUME Client(r) # Peer(r), Client(r) \notin Hearsay(r)
             PROVE  Client(r) = Origin(r)
  <2>1. Client(r) # Peer(r) => Trusts(EffectiveProxies(cfg), Peer(r))
    BY <1>1, <1>2, ExtractGives
  <2> QED
    BY <2>1
<1>3. /\ Trusts(entries, Peer(r)) /\ Client(r) # NoIP
      /\ \E i \in DOMAIN names : Client(r) = HeaderIP(names[i], Value(i), entries)
  BY <1>1, <1>2, ExtractGives
<1>4. PICK o \in Strangers(r, cfg) :
        /\ r.path[o] \in Addr
        /\ \A i \in Strangers(r, cfg) : i <= o
        /\ \A name \in DOMAIN r.sent \cap Range(names) :
             IF name = "X-Forwarded-For"
             THEN ForwardedTells(r.sent[name], r, o)
             ELSE name \in r.passed \/ SingleIP(r.sent[name]) \in {NoIP, Usable(r.path[o])}
  BY <1>3 DEF Vouched
<1>5. Origin(r) = r.path[o]
  <2> DEFINE hops == Strangers(r, cfg)
  <2>1. hops \subseteq Int
    BY LenProperties DEF Strangers, Arrived
  <2>2. \A m \in hops : (\A j \in hops : j <= m) => m = o
    BY <1>4, <2>1
  <2>3. (CHOOSE i \in hops : \A j \in hops : j <= i) = o
    BY <1>4, <2>2
  <2> HIDE DEF hops
  <2> QED
    BY <1>4, <2>3 DEF Origin, hops
<1>6. PICK i \in DOMAIN names : Client(r) = HeaderIP(names[i], Value(i), entries)
  BY <1>3
<1> HIDE DEF names, entries
<1>7. CASE names[i] \in DOMAIN r.sent
  <2>1. Value(i) = r.sent[names[i]] /\ Value(i) \in Seq(Keys) /\ names[i] \in Range(names)
    BY <1>7 DEF Arrived, Range
  <2>2. ASSUME names[i] = "X-Forwarded-For"
        PROVE  HeaderIP(names[i], Value(i), entries) \in {NoIP, Usable(r.path[o])}
    <3>1. ForwardedTells(Value(i), r, o)
      BY <1>4, <1>7, <2>1, <2>2
    <3>2. /\ o \in DOMAIN r.path /\ ~Trusts(entries, r.path[o])
          /\ \A j \in DOMAIN r.path : ~Trusts(entries, r.path[j]) => j <= o
      BY <1>4 DEF Strangers, entries
    <3>3. Forwarded(Value(i), entries) \in {NoIP, Usable(r.path[o])}
      BY <1>3, <1>4, <2>1, <3>1, <3>2, ForwardedIsTold
    <3> QED
      BY <2>2, <3>3 DEF HeaderIP
  <2>3. ASSUME names[i] # "X-Forwarded-For"
        PROVE  HeaderIP(names[i], Value(i), entries) \in {NoIP, Usable(r.path[o])}
    <3>1. HeaderIP(names[i], Value(i), entries) = SingleIP(r.sent[names[i]])
      BY <2>1, <2>3 DEF HeaderIP
    <3>2. names[i] \notin r.passed
      BY <1>6, <1>7, <2>1, <3>1 DEF Hearsay, names
    <3> QED
      BY <1>4, <1>7, <2>1, <2>3, <3>1, <3>2
  <2> QED
    BY <1>3, <1>5, <1>6, <2>2, <2>3 DEF Usable
<1>8. CASE names[i] \notin DOMAIN r.sent
  <2>1. SingleIP(<<>>) = NoIP
    BY DEF SingleIP
  <2>2. Forwarded(<<>>, entries) = NoIP
    BY NothingForwarded
  <2> QED
    BY <1>3, <1>6, <1>8, <2>1, <2>2 DEF HeaderIP
<1> QED
  BY <1>7, <1>8

-----------------------------------------------------------------------------
(* The configuration is one that was loaded and is valid, and whoever is      *)
(* served came with a request, or with the form of the page it led to.        *)
Fields == {"path", "good", "post", "query", "body", "sent", "passed"}

Asked ==
  /\ \E d \in ServerDocs :
       /\ Decodes(d, ServerPreset) /\ ServerValid(LoadServer(d))
       /\ cfg = LoadServer(d)
  /\ crowd \in Crowds
  /\ DOMAIN req = Handler
  /\ \A h \in Handler : req[h] # NoRequest =>
       /\ DOMAIN req[h] = Fields
       /\ \E r \in crowd :
            req[h].path = r.path /\ req[h].sent = r.sent /\ req[h].passed = r.passed

TypeInv == TypeOK /\ Asked /\ IsFiniteSet(admitted)

(* The types of the fields that are computed with.                            *)
LEMMA Configured ==
  Asked => /\ cfg.failures \in Int /\ cfg.limit \in BOOLEAN
           /\ cfg.headers \in Seq(STRING)
BY Loaded DEF Asked

(* What the loader and Validate promise, as TypeOK states it.                 *)
LEMMA Configuration ==
  Asked => /\ cfg.ttl > 0 /\ cfg.max > 0 /\ cfg.timeout > 0
           /\ cfg.push => cfg.targets # <<>> /\ \A s \in cfg.reconcile : s >= 0
<1> SUFFICES ASSUME Asked
             PROVE  /\ cfg.ttl > 0 /\ cfg.max > 0 /\ cfg.timeout > 0
                    /\ cfg.push => cfg.targets # <<>> /\ \A s \in cfg.reconcile : s >= 0
  OBVIOUS
<1>1. PICK d \in ServerDocs : ServerValid(LoadServer(d)) /\ cfg = LoadServer(d)
  BY DEF Asked
<1>2. PushValid(cfg)
  BY <1>1 DEF ServerValid
<1> QED
  BY <1>1, <1>2, Loaded DEF PushValid

(* Every request that is served came from somewhere, and over proxies of ours *)
(* only if they say so.                                                       *)
LEMMA Asking ==
  ASSUME Asked, NEW h \in Handler, req[h] # NoRequest
  PROVE  Arrived(req[h]) /\ Vouched(req[h], cfg)
<1>1. PICK d \in ServerDocs :
        Decodes(d, ServerPreset) /\ ServerValid(LoadServer(d)) /\ cfg = LoadServer(d)
  BY DEF Asked
<1>2. PICK r \in crowd :
        req[h].path = r.path /\ req[h].sent = r.sent /\ req[h].passed = r.passed
  BY DEF Asked
<1>3. crowd \in Crowds
  BY DEF Asked
<1>4. Arrived(r)
  BY <1>3, FrontConstants DEF Arrived, Keys
<1>5. Vouched(r, cfg)
  BY <1>1, <1>3, ProxiesTell
<1>6. Vouched(req[h], cfg)
  BY <1>2, <1>5 DEF Vouched, Strangers, Peer, ForwardedTells
<1> QED
  BY <1>2, <1>4, <1>6 DEF Arrived

-----------------------------------------------------------------------------
\* the windows that are not over at t
Standing(t) == {k \in DOMAIN buckets : t - buckets[k].start < Minute}

(* One failure counted: windows that are over are gone, the others stay, and  *)
(* the client's own counts one more, or begins at the reading.                *)
LEMMA CountedIs ==
  ASSUME NEW k, NEW t
  PROVE  /\ DOMAIN Counted(k, t) = Standing(t) \cup {k}
         /\ \A i \in Standing(t) \ {k} : Counted(k, t)[i] = buckets[i]
         /\ k \in Standing(t) =>
              Counted(k, t)[k] = [start |-> buckets[k].start,
                                  count |-> Incremented(buckets[k].count)]
         /\ k \notin Standing(t) => Counted(k, t)[k] = [start |-> t, count |-> 1]
<1>1. DOMAIN Kept(t) = Standing(t) /\ \A i \in Standing(t) : Kept(t)[i] = buckets[i]
  BY DEF Kept, Restrict, Standing
<1> QED
  BY <1>1 DEF Counted

Bucket == [start : Times, count : 1 .. cfg.failures + 1]

(* ... which keeps the type of the books.                                     *)
LEMMA CountedType ==
  ASSUME TypeInv, cfg.failures > 0, NEW k \in Keys, NEW t \in Times
  PROVE  /\ DOMAIN Counted(k, t) \subseteq Keys
         /\ \A i \in DOMAIN Counted(k, t) : Counted(k, t)[i] \in Bucket
<1>1. cfg.failures \in Int
  BY Configured DEF TypeInv
<1>2. /\ DOMAIN buckets \subseteq Keys
      /\ \A i \in DOMAIN buckets : buckets[i] \in Bucket
  BY DEF TypeInv, TypeOK, Bucket
<1>3. \A n \in 1 .. cfg.failures + 1 : Incremented(n) \in 1 .. cfg.failures + 1
  BY <1>1 DEF Incremented
<1>4. Standing(t) \subseteq DOMAIN buckets
  BY DEF Standing
<1> DEFINE c == Counted(k, t)
<1>5. /\ DOMAIN c = Standing(t) \cup {k}
      /\ \A i \in Standing(t) \ {k} : c[i] = buckets[i]
      /\ k \in Standing(t) =>
           c[k] = [start |-> buckets[k].start, count |-> Incremented(buckets[k].count)]
      /\ k \notin Standing(t) => c[k] = [start |-> t, count |-> 1]
  BY CountedIs
<1> HIDE DEF c
<1>6. ASSUME NEW i \in Standing(t) \ {k} PROVE c[i] \in Bucket
  BY <1>2, <1>4, <1>5
<1>7. c[k] \in Bucket
  <2>1. 1 \in 1 .. cfg.failures + 1
    BY <1>1
  <2>2. CASE k \in Standing(t)
    BY <1>2, <1>3, <1>4, <1>5, <2>2 DEF Bucket
  <2>3. CASE k \notin Standing(t)
    BY <1>5, <2>1, <2>3 DEF Bucket
  <2> QED
    BY <2>2, <2>3
<1>8. DOMAIN c \subseteq Keys /\ \A i \in DOMAIN c : c[i] \in Bucket
  BY <1>2, <1>4, <1>5, <1>6, <1>7
<1> QED
  BY <1>8 DEF c

(* Every page is of one of the kinds.                                         *)
LEMMA PageType ==
  ASSUME NEW r PROVE Page(r) \in [bits : {0, 24, 32, 128}, query : {"", "24"}]
BY DEF Page

(* A step of one visit, as far as the types go.                               *)
OneVisits(h) ==
  /\ step' \in [Handler -> {"idle", "lock", "form"} \cup Answers]
  /\ shown' \in [Handler -> [bits : {0, 24, 32, 128}, query : {"", "24"}]]
  /\ now' \in [Handler -> Times]
  /\ DOMAIN req' = Handler
  /\ \A g \in Handler \ {h} : step'[g] = step[g] /\ req'[g] = req[g]
  /\ UNCHANGED <<clock, conf>>

Asks(r) ==
  /\ DOMAIN r = Fields
  /\ \E x \in crowd : r.path = x.path /\ r.sent = x.sent /\ r.passed = x.passed

BooksType ==
  /\ DOMAIN buckets \subseteq Keys
  /\ \A k \in DOMAIN buckets : buckets[k] \in Bucket
  /\ IsFiniteSet(admitted)
  /\ admitted \subseteq [client : Keys, nth : Nat \ {0}, at : Times, start : Times,
                         count : 1 .. cfg.failures]

(* It keeps the types if it leaves its own visit in order.                    *)
LEMMA OneStep ==
  ASSUME TypeInv, NEW h \in Handler, OneVisits(h), BooksType',
         step'[h] = "idle" <=> req'[h] = NoRequest,
         req'[h] # NoRequest => Asks(req'[h])
  PROVE  TypeInv'
<1>1. /\ clock' \in Times /\ cfg' = cfg /\ crowd' = crowd
      /\ Times' = Times /\ Keys' = Keys /\ Bucket' = Bucket
  BY DEF TypeInv, TypeOK, conf, Times, Keys, Bucket, OneVisits
<1>2. ASSUME NEW g \in Handler
      PROVE  /\ step'[g] = "idle" <=> req'[g] = NoRequest
             /\ req'[g] # NoRequest => Asks(req'[g])
  <2>1. CASE g = h
    BY <2>1
  <2>2. CASE g # h
    <3>1. step'[g] = step[g] /\ req'[g] = req[g]
      BY <2>2 DEF OneVisits
    <3>2. step[g] = "idle" <=> req[g] = NoRequest
      BY DEF TypeInv, TypeOK
    <3>3. req[g] # NoRequest => Asks(req[g])
      BY DEF TypeInv, Asked, Asks
    <3> QED
      BY <3>1, <3>2, <3>3
  <2> QED
    BY <2>1, <2>2
<1>3. Asked'
  BY <1>1, <1>2 DEF TypeInv, Asked, Asks, NoRequest, OneVisits
<1> QED
  BY <1>1, <1>2, <1>3, Configuration
  DEF TypeInv, TypeOK, BooksType, Bucket, Answers, NoRequest, OneVisits

(* Every step keeps the types.                                                *)
LEMMA NextTypes == TypeInv /\ [Next]_vars => TypeInv'
<1> SUFFICES ASSUME TypeInv, [Next]_vars PROVE TypeInv'
  OBVIOUS
<1>1. /\ step \in [Handler -> {"idle", "lock", "form"} \cup Answers]
      /\ shown \in [Handler -> [bits : {0, 24, 32, 128}, query : {"", "24"}]]
      /\ now \in [Handler -> Times] /\ clock \in Times /\ DOMAIN req = Handler
      /\ BooksType
  BY DEF TypeInv, TypeOK, Asked, BooksType, Bucket
<1>2. \A r \in crowd : r # NoRequest /\ Asks(r)
  <2>1. \A r \in crowd : r # NoRequest /\ DOMAIN r = Fields
    BY FrontConstants DEF TypeInv, Asked, Fields, NoRequest
  <2> QED
    BY <2>1 DEF Asks
<1>3. 0 \in Times /\ NoPage \in [bits : {0, 24, 32, 128}, query : {"", "24"}]
  BY FrontConstants DEF Times, NoPage
<1>4. \A h \in Handler : step[h] # "idle" => req[h] # NoRequest /\ Asks(req[h])
  <2>1. \A h \in Handler : step[h] # "idle" => req[h] # NoRequest
    BY DEF TypeInv, TypeOK
  <2> QED
    BY <2>1 DEF TypeInv, Asked, Asks
<1>5. UNCHANGED <<buckets, admitted, conf>> => BooksType'
  BY <1>1 DEF BooksType, Bucket, Times, Keys, conf
<1>6. ASSUME NEW h \in Handler, NEW r \in crowd, Fail(h, r) PROVE TypeInv'
  <2>1. OneVisits(h) /\ step'[h] = "lock" /\ req'[h] = r
    BY <1>1, <1>6 DEF Fail, Goto, OneVisits
  <2>2. BooksType'
    BY <1>5, <1>6 DEF Fail
  <2> QED
    BY <1>2, <2>1, <2>2, OneStep
<1>7. ASSUME NEW h \in Handler, NEW r, Serve(h, r), r # NoRequest, Asks(r)
      PROVE  TypeInv'
  <2>1. OneVisits(h) /\ step'[h] \in {"503", "400", "page", "403", "recorded"} /\ req'[h] = r
    <3>1. PICK s \in {"503", "400", "page", "403", "recorded"} : step' = [step EXCEPT ![h] = s]
      BY <1>7 DEF Serve, Goto
    <3>2. req' = [req EXCEPT ![h] = r] /\ UNCHANGED <<shown, now, clock, conf>>
      BY <1>7 DEF Serve
    <3> QED
      BY <1>1, <3>1, <3>2 DEF OneVisits, Answers
  <2>2. BooksType'
    BY <1>5, <1>7 DEF Serve
  <2> QED
    BY <1>7, <2>1, <2>2, OneStep
<1>8. ASSUME NEW h \in Handler, Submit(h) PROVE TypeInv'
  <2> DEFINE r == [req[h] EXCEPT !.post = TRUE, !.query = shown[h].query, !.body = ""]
  <2>1. step[h] = "form" /\ Serve(h, r)
    BY <1>8 DEF Submit
  <2>2. Asks(req[h])
    BY <1>4, <2>1
  <2>3. DOMAIN r = Fields /\ r.path = req[h].path /\ r.sent = req[h].sent /\ r.passed = req[h].passed
    BY <2>2 DEF Asks, Fields
  <2> HIDE DEF r
  <2>4. r # NoRequest
    BY <2>3 DEF Fields, NoRequest
  <2>5. Asks(r)
    BY <2>2, <2>3 DEF Asks
  <2> QED
    BY <1>7, <2>1, <2>4, <2>5
<1>9. ASSUME NEW h \in Handler, Limit(h) PROVE TypeInv'
  <2> DEFINE k == Client(req[h])
             c == Counted(k, now[h])
  <2>1. step[h] = "lock" /\ req[h] # NoRequest /\ Asks(req[h])
    BY <1>4, <1>9 DEF Limit
  <2>2. k \in Keys /\ now[h] \in Times /\ RateKey(req[h]) = k
    BY <1>1, <2>1, Asking, Configured, ClientIsKey DEF RateKey, TypeInv
  <2>3. OneVisits(h) /\ step'[h] \in {"401", "429"} /\ req'[h] = req[h]
    <3>1. UNCHANGED <<req, shown, now, clock, conf>>
      BY <1>9 DEF Limit, visit
    <3>2. PICK s \in {"401", "429"} : step' = [step EXCEPT ![h] = s]
      BY <1>9 DEF Limit, Goto
    <3> QED
      BY <1>1, <3>1, <3>2 DEF OneVisits, Answers
  <2>4. CASE cfg.limit /\ cfg.failures > 0
    <3>1. /\ buckets' = c
          /\ \/ UNCHANGED admitted
             \/ ~Over(c[k]) /\ Admit(k, now[h], c[k])
      BY <1>9, <2>2, <2>4 DEF Limit
    <3>2. /\ DOMAIN c \subseteq Keys /\ \A i \in DOMAIN c : c[i] \in Bucket
          /\ k \in DOMAIN c
      <4>1. DOMAIN c = Standing(now[h]) \cup {k}
        BY CountedIs
      <4> QED
        BY <2>2, <2>4, <4>1, CountedType
    <3> HIDE DEF k, c
    <3>6. cfg' = cfg /\ Times' = Times /\ Keys' = Keys /\ Bucket' = Bucket
      BY <2>3 DEF OneVisits, conf, Bucket, Times, Keys
    <3>3. ASSUME UNCHANGED admitted PROVE BooksType'
      BY <1>1, <3>1, <3>2, <3>3, <3>6 DEF BooksType
    <3>4. ASSUME ~Over(c[k]), Admit(k, now[h], c[k]) PROVE BooksType'
      <4> DEFINE x == [client |-> k, nth |-> Cardinality(Of(k)) + 1, at |-> now[h],
                       start |-> c[k].start, count |-> c[k].count]
      <4>1. admitted' = admitted \cup {x}
        BY <3>4 DEF Admit
      <4>2. IsFiniteSet(admitted')
        BY <1>1, <4>1, FS_AddElement DEF BooksType
      <4>3. Cardinality(Of(k)) + 1 \in Nat \ {0}
        <5>1. IsFiniteSet(Of(k))
          BY <1>1, FS_Subset DEF Of, BooksType
        <5> QED
          BY <5>1, FS_CardinalityType
      <4>4. c[k].start \in Times /\ c[k].count \in 1 .. cfg.failures
        BY <3>2, <3>4, Configured DEF Bucket, Over, TypeInv
      <4>5. x \in [client : Keys, nth : Nat \ {0}, at : Times, start : Times,
                   count : 1 .. cfg.failures]
        BY <2>2, <4>3, <4>4
      <4> HIDE DEF x
      <4>6. admitted' \subseteq [client : Keys, nth : Nat \ {0}, at : Times, start : Times,
                                count : 1 .. cfg.failures]
        <5> DEFINE R == [client : Keys, nth : Nat \ {0}, at : Times, start : Times,
                         count : 1 .. cfg.failures]
        <5>1. admitted \subseteq R
          BY <1>1 DEF BooksType
        <5>2. x \in R
          BY <4>5
        <5> HIDE DEF R
        <5>3. admitted' \subseteq R
          BY <4>1, <5>1, <5>2
        <5> QED
          BY <5>3 DEF R
      <4> QED
        BY <3>1, <3>2, <3>6, <4>2, <4>6 DEF BooksType
    <3>5. BooksType'
      BY <3>1, <3>3, <3>4
    <3> QED
      BY <2>1, <2>3, <3>5, OneStep
  <2>5. CASE ~(cfg.limit /\ cfg.failures > 0)
    <3>1. BooksType'
      BY <1>5, <1>9, <2>5 DEF Limit
    <3> QED
      BY <2>1, <2>3, <3>1, OneStep
  <2> QED
    BY <2>4, <2>5
<1>10. ASSUME NEW h \in Handler, Show(h) PROVE TypeInv'
  <2>1. Page(req[h]) \in [bits : {0, 24, 32, 128}, query : {"", "24"}]
    BY PageType
  <2>2. OneVisits(h) /\ step'[h] = "form" /\ req'[h] = req[h] /\ step[h] = "page"
    BY <1>1, <1>10, <2>1 DEF Show, Goto, OneVisits
  <2>3. BooksType'
    BY <1>5, <1>10 DEF Show
  <2> QED
    BY <1>4, <2>2, <2>3, OneStep
<1>11. ASSUME NEW h \in Handler, Reply(h) PROVE TypeInv'
  <2>1. OneVisits(h) /\ step'[h] = "idle" /\ req'[h] = NoRequest
    BY <1>1, <1>3, <1>11 DEF Reply, End, Goto, OneVisits
  <2>2. BooksType'
    BY <1>5, <1>11 DEF Reply, End
  <2> QED
    BY <2>1, <2>2, OneStep
<1>12. ASSUME Tick \/ UNCHANGED vars PROVE TypeInv'
  <2>1. UNCHANGED <<cfg, crowd, buckets, step, req, shown, now, admitted>> /\ clock' \in Times
    <3>1. CASE UNCHANGED vars
      BY <1>1, <3>1 DEF vars, conf, visit
    <3>2. CASE Tick
      <4>1. clock \in 0 .. MaxClock /\ clock < MaxClock /\ clock' = clock + 1 /\ MaxClock \in Nat
        BY <1>1, <3>2, FrontConstants DEF Tick, Times
      <4>2. clock' \in Times
        BY <4>1 DEF Times
      <4> QED
        BY <3>2, <4>2 DEF Tick, conf, visit
    <3> QED
      BY <1>12, <3>1, <3>2
  <2>2. Asked'
    BY <2>1 DEF TypeInv, Asked, NoRequest
  <2>3. TypeOK' /\ IsFiniteSet(admitted')
    BY <2>1 DEF TypeInv, TypeOK, NoRequest, Keys, Times, Answers
  <2> QED
    BY <2>2, <2>3 DEF TypeInv
<1> QED
  BY <1>2, <1>6, <1>7, <1>8, <1>9, <1>10, <1>11, <1>12 DEF Next, Visit

(* They hold at the start.                                                    *)
LEMMA InitTypes == Init => TypeInv
<1> SUFFICES ASSUME Init PROVE TypeInv
  OBVIOUS
<1>1. Asked
  BY DEF Init, Asked
<1>2. IsFiniteSet(admitted) /\ 0 \in Times
  BY FS_EmptySet, FrontConstants DEF Init, Times
<1>3. /\ step \in [Handler -> {"idle", "lock", "form"} \cup Answers]
      /\ \A h \in Handler : step[h] = "idle" <=> req[h] = NoRequest
      /\ shown \in [Handler -> [bits : {0, 24, 32, 128}, query : {"", "24"}]]
      /\ now \in [Handler -> Times] /\ clock \in Times
  BY <1>2 DEF Init, NoPage
<1>4. DOMAIN buckets = {} /\ admitted = {}
  BY DEF Init
<1> QED
  BY <1>1, <1>2, <1>3, <1>4, Configuration DEF TypeInv, TypeOK

(* A valid configuration, the limiter's books, the visits and the record of   *)
(* what got through have their types in every state.                          *)
THEOREM TypeCorrect == Spec => []TypeOK
<1>1. TypeInv => TypeOK
  BY DEF TypeInv
<1> QED
  BY <1>1, InitTypes, NextTypes, PTL DEF Spec

(* Whatever a browser writes into the headers that are read: over proxies of  *)
(* ours a request is put down to the last host on its way that is none of     *)
(* them, or to its peer when no header tells.                                 *)
THEOREM OriginIsRecorded == Spec => []RecordsOrigin
<1>1. TypeInv => RecordsOrigin
  BY Asking, Configured, OriginIsTaken DEF TypeInv, RecordsOrigin
<1>2. Init => TypeInv
  BY InitTypes
<1> QED
  BY <1>1, <1>2, NextTypes, PTL DEF Spec

(* Nothing but the limiter touches the books.                                 *)
LEMMA BooksChange ==
  ASSUME [Next]_vars, ~ \E h \in Handler : Limit(h)
  PROVE  UNCHANGED <<buckets, admitted>>
<1>1. ASSUME NEW h \in Handler, NEW r, Fail(h, r) \/ Serve(h, r)
      PROVE  UNCHANGED <<buckets, admitted>>
  BY <1>1 DEF Fail, Serve
<1>2. ASSUME NEW h \in Handler, End(h) \/ Show(h) PROVE UNCHANGED <<buckets, admitted>>
  BY <1>2 DEF End, Show
<1>3. Tick \/ UNCHANGED vars => UNCHANGED <<buckets, admitted>>
  BY DEF Tick, vars
<1> QED
  BY <1>1, <1>2, <1>3 DEF Next, Visit, Submit, Reply

(* A client who goes on trying while it is blocked does not prolong that: its *)
(* window is moved by none of its failures before the minute since it began   *)
(* is over, whoever else comes and however long requests wait for the mutex.  *)
THEOREM WindowsAreFixed == Spec => WindowFixed
<1>1. ASSUME TypeInv, [Next]_vars,
             NEW k \in DOMAIN buckets \cap DOMAIN buckets',
             buckets'[k].start # buckets[k].start
      PROVE  buckets'[k].start >= buckets[k].start + Minute
  <2>1. PICK h \in Handler : Limit(h)
    BY <1>1, BooksChange
  <2> DEFINE i == RateKey(req[h])
             t == now[h]
  <2>2. buckets' = Counted(i, t)
    BY <1>1, <2>1 DEF Limit
  <2>3. /\ k \in Standing(t) \/ k = i
        /\ k \in Standing(t) => buckets'[k].start = buckets[k].start
        /\ k \notin Standing(t) => buckets'[k].start = t
    <3> DEFINE c == Counted(i, t)
    <3>1. /\ DOMAIN c = Standing(t) \cup {i}
          /\ \A j \in Standing(t) \ {i} : c[j] = buckets[j]
          /\ i \in Standing(t) =>
               c[i] = [start |-> buckets[i].start, count |-> Incremented(buckets[i].count)]
          /\ i \notin Standing(t) => c[i] = [start |-> t, count |-> 1]
      BY CountedIs
    <3>2. buckets' = c
      BY <2>2
    <3> HIDE DEF c, i, t
    <3> QED
      BY <1>1, <3>1, <3>2
  <2>4. k \notin Standing(t) /\ buckets'[k].start = t
    BY <1>1, <2>3
  <2>5. ~(t - buckets[k].start < Minute)
    BY <2>4 DEF Standing
  <2>6. t \in Nat /\ buckets[k].start \in Nat /\ Minute \in Nat
    <3>1. t \in Times /\ buckets[k].start \in Times
      BY <1>1 DEF TypeInv, TypeOK
    <3> QED
      BY <3>1, FrontConstants DEF Times
  <2> HIDE DEF t
  <2> QED
    BY <2>4, <2>5, <2>6
<1>2. TypeInv /\ [Next]_vars =>
        [\A k \in DOMAIN buckets \cap DOMAIN buckets' :
           buckets'[k].start # buckets[k].start =>
             buckets'[k].start >= buckets[k].start + Minute]_vars
  BY <1>1
<1> QED
  BY <1>2, InitTypes, NextTypes, PTL DEF Spec, WindowFixed

-----------------------------------------------------------------------------
(* Between the page and the POST that answers it: the user keeps the page     *)
(* that was computed for the same place, and nothing else leaves one behind.  *)
PageInv ==
  /\ crowd \in Crowds
  /\ DOMAIN step = Handler /\ DOMAIN req = Handler /\ DOMAIN shown = Handler
  /\ \A h \in Handler :
       /\ step[h] \in {"idle", "lock", "401", "429"} => shown[h] = NoPage
       /\ step[h] = "page" =>
            DOMAIN req[h] = Fields
       /\ step[h] = "form" =>
            /\ shown[h] = Page(req[h])
            /\ DOMAIN req[h] = Fields
  /\ PageTells

(* What the form of a page records, wherever the request comes from, is as    *)
(* wide as the page says.                                                     *)
LEMMA FormKeepsWord ==
  ASSUME NEW r, DOMAIN r = Fields,
         NEW s, s = [r EXCEPT !.post = TRUE, !.query = Page(r).query, !.body = ""],
         Recorded(s) # Refused
  PROVE  Recorded(s).bits = Page(r).bits
<1>1. s.path = r.path /\ s.sent = r.sent /\ s.post = TRUE /\ s.body = "" /\ s.query = Page(r).query
  BY DEF Fields
<1>2. Client(s) = Client(r)
  BY <1>1 DEF Client, Peer
<1>3. CASE Client(r) \notin V4
  BY <1>2, <1>3 DEF Recorded, CIDRForRequest, Page, Refused
<1>4. CASE Client(r) \in V4
  <2>1. Scope(s) = "24" <=> cfg.expand /\ Scope(r) = "24"
    <3>1. Page(r).query = IF cfg.expand /\ Scope(r) = "24" THEN "24" ELSE ""
      BY <1>4 DEF Page
    <3>2. Scope(s) = IF Page(r).query = "" THEN "" ELSE Page(r).query
      BY <1>1 DEF Scope
    <3> QED
      BY <3>1, <3>2
  <2> QED
    BY <1>2, <1>4, <2>1 DEF Recorded, CIDRForRequest, Page, Refused
<1> QED
  BY <1>3, <1>4

(* The configuration is read once.                                            *)
LEMMA SameAnswers ==
  ASSUME UNCHANGED cfg, NEW h
  PROVE  Recorded(req[h])' = Recorded(req'[h]) /\ Page(req[h])' = Page(req'[h])
BY DEF Recorded, Page, Client, Peer, Scope

OnlyVisit(h) ==
  /\ DOMAIN step' = Handler /\ DOMAIN req' = Handler /\ DOMAIN shown' = Handler
  /\ \A g \in Handler \ {h} :
       step'[g] = step[g] /\ req'[g] = req[g] /\ shown'[g] = shown[g]

(* A step of one visit leaves what the others were shown.                     *)
LEMMA OneVisit ==
  ASSUME PageInv, UNCHANGED conf, NEW h \in Handler,
         OnlyVisit(h),
         step'[h] \in {"idle", "lock", "401", "429"} => shown'[h] = NoPage,
         step'[h] = "page" => DOMAIN req'[h] = Fields,
         step'[h] = "form" => shown'[h] = Page(req'[h]) /\ DOMAIN req'[h] = Fields,
         step'[h] = "recorded" /\ shown'[h] # NoPage => Recorded(req'[h]).bits = shown'[h].bits
  PROVE  PageInv'
<1>1. UNCHANGED cfg /\ crowd' \in Crowds
  BY DEF conf, PageInv
<1>2. DOMAIN step' = Handler /\ DOMAIN req' = Handler /\ DOMAIN shown' = Handler
  BY DEF OnlyVisit
<1>3. \A g \in Handler : Recorded(req[g])' = Recorded(req'[g]) /\ Page(req[g])' = Page(req'[g])
  BY <1>1, SameAnswers
<1>4. ASSUME NEW g \in Handler
      PROVE  /\ step'[g] \in {"idle", "lock", "401", "429"} => shown'[g] = NoPage
             /\ step'[g] = "page" =>
                  DOMAIN req'[g] = Fields
             /\ step'[g] = "form" =>
                  /\ shown'[g] = Page(req'[g])
                  /\ DOMAIN req'[g] = Fields
             /\ step'[g] = "recorded" /\ shown'[g] # NoPage =>
                  Recorded(req'[g]).bits = shown'[g].bits
  <2>1. CASE g = h
    BY <2>1
  <2>2. CASE g # h
    BY <2>2 DEF PageInv, PageTells, OnlyVisit
  <2> QED
    BY <2>1, <2>2
<1>5. PageTells'
  <2> SUFFICES ASSUME NEW g \in Handler, step'[g] = "recorded", shown'[g] # NoPage
               PROVE  Recorded(req[g])'.bits = shown'[g].bits
    BY DEF PageTells, NoPage
  <2> QED
    BY <1>3, <1>4
<1>6. ASSUME NEW g \in Handler
      PROVE  /\ step'[g] \in {"idle", "lock", "401", "429"} => shown'[g] = NoPage
             /\ step'[g] = "page" =>
                  DOMAIN req'[g] = Fields
             /\ step'[g] = "form" =>
                  /\ shown'[g] = Page(req[g])'
                  /\ DOMAIN req'[g] = Fields
  BY <1>3, <1>4
<1> QED
  BY <1>1, <1>2, <1>5, <1>6 DEF PageInv

(* What is served from an idle visit, and from a page that is shown.          *)
LEMMA NextPage == PageInv /\ [Next]_vars => PageInv'
<1> SUFFICES ASSUME PageInv, [Next]_vars PROVE PageInv'
  OBVIOUS
<1>1. \A r \in crowd : DOMAIN r = Fields
  BY FrontConstants DEF PageInv, Fields
<1>2. ASSUME NEW h \in Handler, NEW r \in crowd, Visit(h, r) PROVE PageInv'
  <2>1. /\ step'[h] \in {"503", "400", "page", "403", "recorded"} /\ req'[h] = r
        /\ shown'[h] = NoPage /\ UNCHANGED conf /\ OnlyVisit(h)
    BY <1>2 DEF Visit, Serve, Goto, PageInv, OnlyVisit
  <2> QED
    BY <1>1, <2>1, OneVisit
<1>3. ASSUME NEW h \in Handler, NEW r \in crowd, Fail(h, r) PROVE PageInv'
  <2>1. /\ step'[h] = "lock" /\ shown'[h] = NoPage /\ UNCHANGED conf /\ OnlyVisit(h)
    BY <1>3 DEF Fail, Goto, PageInv, OnlyVisit
  <2> QED
    BY <2>1, OneVisit
<1>4. ASSUME NEW h \in Handler, Submit(h) PROVE PageInv'
  <2> DEFINE s == [req[h] EXCEPT !.post = TRUE, !.query = shown[h].query, !.body = ""]
  <2>1. Serve(h, s) /\ shown[h] = Page(req[h]) /\ DOMAIN req[h] = Fields
    BY <1>4 DEF Submit, PageInv
  <2>2. s.post = TRUE
    BY <2>1 DEF Fields
  <2>3. s = [req[h] EXCEPT !.post = TRUE, !.query = Page(req[h]).query, !.body = ""]
    BY <2>1
  <2> HIDE DEF s
  <2>4. /\ step'[h] \in {"503", "400", "403", "recorded"}
        /\ step'[h] = "recorded" => Recorded(s) # Refused
        /\ req'[h] = s /\ shown'[h] = Page(req[h]) /\ UNCHANGED conf /\ OnlyVisit(h)
    BY <2>1, <2>2 DEF Serve, Goto, PageInv, OnlyVisit
  <2>5. step'[h] = "recorded" => Recorded(s).bits = Page(req[h]).bits
    BY <2>1, <2>3, <2>4, FormKeepsWord
  <2> QED
    BY <2>4, <2>5, OneVisit
<1>5. ASSUME NEW h \in Handler, Limit(h) PROVE PageInv'
  <2>1. /\ step'[h] \in {"401", "429"} /\ shown'[h] = NoPage /\ UNCHANGED conf /\ OnlyVisit(h)
    BY <1>5 DEF Limit, Goto, visit, PageInv, OnlyVisit
  <2> QED
    BY <2>1, OneVisit
<1>6. ASSUME NEW h \in Handler, Show(h) PROVE PageInv'
  <2>1. /\ step'[h] = "form" /\ shown'[h] = Page(req[h]) /\ req'[h] = req[h]
        /\ DOMAIN req[h] = Fields /\ UNCHANGED conf /\ OnlyVisit(h)
    BY <1>6 DEF Show, Goto, PageInv, OnlyVisit
  <2> QED
    BY <2>1, OneVisit
<1>7. ASSUME NEW h \in Handler, Reply(h) PROVE PageInv'
  <2>1. /\ step'[h] = "idle" /\ shown'[h] = NoPage /\ UNCHANGED conf /\ OnlyVisit(h)
    BY <1>7 DEF Reply, End, Goto, PageInv, OnlyVisit
  <2> QED
    BY <2>1, OneVisit
<1>8. ASSUME Tick \/ UNCHANGED vars PROVE PageInv'
  <2>1. UNCHANGED <<cfg, crowd, step, req, shown>>
    BY <1>8 DEF Tick, vars, conf, visit
  <2>2. \A g \in Handler : Recorded(req[g])' = Recorded(req[g]) /\ Page(req[g])' = Page(req[g])
    BY <2>1 DEF Recorded, Page, Client, Peer, Scope
  <2> QED
    BY <2>1, <2>2 DEF PageInv, PageTells, NoPage
<1> QED
  BY <1>2, <1>3, <1>4, <1>5, <1>6, <1>7, <1>8 DEF Next

(* Under every configuration, whichever way ?scope= is set and whatever the   *)
(* freeze file does in between: what the form of the confirmation page        *)
(* records is as wide as the page said.                                       *)
THEOREM PageIsTrue == Spec => []PageTells
<1>1. Init => PageInv
  BY DEF Init, PageInv, PageTells
<1>2. PageInv => PageTells
  BY DEF PageInv
<1> QED
  BY <1>1, <1>2, NextPage, PTL DEF Spec
=============================================================================
