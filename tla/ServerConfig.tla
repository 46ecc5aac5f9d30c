---------------------------- MODULE ServerConfig ----------------------------
(* internal/config: the file of the auth-server, loaded and validated.  The   *)
(* JSON objects push, notify and rate_limit are flattened; a pointer field is *)
(* a set, empty while the field is absent.                                    *)
EXTENDS ConfigFile, Sequences

CONSTANTS
  Covers,      \* net.ParseCIDR of proxy entries: the addresses each one covers;
               \* what does not parse is not in its domain
  Whole,       \* the entries of prefix length 0
  Unset        \* a header list that is nil

ServerPreset ==
  [listen |-> "127.0.0.1:8088", user |-> 0, password |-> 0, token |-> 0,
   secret |-> 0, ttl |-> 1209600, max |-> 200, v4 |-> TRUE, v6 |-> FALSE,
   expand |-> FALSE, proxies |-> <<>>, headers |-> <<>>, legacy |-> <<>>,
   real |-> "", freeze |-> "", limit |-> TRUE, failures |-> 10,
   push |-> FALSE, timeout |-> 0, reconcile |-> {}, targets |-> <<>>,
   webhook |-> "", patience |-> 0]

\* of a target that was decoded: port and strict_host_key_checking
TargetFilled(t) ==
  [t EXCEPT !.port = IF @ = 0 THEN 22 ELSE @,
            !.strict = IF @ = {} THEN {TRUE} ELSE @]

\* LoadServerConfig, up to Validate: what is filled in goes over the rest
LoadServer(doc) ==
  LET raw == Decoded(doc, ServerPreset) IN
    Decoded([listen   |-> Filled(raw.listen, "127.0.0.1:8088"),
             ttl      |-> Positive(raw.ttl, 1209600),
             max      |-> Positive(raw.max, 200),
             timeout  |-> Positive(raw.timeout, 10),
             patience |-> Positive(raw.patience, 5),
             freeze   |-> Filled(raw.freeze, "data_dir/freeze"),
             targets  |-> [i \in DOMAIN raw.targets |-> TargetFilled(raw.targets[i])]],
            raw)

\* EffectiveTrustedProxyCIDRs
EffectiveProxies(c) == c.proxies \o c.legacy

(* EffectiveClientIPHeaders: nil when only the legacy proxies are set.        *)
EffectiveHeaders(c, defaults) ==
  CASE c.headers # <<>>                                       -> c.headers
    [] c.headers = <<>> /\ c.real # ""                        -> <<c.real>>
    [] c.headers = <<>> /\ c.real = "" /\ c.proxies # <<>>    -> defaults
    [] OTHER                                                  -> Unset

-----------------------------------------------------------------------------
\* validateTrustedProxyCIDRs
ProxiesValid(entries) ==
  \A i \in DOMAIN entries : entries[i] \in DOMAIN Covers \ Whole

TargetValid(t) ==
  /\ "" \notin {t.name, t.user, t.host, t.identity}
  /\ t.port \in 1 .. 65535
  /\ t.strict = {TRUE} => t.known # ""

\* mutant: the list of targets may be empty
PushValidEmpty(c) ==
  c.push =>
    /\ \A seconds \in c.reconcile : seconds >= 0
    /\ \A i \in DOMAIN c.targets : TargetValid(c.targets[i])

\* PushConfig.validate: nothing is looked at while push is off
PushValid(c) ==
  c.push =>
    /\ c.targets # <<>>
    /\ \A seconds \in c.reconcile : seconds >= 0
    /\ \A i \in DOMAIN c.targets : TargetValid(c.targets[i])

\* NotifyConfig.validate, by the kind of URL
WebhookValid(c) == c.webhook \in {"", "https", "http to loopback"}

\* ServerConfig.Validate, of a loaded configuration
ServerValid(c) ==
  /\ Credential(c.user, 1)
  /\ Credential(c.password, 16)
  /\ Credential(c.token, 32)
  /\ Credential(c.secret, 32)
  /\ ProxiesValid(EffectiveProxies(c))
  /\ c.v4 \/ c.v6
  /\ PushValid(c)
  /\ WebhookValid(c)
=============================================================================
