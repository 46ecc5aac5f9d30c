----------------------------- MODULE HostConfig -----------------------------
(* internal/config: the files of the puller and of the receiver, loaded and   *)
(* validated.                                                                 *)
EXTENDS ConfigFile

CONSTANTS Clean  \* filepath.Clean, as a function of the path texts in use

\* mutant: the texts are compared as they come
SamePathText(a, b) == a # "" /\ b # "" /\ a = b

(* samePath: a path that is not set is the same as no other.                  *)
SamePath(a, b) == a # "" /\ b # "" /\ Clean[a] = Clean[b]

-----------------------------------------------------------------------------
PullerPreset ==
  [source |-> "http", input |-> "", url |-> "", token |-> 0, secret |-> 0,
   interval |-> 60, allow |-> "", state |-> "", max |-> 200, v4 |-> TRUE,
   v6 |-> FALSE, https |-> TRUE, mode |-> "export", guard |-> FALSE,
   table |-> TableName, ports |-> {}]

\* LoadPullerConfig, up to Validate
LoadPuller(doc) ==
  [Decoded(doc, PullerPreset) EXCEPT
     !.source = Filled(@, "http"), !.mode = Filled(@, "export"),
     !.table = Filled(@, TableName),
     !.interval = Positive(@, 60), !.max = Positive(@, 200)]

\* mutant: the switch has no default case
SourceUnlisted(c) ==
  /\ c.source = "http" => c.url # "" /\ Credential(c.token, 32)
  /\ c.source = "file" => c.input # ""

SourceValid(c) ==
  \/ c.source = "http" /\ c.url # "" /\ Credential(c.token, 32)
  \/ c.source = "file" /\ c.input # ""

\* PullerConfig.Validate, of a loaded configuration
PullerValid(c) ==
  /\ SourceValid(c)
  /\ Credential(c.secret, 32)
  /\ c.allow # ""
  /\ c.mode \in {"export", "nft"}
  /\ c.v4 \/ c.v6
  /\ ValidNFT(c.table, c.ports)
  /\ ~SamePath(c.state, c.allow)
  /\ c.source = "file" =>
       ~SamePath(c.input, c.allow) /\ ~SamePath(c.input, c.state)

-----------------------------------------------------------------------------
ReceivePreset ==
  [bytes |-> 1048576, inbox |-> "", secret |-> 0, allow |-> "", state |-> "",
   max |-> 200, v4 |-> TRUE, v6 |-> FALSE, mode |-> "export", guard |-> FALSE,
   table |-> TableName, ports |-> {}]

\* LoadReceiveConfig, up to Validate
LoadReceive(doc) ==
  [Decoded(doc, ReceivePreset) EXCEPT
     !.mode = Filled(@, "export"), !.table = Filled(@, TableName),
     !.bytes = Positive(@, 1048576), !.max = Positive(@, 200)]

\* ReceiveConfig.Validate, of a loaded configuration
ReceiveValid(c) ==
  /\ Credential(c.secret, 32)
  /\ "" \notin {c.inbox, c.allow, c.state}
  /\ c.mode \in {"export", "nft"}
  /\ c.v4 \/ c.v6
  /\ ValidNFT(c.table, c.ports)
  /\ ~SamePath(c.inbox, c.allow)
  /\ ~SamePath(c.state, c.allow)
  /\ ~SamePath(c.inbox, c.state)
=============================================================================
