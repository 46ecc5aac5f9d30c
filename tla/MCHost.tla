------------------------------- MODULE MCHost -------------------------------
(* Host on a small instance: the timer, one operator and one push at a time;  *)
(* the sample configurations and variants of them, valid or not.              *)
EXTENDS Host, TLC

CONSTANTS timer, op, ssh, a, six

MCCanon == (a :> a) @@ (six :> Invalid)   \* this host takes no IPv6

MCClean ==
  ("allow" :> "allow") @@ ("./allow" :> "allow") @@ ("state" :> "state")
  @@ ("inbox" :> "inbox") @@ ("inbox/../state" :> "state")

Secrets == [token |-> 32, secret |-> 32]

Http == Secrets @@ [url |-> "https", allow |-> "allow", state |-> "state"]
File == [source |-> "file", input |-> "inbox", secret |-> 32, allow |-> "allow"]

MCPullerDocs ==
  { Http @@ [mode |-> "nft"],
    File,                                        \* the gate stays closed
    [Http EXCEPT !.url = "http"] @@ [guard |-> TRUE],
    File @@ [state |-> "./allow"],               \* refused from here on
    [File EXCEPT !.input = "inbox/../state"] @@ [state |-> "state"],
    [Http EXCEPT !.secret = Sample],
    Http @@ [source |-> "ftp"],
    Http @@ [unknown |-> TRUE] }

MCUnits == {[dry |-> FALSE, apply |-> TRUE]}

MCManual == [dry : BOOLEAN, apply : {TRUE}]

MCReceiveDocs ==
  { [secret |-> 32, inbox |-> "inbox", allow |-> "allow", state |-> "state"],
    [secret |-> 32, inbox |-> "./allow", allow |-> "allow", state |-> "state"] }
=============================================================================
