------------------------------ MODULE MCFront -------------------------------
(* Front on a small instance: two clients of one /24, one of IPv6 and one of  *)
(* a private network, who come directly or through the proxies p and q.       *)
EXTENDS Front, TLC

CONSTANTS a, b, six, lan, p, q, net, h1, h2

MCSymmetry == Permutations(Handler)

MCAddr  == {a, b, six, lan, p, q}
MCV4    == {a, b, lan, p, q}
MCNet24 == [ip \in MCV4 |-> IF ip \in {a, b} THEN net ELSE ip]

MCCovers == ("127.0.0.1" :> {p}) @@ ("10.0.0.2/32" :> {q}) @@ ("0.0.0.0/0" :> MCV4)

(* What arrives over a path: every proxy appends the host it was called by to *)
(* X-Forwarded-For, which the client, or a host of nobody we know, may have   *)
(* begun.  What becomes of CF-Connecting-IP depends on the set-up: the first  *)
(* proxy sets it and takes it from nobody, or it is passed on as begun, beside *)
(* an X-Real-IP that every proxy sets to the host it was called by.           *)
Arriving(path, begun, cf) ==
  LET n   == Len(path)
      xff == ("X-Forwarded-For" :> begun \o SubSeq(path, 1, n - 1))
      as(value) == "CF-Connecting-IP" :> value
  IN  CASE cf = "none"              -> xff
        [] cf = "set" /\ n = 1     -> as(begun)
        [] cf = "set" /\ n > 1     -> as(<<path[1]>>) @@ xff
        [] cf = "passed" /\ n = 1  -> as(begun) @@ xff
        [] cf = "passed" /\ n > 1  -> as(begun) @@ ("X-Real-IP" :> <<path[n - 1]>>) @@ xff

Request(path, good, post, query, body, begun, cf) ==
  [path |-> path, good |-> good, post |-> post, query |-> query, body |-> body,
   sent |-> Arriving(path, begun, cf),
   passed |-> IF cf = "passed" THEN {"CF-Connecting-IP"} ELSE {}]

\* in the last set `edge' is a host outside that is told the client's address and
\* passes it on, as the documentation has Cloudflare do
UsersFrom(source, edge) ==
  {Request(<<source>> \o via, TRUE, FALSE, "", "", x.begun, x.cf) :
     via \in {<<>>, <<p>>, <<p, q>>},
     x \in {[begun |-> <<NoIP, b>>, cf |-> "none"], [begun |-> <<b>>, cf |-> "set"],
            [begun |-> <<b>>, cf |-> "passed"], [begun |-> <<>>, cf |-> "passed"]}}
  \cup {Request(<<source, p>>, TRUE, post, "24", "", <<>>, "none") : post \in BOOLEAN}
  \cup {Request(<<source, p>>, TRUE, TRUE, "", "24", <<>>, "none"),
        Request(<<NoIP>>, TRUE, FALSE, "", "", <<source>>, "none")}
  \cup {Request(<<source, edge, p>>, TRUE, TRUE, "", "", <<source>>, "passed")}

Guessers ==
  {Request(<<source, p>>, FALSE, TRUE, "", "", <<>>, "none") : source \in {a, b}}

MCCrowds == {UsersFrom(a, b), UsersFrom(six, b), UsersFrom(lan, b), Guessers}

Secrets == [user |-> 5, password |-> 16, token |-> 32, secret |-> 32]
Ours    == <<"127.0.0.1", "10.0.0.2/32">>
Target  == [name |-> "po0", user |-> "push", host |-> "po0", identity |-> "key",
            port |-> 0, strict |-> {}, known |-> "known_hosts"]

MCServerDocs ==
  { Secrets @@ [v6 |-> TRUE, limit |-> FALSE, push |-> TRUE, targets |-> <<Target>>,
                reconcile |-> {0}],
    Secrets @@ [proxies |-> Ours, expand |-> TRUE, failures |-> 1],
    Secrets @@ [legacy |-> Ours, real |-> "X-Forwarded-For", failures |-> 2],
    Secrets @@ [proxies |-> Ours, headers |-> <<" ">>, limit |-> FALSE],
    Secrets @@ [legacy |-> Ours, failures |-> 0, v6 |-> TRUE],
    \* refused from here on
    Secrets @@ [proxies |-> <<"0.0.0.0/0">>],
    Secrets @@ [proxies |-> <<"somewhere">>],
    Secrets @@ [push |-> TRUE],
    Secrets @@ [push |-> TRUE, targets |-> <<[Target EXCEPT !.known = ""]>>],
    Secrets @@ [webhook |-> "http"],
    [Secrets EXCEPT !.password = 15],
    Secrets @@ [proxy |-> Ours] }
=============================================================================
