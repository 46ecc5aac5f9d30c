------------------------------ MODULE ClientIP ------------------------------
(* internal/clientip and internal/ipx: which address a request comes from and *)
(* which CIDR is recorded for it.  The value of a header is the sequence of   *)
(* its comma-separated parts, empty if the header is absent or blank; a part  *)
(* that is no IP address is not in Addr.                                      *)
EXTENDS ServerConfig

CONSTANTS
  Addr,        \* IP addresses
  V4,          \* those of IPv4
  Unusable,    \* unspecified, loopback, private, multicast or link-local
  Net24,       \* the /24 network of an IPv4 address
  NoIP         \* nil

DefaultHeaders == <<"CF-Connecting-IP", "X-Real-IP", "X-Forwarded-For">>

\* New
Headers(list) == IF list = Unset THEN DefaultHeaders ELSE list

\* normalizeHeaders keeps these
Named(name) == name # " "

\* parseTrusted and peerTrusted: entries that do not parse trust nobody
Trusts(entries, ip) ==
  \E i \in DOMAIN entries : entries[i] \in DOMAIN Covers /\ ip \in Covers[entries[i]]

Usable(ip) == IF ip \in Unusable THEN NoIP ELSE ip

\* parseSingleIP
SingleIP(value) ==
  IF Len(value) = 1 /\ value[1] \in Addr THEN Usable(value[1]) ELSE NoIP

\* mutant: "only the first valid IP" (SECURITY.md:30)
FirstForwarded(value, entries) ==
  LET hops == {i \in DOMAIN value : value[i] \in Addr} IN
    IF hops = {} THEN NoIP
    ELSE Usable(value[CHOOSE i \in hops : \A j \in hops : i <= j])

(* parseXForwardedFor: the hop before our own proxies, or nothing.            *)
Forwarded(value, entries) ==
  LET hops == {i \in DOMAIN value : value[i] \in Addr /\ ~Trusts(entries, value[i])} IN
    IF hops = {} THEN NoIP
    ELSE Usable(value[CHOOSE i \in hops : \A j \in hops : j <= i])

HeaderIP(name, value, entries) ==
  IF name = "X-Forwarded-For" THEN Forwarded(value, entries) ELSE SingleIP(value)

(* Extract: the first configured header that gives an address, if the peer is *)
(* a trusted proxy; else, and if none does, the peer.                         *)
Extract(peer, sent, names, entries) ==
  LET Value(i) == IF names[i] \in DOMAIN sent THEN sent[names[i]] ELSE <<>>
      Ip(i)    == HeaderIP(names[i], Value(i), entries)
      good     == {i \in DOMAIN names : Named(names[i]) /\ Ip(i) # NoIP}
  IN
    IF peer = NoIP \/ ~Trusts(entries, peer) \/ good = {} THEN peer
    ELSE Ip(CHOOSE i \in good : \A j \in good : i <= j)

-----------------------------------------------------------------------------
Refused == [net |-> NoIP, bits |-> 0]

\* ipx.CIDRForRequest
CIDRForRequest(ip, expand24, c) ==
  CASE ip \in V4 /\ c.v4 /\ expand24 /\ c.expand      -> [net |-> Net24[ip], bits |-> 24]
    [] ip \in V4 /\ c.v4 /\ ~(expand24 /\ c.expand)   -> [net |-> ip, bits |-> 32]
    [] ip \in Addr \ V4 /\ c.v6                       -> [net |-> ip, bits |-> 128]
    [] OTHER                                          -> Refused
=============================================================================
