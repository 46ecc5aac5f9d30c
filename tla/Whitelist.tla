------------------------------ MODULE Whitelist ------------------------------
(* What the auth-server promises of the addresses that were authenticated:    *)
(* each is allowed until its grant ends; it leaves earlier only to make room, *)
(* and never before one that ends sooner; and what a restart brings back is   *)
(* the whole list as it was after some earlier change.                        *)
EXTENDS Integers, FiniteSets

CONSTANTS
  CIDR,
  Ends,   \* the times a grant may end at
  Slack,  \* how much of its time a CIDR may lose when it is granted again
  Rooms   \* the numbers of CIDRs there may be room for

VARIABLES
  now,
  room,    \* how many CIDRs a grant may leave
  list,    \* per CIDR the end of its grant, 0 when it has none
  durable  \* the list as a restart would find it

vars == <<now, room, list, durable>>

NoGrants == [c \in CIDR |-> 0]

Held(G) == {c \in CIDR : G[c] # 0}

\* what is left of the grants G at time t
Until(G, t) == [c \in CIDR |-> IF G[c] > t THEN G[c] ELSE 0]

Init ==
  /\ now = 0
  /\ room \in Rooms
  /\ list = NoGrants
  /\ durable = NoGrants

(* A grant that ends before it is made is none.  After it there is room for   *)
(* all; others are taken away only as far as that needs, those first that end *)
(* first.                                                                     *)
Grant(c, end) ==
  LET G    == Until([list EXCEPT ![c] = end], now)
      gone == Held(G) \ Held(list')
  IN
    /\ end + Slack >= list[c]
    /\ list' = [d \in CIDR |-> IF d \in gone THEN 0 ELSE G[d]]
    /\ Cardinality(Held(list')) <= room
    /\ gone # {} => Cardinality(Held(list')) = room
    /\ \A d \in gone, k \in Held(list') : G[d] <= G[k]
    /\ durable' \in {list', durable}
    /\ UNCHANGED <<now, room>>

Save ==
  /\ durable' = list
  /\ UNCHANGED <<now, room, list>>

Pass ==
  /\ now' = now + 1
  /\ list' = Until(list, now')
  /\ durable' = Until(durable, now')
  /\ UNCHANGED room

Restart ==
  /\ list' = durable
  /\ room' \in Rooms
  /\ UNCHANGED <<now, durable>>

Next ==
  \/ Save
  \/ Pass
  \/ Restart
  \/ \E c \in CIDR, end \in Ends : Grant(c, end)

Spec == Init /\ [][Next]_vars
==============================================================================
