---------------------------- MODULE MCInterfaces -----------------------------
(* Interfaces with a LAN and a WAN interface and an address or two of each *)
(* kind to start with; in some beginnings the WAN interface is missing.    *)
EXTENDS Interfaces

L(i, n) == [kind |-> "link", index |-> i, name |-> n]
A(i, a) == [kind |-> "addr", index |-> i, addr |-> a]

Two  == <<L(1, "br-lan"), L(2, "eth0.1")>>
Some == {[links |-> <<L(1, "br-lan")>>, addrs |-> <<A(1, "lan4")>>],
         [links |-> Two, addrs |-> <<A(1, "lan4"), A(1, "lan6"), A(2, "local6"), A(2, "wan6")>>]}
Alone == {[links |-> <<L(1, "br-lan")>>, addrs |-> <<A(1, "lan4")>>]}
Pppoe == {[links |-> Two, addrs |-> <<A(1, "lan4"), A(2, "wan4")>>]}
Many == {[links |-> Two, addrs |-> <<A(1, "lan4"), A(1, "old4"), A(2, "wan4")>>]}

Broadcast    == [a \in Addresses |-> a]
PointToPoint == [a \in Addresses |-> IF a = "wan4" THEN "peer4" ELSE a]
=============================================================================
