------------------------ MODULE MCTcpConnectionManager ------------------------
(***************************************************************************)
(* A small instance of TcpConnectionManager for TLC.  Five remote          *)
(* endpoints: two ports of IP a (the duplicate-IP case), IPs a and b in    *)
(* one group (the diversity case), c local, d banned.  Two bootstrap       *)
(* hosts (the resolution chain continues past its head), minimum 2         *)
(* outbound connections and an inbound limit of 2 (spec.md 8, capacity     *)
(* scenario).                                                              *)
(***************************************************************************)
EXTENDS TcpConnectionManager

CONSTANTS a, b, c, d, h1, h2

MCIPs == {a, b, c, d}

A1 == [ip |-> a, port |-> 1]
A2 == [ip |-> a, port |-> 2]
B1 == [ip |-> b, port |-> 1]
C1 == [ip |-> c, port |-> 1]
D1 == [ip |-> d, port |-> 1]

MCEndpoints == {A1, A2, B1, C1, D1}

MCGroupOf == [ip \in MCIPs |-> IF ip \in {a, b} THEN "g1" ELSE "g2"]

MCHosts == {h1, h2}

MCResolvesTo == [h \in MCHosts |-> IF h = h1 THEN {A1, B1} ELSE {A2, C1, D1}]

(* The four-endpoint instance: A1, A2 share IP a; a and b share a group;  *)
(* b is local; D1 is banned.  Two hosts, minimum 2, inbound maximum 2.     *)
MidEndpoints == {A1, A2, B1, D1}

MidResolvesTo == [h \in MCHosts |-> IF h = h1 THEN {A1, B1} ELSE {A2, D1}]


(* The callers outside src/: the acceptor hands over transports, and the   *)
(* stack calls connect(), only between start() and stop().  The run that   *)
(* asks whether the manager itself refills a stopped table restricts the   *)
(* behaviours to such callers.                                             *)
CallersOnlyWhileStarted ==
    lifecycle # "started" =>
        \A ep \in Endpoints : ~HandleAccept(ep) /\ ~Connect(ep)

CallersSpec == Init /\ [][Next /\ CallersOnlyWhileStarted]_vars

=============================================================================
