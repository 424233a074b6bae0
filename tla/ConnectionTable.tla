---------------------------- MODULE ConnectionTable ----------------------------
(***************************************************************************)
(* What the connection manager promises about its table (spec.md 4.1 and   *)
(* 9), with no timer, resolver, address book or lock: a table from remote  *)
(* endpoint to an entry that is inbound or outbound and whose connection   *)
(* is alive or has died.                                                   *)
(*                                                                         *)
(*  - an inbound connection is admitted only from an IP no entry has, not  *)
(*    banned, while the table is below the inbound maximum;                *)
(*  - an outbound connection is opened only to an endpoint that is not     *)
(*    banned and not in the table;                                         *)
(*  - a connection may die at any time;                                    *)
(*  - only entries whose connection died are purged, and stopping clears   *)
(*    the whole table.                                                     *)
(***************************************************************************)
EXTENDS Naturals, FiniteSets

CONSTANTS Endpoints, BannedIPs, InboundMaximum

VARIABLE table

TableEntry == [dir : {"in", "out"}, alive : BOOLEAN]

Insert(ep, e) ==
    [k \in DOMAIN table \cup {ep} |-> IF k = ep THEN e ELSE table[k]]

TypeOK ==
    /\ DOMAIN table \subseteq Endpoints
    /\ table \in [DOMAIN table -> TableEntry]

Init == table = [k \in {} |-> [dir |-> "in", alive |-> TRUE]]

Admit(ep) ==
    /\ \A k \in DOMAIN table : k.ip # ep.ip
    /\ ep.ip \notin BannedIPs
    /\ Cardinality(DOMAIN table) < InboundMaximum
    /\ table' = Insert(ep, [dir |-> "in", alive |-> TRUE])

Dial(ep) ==
    /\ ep.ip \notin BannedIPs
    /\ ep \notin DOMAIN table
    /\ table' = Insert(ep, [dir |-> "out", alive |-> TRUE])

Die(ep) ==
    /\ ep \in DOMAIN table
    /\ table[ep].alive
    /\ table' = [table EXCEPT ![ep].alive = FALSE]

Purge(gone) ==
    /\ \A k \in gone : ~table[k].alive
    /\ table' = [k \in DOMAIN table \ gone |-> table[k]]

Clear == table' = [k \in {} |-> [dir |-> "in", alive |-> TRUE]]

Next ==
    \/ \E ep \in Endpoints : Admit(ep) \/ Dial(ep) \/ Die(ep)
    \/ \E gone \in SUBSET DOMAIN table : Purge(gone)
    \/ Clear

Spec == Init /\ [][Next]_table

=============================================================================
