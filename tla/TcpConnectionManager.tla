-------------------------- MODULE TcpConnectionManager --------------------------
(***************************************************************************)
(* The peer connection manager of src/src/tcp_connection_manager.cpp.      *)
(*                                                                         *)
(* State kept by the manager: the table m_tcp_connections (endpoint ->     *)
(* weak_ptr<tcp_connection>), the maintenance timer and the chain of       *)
(* bootstrap resolutions.  State of its collaborators that the manager     *)
(* reads or writes: the address manager (known addresses, the last-try     *)
(* bookkeeping used for the 600 s back-off) and the liveness of each       *)
(* connection (its weak_ptr, its transport).                               *)
(*                                                                         *)
(* Every handler that takes mutex_tcp_connections_ runs atomically with    *)
(* respect to the others; tick holds the lock across its whole top-up      *)
(* loop, so the loop is split into one step per iteration (tick_pc =       *)
(* "topup") during which the other lock holders are disabled but the       *)
(* connections themselves (other threads) keep changing.                   *)
(***************************************************************************)
EXTENDS Naturals, FiniteSets, Sequences

CONSTANTS
    IPs,                    \* remote IP addresses
    Endpoints,              \* remote endpoints (IP, port)
    GroupOf,                \* network_address_t::group() of an IP
    LocalIPs,               \* IPs for which network_address_t::is_local() holds
    BannedIPs,              \* network::is_address_banned
    Hosts,                  \* configured bootstrap host names
    ResolvesTo,             \* what a successful resolution of a host returns
    MinimumTcpConnections,  \* minimum_tcp_connections
    InboundMaximum          \* configuration::network_tcp_inbound_maximum()

ASSUME EndpointsAssumption == Endpoints \subseteq [ip : IPs, port : Nat]
ASSUME LocalAssumption == LocalIPs \subseteq IPs /\ BannedIPs \subseteq IPs
ASSUME HostsAssumption == IsFiniteSet(Hosts) /\ Hosts # {}
ASSUME ResolvesToAssumption == ResolvesTo \in [Hosts -> SUBSET Endpoints]
ASSUME MinimumAssumption == MinimumTcpConnections \in Nat \ {0}
ASSUME InboundAssumption == InboundMaximum \in Nat \ {0}

VARIABLES
    lifecycle,        \* where the owner is in start()/stop()
    tcp_connections,  \* m_tcp_connections: endpoint -> [dir, status]
    tried,            \* endpoints whose addr.last_try is less than 600 s old
    known,            \* endpoints the address manager holds
    queries,          \* the query list captured by the in-flight do_resolve
    resolver,         \* "busy" while an async_resolve is outstanding
    timer,            \* timer_: "idle", "armed", "expired" or "cancelled"
    tick_pc,          \* "topup" while tick holds the lock in its top-up loop
    tick_i            \* the loop counter i of that loop

vars == <<lifecycle, tcp_connections, tried, known, queries, resolver,
          timer, tick_pc, tick_i>>

(***************************************************************************)
(* A table entry.  "connecting": outbound transport not yet connected, so  *)
(* socket().remote_endpoint() throws; "open": connected and valid;         *)
(* "dead": the weak_ptr has expired or is_transport_valid() is false.      *)
(* The two dead cases are pruned alike by tick and are skipped alike by    *)
(* the group scan (a closed socket has no remote endpoint), so one value   *)
(* stands for both.                                                        *)
(***************************************************************************)
Status == {"connecting", "open", "dead"}
Valid == {"connecting", "open"}
Entry == [dir : {"in", "out"}, status : Status]

Shuffles ==
    {q \in [1 .. Cardinality(Hosts) -> Hosts] :
        \A h \in Hosts : \E i \in 1 .. Cardinality(Hosts) : q[i] = h}

\* m_tcp_connections[ep] = connection
AddEntry(ep, e) ==
    [k \in DOMAIN tcp_connections \cup {ep} |->
        IF k = ep THEN e ELSE tcp_connections[k]]

Size == Cardinality(DOMAIN tcp_connections)

TypeOK ==
    /\ lifecycle \in {"none", "started", "stopping", "stopped"}
    /\ DOMAIN tcp_connections \subseteq Endpoints
    /\ tcp_connections \in [DOMAIN tcp_connections -> Entry]
    /\ tried \subseteq Endpoints
    /\ known \subseteq Endpoints
    /\ queries \in Seq(Hosts)
    /\ resolver \in {"idle", "busy"}
    /\ timer \in {"idle", "armed", "expired", "cancelled"}
    /\ tick_pc \in {"idle", "topup"}
    /\ tick_i \in Nat

Init ==
    /\ lifecycle = "none"
    /\ tcp_connections = [k \in {} |-> [dir |-> "in", status |-> "open"]]
    /\ tried = {}
    /\ known = {}
    /\ queries = <<>>
    /\ resolver = "idle"
    /\ timer = "idle"
    /\ tick_pc = "idle"
    /\ tick_i = 0

-----------------------------------------------------------------------------
(* start(): shuffle the bootstrap list, resolve its head, arm the timer.  *)
Start ==
    /\ lifecycle = "none"
    /\ \E q \in Shuffles : queries' = q
    /\ resolver' = "busy"
    /\ timer' = "armed"
    /\ lifecycle' = "started"
    /\ UNCHANGED <<tcp_connections, tried, known, tick_pc, tick_i>>

(* The tail of the do_resolve callback: resolve the rest, if any.          *)
ResolveRest ==
    IF Len(queries) > 1
    THEN queries' = Tail(queries) /\ resolver' = "busy"
    ELSE queries' = <<>> /\ resolver' = "idle"

(* Mutant of ResolveSucceeded: the arguments of add(addr, source) swapped,  *)
(* so the 127.0.0.1:0 source reaches the address manager.                  *)
ResolveSucceededSwapped ==
    /\ resolver = "busy"
    /\ known' = known \cup {[ip |-> "127.0.0.1", port |-> 0]}
    /\ ResolveRest
    /\ UNCHANGED <<lifecycle, tcp_connections, tried, timer, tick_pc, tick_i>>

(* The callback with a result: add the endpoint to the address manager.    *)
ResolveSucceeded ==
    /\ resolver = "busy"
    /\ \E ep \in ResolvesTo[Head(queries)] : known' = known \cup {ep}
    /\ ResolveRest
    /\ UNCHANGED <<lifecycle, tcp_connections, tried, timer, tick_pc, tick_i>>

(* The callback with an error code, a failed lookup or resolver_.cancel(): *)
(* the error branch is empty and the chain goes on regardless.             *)
ResolveFailed ==
    /\ resolver = "busy"
    /\ ResolveRest
    /\ UNCHANGED <<lifecycle, tcp_connections, tried, known, timer,
                   tick_pc, tick_i>>

(* stop(), first half: resolver_.cancel(), timer_.cancel().  A wait that   *)
(* has already expired cannot be cancelled: its handler still runs with a  *)
(* success code.  The cancelled resolution reaches ResolveFailed.          *)
StopCancel ==
    /\ lifecycle = "started"
    /\ lifecycle' = "stopping"
    /\ timer' = IF timer = "armed" THEN "cancelled" ELSE timer
    /\ UNCHANGED <<tcp_connections, tried, known, queries, resolver,
                   tick_pc, tick_i>>

(* stop(), second half, under the lock: stop every connection, clear.      *)
StopClear ==
    /\ lifecycle = "stopping"
    /\ tick_pc = "idle"
    /\ lifecycle' = "stopped"
    /\ tcp_connections' = [k \in {} |-> [dir |-> "in", status |-> "open"]]
    /\ UNCHANGED <<tried, known, queries, resolver, timer, tick_pc, tick_i>>

-----------------------------------------------------------------------------
(* handle_accept(transport) for a transport from remote endpoint ep.  The  *)
(* three rejections (duplicate IP, banned, inbound limit) only stop the    *)
(* transport and leave the manager's state as it is: they are stuttering  *)
(* steps, which [Next]_vars allows; the action is the accepting branch.    *)
IsDuplicateIP(ep) == \E k \in DOMAIN tcp_connections : k.ip = ep.ip

(* Mutant of HandleAccept: > for >= in the inbound limit.                  *)
HandleAcceptOffByOne(ep) ==
    /\ tick_pc = "idle"
    /\ ~IsDuplicateIP(ep)
    /\ ep.ip \notin BannedIPs
    /\ Size <= InboundMaximum
    /\ tcp_connections' = AddEntry(ep, [dir |-> "in", status |-> "open"])
    /\ UNCHANGED <<lifecycle, tried, known, queries, resolver, timer,
                   tick_pc, tick_i>>

HandleAccept(ep) ==
    /\ tick_pc = "idle"
    /\ ~IsDuplicateIP(ep)
    /\ ep.ip \notin BannedIPs
    /\ Size < InboundMaximum
    /\ tcp_connections' = AddEntry(ep, [dir |-> "in", status |-> "open"])
    /\ UNCHANGED <<lifecycle, tried, known, queries, resolver, timer,
                   tick_pc, tick_i>>

(* connect(ep), the body run under the lock (also from within tick).       *)
ConnectRefused(ep) ==
    /\ ep.ip \in BannedIPs \/ ep \in DOMAIN tcp_connections
    /\ UNCHANGED <<tcp_connections, tried>>

ConnectStarted(ep) ==
    /\ ep.ip \notin BannedIPs
    /\ ep \notin DOMAIN tcp_connections
    /\ tried' = tried \cup {ep}
    /\ tcp_connections' = AddEntry(ep, [dir |-> "out", status |-> "connecting"])

connect(ep) == ConnectRefused(ep) \/ ConnectStarted(ep)

(* A call of connect() from outside the manager.                           *)
Connect(ep) ==
    /\ tick_pc = "idle"
    /\ connect(ep)
    /\ UNCHANGED <<lifecycle, known, queries, resolver, timer, tick_pc, tick_i>>

-----------------------------------------------------------------------------
(* The timer fires: its handler is queued on the strand.                   *)
TimerExpires ==
    /\ timer = "armed"
    /\ timer' = "expired"
    /\ UNCHANGED <<lifecycle, tcp_connections, tried, known, queries,
                   resolver, tick_pc, tick_i>>

(* tick(ec) with an error code (operation_aborted): nothing happens.       *)
TickAborted ==
    /\ timer = "cancelled"
    /\ timer' = "idle"
    /\ UNCHANGED <<lifecycle, tcp_connections, tried, known, queries,
                   resolver, tick_pc, tick_i>>

(* tick(ec), success: take the lock, prune every entry whose weak_ptr has  *)
(* expired or whose transport is invalid; if fewer than minimum + 1        *)
(* remain enter the top-up loop, otherwise re-arm the timer for 8 s.       *)
(* Mutant of Tick: the branch with enough connections does not re-arm.    *)
TickNoRearm ==
    /\ timer = "expired"
    /\ tick_pc = "idle"
    /\ LET alive == {k \in DOMAIN tcp_connections :
                        tcp_connections[k].status \in Valid}
       IN /\ tcp_connections' = [k \in alive |-> tcp_connections[k]]
          /\ IF Cardinality(alive) < MinimumTcpConnections + 1
             THEN tick_pc' = "topup" /\ timer' = "idle"
             ELSE tick_pc' = "idle" /\ timer' = "idle"
    /\ tick_i' = 0
    /\ UNCHANGED <<lifecycle, tried, known, queries, resolver>>

Tick ==
    /\ timer = "expired"
    /\ tick_pc = "idle"
    /\ LET alive == {k \in DOMAIN tcp_connections :
                        tcp_connections[k].status \in Valid}
       IN /\ tcp_connections' = [k \in alive |-> tcp_connections[k]]
          /\ IF Cardinality(alive) < MinimumTcpConnections + 1
             THEN tick_pc' = "topup" /\ timer' = "idle"
             ELSE tick_pc' = "idle" /\ timer' = "armed"
    /\ tick_i' = 0
    /\ UNCHANGED <<lifecycle, tried, known, queries, resolver>>

(* Some open entry's transport reports a remote endpoint in addr's group. *)
IsInSameGroup(addr) ==
    \E k \in DOMAIN tcp_connections :
        /\ tcp_connections[k].status = "open"
        /\ GroupOf[k.ip] = GroupOf[addr.ip]

(* The candidate checks of the loop body, for a valid address.             *)
IsSkipped(addr) ==
    \/ addr.ip \in LocalIPs
    \/ IsInSameGroup(addr)
    \/ addr \in tried

(* Mutant of TopUpContinues: <= for <.                                     *)
TopUpContinuesOffByOne ==
    Size > MinimumTcpConnections \/ tick_i <= MinimumTcpConnections - Size

(* The loop guard i < minimum - size, re-evaluated against the current     *)
(* size, which connect() may have grown in the previous iteration.  The    *)
(* difference is size_t: were the table larger than the minimum it would   *)
(* wrap to a huge bound and the loop would go on.                          *)
TopUpContinues ==
    Size > MinimumTcpConnections \/ tick_i < MinimumTcpConnections - Size

(* One iteration of the top-up loop in which select() returns the address  *)
(* addr the address manager holds.                                         *)
TickTopUp(addr) ==
    /\ tick_pc = "topup"
    /\ TopUpContinues
    /\ tick_i' = tick_i + 1
    /\ \/ IsSkipped(addr) /\ UNCHANGED <<tcp_connections, tried>>
       \/ ~IsSkipped(addr) /\ connect(addr)
    /\ UNCHANGED <<lifecycle, known, queries, resolver, timer, tick_pc>>

(* An iteration in which the address manager is empty: select() returns a  *)
(* default address, which is_valid() rejects.                              *)
TickTopUpNoAddress ==
    /\ tick_pc = "topup"
    /\ TopUpContinues
    /\ known = {}
    /\ tick_i' = tick_i + 1
    /\ UNCHANGED <<lifecycle, tcp_connections, tried, known, queries,
                   resolver, timer, tick_pc>>

(* The loop ends: re-arm the timer for 8 s and release the lock.           *)
TickTopUpDone ==
    /\ tick_pc = "topup"
    /\ ~TopUpContinues
    /\ tick_pc' = "idle"
    /\ tick_i' = 0
    /\ timer' = "armed"
    /\ UNCHANGED <<lifecycle, tcp_connections, tried, known, queries, resolver>>

-----------------------------------------------------------------------------
(* The environment: connections and the clock, outside this file.          *)
TransportConnected(ep) ==
    /\ ep \in DOMAIN tcp_connections
    /\ tcp_connections[ep].status = "connecting"
    /\ tcp_connections' = [tcp_connections EXCEPT ![ep].status = "open"]
    /\ UNCHANGED <<lifecycle, tried, known, queries, resolver, timer,
                   tick_pc, tick_i>>

ConnectionClosed(ep) ==
    /\ ep \in DOMAIN tcp_connections
    /\ tcp_connections[ep].status \in Valid
    /\ tcp_connections' = [tcp_connections EXCEPT ![ep].status = "dead"]
    /\ UNCHANGED <<lifecycle, tried, known, queries, resolver, timer,
                   tick_pc, tick_i>>

BackoffElapsed(ep) ==
    /\ ep \in tried
    /\ tried' = tried \ {ep}
    /\ UNCHANGED <<lifecycle, tcp_connections, known, queries, resolver,
                   timer, tick_pc, tick_i>>

Next ==
    \/ Start
    \/ ResolveSucceeded
    \/ ResolveFailed
    \/ StopCancel
    \/ StopClear
    \/ \E ep \in Endpoints : HandleAccept(ep)
    \/ \E ep \in Endpoints : Connect(ep)
    \/ TimerExpires
    \/ TickAborted
    \/ Tick
    \/ \E addr \in known : TickTopUp(addr)
    \/ TickTopUpNoAddress
    \/ TickTopUpDone
    \/ \E ep \in Endpoints :
          TransportConnected(ep) \/ ConnectionClosed(ep) \/ BackoffElapsed(ep)

(***************************************************************************)
(* Fairness: the io_service runs every expired timer's handler and the     *)
(* strand runs every queued tick to completion; a stop() call, once the    *)
(* lock is free, completes.  Peers, the clock and outside callers get no   *)
(* fairness.                                                               *)
(***************************************************************************)
Fairness ==
    /\ WF_vars(TimerExpires)
    /\ WF_vars(TickAborted)
    /\ WF_vars(Tick)
    /\ WF_vars(\E addr \in known : TickTopUp(addr))
    /\ WF_vars(TickTopUpNoAddress)
    /\ WF_vars(TickTopUpDone)
    /\ WF_vars(StopClear)

Spec == Init /\ [][Next]_vars /\ Fairness

-----------------------------------------------------------------------------
(***************************************************************************)
(* Properties.                                                             *)
(***************************************************************************)
Inbound == {k \in DOMAIN tcp_connections : tcp_connections[k].dir = "in"}
Added == DOMAIN tcp_connections' \ DOMAIN tcp_connections

(* handle_accept admits one inbound connection per IP: the duplicate scan  *)
(* runs over every key, dead ones included, so no two inbound entries of   *)
(* the table share an IP, whatever the order of accepts and prunes.        *)
InboundUniqueIP ==
    \A k1, k2 \in Inbound : k1 # k2 => k1.ip # k2.ip

(* The inbound limit of handle_accept holds for the inbound entries even   *)
(* though outbound connect() calls and tick's top-up ignore it.            *)
InboundCapacity == Cardinality(Inbound) <= InboundMaximum

(* tick's top-up, whose bound minimum - size is re-read as connect() grows *)
(* the table, never holds more than minimum_tcp_connections entries, so    *)
(* the size_t difference of its guard never wraps.                         *)
TopUpBound == tick_pc = "topup" => Size <= MinimumTcpConnections

(* While the manager runs, every entry whose connection has died is        *)
(* eventually pruned by a tick (which must re-arm itself on both of its    *)
(* branches).                                                              *)
DeadEntriesPruned ==
    \A ep \in Endpoints :
        (lifecycle = "started" /\ ep \in DOMAIN tcp_connections
            /\ tcp_connections[ep].status = "dead")
        ~> (ep \notin DOMAIN tcp_connections
            \/ tcp_connections[ep].status # "dead")

(***************************************************************************)
(* Refinement: the manager implements ConnectionTable, the table the spec  *)
(* describes.  An entry's connection is alive while its status is valid;   *)
(* the timer, the resolver, the address book and the top-up loop are      *)
(* hidden.                                                                 *)
(***************************************************************************)
TableView ==
    [k \in DOMAIN tcp_connections |->
        [dir |-> tcp_connections[k].dir,
         alive |-> tcp_connections[k].status \in Valid]]

CT == INSTANCE ConnectionTable WITH table <- TableView

(* Every step of the manager is a step of ConnectionTable or leaves the     *)
(* table view alone: accepts and connects obey the admission rules, and    *)
(* tick's prune removes only entries whose connection died.                *)
ConnectionTableSpec == CT!Spec

(* spec.md 4.1: tick "enforces at most one peer per group": a top-up step  *)
(* never connects into a group that already has a live entry.             *)
TickDiversity ==
    [][tick_pc = "topup" =>
        \A k \in Added : \A k2 \in DOMAIN tcp_connections :
            tcp_connections[k2].status \in Valid =>
                GroupOf[k2.ip] # GroupOf[k.ip]]_vars

(* spec.md 4.1: stop() cancels the pending timer, stops every connection   *)
(* and clears the table: once it has returned the table stays empty.       *)
StoppedStaysEmpty == lifecycle = "stopped" => DOMAIN tcp_connections = {}

(* spec.md 4.1: stop() cancels any in-flight resolution: once stop() has  *)
(* begun, no further bootstrap host is sent to the resolver (an answer     *)
(* already on its way may still arrive).                                   *)
ResolutionHaltsOnStop ==
    [][(lifecycle \in {"stopping", "stopped"}) =>
            queries' \in {queries, <<>>}]_vars

=============================================================================
