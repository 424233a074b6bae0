----------------------- MODULE TcpConnectionManagerProofs -----------------------
(***************************************************************************)
(* Proofs about the connection manager, for every value of the constants   *)
(* that satisfies the assumptions of TcpConnectionManager.                 *)
(*                                                                         *)
(* IInv strengthens the checked invariants with the facts they rest on:    *)
(* the table is finite (so that its size is a number), and a resolution is *)
(* outstanding only while the captured query list is not empty (so that   *)
(* the callback's queries.front() is a configured host).                   *)
(***************************************************************************)
EXTENDS TcpConnectionManager, FiniteSetTheorems, SequenceTheorems, TLAPS

(* The resolution chain: the resolver is busy exactly while a non-empty   *)
(* list of hosts is captured by the pending do_resolve callback.           *)
ResolverBusyHasQuery == resolver = "busy" => queries # <<>>

IInv ==
    /\ TypeOK
    /\ IsFiniteSet(DOMAIN tcp_connections)
    /\ ResolverBusyHasQuery

-----------------------------------------------------------------------------
(* The table operations keep a finite table of entries.                    *)
LEMMA AddEntryType ==
    ASSUME NEW ep \in Endpoints, NEW e \in Entry,
           DOMAIN tcp_connections \subseteq Endpoints,
           tcp_connections \in [DOMAIN tcp_connections -> Entry],
           IsFiniteSet(DOMAIN tcp_connections)
    PROVE  /\ DOMAIN AddEntry(ep, e) = DOMAIN tcp_connections \cup {ep}
           /\ DOMAIN AddEntry(ep, e) \subseteq Endpoints
           /\ AddEntry(ep, e) \in [DOMAIN AddEntry(ep, e) -> Entry]
           /\ IsFiniteSet(DOMAIN AddEntry(ep, e))
BY FS_AddElement DEF AddEntry

(* The shuffled bootstrap list start() hands to do_resolve is a non-empty  *)
(* sequence of hosts.                                                      *)
LEMMA ShufflesType ==
    \A q \in Shuffles : q \in Seq(Hosts) /\ q # <<>>
<1>1. Cardinality(Hosts) \in Nat /\ Cardinality(Hosts) # 0
  BY HostsAssumption, FS_CardinalityType, FS_EmptySet
<1>2. SUFFICES ASSUME NEW q \in Shuffles PROVE q \in Seq(Hosts) /\ q # <<>>
  OBVIOUS
<1>3. q \in [1 .. Cardinality(Hosts) -> Hosts]
  BY DEF Shuffles
<1>4. q \in Seq(Hosts)
  BY <1>1, <1>3, SeqDef
<1>5. q # <<>>
  BY <1>1, <1>3
<1>. QED  BY <1>4, <1>5

(* The tail of the callback keeps the chain's invariant.                   *)
LEMMA ResolveRestType ==
    ASSUME queries \in Seq(Hosts), queries # <<>>, ResolveRest
    PROVE  /\ queries' \in Seq(Hosts)
           /\ resolver' \in {"idle", "busy"}
           /\ resolver' = "busy" => queries' # <<>>
<1>1. CASE Len(queries) > 1
  <2>1. Tail(queries) \in Seq(Hosts) /\ Len(Tail(queries)) = Len(queries) - 1
    BY HeadTailProperties
  <2>2. Tail(queries) # <<>>
    <3>1. Len(Tail(queries)) # 0
      BY <1>1, <2>1, LenProperties
    <3>. QED  BY <3>1, EmptySeq
  <2>. QED  BY <1>1, <2>1, <2>2 DEF ResolveRest
<1>2. CASE ~(Len(queries) > 1)
  BY <1>2, EmptySeq DEF ResolveRest
<1>. QED  BY <1>1, <1>2

-----------------------------------------------------------------------------
(* The inductive invariant holds initially and is kept by every step.      *)
LEMMA InitIInv == Init => IInv
BY FS_EmptySet, EmptySeq
   DEF Init, IInv, TypeOK, ResolverBusyHasQuery

LEMMA NextIInv == IInv /\ [Next]_vars => IInv'
<1> SUFFICES ASSUME IInv, [Next]_vars PROVE IInv'
  OBVIOUS
<1> USE DEF IInv, TypeOK, ResolverBusyHasQuery
<1>1. CASE Start
  BY <1>1, ShufflesType DEF Start
<1>2. CASE ResolveSucceeded
  <2>1. Head(queries) \in Hosts
    BY <1>2, HeadTailProperties DEF ResolveSucceeded
  <2>2. known' \subseteq Endpoints
    BY <1>2, <2>1, ResolvesToAssumption DEF ResolveSucceeded
  <2>3. /\ queries' \in Seq(Hosts)
        /\ resolver' \in {"idle", "busy"}
        /\ resolver' = "busy" => queries' # <<>>
    BY <1>2, ResolveRestType DEF ResolveSucceeded
  <2>. QED  BY <1>2, <2>2, <2>3 DEF ResolveSucceeded
<1>3. CASE ResolveFailed
  BY <1>3, ResolveRestType DEF ResolveFailed
<1>4. CASE StopCancel
  BY <1>4 DEF StopCancel
<1>5. CASE StopClear
  BY <1>5, FS_EmptySet DEF StopClear
<1>6. CASE \E ep \in Endpoints : HandleAccept(ep)
  <2> PICK ep \in Endpoints : HandleAccept(ep)
    BY <1>6
  <2>1. [dir |-> "in", status |-> "open"] \in Entry
    BY DEF Entry, Status
  <2> DEFINE e == [dir |-> "in", status |-> "open"]
  <2>2. /\ DOMAIN AddEntry(ep, e) \subseteq Endpoints
        /\ AddEntry(ep, e) \in [DOMAIN AddEntry(ep, e) -> Entry]
        /\ IsFiniteSet(DOMAIN AddEntry(ep, e))
    BY <2>1, AddEntryType
  <2>. QED  BY <2>2 DEF HandleAccept
<1>7. CASE \E ep \in Endpoints : Connect(ep)
  <2> PICK ep \in Endpoints : Connect(ep)
    BY <1>7
  <2>1. CASE ConnectRefused(ep)
    BY <2>1 DEF Connect, ConnectRefused
  <2>2. CASE ConnectStarted(ep)
    <3>1. [dir |-> "out", status |-> "connecting"] \in Entry
      BY DEF Entry, Status
    <3> DEFINE e == [dir |-> "out", status |-> "connecting"]
    <3>2. /\ DOMAIN AddEntry(ep, e) \subseteq Endpoints
          /\ AddEntry(ep, e) \in [DOMAIN AddEntry(ep, e) -> Entry]
          /\ IsFiniteSet(DOMAIN AddEntry(ep, e))
      BY <3>1, AddEntryType
    <3>. QED  BY <2>2, <3>2 DEF Connect, ConnectStarted
  <2>. QED  BY <2>1, <2>2 DEF Connect, connect
<1>8. CASE TimerExpires
  BY <1>8 DEF TimerExpires
<1>9. CASE TickAborted
  BY <1>9 DEF TickAborted
<1>10. CASE Tick
  <2> DEFINE alive == {k \in DOMAIN tcp_connections :
                          tcp_connections[k].status \in Valid}
  <2>1. alive \subseteq DOMAIN tcp_connections /\ IsFiniteSet(alive)
    BY FS_Subset
  <2>2. tcp_connections' = [k \in alive |-> tcp_connections[k]]
    BY <1>10 DEF Tick
  <2>. QED  BY <1>10, <2>1, <2>2 DEF Tick
<1>11. CASE \E addr \in known : TickTopUp(addr)
  <2> PICK addr \in known : TickTopUp(addr)
    BY <1>11
  <2>1. addr \in Endpoints
    OBVIOUS
  <2>2. CASE IsSkipped(addr) /\ UNCHANGED <<tcp_connections, tried>>
    BY <2>2 DEF TickTopUp
  <2>3. CASE ConnectRefused(addr)
    BY <2>3 DEF TickTopUp, ConnectRefused
  <2>4. CASE ConnectStarted(addr)
    <3>1. [dir |-> "out", status |-> "connecting"] \in Entry
      BY DEF Entry, Status
    <3> DEFINE e == [dir |-> "out", status |-> "connecting"]
    <3>2. /\ DOMAIN AddEntry(addr, e) \subseteq Endpoints
          /\ AddEntry(addr, e) \in [DOMAIN AddEntry(addr, e) -> Entry]
          /\ IsFiniteSet(DOMAIN AddEntry(addr, e))
      BY <2>1, <3>1, AddEntryType
    <3>. QED  BY <2>4, <3>2 DEF TickTopUp, ConnectStarted
  <2>. QED  BY <2>2, <2>3, <2>4 DEF TickTopUp, connect
<1>12. CASE TickTopUpNoAddress
  BY <1>12 DEF TickTopUpNoAddress
<1>13. CASE TickTopUpDone
  BY <1>13 DEF TickTopUpDone
<1>14. CASE \E ep \in Endpoints :
           TransportConnected(ep) \/ ConnectionClosed(ep) \/ BackoffElapsed(ep)
  <2> PICK ep \in Endpoints :
           TransportConnected(ep) \/ ConnectionClosed(ep) \/ BackoffElapsed(ep)
    BY <1>14
  <2>1. CASE TransportConnected(ep)
    BY <2>1 DEF TransportConnected, Entry, Status
  <2>2. CASE ConnectionClosed(ep)
    BY <2>2 DEF ConnectionClosed, Entry, Status
  <2>3. CASE BackoffElapsed(ep)
    BY <2>3 DEF BackoffElapsed
  <2>. QED  BY <2>1, <2>2, <2>3
<1>15. CASE UNCHANGED vars
  BY <1>15 DEF vars
<1>. QED
  BY <1>1, <1>2, <1>3, <1>4, <1>5, <1>6, <1>7, <1>8, <1>9, <1>10, <1>11,
     <1>12, <1>13, <1>14, <1>15 DEF Next

(* Type correctness of the connection manager: every reachable state has   *)
(* a table of well-formed entries over the configured endpoints and a     *)
(* query list of configured hosts.                                         *)
THEOREM TypeCorrect == Spec => []TypeOK
<1>1. Init => IInv
  BY InitIInv
<1>2. IInv /\ [Next]_vars => IInv'
  BY NextIInv
<1>3. IInv => TypeOK
  BY DEF IInv
<1>. QED  BY <1>1, <1>2, <1>3, PTL DEF Spec

-----------------------------------------------------------------------------
(***************************************************************************)
(* The admission invariants.  Safe is inductive relative to IInv: each of  *)
(* its conjuncts is needed for the others only through the size bound of  *)
(* TopUpBound, which the top-up step needs to rule out the wrapped guard.  *)
(***************************************************************************)
Safe == InboundUniqueIP /\ InboundCapacity /\ TopUpBound

(* A step that keeps the keys and the direction of every entry keeps the   *)
(* inbound set.                                                            *)
LEMMA InboundKept ==
    ASSUME DOMAIN tcp_connections' = DOMAIN tcp_connections,
           \A k \in DOMAIN tcp_connections :
               tcp_connections'[k].dir = tcp_connections[k].dir
    PROVE  Inbound' = Inbound
BY DEF Inbound

(* The inbound entries are a finite part of the table.                     *)
LEMMA InboundFinite ==
    ASSUME IsFiniteSet(DOMAIN tcp_connections)
    PROVE  /\ Inbound \subseteq DOMAIN tcp_connections
           /\ IsFiniteSet(Inbound)
           /\ Cardinality(Inbound) <= Size
BY FS_Subset DEF Inbound, Size

LEMMA SafeInit == Init => Safe
<1> SUFFICES ASSUME Init PROVE Safe
  OBVIOUS
<1>1. Inbound = {} /\ tick_pc = "idle"
  BY DEF Init, Inbound
<1>. QED  BY <1>1, FS_EmptySet, InboundAssumption
          DEF Safe, InboundUniqueIP, InboundCapacity, TopUpBound

(* handle_accept: a new inbound key whose IP no key has, under the limit.  *)
LEMMA SafeHandleAccept ==
    ASSUME IInv, Safe, NEW ep \in Endpoints, HandleAccept(ep)
    PROVE  Safe'
<1> DEFINE e == [dir |-> "in", status |-> "open"]
<1> USE DEF IInv, TypeOK
<1>1. ep \notin DOMAIN tcp_connections
  BY DEF HandleAccept, IsDuplicateIP
<1>2. /\ DOMAIN tcp_connections' = DOMAIN tcp_connections \cup {ep}
      /\ tcp_connections'[ep] = e
      /\ \A k \in DOMAIN tcp_connections :
            tcp_connections'[k] = tcp_connections[k]
  BY <1>1 DEF HandleAccept, AddEntry
<1>3. Inbound' = Inbound \cup {ep}
  BY <1>2 DEF Inbound
<1>4. InboundUniqueIP'
  <2>1. \A k \in Inbound : k.ip # ep.ip
    BY DEF HandleAccept, IsDuplicateIP, Inbound
  <2>. QED  BY <1>3, <2>1 DEF Safe, InboundUniqueIP
<1>5. InboundCapacity'
  <2>1. /\ IsFiniteSet(Inbound)
        /\ Cardinality(Inbound) <= Size
        /\ ep \notin Inbound
    BY <1>1, InboundFinite DEF Inbound
  <2>2. Cardinality(Inbound \cup {ep}) = Cardinality(Inbound) + 1
    BY <2>1, FS_AddElement
  <2>3. Size \in Nat /\ Size < InboundMaximum
    BY FS_CardinalityType DEF HandleAccept, Size
  <2>4. Cardinality(Inbound) \in Nat
    BY <2>1, FS_CardinalityType
  <2>5. Cardinality(Inbound') = Cardinality(Inbound) + 1
    BY <1>3, <2>2
  <2>. QED  BY <2>1, <2>3, <2>4, <2>5, InboundAssumption DEF InboundCapacity
<1>6. TopUpBound'
  BY DEF HandleAccept, TopUpBound
<1>. QED  BY <1>4, <1>5, <1>6 DEF Safe

(* connect() that starts a connection: a new outbound key.                 *)
LEMMA ConnectStartedInbound ==
    ASSUME TypeOK, NEW ep \in Endpoints, ConnectStarted(ep)
    PROVE  /\ Inbound' = Inbound
           /\ DOMAIN tcp_connections' = DOMAIN tcp_connections \cup {ep}
           /\ ep \notin DOMAIN tcp_connections
BY DEF ConnectStarted, AddEntry, Inbound


(* tick's prune keeps a part of the table and enters the top-up loop only  *)
(* with at most minimum_tcp_connections entries left.                      *)
LEMMA SafeTick ==
    ASSUME IInv, Safe, Tick
    PROVE  Safe'
<1> USE DEF IInv, TypeOK
<1> DEFINE alive == {k \in DOMAIN tcp_connections :
                        tcp_connections[k].status \in Valid}
<1>1. tcp_connections' = [k \in alive |-> tcp_connections[k]]
  BY DEF Tick
<1>2. Inbound' \subseteq Inbound
  BY <1>1 DEF Inbound
<1>3. InboundUniqueIP'
  BY <1>2 DEF Safe, InboundUniqueIP
<1>4. InboundCapacity'
  <2>1. IsFiniteSet(Inbound) /\ Cardinality(Inbound) <= InboundMaximum
    BY InboundFinite DEF Safe, InboundCapacity
  <2>2. Cardinality(Inbound') <= Cardinality(Inbound)
    BY <1>2, <2>1, FS_Subset
  <2>3. Cardinality(Inbound') \in Nat /\ Cardinality(Inbound) \in Nat
    BY <1>2, <2>1, FS_Subset, FS_CardinalityType
  <2>. QED  BY <2>1, <2>2, <2>3, InboundAssumption DEF InboundCapacity
<1>5. TopUpBound'
  <2>1. Size' = Cardinality(alive)
    BY <1>1 DEF Size
  <2>2. IsFiniteSet(alive)
    BY FS_Subset
  <2>3. Cardinality(alive) \in Nat
    BY <2>2, FS_CardinalityType
  <2>4. tick_pc' = "topup" => Cardinality(alive) < MinimumTcpConnections + 1
    BY DEF Tick
  <2>. QED  BY <2>1, <2>3, <2>4, MinimumAssumption DEF TopUpBound
<1>. QED  BY <1>3, <1>4, <1>5 DEF Safe

(* One iteration of tick's top-up: a connect() adds an outbound key only   *)
(* while the re-evaluated guard leaves room below the minimum.             *)
LEMMA SafeTickTopUp ==
    ASSUME IInv, Safe, NEW addr \in known, TickTopUp(addr)
    PROVE  Safe'
<1> USE DEF IInv, TypeOK
<1>1. tick_pc = "topup" /\ tick_pc' = "topup"
  BY DEF TickTopUp
<1>2. CASE UNCHANGED <<tcp_connections, tried>>
  BY <1>1, <1>2 DEF Safe, InboundUniqueIP, InboundCapacity, TopUpBound,
                    Inbound, Size
<1>3. CASE ConnectStarted(addr)
  <2>1. /\ Inbound' = Inbound
        /\ DOMAIN tcp_connections' = DOMAIN tcp_connections \cup {addr}
        /\ addr \notin DOMAIN tcp_connections
    BY <1>3, ConnectStartedInbound
  <2>2. Size' = Size + 1 /\ Size \in Nat
    BY <2>1, FS_AddElement, FS_CardinalityType DEF Size
  <2>3. Size <= MinimumTcpConnections
    BY <1>1 DEF Safe, TopUpBound
  <2>4. tick_i < MinimumTcpConnections - Size
    BY <1>3, <2>2, <2>3, MinimumAssumption DEF TickTopUp, TopUpContinues
  <2>5. Size' <= MinimumTcpConnections
    BY <2>2, <2>4, MinimumAssumption
  <2>. QED  BY <2>1, <2>5 DEF Safe, InboundUniqueIP, InboundCapacity,
                             TopUpBound
<1>. QED  BY <1>2, <1>3 DEF TickTopUp, connect, ConnectRefused

LEMMA SafeNext == IInv /\ Safe /\ [Next]_vars => Safe'
<1> SUFFICES ASSUME IInv, Safe, [Next]_vars PROVE Safe'
  OBVIOUS
<1>1. CASE Start \/ ResolveSucceeded \/ ResolveFailed \/ StopCancel
           \/ TimerExpires \/ TickAborted \/ TickTopUpNoAddress
           \/ UNCHANGED vars
  <2>1. UNCHANGED <<tcp_connections, tick_pc>>
    BY <1>1 DEF Start, ResolveSucceeded, ResolveFailed, StopCancel,
                TimerExpires, TickAborted, TickTopUpNoAddress, vars
  <2>. QED  BY <2>1 DEF Safe, InboundUniqueIP, InboundCapacity, TopUpBound,
                        Inbound, Size
<1>2. CASE StopClear \/ TickTopUpDone
  <2>1. tick_pc' = "idle"
    BY <1>2 DEF StopClear, TickTopUpDone
  <2>2. Inbound' \subseteq Inbound
    BY <1>2 DEF StopClear, TickTopUpDone, Inbound
  <2>3. IsFiniteSet(Inbound) /\ Cardinality(Inbound) <= InboundMaximum
    BY InboundFinite DEF Safe, InboundCapacity, IInv
  <2>4. Cardinality(Inbound') \in Nat /\ Cardinality(Inbound) \in Nat
        /\ Cardinality(Inbound') <= Cardinality(Inbound)
    BY <2>2, <2>3, FS_Subset, FS_CardinalityType
  <2>. QED  BY <2>1, <2>2, <2>3, <2>4, InboundAssumption
            DEF Safe, InboundUniqueIP, InboundCapacity, TopUpBound
<1>3. CASE \E ep \in Endpoints : HandleAccept(ep)
  BY <1>3, SafeHandleAccept
<1>4. CASE \E ep \in Endpoints : Connect(ep)
  <2> PICK ep \in Endpoints : Connect(ep)
    BY <1>4
  <2>1. tick_pc' = "idle"
    BY DEF Connect
  <2>2. CASE ConnectRefused(ep)
    BY <2>1, <2>2 DEF Connect, ConnectRefused, Safe, InboundUniqueIP,
                      InboundCapacity, TopUpBound, Inbound
  <2>3. CASE ConnectStarted(ep)
    <3>1. Inbound' = Inbound
      BY <2>3, ConnectStartedInbound DEF IInv
    <3>. QED  BY <2>1, <3>1 DEF Safe, InboundUniqueIP, InboundCapacity,
                               TopUpBound
  <2>. QED  BY <2>2, <2>3 DEF Connect, connect
<1>5. CASE Tick
  BY <1>5, SafeTick
<1>6. CASE \E addr \in known : TickTopUp(addr)
  BY <1>6, SafeTickTopUp
<1>7. CASE \E ep \in Endpoints :
           TransportConnected(ep) \/ ConnectionClosed(ep) \/ BackoffElapsed(ep)
  <2> PICK ep \in Endpoints :
           TransportConnected(ep) \/ ConnectionClosed(ep) \/ BackoffElapsed(ep)
    BY <1>7
  <2>1. /\ DOMAIN tcp_connections' = DOMAIN tcp_connections
        /\ \A k \in DOMAIN tcp_connections :
              tcp_connections'[k].dir = tcp_connections[k].dir
        /\ tick_pc' = tick_pc
    BY DEF TransportConnected, ConnectionClosed, BackoffElapsed, IInv, TypeOK,
           Entry
  <2>2. Inbound' = Inbound /\ Size' = Size
    BY <2>1, InboundKept DEF Size
  <2>. QED  BY <2>1, <2>2 DEF Safe, InboundUniqueIP, InboundCapacity,
                             TopUpBound
<1>. QED  BY <1>1, <1>2, <1>3, <1>4, <1>5, <1>6, <1>7 DEF Next

(* No two inbound connections share an IP, the inbound entries never       *)
(* exceed network_tcp_inbound_maximum, and tick's top-up never holds more  *)
(* than minimum_tcp_connections entries, so its size_t guard never wraps.  *)
THEOREM AdmissionSafety == Spec => [](InboundUniqueIP /\ InboundCapacity /\ TopUpBound)
<1>1. Init => IInv /\ Safe
  BY InitIInv, SafeInit
<1>2. IInv /\ Safe /\ [Next]_vars => IInv' /\ Safe'
  BY NextIInv, SafeNext
<1>3. Safe => InboundUniqueIP /\ InboundCapacity /\ TopUpBound
  BY DEF Safe
<1>. QED  BY <1>1, <1>2, <1>3, PTL DEF Spec

(* handle_accept's inbound limit holds in every reachable state.           *)
THEOREM InboundCapacityHolds == Spec => []InboundCapacity
BY AdmissionSafety, PTL

(* tick's top-up never leaves more entries than the minimum.               *)
THEOREM TopUpBoundHolds == Spec => []TopUpBound
BY AdmissionSafety, PTL

(* No two inbound connections share an IP.                                 *)
THEOREM InboundUniqueIPHolds == Spec => []InboundUniqueIP
BY AdmissionSafety, PTL

=============================================================================
