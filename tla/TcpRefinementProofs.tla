------------------------ MODULE TcpRefinementProofs ------------------------
(***************************************************************************)
(* Proof that the connection manager implements ConnectionTable under the  *)
(* mapping TableView, for every value of the constants.                    *)
(*                                                                         *)
(* The argument is one step per handler: the accepting branch of           *)
(* handle_accept is an Admit (its three tests are the abstract guard),     *)
(* connect() that starts a transport is a Dial, a connection closing is a  *)
(* Die, tick's prune is a Purge of the entries it drops, stop()'s clear is *)
(* a Clear; every other step, a transport finishing its connect included,  *)
(* leaves the view alone.  The only invariant needed is the type of the    *)
(* table, so that an entry keeps its direction when its status changes.    *)
(***************************************************************************)
EXTENDS TcpConnectionManagerProofs

(* Adding an entry to the table adds its view to the view.                 *)
LEMMA AddEntryView ==
    ASSUME NEW ep, NEW d, NEW st,
           tcp_connections' = AddEntry(ep, [dir |-> d, status |-> st])
    PROVE  TableView' = CT!Insert(ep, [dir |-> d, alive |-> st \in Valid])
BY DEF TableView, AddEntry, CT!Insert

(* ConnectionTable's Cardinality, reached through the instance, is the    *)
(* one of FiniteSets.                                                      *)
LEMMA CardinalitySame == \A S : CT!Cardinality(S) = Cardinality(S)
BY DEF CT!Cardinality, Cardinality

(* The connection manager starts with the abstract table empty.            *)
LEMMA InitRefines == Init => CT!Init
BY DEF Init, CT!Init, TableView

(* The steps that only ever change what the view hides.                    *)
LEMMA HiddenSteps ==
    ASSUME [Next]_vars, UNCHANGED tcp_connections
    PROVE  UNCHANGED TableView
BY DEF TableView

LEMMA AcceptRefines ==
    ASSUME NEW ep \in Endpoints, HandleAccept(ep)
    PROVE  CT!Admit(ep)
<1>1. \A k \in DOMAIN TableView : k.ip # ep.ip
  BY DEF HandleAccept, IsDuplicateIP, TableView
<1>2. CT!Cardinality(DOMAIN TableView) < InboundMaximum
  BY CardinalitySame DEF HandleAccept, Size, TableView
<1>3. TableView' = CT!Insert(ep, [dir |-> "in", alive |-> "open" \in Valid])
  BY AddEntryView DEF HandleAccept
<1>4. [dir |-> "in", alive |-> "open" \in Valid] = [dir |-> "in", alive |-> TRUE]
  BY DEF Valid
<1>. QED  BY <1>1, <1>2, <1>3, <1>4 DEF HandleAccept, CT!Admit

LEMMA ConnectStartedRefines ==
    ASSUME NEW ep \in Endpoints, ConnectStarted(ep)
    PROVE  CT!Dial(ep)
<1>1. TableView' = CT!Insert(ep, [dir |-> "out",
                                   alive |-> "connecting" \in Valid])
  BY AddEntryView DEF ConnectStarted
<1>2. "connecting" \in Valid
  BY DEF Valid
<1>. QED  BY <1>1, <1>2 DEF ConnectStarted, CT!Dial, TableView

(* A call of connect() is a Dial or, refused, leaves the table alone.      *)
LEMMA ConnectCallRefines ==
    ASSUME NEW ep \in Endpoints, connect(ep)
    PROVE  CT!Dial(ep) \/ UNCHANGED TableView
<1>1. CASE ConnectRefused(ep)
  BY <1>1 DEF ConnectRefused, TableView
<1>2. CASE ConnectStarted(ep)
  BY <1>2, ConnectStartedRefines
<1>. QED  BY <1>1, <1>2 DEF connect

(* A transport connecting keeps its entry alive: the view does not move.   *)
LEMMA ConnectedRefines ==
    ASSUME TypeOK, NEW ep \in Endpoints, TransportConnected(ep)
    PROVE  UNCHANGED TableView
<1>1. DOMAIN tcp_connections' = DOMAIN tcp_connections
  BY DEF TransportConnected
<1>2. \A k \in DOMAIN tcp_connections :
        /\ tcp_connections'[k].dir = tcp_connections[k].dir
        /\ tcp_connections'[k].status \in Valid
           <=> tcp_connections[k].status \in Valid
  BY DEF TransportConnected, TypeOK, Entry, Valid
<1>. QED  BY <1>1, <1>2 DEF TableView

(* A connection closing is the abstract Die.                               *)
LEMMA ClosedRefines ==
    ASSUME TypeOK, NEW ep \in Endpoints, ConnectionClosed(ep)
    PROVE  CT!Die(ep)
<1>1. tcp_connections[ep] \in Entry
  BY DEF ConnectionClosed, TypeOK
<1>2. /\ DOMAIN tcp_connections' = DOMAIN tcp_connections
      /\ tcp_connections'[ep] = [dir |-> tcp_connections[ep].dir,
                                 status |-> "dead"]
      /\ \A k \in DOMAIN tcp_connections \ {ep} :
            tcp_connections'[k] = tcp_connections[k]
  BY <1>1 DEF ConnectionClosed, Entry
<1>3. TableView' = [k \in DOMAIN tcp_connections |->
                      IF k = ep THEN [dir |-> tcp_connections[ep].dir,
                                      alive |-> FALSE]
                                ELSE TableView[k]]
  <2>1. DOMAIN TableView' = DOMAIN tcp_connections
    BY <1>2 DEF TableView
  <2>2. TableView'[ep] = [dir |-> tcp_connections[ep].dir, alive |-> FALSE]
    <3>1. ep \in DOMAIN tcp_connections'
      BY <1>2 DEF ConnectionClosed
    <3>2. TableView'[ep] = [dir |-> tcp_connections'[ep].dir,
                            alive |-> tcp_connections'[ep].status \in Valid]
      BY <3>1 DEF TableView
    <3>3. tcp_connections'[ep].dir = tcp_connections[ep].dir
          /\ (tcp_connections'[ep].status \in Valid) = FALSE
      BY <1>2 DEF Valid
    <3>. QED  BY <3>2, <3>3, Zenon
  <2>3. \A k \in DOMAIN tcp_connections \ {ep} : TableView'[k] = TableView[k]
    BY <1>2 DEF TableView
  <2>. QED  BY <2>1, <2>2, <2>3 DEF TableView
<1>4. ep \in DOMAIN TableView /\ TableView[ep].alive
  BY DEF ConnectionClosed, TableView
<1>5. TableView' = [TableView EXCEPT ![ep].alive = FALSE]
  BY <1>3, <1>4 DEF TableView
<1>. QED  BY <1>4, <1>5 DEF CT!Die

(* tick's prune purges exactly the entries whose connection died; its      *)
(* branch into the top-up loop or back to the timer is hidden.             *)
LEMMA TickRefines ==
    ASSUME Tick
    PROVE  \E gone \in SUBSET DOMAIN TableView : CT!Purge(gone)
<1>. DEFINE alive == {k \in DOMAIN tcp_connections :
                         tcp_connections[k].status \in Valid}
            gone == DOMAIN tcp_connections \ alive
<1>1. tcp_connections' = [k \in alive |-> tcp_connections[k]]
  BY DEF Tick
<1>2. gone \in SUBSET DOMAIN TableView
  BY DEF TableView
<1>3. \A k \in gone : ~TableView[k].alive
  BY DEF TableView
<1>4. TableView' = [k \in DOMAIN TableView \ gone |-> TableView[k]]
  BY <1>1 DEF TableView
<1>. QED  BY <1>2, <1>3, <1>4 DEF CT!Purge

(* stop()'s clear is the abstract Clear.                                   *)
LEMMA StopClearRefines ==
    ASSUME StopClear
    PROVE  CT!Clear
BY DEF StopClear, CT!Clear, TableView

(* Every step of the manager is a step of ConnectionTable or a stutter.    *)
LEMMA NextRefines ==
    ASSUME IInv, [Next]_vars
    PROVE  [CT!Next]_TableView
<1>. TypeOK
  BY DEF IInv
<1>2. ASSUME NEW ep \in Endpoints, HandleAccept(ep)
      PROVE  [CT!Next]_TableView
  BY <1>2, AcceptRefines DEF CT!Next
<1>3. ASSUME NEW ep \in Endpoints, Connect(ep)
      PROVE  [CT!Next]_TableView
  BY <1>3, ConnectCallRefines DEF Connect, CT!Next
<1>4. ASSUME NEW addr \in known, TickTopUp(addr)
      PROVE  [CT!Next]_TableView
  <2>1. addr \in Endpoints
    BY DEF TypeOK
  <2>2. CASE IsSkipped(addr) /\ UNCHANGED <<tcp_connections, tried>>
    BY <2>2, HiddenSteps
  <2>3. CASE ~IsSkipped(addr) /\ connect(addr)
    BY <2>1, <2>3, ConnectCallRefines DEF CT!Next
  <2>. QED  BY <1>4, <2>2, <2>3 DEF TickTopUp
<1>5. CASE Tick
  BY <1>5, TickRefines DEF CT!Next
<1>6. CASE StopClear
  BY <1>6, StopClearRefines DEF CT!Next
<1>7. ASSUME NEW ep \in Endpoints, TransportConnected(ep)
      PROVE  [CT!Next]_TableView
  BY <1>7, ConnectedRefines
<1>8. ASSUME NEW ep \in Endpoints, ConnectionClosed(ep)
      PROVE  [CT!Next]_TableView
  BY <1>8, ClosedRefines DEF CT!Next
<1>9. CASE Start \/ ResolveSucceeded \/ ResolveFailed \/ StopCancel
           \/ TimerExpires \/ TickAborted \/ TickTopUpNoAddress
           \/ TickTopUpDone
  BY <1>9, HiddenSteps
     DEF Start, ResolveSucceeded, ResolveFailed, StopCancel, TimerExpires,
         TickAborted, TickTopUpNoAddress, TickTopUpDone
<1>10. CASE UNCHANGED vars
  BY <1>10, HiddenSteps DEF vars
<1>11. ASSUME NEW ep \in Endpoints, BackoffElapsed(ep)
       PROVE  [CT!Next]_TableView
  BY <1>11, HiddenSteps DEF BackoffElapsed
<1>. QED  BY <1>2, <1>3, <1>4, <1>5, <1>6, <1>7, <1>8, <1>9, <1>10, <1>11
          DEF Next

-----------------------------------------------------------------------------
(* The manager implements the table spec.md describes: whatever the        *)
(* interleaving of accepts, connects, ticks, transport events and stop(),  *)
(* the table view only changes by an admission that obeys the duplicate-   *)
(* IP, ban and inbound limits, a dial of a new endpoint that is not        *)
(* banned, a connection dying, a purge of dead entries or a clear.         *)
THEOREM ImplementsConnectionTable == Spec => ConnectionTableSpec
<1>1. IInv /\ [Next]_vars => [CT!Next]_TableView
  BY NextRefines
<1>2. Spec => []IInv
  BY InitIInv, NextIInv, PTL DEF Spec
<1>. QED  BY <1>1, <1>2, InitRefines, PTL
          DEF Spec, ConnectionTableSpec, CT!Spec
=============================================================================
