-------------------------- MODULE DatabaseStackProofs --------------------------
(***************************************************************************)
(* Proofs about the database::stack facade, for every set of clients and   *)
(* every bound on the allocations.                                         *)
(*                                                                         *)
(* IInv strengthens NoLeakedImpl with two facts.  stack_impl_ never holds  *)
(* a deleted object.  And while the owner is inside start() or stop(),     *)
(* between its two halves, stack_impl_ is not null.  Without them the      *)
(* second half's stack_impl_->start() and delete could not be shown to     *)
(* touch the object the first half allocated or stopped.                   *)
(***************************************************************************)
EXTENDS DatabaseStack, TLAPS

(* Between the halves of start() and of stop() the member is set.          *)
OwnerHoldsImpl == owner \in {"starting", "stopping"} => stack_impl # Null

IInv ==
    /\ TypeOK
    /\ NoLeakedImpl
    /\ NoDanglingMember
    /\ OwnerHoldsImpl

-----------------------------------------------------------------------------
LEMMA InitIInv == Init => IInv
<1> SUFFICES ASSUME Init PROVE IInv
  OBVIOUS
<1>1. TypeOK
  <2>1. [port |-> 0, mode |-> "storage"] \in Config
    BY PortsAssumption DEF Config, Modes
  <2>2. stack_impl \in {Null} \cup Objects /\ allocs \in 0 .. MaxAlloc
    BY MaxAllocAssumption DEF Init, Null
  <2>3. impl \in [Objects -> ImplStates]
    BY DEF Init, ImplStates
  <2>4. impl_config \in [Objects -> Config] /\ config \in Config
    BY <2>1 DEF Init
  <2>5. /\ owner \in {"idle", "starting", "stopping"}
        /\ outcome \in {"none", "ok", "threw"}
        /\ cpc \in [Clients -> {"idle", "checked", "calling"}]
        /\ target \in [Clients -> {Null} \cup Objects]
    BY DEF Init
  <2>. QED  BY <2>2, <2>3, <2>4, <2>5 DEF TypeOK
<1>2. NoLeakedImpl
  BY DEF Init, NoLeakedImpl
<1>3. NoDanglingMember
  BY DEF Init, NoDanglingMember
<1>4. OwnerHoldsImpl
  BY DEF Init, OwnerHoldsImpl
<1>. QED  BY <1>1, <1>2, <1>3, <1>4 DEF IInv

(* The caller's configuration and the client threads leave the member and  *)
(* the objects alone.                                                      *)
LEMMA ConfigAndClientsIInv ==
    ASSUME IInv,
           \/ \E p \in Ports : SetPort(p)
           \/ \E m \in Modes : SetOperationMode(m)
           \/ \E c \in Clients : ClientCheck(c) \/ ClientCall(c) \/ ClientReturn(c)
    PROVE  IInv'
<1>. USE DEF IInv, TypeOK, NoLeakedImpl, NoDanglingMember, OwnerHoldsImpl,
             Config, Objects, Null
<1>1. CASE \E p \in Ports : SetPort(p)
  BY <1>1 DEF SetPort
<1>2. CASE \E m \in Modes : SetOperationMode(m)
  BY <1>2 DEF SetOperationMode
<1>3. CASE \E c \in Clients : ClientCheck(c)
  BY <1>3 DEF ClientCheck
<1>4. CASE \E c \in Clients : ClientCall(c)
  BY <1>4 DEF ClientCall
<1>5. CASE \E c \in Clients : ClientReturn(c)
  BY <1>5 DEF ClientReturn
<1>. QED  BY <1>1, <1>2, <1>3, <1>4, <1>5

(* start(): the "already allocated" test means the new object is the only  *)
(* one not deleted; its second half only changes that object.              *)
LEMMA StartIInv ==
    ASSUME IInv, StartAlreadyAllocated \/ StartAllocate \/ StartImpl
    PROVE  IInv'
<1>. USE DEF IInv, TypeOK, NoLeakedImpl, NoDanglingMember, OwnerHoldsImpl,
             Objects, Null, ImplStates
<1>1. CASE StartAlreadyAllocated
  BY <1>1 DEF StartAlreadyAllocated
<1>2. CASE StartAllocate
  <2>1. allocs + 1 \in Objects /\ allocs' = allocs + 1
        /\ stack_impl' = allocs + 1
    BY <1>2, MaxAllocAssumption DEF StartAllocate
  <2>2. \A o \in 1 .. allocs : impl[o] = "deleted"
    BY <1>2 DEF StartAllocate
  <2>3. impl' = [impl EXCEPT ![allocs + 1] = "allocated"]
    BY <1>2 DEF StartAllocate
  <2>4. TypeOK'
    BY <1>2, <2>1, <2>3 DEF StartAllocate
  <2>5. NoLeakedImpl'
    <3>1. SUFFICES ASSUME NEW o \in 1 .. allocs + 1, o # allocs + 1
                   PROVE  impl'[o] = "deleted"
      BY <2>1
    <3>. QED  BY <2>2, <2>3, <3>1, MaxAllocAssumption
  <2>6. NoDanglingMember' /\ OwnerHoldsImpl'
    BY <2>1, <2>3
  <2>. QED  BY <2>4, <2>5, <2>6
<1>3. CASE StartImpl
  <2>1. stack_impl \in Objects /\ UNCHANGED <<stack_impl, allocs>>
    BY <1>3 DEF StartImpl
  <2>2. impl_config' \in [Objects -> Config] /\ UNCHANGED <<config, cpc, target>>
        /\ owner' = "idle" /\ outcome' \in {"ok", "threw"}
    BY <1>3, <2>1 DEF StartImpl
  <2>3. CASE impl' = [impl EXCEPT ![stack_impl] = "started"]
    BY <2>1, <2>2, <2>3
  <2>4. CASE UNCHANGED impl
    BY <2>1, <2>2, <2>4
  <2>. QED  BY <1>3, <2>3, <2>4 DEF StartImpl
<1>. QED  BY <1>1, <1>2, <1>3

(* stop(): the object stopped by the first half is the one the second half *)
(* deletes, and the member is reset with it.                               *)
LEMMA StopIInv ==
    ASSUME IInv, StopNotAllocated \/ StopImpl \/ StopDelete
    PROVE  IInv'
<1>. USE DEF IInv, TypeOK, NoLeakedImpl, NoDanglingMember, OwnerHoldsImpl,
             Objects, Null, ImplStates
<1>1. CASE StopNotAllocated
  BY <1>1 DEF StopNotAllocated
<1>2. CASE StopImpl
  <2>1. stack_impl \in Objects /\ impl[stack_impl] # "deleted"
        /\ UNCHANGED <<stack_impl, allocs, impl_config, config, cpc, target>>
    BY <1>2 DEF StopImpl
  <2>2. CASE impl' = [impl EXCEPT ![stack_impl] = "stopped"]
             /\ owner' = "stopping" /\ UNCHANGED outcome
    BY <2>1, <2>2
  <2>3. CASE outcome' = "threw" /\ UNCHANGED <<impl, owner>>
    BY <2>1, <2>3
  <2>. QED  BY <1>2, <2>2, <2>3 DEF StopImpl
<1>3. CASE StopDelete
  BY <1>3 DEF StopDelete
<1>. QED  BY <1>1, <1>2, <1>3

LEMMA NextIInv == IInv /\ [Next]_vars => IInv'
<1>. SUFFICES ASSUME IInv, [Next]_vars PROVE IInv'
  OBVIOUS
<1>1. CASE UNCHANGED vars
  BY <1>1 DEF vars, IInv, TypeOK, NoLeakedImpl, NoDanglingMember,
              OwnerHoldsImpl
<1>. QED  BY <1>1, ConfigAndClientsIInv, StartIInv, StopIInv DEF Next

-----------------------------------------------------------------------------
(* The inductive invariant holds in every reachable state.                 *)
THEOREM FacadeInvariant == Spec => []IInv
BY InitIInv, NextIInv, PTL DEF Spec

(* Whatever the order of start() and stop() calls, failed ones included,   *)
(* no stack_impl is leaked.                                                *)
THEOREM NoLeakedImplHolds == Spec => []NoLeakedImpl
BY FacadeInvariant, PTL DEF IInv

(* stack_impl_ never holds a deleted object.                               *)
THEOREM NoDanglingMemberHolds == Spec => []NoDanglingMember
BY FacadeInvariant, PTL DEF IInv
=============================================================================
