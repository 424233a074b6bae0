------------------------------ MODULE DatabaseStack ------------------------------
(***************************************************************************)
(* The database::stack facade of src/database/src/stack.cpp and            *)
(* src/database/include/database/stack.hpp: a raw pointer stack_impl_ to   *)
(* the implementation, allocated by start() and deleted by stop(), and six *)
(* forwarding calls (join, leave, store, find, proxy, endpoints) that each *)
(* test the pointer and then call through it, with no lock.                *)
(*                                                                         *)
(* Every allocation gets a number 1 .. MaxAlloc, so that a pointer to a    *)
(* deleted object stays distinguishable from the live one; 0 is the null   *)
(* pointer.  One owner thread calls start() and stop(); client threads     *)
(* call the forwarding operations.  The member is read twice by a          *)
(* forwarding call (the test and the call); without synchronisation the    *)
(* compiler may fold the two reads into one or perform both, so the call   *)
(* goes through the value read by the test or the value current then.      *)
(***************************************************************************)
EXTENDS Naturals

CONSTANTS
    Clients,    \* threads calling the forwarding operations
    Ports,      \* ports a caller may set on the configuration
    MaxAlloc    \* bound on the number of start() allocations

ASSUME ClientsAssumption == Clients # {}
ASSUME PortsAssumption == Ports \subseteq 0 .. 65535 /\ 0 \in Ports
ASSUME MaxAllocAssumption == MaxAlloc \in Nat \ {0}

Objects == 1 .. MaxAlloc
Null == 0
Modes == {"interface", "storage"}   \* configuration::operation_mode_t

VARIABLES
    stack_impl,   \* stack::stack_impl_
    allocs,       \* how many stack_impl objects have been allocated
    impl,         \* the life of each object
    impl_config,  \* the configuration each object was started with
    config,       \* the caller's stack::configuration
    owner,        \* where the owner thread is in start() / stop()
    outcome,      \* how the owner's last start() or stop() ended
    cpc,          \* where each client is in its forwarding call
    target        \* the pointer each client read

vars == <<stack_impl, allocs, impl, impl_config, config, owner, outcome,
          cpc, target>>

Config == [port : Ports, mode : Modes]
ImplStates == {"unallocated", "allocated", "started", "stopped", "deleted"}

TypeOK ==
    /\ stack_impl \in {Null} \cup Objects
    /\ allocs \in 0 .. MaxAlloc
    /\ impl \in [Objects -> ImplStates]
    /\ impl_config \in [Objects -> Config]
    /\ config \in Config
    /\ owner \in {"idle", "starting", "stopping"}
    /\ outcome \in {"none", "ok", "threw"}
    /\ cpc \in [Clients -> {"idle", "checked", "calling"}]
    /\ target \in [Clients -> {Null} \cup Objects]

(* stack(): stack_impl_(0); configuration(): m_port(0), storage mode.      *)
Init ==
    /\ stack_impl = Null
    /\ allocs = 0
    /\ impl = [o \in Objects |-> "unallocated"]
    /\ impl_config = [o \in Objects |-> [port |-> 0, mode |-> "storage"]]
    /\ config = [port |-> 0, mode |-> "storage"]
    /\ owner = "idle"
    /\ outcome = "none"
    /\ cpc = [c \in Clients |-> "idle"]
    /\ target = [c \in Clients |-> Null]

-----------------------------------------------------------------------------
(* The caller fills in the configuration it will pass to start().          *)
SetPort(p) ==
    /\ config' = [config EXCEPT !.port = p]
    /\ UNCHANGED <<stack_impl, allocs, impl, impl_config, owner, outcome,
                   cpc, target>>

SetOperationMode(m) ==
    /\ config' = [config EXCEPT !.mode = m]
    /\ UNCHANGED <<stack_impl, allocs, impl, impl_config, owner, outcome,
                   cpc, target>>

(* start() on an allocated stack throws "Stack is already allocated".      *)
StartAlreadyAllocated ==
    /\ owner = "idle"
    /\ stack_impl # Null
    /\ outcome' = "threw"
    /\ UNCHANGED <<stack_impl, allocs, impl, impl_config, config, owner,
                   cpc, target>>

(* Mutant of StartAllocate: the "already allocated" test is dropped.       *)
StartAllocateUnchecked ==
    /\ owner = "idle"
    /\ allocs < MaxAlloc
    /\ stack_impl' = allocs + 1
    /\ allocs' = allocs + 1
    /\ impl' = [impl EXCEPT ![allocs + 1] = "allocated"]
    /\ owner' = "starting"
    /\ UNCHANGED <<impl_config, config, outcome, cpc, target>>

(* start(), first half: stack_impl_ = new stack_impl(this stack).         *)
StartAllocate ==
    /\ owner = "idle"
    /\ stack_impl = Null
    /\ allocs < MaxAlloc
    /\ stack_impl' = allocs + 1
    /\ allocs' = allocs + 1
    /\ impl' = [impl EXCEPT ![allocs + 1] = "allocated"]
    /\ owner' = "starting"
    /\ UNCHANGED <<impl_config, config, outcome, cpc, target>>

(* start(), second half: stack_impl_->start(config).  The facade catches   *)
(* nothing: if the implementation's start throws, the exception leaves     *)
(* start() with the object still allocated and stack_impl_ set.            *)
StartImpl ==
    /\ owner = "starting"
    /\ impl_config' = [impl_config EXCEPT ![stack_impl] = config]
    /\ \/ impl' = [impl EXCEPT ![stack_impl] = "started"] /\ outcome' = "ok"
       \/ UNCHANGED impl /\ outcome' = "threw"
    /\ owner' = "idle"
    /\ UNCHANGED <<stack_impl, allocs, config, cpc, target>>

(* stop() on a stack that is not allocated throws "Stack is not allocated". *)
StopNotAllocated ==
    /\ owner = "idle"
    /\ stack_impl = Null
    /\ outcome' = "threw"
    /\ UNCHANGED <<stack_impl, allocs, impl, impl_config, config, owner,
                   cpc, target>>

(* stop(), first half: stack_impl_->stop().  If it throws, the exception   *)
(* leaves stop() before the delete, with the object still held.           *)
StopImpl ==
    /\ owner = "idle"
    /\ stack_impl # Null
    /\ \/ impl' = [impl EXCEPT ![stack_impl] = "stopped"]
          /\ owner' = "stopping" /\ UNCHANGED outcome
       \/ outcome' = "threw" /\ UNCHANGED <<impl, owner>>
    /\ UNCHANGED <<stack_impl, allocs, impl_config, config, cpc, target>>

(* stop(), second half: delete stack_impl_, stack_impl_ = 0.               *)
StopDelete ==
    /\ owner = "stopping"
    /\ impl' = [impl EXCEPT ![stack_impl] = "deleted"]
    /\ stack_impl' = Null
    /\ owner' = "idle"
    /\ outcome' = "ok"
    /\ UNCHANGED <<allocs, impl_config, config, cpc, target>>

-----------------------------------------------------------------------------
(* A forwarding call's test if (stack_impl_): on null it returns 0 (or an  *)
(* empty list) at once, otherwise it goes on to the call.                  *)
ClientCheck(c) ==
    /\ cpc[c] = "idle"
    /\ stack_impl # Null
    /\ cpc' = [cpc EXCEPT ![c] = "checked"]
    /\ target' = [target EXCEPT ![c] = stack_impl]
    /\ UNCHANGED <<stack_impl, allocs, impl, impl_config, config, owner, outcome>>

(* The call stack_impl_->op(...): through the pointer the test read, or    *)
(* through the member read again now.                                      *)
ClientCall(c) ==
    /\ cpc[c] = "checked"
    /\ \E p \in {target[c], stack_impl} : target' = [target EXCEPT ![c] = p]
    /\ cpc' = [cpc EXCEPT ![c] = "calling"]
    /\ UNCHANGED <<stack_impl, allocs, impl, impl_config, config, owner, outcome>>

(* The implementation's call returns to the caller.                        *)
ClientReturn(c) ==
    /\ cpc[c] = "calling"
    /\ cpc' = [cpc EXCEPT ![c] = "idle"]
    /\ target' = [target EXCEPT ![c] = Null]
    /\ UNCHANGED <<stack_impl, allocs, impl, impl_config, config, owner, outcome>>

Next ==
    \/ \E p \in Ports : SetPort(p)
    \/ \E m \in Modes : SetOperationMode(m)
    \/ StartAlreadyAllocated
    \/ StartAllocate
    \/ StartImpl
    \/ StopNotAllocated
    \/ StopImpl
    \/ StopDelete
    \/ \E c \in Clients : ClientCheck(c) \/ ClientCall(c) \/ ClientReturn(c)

Spec == Init /\ [][Next]_vars

-----------------------------------------------------------------------------
(***************************************************************************)
(* Properties.                                                             *)
(***************************************************************************)

(* start()'s "already allocated" test and stop()'s delete keep every       *)
(* stack_impl ever allocated either held by stack_impl_ or deleted: in no  *)
(* order of start() and stop() calls, failed ones included, is one leaked. *)
NoLeakedImpl ==
    \A o \in 1 .. allocs : o = stack_impl \/ impl[o] = "deleted"

(* stack_impl_ never holds a deleted object, so the test if (stack_impl_)  *)
(* of a later call cannot pass on a dangling pointer.                      *)
NoDanglingMember == stack_impl # Null => impl[stack_impl] # "deleted"

=============================================================================
