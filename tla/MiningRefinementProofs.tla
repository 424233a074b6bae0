------------------------ MODULE MiningRefinementProofs ------------------------
(***************************************************************************)
(* Proof that the mining manager implements MiningLifecycle under the      *)
(* mapping [m |-> ModeState(m)] and WorkerView, for every value of the     *)
(* constants.                                                              *)
(*                                                                         *)
(* The argument is one step per action, and in it one case per mode:       *)
(* start() launches each mode it spawns, whose thread is absent by         *)
(* JoinedBeforeRestart; stop() halts the first started mode; a join joins  *)
(* the exited thread of its mode and halts Proof-of-Work when it is        *)
(* started; a worker's step to "done" is its exit, and every other step    *)
(* of a worker, the orchestrator, the chain, the wallet or the peers       *)
(* leaves both modes as they are.  The invariant needed is IInv: the       *)
(* owner's protocol says which mode a join finds stopping.                 *)
(***************************************************************************)
EXTENDS MiningManagerProofs

(* The abstract step, written out for the manager's variables.             *)
LEMMA StepDef ==
    ASSUME (\A m \in Modes :
                \/ LC!Launch(m) \/ LC!Halt(m) \/ LC!Exit(m) \/ LC!Join(m)
                \/ LC!Stays(m))
    PROVE  LC!Next
BY DEF LC!Next, StateView, WorkerView

-----------------------------------------------------------------------------
(* The manager starts with both modes at none and no worker.               *)
LEMMA InitRefines == Init => LC!Init
BY DEF Init, LC!Init, StateView, WorkerView, ModeState, Modes

(* A step that moves no thread and no state leaves both modes alone.       *)
LEMMA QuietStep ==
    ASSUME UNCHANGED <<state_pow, state_pos, pc>>
    PROVE  UNCHANGED <<StateView, WorkerView>>
BY DEF StateView, ModeState, WorkerView
(* A worker's step: its move to "done" is its exit, any other move keeps   *)
(* it running; the owner's state and the other thread are untouched.      *)
LEMMA ThreadRefines ==
    ASSUME IInv, NEW m \in Modes, ThreadStep(m)
    PROVE  LC!Next
<1>1. PICK l \in PCs \ {"absent"} : Goto(m, l)
  BY ThreadMoves
<1>2. UNCHANGED OwnerVars /\ pc[m] # "absent" /\ pc[m] # "done"
  BY ThreadMoves
<1>3. pc'[m] = l /\ \A o \in Modes \ {m} : pc'[o] = pc[o]
  BY <1>1, GotoFacts DEF IInv, TypeOK
<1>4. \A o \in Modes : StateView'[o] = StateView[o]
  BY <1>2 DEF StateView, ModeState, OwnerVars
<1>5. WorkerView[m] = "running"
  BY <1>2 DEF WorkerView
<1>6. \A o \in Modes \ {m} : LC!Stays(o)
  <2>1. \A o \in Modes \ {m} : WorkerView'[o] = WorkerView[o]
    BY <1>3 DEF WorkerView
  <2>. QED  BY <1>4, <2>1 DEF LC!Stays
<1>7. CASE l = "done"
  <2>1. WorkerView'[m] = "exited"
    BY <1>3, <1>7 DEF WorkerView
  <2>2. LC!Exit(m)
    BY <1>4, <1>5, <2>1 DEF LC!Exit
  <2>. QED  BY <1>6, <2>2, StepDef
<1>8. CASE l # "done"
  <2>1. WorkerView'[m] = "running"
    BY <1>3, <1>8 DEF WorkerView
  <2>2. LC!Stays(m)
    BY <1>4, <1>5, <2>1 DEF LC!Stays
  <2>. QED  BY <1>6, <2>2, StepDef
<1>. QED  BY <1>7, <1>8

(* A mode that start() spawns is launched: it was none or stopped, so its  *)
(* previous worker was joined; a mode it leaves alone stays.               *)
LEMMA StartRefines ==
    ASSUME IInv, Start
    PROVE  LC!Next
<1>. DEFINE spawn == {m \in Modes :
                        IF m = "pos" THEN CanStart(state_pos)
                        ELSE MineCpu /\ CanStart(state_pow)}
<1>1. /\ state_pos' = IF "pos" \in spawn THEN "started" ELSE state_pos
      /\ state_pow' = IF "pow" \in spawn THEN "started" ELSE state_pow
      /\ pc' = [m \in Modes |-> IF m \in spawn THEN "top" ELSE pc[m]]
  BY DEF Start
<1>2. ASSUME NEW m \in Modes
      PROVE  LC!Launch(m) \/ LC!Stays(m)
  <2>1. CASE m \in spawn
    <3>1. CanStart(ModeState(m))
      BY <2>1 DEF ModeState, Modes
    <3>2. pc[m] = "absent"
      BY <3>1 DEF IInv, JoinedBeforeRestart
    <3>3. StateView[m] \in {"none", "stopped"} /\ WorkerView[m] = "none"
      BY <3>1, <3>2 DEF StateView, WorkerView, CanStart
    <3>4. StateView'[m] = "started" /\ WorkerView'[m] = "running"
      BY <1>1, <2>1 DEF StateView, ModeState, WorkerView, Modes
    <3>. QED  BY <3>3, <3>4 DEF LC!Launch
  <2>2. CASE m \notin spawn
    <3>1. StateView'[m] = StateView[m] /\ pc'[m] = pc[m]
      BY <1>1, <2>2 DEF StateView, ModeState, Modes
    <3>2. WorkerView'[m] = WorkerView[m]
      BY <3>1 DEF WorkerView
    <3>. QED  BY <3>1, <3>2 DEF LC!Stays
  <2>. QED  BY <2>1, <2>2
<1>. QED  BY <1>2, StepDef

(* stop_proof_of_work() up to its join halts Proof-of-Work when it is      *)
(* started and otherwise leaves it alone.                                  *)
LEMMA StopPowMode ==
    ASSUME StopPow, UNCHANGED pc
    PROVE  LC!Halt("pow") \/ LC!Stays("pow")
<1>1. CASE state_pow = "started"
  BY <1>1 DEF StopPow, LC!Halt, StateView, ModeState, WorkerView, Modes
<1>2. CASE state_pow # "started"
  BY <1>2 DEF StopPow, LC!Stays, StateView, ModeState, WorkerView, Modes
<1>. QED  BY <1>1, <1>2

(* stop() halts the first started mode, or leaves both alone.              *)
LEMMA StopRefines ==
    ASSUME IInv, Stop
    PROVE  LC!Next
<1>1. UNCHANGED pc
  BY DEF Stop
<1>2. CASE state_pos = "started"
  <2>1. LC!Halt("pos")
    BY <1>1, <1>2 DEF Stop, LC!Halt, StateView, ModeState, WorkerView, Modes
  <2>2. LC!Stays("pow")
    BY <1>1, <1>2 DEF Stop, LC!Stays, StateView, ModeState, WorkerView, Modes
  <2>. QED  BY <2>1, <2>2, StepDef DEF Modes
<1>3. CASE state_pos # "started"
  <2>1. StopPow /\ UNCHANGED state_pos
    BY <1>3 DEF Stop
  <2>2. LC!Stays("pos")
    BY <1>1, <2>1 DEF LC!Stays, StateView, ModeState, WorkerView, Modes
  <2>3. LC!Halt("pow") \/ LC!Stays("pow")
    BY <1>1, <2>1, StopPowMode
  <2>. QED  BY <2>2, <2>3, StepDef DEF Modes
<1>. QED  BY <1>2, <1>3

(* thread_pos_.join() joins the exited PoS worker of a stopping mode (the  *)
(* owner's protocol: stop() waits in this join only while PoS is          *)
(* stopping); stop_proof_of_work() then halts Proof-of-Work or leaves it.  *)
LEMMA JoinPosRefines ==
    ASSUME IInv, JoinPos
    PROVE  LC!Next
<1>1. state_pos = "stopping" /\ pc["pos"] = "done"
  BY DEF JoinPos, IInv, OwnerProtocol
<1>2. LC!Join("pos")
  <2>1. pc'["pos"] = "absent" /\ state_pos' = "stopped"
    BY DEF JoinPos, IInv, TypeOK, Modes
  <2>2. StateView["pos"] = "stopping" /\ WorkerView["pos"] = "exited"
    BY <1>1 DEF StateView, ModeState, WorkerView, Modes
  <2>3. StateView'["pos"] = "stopped" /\ WorkerView'["pos"] = "none"
    BY <2>1 DEF StateView, ModeState, WorkerView, Modes
  <2>. QED  BY <2>2, <2>3 DEF LC!Join
<1>3. StopPow /\ pc'["pow"] = pc["pow"]
  BY DEF JoinPos, IInv, TypeOK, Modes
<1>4. LC!Halt("pow") \/ LC!Stays("pow")
  <2>1. CASE state_pow = "started"
    BY <1>3, <2>1 DEF StopPow, LC!Halt, StateView, ModeState, WorkerView,
                     Modes
  <2>2. CASE state_pow # "started"
    BY <1>3, <2>2 DEF StopPow, LC!Stays, StateView, ModeState, WorkerView,
                     Modes
  <2>. QED  BY <2>1, <2>2
<1>. QED  BY <1>2, <1>4, StepDef DEF Modes

(* The joins of the PoW threads join the exited worker of a stopping mode. *)
LEMMA JoinPowRefines ==
    ASSUME IInv, JoinPow
    PROVE  LC!Next
<1>1. state_pow = "stopping" /\ pc["pow"] = "done"
  BY DEF JoinPow, IInv, OwnerProtocol
<1>2. LC!Join("pow")
  <2>1. pc'["pow"] = "absent" /\ state_pow' = "stopped"
    BY DEF JoinPow, IInv, TypeOK, Modes
  <2>2. StateView["pow"] = "stopping" /\ WorkerView["pow"] = "exited"
    BY <1>1 DEF StateView, ModeState, WorkerView, Modes
  <2>3. StateView'["pow"] = "stopped" /\ WorkerView'["pow"] = "none"
    BY <2>1 DEF StateView, ModeState, WorkerView, Modes
  <2>. QED  BY <2>2, <2>3 DEF LC!Join
<1>3. LC!Stays("pos")
  BY DEF JoinPow, LC!Stays, StateView, ModeState, WorkerView, Modes, IInv,
         TypeOK
<1>. QED  BY <1>2, <1>3, StepDef DEF Modes

(* The orchestrator, the chain, the wallet and the peers move no thread    *)
(* and no state machine.                                                   *)
LEMMA EnvRefines ==
    ASSUME NodeStopping \/ ProcessBlock \/ NetworkBlock \/ SyncDone
           \/ PeersChange \/ WalletLockChange
    PROVE  UNCHANGED <<StateView, WorkerView>>
<1>1. UNCHANGED <<state_pow, state_pos, pc>>
  BY DEF NodeStopping, ProcessBlock, NetworkBlock, SyncDone, PeersChange,
         WalletLockChange, OwnerVars
<1>. QED  BY <1>1, QuietStep

(* Every step of the manager is a step of MiningLifecycle or a stutter.    *)
LEMMA NextRefines ==
    ASSUME IInv, [Next]_vars
    PROVE  [LC!Next]_LC!vars
<1>1. CASE Start
  BY <1>1, StartRefines
<1>2. CASE Stop
  BY <1>2, StopRefines
<1>3. CASE JoinPos
  BY <1>3, JoinPosRefines
<1>4. CASE JoinPow
  BY <1>4, JoinPowRefines
<1>5. ASSUME NEW m \in Modes, ThreadStep(m)
      PROVE  [LC!Next]_LC!vars
  BY <1>5, ThreadRefines
<1>6. CASE NodeStopping \/ ProcessBlock \/ NetworkBlock \/ SyncDone
           \/ PeersChange \/ WalletLockChange
  BY <1>6, EnvRefines DEF LC!vars
<1>7. CASE UNCHANGED vars
  BY <1>7, QuietStep DEF vars, LC!vars
<1>. QED  BY <1>1, <1>2, <1>3, <1>4, <1>5, <1>6, <1>7 DEF Next

-----------------------------------------------------------------------------
(* The manager implements the two state machines of spec.md 3: whatever    *)
(* the interleaving of start(), stop(), the joins, the worker threads and  *)
(* the node, each mode moves only along none|stopped -> started ->         *)
(* stopping -> stopped, is started only with no worker left from before,   *)
(* and reaches stopped only by joining a worker that has exited.           *)
THEOREM ImplementsMiningLifecycle == Spec => MiningLifecycleSpec
<1>1. IInv /\ [Next]_vars => [LC!Next]_LC!vars
  BY NextRefines
<1>2. Spec => []IInv
  BY MiningInvariant
<1>. QED  BY <1>1, <1>2, InitRefines, PTL
          DEF Spec, MiningLifecycleSpec, LC!Spec
=============================================================================
