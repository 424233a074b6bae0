------------------------- MODULE MiningManagerProofs -------------------------
(***************************************************************************)
(* Proofs about the mining manager, for every value of the constants that  *)
(* satisfies the assumptions of MiningManager.                             *)
(*                                                                         *)
(* IInv strengthens HashRateZeroWhenStopped with four facts.  The type.    *)
(* The PoS loop never enters the hashing loop (after                       *)
(* increment_extra_nonce it goes to the sign/sleep branch), so only the    *)
(* PoW thread writes the rate sample.  The owner's protocol: a mode is     *)
(* "stopping" exactly while stop() waits in its join, so the join that     *)
(* sets "stopped" is the one that made pc "absent".  And                   *)
(* JoinedBeforeRestart: a mode that may be started has no thread, so a     *)
(* PoW thread that writes the sample, even after the stop flag was set    *)
(* between the loop test and the write, finds PoW neither none nor         *)
(* stopped.                                                                *)
(***************************************************************************)
EXTENDS MiningManager, TLAPS

(* Only the Proof-of-Work thread runs the hashing loop.                    *)
PosNeverHashes == pc["pos"] \notin {"hash", "scan"}

(* The owner's protocol under mutex_: no mode rests in "starting" (start  *)
(* moves on to started before it unlocks), and a mode is stopping exactly  *)
(* while stop() waits in its join.                                         *)
OwnerProtocol ==
    /\ state_pos # "starting" /\ state_pow # "starting"
    /\ caller = "join_pos" <=> state_pos = "stopping"
    /\ caller = "join_pow" <=> state_pow = "stopping"

IInv ==
    /\ TypeOK
    /\ HashRateZeroWhenStopped
    /\ PosNeverHashes
    /\ OwnerProtocol
    /\ JoinedBeforeRestart

-----------------------------------------------------------------------------
(* A thread's jump to a label of loop() keeps pc typed and leaves the      *)
(* other thread where it is.                                               *)
LEMMA GotoFacts ==
    ASSUME pc \in [Modes -> PCs], NEW m \in Modes, NEW l \in PCs, Goto(m, l)
    PROVE  /\ pc' \in [Modes -> PCs]
           /\ pc'[m] = l
           /\ \A o \in Modes \ {m} : pc'[o] = pc[o]
BY DEF Goto

LEMMA InitIInv == Init => IInv
<1>. SUFFICES ASSUME Init PROVE IInv
  OBVIOUS
<1>1. 0 \in Heights /\ 0 \in 0 .. MaxExtraNonce /\ NoHash \in Heights \cup {NoHash}
  BY MaxHeightAssumption, MaxExtraNonceAssumption DEF Heights
<1>2. /\ pc \in [Modes -> PCs] /\ pc["pos"] \notin {"hash", "scan"}
      /\ blk_prev \in [Modes -> Heights]
      /\ blk_stake \in [Modes -> BOOLEAN]
      /\ index_previous \in [Modes -> Heights]
      /\ extra_nonce \in [Modes -> 0 .. MaxExtraNonce]
      /\ sync_ok \in [Modes -> BOOLEAN]
      /\ nonce_parent \in [Modes -> Heights \cup {NoHash}]
  BY <1>1 DEF Init, PCs, Modes
<1>3. hash_previous \in Heights \cup {NoHash} /\ best \in Heights
  BY <1>1 DEF Init
<1>. QED  BY <1>2, <1>3
          DEF Init, IInv, TypeOK, HashRateZeroWhenStopped, PosNeverHashes,
              States, OwnerProtocol, JoinedBeforeRestart, Modes

(* start(), stop() and the two joins, each under mutex_.                   *)
LEMMA OwnerIInv ==
    ASSUME IInv, Start \/ Stop \/ JoinPos \/ JoinPow
    PROVE  IInv'
<1>. USE DEF IInv, TypeOK, HashRateZeroWhenStopped, PosNeverHashes, Modes,
             States, PCs, OwnerVars, ThreadVars, CandidateVars, NonceVars,
             RateVars, EnvVars, OwnerProtocol, JoinedBeforeRestart,
             ModeState, CanStart
<1>1. CASE Start
  BY <1>1, MineCpuAssumption, MaxExtraNonceAssumption
     DEF Start, CanStart, NoHash, Heights
<1>2. CASE Stop
  BY <1>2 DEF Stop, StopPow
<1>3. CASE JoinPos
  BY <1>3 DEF JoinPos, StopPow
<1>4. CASE JoinPow
  BY <1>4 DEF JoinPow
<1>. QED  BY <1>1, <1>2, <1>3, <1>4

(* A worker thread's step leaves the owner's state alone and moves only    *)
(* that thread, which exists, to another label of loop().                 *)
LEMMA ThreadMoves ==
    ASSUME NEW m \in Modes, ThreadStep(m)
    PROVE  /\ UNCHANGED OwnerVars
           /\ pc[m] # "absent" /\ pc[m] # "done"
           /\ \E l \in PCs \ {"absent"} : Goto(m, l)
BY DEF ThreadStep, LoopTop, WaitSync, WaitLock, Build, IncrementExtraNonce,
       PosSign, PosSleep, HashTest, HashSolved, HashBatch, CheckWork, Submit,
       AfterCheck, PCs

(* Hence it keeps the owner's protocol and the joins.                      *)
LEMMA ThreadKeepsJoins ==
    ASSUME TypeOK, OwnerProtocol, JoinedBeforeRestart, NEW m \in Modes,
           ThreadStep(m)
    PROVE  OwnerProtocol' /\ JoinedBeforeRestart'
<1>1. PICK l \in PCs \ {"absent"} : Goto(m, l)
  BY ThreadMoves
<1>2. UNCHANGED OwnerVars /\ pc[m] # "absent"
  BY ThreadMoves
<1>3. ~CanStart(ModeState(m))
  BY <1>2 DEF JoinedBeforeRestart
<1>4. /\ pc'[m] = l /\ l # "absent"
      /\ \A o \in Modes \ {m} : pc'[o] = pc[o]
  BY <1>1, GotoFacts DEF TypeOK
<1>. QED  BY <1>2, <1>3, <1>4
          DEF OwnerProtocol, JoinedBeforeRestart, ModeState, OwnerVars

(* One step of a worker thread.                                            *)
LEMMA ThreadIInv ==
    ASSUME IInv, NEW m \in Modes, ThreadStep(m)
    PROVE  IInv'
<1>J. OwnerProtocol' /\ JoinedBeforeRestart'
  BY ThreadKeepsJoins DEF IInv
<1>. USE <1>J
<1>. USE DEF IInv, TypeOK, HashRateZeroWhenStopped, PosNeverHashes,
             OwnerVars, ThreadVars, CandidateVars, NonceVars, RateVars,
             EnvVars
<1>0. pc \in [Modes -> PCs]
  OBVIOUS
<1>1. CASE LoopTop(m)
  BY <1>0, <1>1, GotoFacts DEF LoopTop, PCs, Modes
<1>2. CASE WaitSync(m)
  BY <1>0, <1>2, GotoFacts DEF WaitSync, PCs, Modes
<1>3. CASE WaitLock(m)
  BY <1>0, <1>3, GotoFacts DEF WaitLock, PCs, Modes
<1>4. CASE Build(m)
  <2>1. CASE Goto(m, "index") /\ blk_prev' = [blk_prev EXCEPT ![m] = best]
             /\ \E s \in IF m = "pos" THEN BOOLEAN ELSE {FALSE} :
                   blk_stake' = [blk_stake EXCEPT ![m] = s]
    <3>1. PICK s \in IF m = "pos" THEN BOOLEAN ELSE {FALSE} :
                   blk_stake' = [blk_stake EXCEPT ![m] = s]
      BY <2>1
    <3>2. s \in BOOLEAN
      BY <3>1
    <3>3. blk_stake' \in [Modes -> BOOLEAN] /\ blk_prev' \in [Modes -> Heights]
      BY <3>1, <3>2, <2>1
    <3>4. pc' \in [Modes -> PCs] /\ pc'["pos"] \notin {"hash", "scan"}
      BY <1>0, <2>1, GotoFacts DEF PCs, Modes
    <3>. QED  BY <1>4, <3>3, <3>4 DEF Build
  <2>2. CASE Goto(m, "done") /\ UNCHANGED <<blk_prev, blk_stake>>
    BY <1>0, <1>4, <2>2, GotoFacts DEF Build, PCs, Modes
  <2>. QED  BY <1>4, <2>1, <2>2 DEF Build
<1>5. CASE IncrementExtraNonce(m)
  <2>. DEFINE reset == hash_previous # blk_prev[m]
              n == IF reset THEN 1 ELSE extra_nonce[m] + 1
  <2>1. (IF n > MaxExtraNonce THEN MaxExtraNonce ELSE n) \in 0 .. MaxExtraNonce
    BY MaxExtraNonceAssumption DEF Modes
  <2>2. (IF reset THEN blk_prev[m] ELSE hash_previous) \in Heights \cup {NoHash}
    OBVIOUS
  <2>3. pc' \in [Modes -> PCs] /\ pc'["pos"] \notin {"hash", "scan"}
    BY <1>0, <1>5, GotoFacts DEF IncrementExtraNonce, PCs, Modes
  <2>. QED  BY <1>5, <2>1, <2>2, <2>3 DEF IncrementExtraNonce, Modes
<1>6. CASE PosSign(m)
  BY <1>0, <1>6, GotoFacts DEF PosSign, PCs, Modes
<1>7. CASE PosSleep(m)
  BY <1>0, <1>7, GotoFacts DEF PosSleep, PCs, Modes
<1>8. CASE HashTest(m)
  BY <1>0, <1>8, GotoFacts DEF HashTest, PCs, Modes
<1>9. CASE HashSolved(m)
  BY <1>0, <1>9, GotoFacts DEF HashSolved, PCs, Modes
<1>10. CASE HashBatch(m)
  <2>1. m = "pow"
    BY <1>10 DEF HashBatch, Modes
  <2>2. state_pow \notin {"none", "stopped"}
    BY <1>10, <2>1 DEF HashBatch, JoinedBeforeRestart, ModeState, CanStart
  <2>3. hps' \in {0, 1} /\ hps_timer' \in BOOLEAN
    BY <1>10 DEF HashBatch
  <2>4. pc' \in [Modes -> PCs] /\ pc'["pos"] = pc["pos"]
    BY <1>0, <1>10, <2>1, GotoFacts DEF HashBatch, PCs, Modes
  <2>. QED  BY <1>10, <2>2, <2>3, <2>4 DEF HashBatch
<1>11. CASE CheckWork(m)
  BY <1>0, <1>11, GotoFacts DEF CheckWork, AfterCheck, PCs, Modes
<1>12. CASE Submit(m)
  <2>1. [prev |-> blk_prev[m], stake |-> blk_stake[m]] \in Block
    BY DEF Block, Modes
  <2>. QED  BY <1>0, <1>12, <2>1, GotoFacts DEF Submit, AfterCheck, PCs, Modes
<1>. QED  BY <1>1, <1>2, <1>3, <1>4, <1>5, <1>6, <1>7, <1>8, <1>9, <1>10,
             <1>11, <1>12 DEF ThreadStep

(* The orchestrator, the chain, the wallet and the peers.                  *)
LEMMA EnvIInv ==
    ASSUME IInv,
           NodeStopping \/ ProcessBlock \/ NetworkBlock \/ SyncDone
           \/ PeersChange \/ WalletLockChange
    PROVE  IInv'
<1>. USE DEF IInv, TypeOK, HashRateZeroWhenStopped, PosNeverHashes,
             OwnerVars, ThreadVars, CandidateVars, NonceVars, RateVars,
             EnvVars, OwnerProtocol, JoinedBeforeRestart, ModeState
<1>1. CASE ProcessBlock
  <2>1. best < MaxHeight /\ best + 1 \in Heights
    BY <1>1, MaxHeightAssumption DEF ProcessBlock, Heights
  <2>. QED  BY <1>1, <2>1 DEF ProcessBlock
<1>2. CASE NetworkBlock
  BY <1>2, MaxHeightAssumption DEF NetworkBlock, Heights
<1>3. CASE NodeStopping
  BY <1>3 DEF NodeStopping
<1>4. CASE SyncDone
  BY <1>4 DEF SyncDone
<1>5. CASE PeersChange
  BY <1>5 DEF PeersChange
<1>6. CASE WalletLockChange
  BY <1>6 DEF WalletLockChange
<1>. QED  BY <1>1, <1>2, <1>3, <1>4, <1>5, <1>6

LEMMA NextIInv == IInv /\ [Next]_vars => IInv'
<1>. SUFFICES ASSUME IInv, [Next]_vars PROVE IInv'
  OBVIOUS
<1>1. CASE UNCHANGED vars
  BY <1>1 DEF vars, IInv, TypeOK, HashRateZeroWhenStopped, PosNeverHashes,
             OwnerProtocol, JoinedBeforeRestart, ModeState
<1>. QED  BY <1>1, OwnerIInv, ThreadIInv, EnvIInv DEF Next

-----------------------------------------------------------------------------
(* The inductive invariant holds in every reachable state.                 *)
THEOREM MiningInvariant == Spec => []IInv
BY InitIInv, NextIInv, PTL DEF Spec

(* Every reachable state of the mining manager is well typed: the states,  *)
(* the program counters, the candidate, the bounded counters, the chain    *)
(* tip and the posted blocks.                                              *)
THEOREM MiningTypeCorrect == Spec => []TypeOK
BY MiningInvariant, PTL DEF IInv

(* Whenever Proof-of-Work is not running the published hash rate and its   *)
(* sample window are reset, although the PoW thread writes them without    *)
(* the lock until stop_proof_of_work() has joined it.                      *)
THEOREM HashRateZeroWhenStoppedHolds == Spec => []HashRateZeroWhenStopped
BY MiningInvariant, PTL DEF IInv
(* Whatever the order of start(), stop(), the joins and the node stopping, *)
(* start() never spawns a mode's worker while the previous one is still    *)
(* unjoined: a mode returns to stopped only in the step after its join, so *)
(* thread_pos_ is never assigned over a joinable thread.                   *)
THEOREM JoinedBeforeRestartHolds == Spec => []JoinedBeforeRestart
BY MiningInvariant, PTL DEF IInv
=============================================================================
