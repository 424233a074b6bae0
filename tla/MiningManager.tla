------------------------------ MODULE MiningManager ------------------------------
(***************************************************************************)
(* The mining manager of src/src/mining_manager.cpp.                       *)
(*                                                                         *)
(* Two start/stop state machines (m_state_pow, m_state_pos) guarded by     *)
(* mutex_, one worker thread per mode running loop(is_proof_of_stake),     *)
(* the hash-rate sample, the extra-nonce counters (one local per loop, the *)
(* last parent hash a function static shared by both loops) and the       *)
(* submission of found blocks through check_work to the strand that runs  *)
(* process_block.  The chain tip is a height (its hash), the wallet, sync  *)
(* and peer state are flags the environment flips.                         *)
(*                                                                         *)
(* The workers read the state fields without the lock; an enum read is a  *)
(* single word, so a read returns the value before or after a concurrent  *)
(* write, which is what the interleaving of single steps gives.            *)
(***************************************************************************)
EXTENDS Integers

CONSTANTS
    MineCpu,        \* args "mine-cpu" is present and > 0
    MaxHeight,      \* bound on the chain tip
    MaxExtraNonce   \* bound on an extra-nonce counter

ASSUME MineCpuAssumption == MineCpu \in BOOLEAN
ASSUME MaxHeightAssumption == MaxHeight \in Nat
ASSUME MaxExtraNonceAssumption == MaxExtraNonce \in Nat \ {0}

Modes == {"pow", "pos"}
States == {"none", "starting", "started", "stopping", "stopped"}
Heights == 0 .. MaxHeight
NoHash == -1  \* the zero sha256 the static hash_previous starts with

(* Where a worker thread is in loop(): "absent" before it is spawned and   *)
(* after it is joined, "done" once loop() has returned.                    *)
PCs == {"absent", "top", "wait_sync", "wait_lock", "build", "index",
        "pos_sign", "pos_sleep", "hash", "scan", "check", "submit", "done"}

VARIABLES
    state_pow,       \* m_state_pow
    state_pos,       \* m_state_pos
    caller,          \* the owner's stop() in progress: "idle", or joined on
    node_state,      \* globals::instance().state()
    pc,              \* [Modes -> PCs]
    blk_prev,        \* hash_previous_block of each loop's candidate
    blk_stake,       \* blk->is_proof_of_stake() of that candidate
    index_previous,  \* the loop's index_previous
    extra_nonce,     \* each loop's local extra_nonce
    hash_previous,   \* the static hash_previous of increment_extra_nonce
    best,            \* the best chain tip (get_block_index_best, hash_best_chain)
    ibd,             \* utility::is_initial_block_download()
    peers,           \* tcp_connections().size() > 0
    locked,          \* wallet_main()->is_locked()
    posted,          \* blocks posted to the strand for process_block
    hps,             \* m_hashes_per_second: 0, or 1 for a positive rate
    hps_timer,       \* m_hps_timer_start # 0
    sync_ok,         \* history: the loop left the sync back-off synced and
                     \* with peers (not because the node stopped)
    nonce_parent     \* history: the parent of the loop's last extra nonce

vars == <<state_pow, state_pos, caller, node_state, pc, blk_prev, blk_stake,
          index_previous, extra_nonce, hash_previous, best, ibd,
          peers, locked, posted, hps, hps_timer, sync_ok, nonce_parent>>

Block == [prev : Heights, stake : BOOLEAN]

TypeOK ==
    /\ state_pow \in States
    /\ state_pos \in States
    /\ caller \in {"idle", "join_pos", "join_pow"}
    /\ node_state \in {"started", "stopping"}
    /\ pc \in [Modes -> PCs]
    /\ blk_prev \in [Modes -> Heights]
    /\ blk_stake \in [Modes -> BOOLEAN]
    /\ index_previous \in [Modes -> Heights]
    /\ extra_nonce \in [Modes -> 0 .. MaxExtraNonce]
    /\ hash_previous \in Heights \cup {NoHash}
    /\ best \in Heights
    /\ ibd \in BOOLEAN
    /\ peers \in BOOLEAN
    /\ locked \in BOOLEAN
    /\ posted \subseteq Block
    /\ hps \in {0, 1}
    /\ hps_timer \in BOOLEAN
    /\ sync_ok \in [Modes -> BOOLEAN]
    /\ nonce_parent \in [Modes -> Heights \cup {NoHash}]

Init ==
    /\ state_pow = "none"
    /\ state_pos = "none"
    /\ caller = "idle"
    /\ node_state = "started"
    /\ pc = [m \in Modes |-> "absent"]
    /\ blk_prev = [m \in Modes |-> 0]
    /\ blk_stake = [m \in Modes |-> FALSE]
    /\ index_previous = [m \in Modes |-> 0]
    /\ extra_nonce = [m \in Modes |-> 0]
    /\ hash_previous = NoHash
    /\ best = 0
    /\ ibd = TRUE      \* the node comes up syncing, with no connections
    /\ peers = FALSE   \* and a locked wallet; the environment's steps
    /\ locked = TRUE   \* before start() reach every other start
    /\ posted = {}
    /\ hps = 0
    /\ hps_timer = FALSE
    /\ sync_ok = [m \in Modes |-> FALSE]
    /\ nonce_parent = [m \in Modes |-> NoHash]

-----------------------------------------------------------------------------
(***************************************************************************)
(* Variable groups for UNCHANGED.                                          *)
(***************************************************************************)
OwnerVars == <<state_pow, state_pos, caller, node_state>>
CandidateVars == <<blk_prev, blk_stake, index_previous>>
NonceVars == <<extra_nonce, hash_previous, nonce_parent>>
RateVars == <<hps, hps_timer>>
EnvVars == <<best, ibd, peers, locked>>
ThreadVars == <<CandidateVars, NonceVars, RateVars, posted, sync_ok>>

(***************************************************************************)
(* The owner's calls, each under mutex_.                                   *)
(***************************************************************************)
CanStart(s) == s \in {"none", "stopped"}

(* start(): start_proof_of_stake(), then start_proof_of_work() when        *)
(* mine-cpu > 0.  A start moves none|stopped -> starting, spawns the       *)
(* thread (a new loop() whose local extra_nonce is 0) and moves on to      *)
(* started; the thread reads "starting" and "started" alike.               *)
Start ==
    /\ caller = "idle"
    /\ LET spawn == {m \in Modes :
                        IF m = "pos" THEN CanStart(state_pos)
                        ELSE MineCpu /\ CanStart(state_pow)}
       IN /\ state_pos' = IF "pos" \in spawn THEN "started" ELSE state_pos
          /\ state_pow' = IF "pow" \in spawn THEN "started" ELSE state_pow
          /\ pc' = [m \in Modes |-> IF m \in spawn THEN "top" ELSE pc[m]]
          /\ extra_nonce' = [m \in Modes |->
                                IF m \in spawn THEN 0 ELSE extra_nonce[m]]
          /\ nonce_parent' = [m \in Modes |->
                                IF m \in spawn THEN NoHash ELSE nonce_parent[m]]
    /\ UNCHANGED <<caller, node_state, CandidateVars, hash_previous, RateVars,
                   posted, sync_ok, EnvVars>>

(* stop_proof_of_work() up to the join: started -> stopping, or nothing.   *)
StopPow ==
    IF state_pow = "started"
    THEN state_pow' = "stopping" /\ caller' = "join_pow"
    ELSE state_pow' = state_pow /\ caller' = "idle"

(* stop(): stop_proof_of_stake() up to its join (or, when PoS is not       *)
(* started, straight on to stop_proof_of_work()).                          *)
Stop ==
    /\ caller = "idle"
    /\ IF state_pos = "started"
       THEN state_pos' = "stopping" /\ caller' = "join_pos"
            /\ UNCHANGED state_pow
       ELSE StopPow /\ UNCHANGED state_pos
    /\ UNCHANGED <<node_state, pc, ThreadVars, EnvVars>>

(* Mutant of JoinPos: the thread is let go (detached) instead of joined.   *)
JoinPosEarly ==
    /\ caller = "join_pos"
    /\ pc' = [pc EXCEPT !["pos"] = "absent"]
    /\ state_pos' = "stopped"
    /\ StopPow
    /\ UNCHANGED <<node_state, ThreadVars, EnvVars>>

(* thread_pos_.join() returns: stopped; then stop_proof_of_work().         *)
JoinPos ==
    /\ caller = "join_pos"
    /\ pc["pos"] = "done"
    /\ pc' = [pc EXCEPT !["pos"] = "absent"]
    /\ state_pos' = "stopped"
    /\ StopPow
    /\ UNCHANGED <<node_state, ThreadVars, EnvVars>>

(* Mutant of JoinPow: the rate sample is not reset after the join.         *)
JoinPowKeepRate ==
    /\ caller = "join_pow"
    /\ pc["pow"] = "done"
    /\ pc' = [pc EXCEPT !["pow"] = "absent"]
    /\ hps_timer' = FALSE
    /\ state_pow' = "stopped"
    /\ caller' = "idle"
    /\ UNCHANGED <<state_pos, node_state, CandidateVars, NonceVars, posted,
                   sync_ok, EnvVars, hps>>

(* The PoW threads are joined: reset the rate sample and the timer start,  *)
(* clear the threads, stopped.  (The posted status record is left out.)    *)
JoinPow ==
    /\ caller = "join_pow"
    /\ pc["pow"] = "done"
    /\ pc' = [pc EXCEPT !["pow"] = "absent"]
    /\ hps' = 0
    /\ hps_timer' = FALSE
    /\ state_pow' = "stopped"
    /\ caller' = "idle"
    /\ UNCHANGED <<state_pos, node_state, CandidateVars, NonceVars, posted,
                   sync_ok, EnvVars>>

-----------------------------------------------------------------------------
(***************************************************************************)
(* The worker threads: loop(is_proof_of_stake) with m = "pos" iff          *)
(* is_proof_of_stake.                                                      *)
(***************************************************************************)
Active(s) == s \in {"starting", "started"}

(* Mutant of LoopCond: the loops do not test the node state.               *)
LoopCondIgnoringNode(m) ==
    Active(state_pow) \/ (Active(state_pos) /\ m = "pos")

(* The condition of the outer while and of the hashing while.  The PoS    *)
(* loop also runs on while Proof-of-Work is active.                        *)
LoopCond(m) ==
    /\ Active(state_pow) \/ (Active(state_pos) /\ m = "pos")
    /\ node_state = "started"

Goto(m, l) == pc' = [pc EXCEPT ![m] = l]

(* The outer while: go round again, or leave loop().                       *)
LoopTop(m) ==
    /\ pc[m] = "top"
    /\ Goto(m, IF LoopCond(m) THEN "wait_sync" ELSE "done")
    /\ UNCHANGED <<OwnerVars, ThreadVars, EnvVars>>

(* The two back-off loops (sleeping while the condition holds is a        *)
(* stuttering step): they end when the condition is false or the node has *)
(* left the started state.                                                 *)
WaitSync(m) ==
    /\ pc[m] = "wait_sync"
    /\ ~((ibd \/ ~peers) /\ node_state = "started")
    /\ Goto(m, "wait_lock")
    /\ sync_ok' = [sync_ok EXCEPT ![m] = ~ibd /\ peers]
    /\ UNCHANGED <<OwnerVars, CandidateVars, NonceVars, RateVars, posted,
                   EnvVars>>

WaitLock(m) ==
    /\ pc[m] = "wait_lock"
    /\ ~(locked /\ node_state = "started")
    /\ Goto(m, "build")
    /\ UNCHANGED <<OwnerVars, ThreadVars, EnvVars>>

(* block::create_new: a candidate on the current tip (for the PoS loop a   *)
(* stake block or not), or no block, and loop() returns.                   *)
Build(m) ==
    /\ pc[m] = "build"
    /\ \/ /\ Goto(m, "index")
          /\ blk_prev' = [blk_prev EXCEPT ![m] = best]
          /\ \E s \in IF m = "pos" THEN BOOLEAN ELSE {FALSE} :
                blk_stake' = [blk_stake EXCEPT ![m] = s]
       \/ Goto(m, "done") /\ UNCHANGED <<blk_prev, blk_stake>>
    /\ UNCHANGED <<OwnerVars, index_previous, NonceVars, RateVars,
                   posted, sync_ok, EnvVars>>

(* Read the best index (a moment after                                    *)
(* create_new read the tip), then increment_extra_nonce: reset when the   *)
(* static hash_previous differs from the candidate's parent, increment.   *)
(* The counter saturates at MaxExtraNonce, the model's bound.              *)
IncrementExtraNonce(m) ==
    /\ pc[m] = "index"
    /\ LET reset == hash_previous # blk_prev[m]
           n == IF reset THEN 1 ELSE extra_nonce[m] + 1
       IN /\ extra_nonce' = [extra_nonce EXCEPT
                                ![m] = IF n > MaxExtraNonce THEN MaxExtraNonce
                                       ELSE n]
          /\ hash_previous' = IF reset THEN blk_prev[m] ELSE hash_previous
    /\ nonce_parent' = [nonce_parent EXCEPT ![m] = blk_prev[m]]
    /\ index_previous' = [index_previous EXCEPT ![m] = best]
    /\ Goto(m, IF m = "pos" THEN "pos_sign" ELSE "hash")
    /\ UNCHANGED <<OwnerVars, blk_prev, blk_stake, RateVars, posted, sync_ok,
                   EnvVars>>

(* The PoS branch: a stake block is signed (on failure: continue) and      *)
(* checked; any other candidate goes straight to the one-minute sleep.    *)
PosSign(m) ==
    /\ pc[m] = "pos_sign"
    /\ IF blk_stake[m]
       THEN Goto(m, "check") \/ Goto(m, "top")
       ELSE Goto(m, "pos_sleep")
    /\ UNCHANGED <<OwnerVars, ThreadVars, EnvVars>>

(* Up to 120 sleeps of 0.5 s, cut short when PoS stops or the node stops; *)
(* then continue the outer loop.                                           *)
PosSleep(m) ==
    /\ pc[m] = "pos_sleep"
    /\ Goto(m, "top")
    /\ UNCHANGED <<OwnerVars, ThreadVars, EnvVars>>

(* The test of the hashing while: scan a batch, or back to the outer loop. *)
(* The owner or the node may stop between this test and the batch.        *)
HashTest(m) ==
    /\ pc[m] = "hash"
    /\ Goto(m, IF LoopCond(m) THEN "scan" ELSE "top")
    /\ UNCHANGED <<OwnerVars, ThreadVars, EnvVars>>

(* A nonce meeting the target: sign (break on failure), check_work.        *)
HashSolved(m) ==
    /\ pc[m] = "scan"
    /\ Goto(m, "check") \/ Goto(m, "top")
    /\ UNCHANGED <<OwnerVars, ThreadVars, EnvVars>>

(* No solution in this batch: start or flush the rate sample (every 4 s),  *)
(* then break when the node stopped, the tip differs from index_previous,  *)
(* or on a clock-dependent condition: the transactions changed and 60 s    *)
(* passed, or the updated timestamp exceeds the drift bound (the model     *)
(* has no clock, so "timed" is free and covers both); else test the while *)
(* condition again.                                                        *)
HashBatch(m) ==
    /\ pc[m] = "scan"
    /\ IF hps_timer
       THEN \E sampled \in BOOLEAN : hps' = IF sampled THEN 1 ELSE hps
       ELSE UNCHANGED hps
    /\ hps_timer' = TRUE
    /\ \E timed \in BOOLEAN :
          IF \/ node_state # "started"
             \/ index_previous[m] # best
             \/ timed
          THEN Goto(m, "top")
          ELSE Goto(m, "hash")
    /\ UNCHANGED <<OwnerVars, CandidateVars, NonceVars, posted, sync_ok,
                   EnvVars>>

(* check_work: the target check holds for a found block; a block whose     *)
(* parent is not hash_best_chain is dropped as stale.                      *)
AfterCheck(m) == IF m = "pos" THEN "pos_sleep" ELSE "top"

CheckWork(m) ==
    /\ pc[m] = "check"
    /\ Goto(m, IF blk_prev[m] = best THEN "submit" ELSE AfterCheck(m))
    /\ UNCHANGED <<OwnerVars, ThreadVars, EnvVars>>

(* keep_key(), request_counts, and post process_block onto the strand.     *)
Submit(m) ==
    /\ pc[m] = "submit"
    /\ posted' = posted \cup {[prev |-> blk_prev[m], stake |-> blk_stake[m]]}
    /\ Goto(m, AfterCheck(m))
    /\ UNCHANGED <<OwnerVars, CandidateVars, NonceVars, RateVars, sync_ok,
                   EnvVars>>

-----------------------------------------------------------------------------
(***************************************************************************)
(* The environment: the orchestrator, the chain, the wallet, the peers.    *)
(***************************************************************************)
NodeStopping ==
    /\ node_state = "started"
    /\ node_state' = "stopping"
    /\ UNCHANGED <<state_pow, state_pos, caller, pc, ThreadVars, EnvVars>>

(* The strand runs a posted process_block: it extends the tip if the block *)
(* still builds on it and is rejected otherwise.                           *)
ProcessBlock ==
    /\ best < MaxHeight
    /\ \E b \in posted :
          /\ posted' = posted \ {b}
          /\ best' = IF b.prev = best THEN best + 1 ELSE best
    /\ UNCHANGED <<OwnerVars, pc, CandidateVars, NonceVars, RateVars, sync_ok,
                   ibd, peers, locked>>

(* A block from a peer becomes the new tip.                                *)
NetworkBlock ==
    /\ best < MaxHeight
    /\ best' = best + 1
    /\ UNCHANGED <<OwnerVars, pc, ThreadVars, ibd, peers, locked>>

SyncDone ==
    /\ ibd
    /\ ibd' = FALSE
    /\ UNCHANGED <<OwnerVars, pc, ThreadVars, best, peers, locked>>

PeersChange ==
    /\ peers' = ~peers
    /\ UNCHANGED <<OwnerVars, pc, ThreadVars, best, ibd, locked>>

WalletLockChange ==
    /\ locked' = ~locked
    /\ UNCHANGED <<OwnerVars, pc, ThreadVars, best, ibd, peers>>

ThreadStep(m) ==
    \/ LoopTop(m) \/ WaitSync(m) \/ WaitLock(m) \/ Build(m)
    \/ IncrementExtraNonce(m) \/ PosSign(m) \/ PosSleep(m)
    \/ HashTest(m) \/ HashSolved(m) \/ HashBatch(m)
    \/ CheckWork(m) \/ Submit(m)

Next ==
    \/ Start \/ Stop \/ JoinPos \/ JoinPow
    \/ \E m \in Modes : ThreadStep(m)
    \/ NodeStopping \/ ProcessBlock \/ NetworkBlock
    \/ SyncDone \/ PeersChange \/ WalletLockChange

(***************************************************************************)
(* Fairness: each worker thread keeps being scheduled, and a join returns  *)
(* once its thread has ended.  A thread's step is strongly fair: its only  *)
(* steps that can be disabled are the back-off polls, which sleep 1 s and  *)
(* test again, so a sync, peer or unlock condition that keeps recurring is *)
(* eventually seen by a poll.  The owner's calls, the orchestrator, the    *)
(* chain, the wallet and the peers get no fairness.                        *)
(***************************************************************************)
Fairness ==
    /\ \A m \in Modes : SF_vars(ThreadStep(m))
    /\ WF_vars(JoinPos)
    /\ WF_vars(JoinPow)

Spec == Init /\ [][Next]_vars /\ Fairness

-----------------------------------------------------------------------------
(***************************************************************************)
(* Properties.                                                             *)
(***************************************************************************)

(* spec.md 8: stop() resets hashes_per_second() to 0: whenever PoW is not  *)
(* running the published rate and the sample window are reset, although  *)
(* the PoW thread writes them without the lock until it is joined.         *)
HashRateZeroWhenStopped ==
    state_pow \in {"none", "stopped"} => hps = 0 /\ ~hps_timer

(* The state machine of a mode: m_state_pos, or m_state_pow.              *)
ModeState(m) == IF m = "pos" THEN state_pos ELSE state_pow

(* start() spawns a mode's worker (thread_pos_ = std::thread(...), or a    *)
(* new PoW thread pushed on threads_) only from none or stopped.  Whenever *)
(* a mode may be started again its previous worker has been joined: an     *)
(* assignment over a joinable thread_pos_ would call std::terminate, and a *)
(* PoW thread left running would mine beside the new one.                  *)
JoinedBeforeRestart ==
    \A m \in Modes : CanStart(ModeState(m)) => pc[m] = "absent"

(***************************************************************************)
(* Refinement: the manager implements MiningLifecycle, the two state       *)
(* machines of spec.md 3.  A mode's worker is "none" while no thread of it *)
(* exists (before the spawn, after the join), "exited" once loop() has     *)
(* returned, and "running" in between.                                     *)
(***************************************************************************)
StateView == [m \in Modes |-> ModeState(m)]

WorkerView ==
    [m \in Modes |-> CASE pc[m] = "absent" -> "none"
                      [] pc[m] = "done"   -> "exited"
                      [] OTHER            -> "running"]

LC == INSTANCE MiningLifecycle
        WITH state <- StateView, worker <- WorkerView

(* Every step of the manager moves each mode along none|stopped -> started *)
(* -> stopping -> stopped or leaves it alone, starts a mode only with no   *)
(* worker left, and stops it only by joining a worker that has exited.    *)
MiningLifecycleSpec == LC!Spec

(* Cooperative cancellation: once the node leaves the started state every  *)
(* worker thread leaves loop() and a pending stop() returns.               *)
StopCompletesOnNodeStop ==
    node_state = "stopping" ~>
        (\A m \in Modes : pc[m] \in {"absent", "done"}) /\ caller = "idle"

(* spec.md 5: stop_proof_of_stake() blocks only until the PoS worker has   *)
(* observed its flag and exited.                                           *)
PosStopReturns == caller = "join_pos" ~> caller # "join_pos"

(* spec.md 4.2 step 2: no block is mined while the chain is syncing or     *)
(* there are no peers: a loop that submits has left the back-off synced.  *)
MinedOnlyWhenSynced ==
    [][\A m \in Modes : Submit(m) => sync_ok[m]]_vars

(* spec.md 8: a change of parent tip resets the extra nonce to 1 on the    *)
(* next build.                                                             *)
ExtraNonceResetOnNewParent ==
    [][\A m \in Modes :
          IncrementExtraNonce(m) /\ blk_prev[m] # nonce_parent[m]
              => extra_nonce'[m] = 1]_vars

(* spec.md 8: if the tip changes during a PoW search, the search abandons  *)
(* the candidate: a batch that searches on does so on a current candidate. *)
StaleSearchAbandoned ==
    [][HashBatch("pow") /\ pc'["pow"] = "hash" => blk_prev["pow"] = best]_vars

=============================================================================
