---------------------------- MODULE MiningLifecycle ----------------------------
(***************************************************************************)
(* What the mining manager promises about its two start/stop state         *)
(* machines (spec.md 3, "Mining State", and 5), with no chain, wallet,     *)
(* nonce or hash rate: each mode moves only along                          *)
(*                                                                         *)
(*      none | stopped  ->  started  ->  stopping  ->  stopped             *)
(*                                                                         *)
(* and owns at most one worker thread.  start() holds the lock across      *)
(* "starting", so no other thread ever observes it and the abstract        *)
(* machine goes straight to started.  A mode is started only with no       *)
(* worker left from before, its new worker may leave its loop at any time, *)
(* and the mode reaches stopped only by joining a worker that has exited.  *)
(* The modes move independently, and one call may move both at once.      *)
(***************************************************************************)
CONSTANT Modes

VARIABLES state, worker

vars == <<state, worker>>

TypeOK ==
    /\ state \in [Modes -> {"none", "started", "stopping", "stopped"}]
    /\ worker \in [Modes -> {"none", "running", "exited"}]

Init ==
    /\ state = [m \in Modes |-> "none"]
    /\ worker = [m \in Modes |-> "none"]

(* The moves of one mode, or none.                                         *)
Launch(m) ==
    /\ state[m] \in {"none", "stopped"} /\ worker[m] = "none"
    /\ state'[m] = "started" /\ worker'[m] = "running"

Halt(m) ==
    /\ state[m] = "started" /\ state'[m] = "stopping"
    /\ worker'[m] = worker[m]

Exit(m) ==
    /\ worker[m] = "running" /\ worker'[m] = "exited"
    /\ state'[m] = state[m]

Join(m) ==
    /\ state[m] = "stopping" /\ worker[m] = "exited"
    /\ state'[m] = "stopped" /\ worker'[m] = "none"

Stays(m) == state'[m] = state[m] /\ worker'[m] = worker[m]

Next ==
    /\ DOMAIN state' = Modes /\ DOMAIN worker' = Modes
    /\ \A m \in Modes :
          Launch(m) \/ Halt(m) \/ Exit(m) \/ Join(m) \/ Stays(m)

Spec == Init /\ [][Next]_vars

=============================================================================
