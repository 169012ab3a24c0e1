---------------------------- MODULE Sha256Ctrl ----------------------------
(***************************************************************************)
(* The control part of sha256_core.v: the three-state machine, the round   *)
(* counter and the valid flag.  The datapath (Sha256Core) and the bus      *)
(* wrapper (Sha256) extend it.                                             *)
(*                                                                         *)
(* init and next are the inputs of the core in the current clock cycle;    *)
(* the operators below are the wires of sha256_ctrl_fsm, CtrlTick the      *)
(* clock edge.  Definitions whose name begins with Bug are slips that the  *)
(* properties must notice, not part of the model.                          *)
(***************************************************************************)
EXTENDS Integers

CONSTANT LastRound   \* SHA256_ROUNDS, 63: the counter has LastRound + 1 values

ASSUME LastRoundAssumption == LastRound \in Nat \ {0}

VARIABLES
  sha256_ctrl,       \* CTRL_IDLE, CTRL_ROUNDS, CTRL_DONE
  t_ctr,             \* the round counter, 6 bits
  core_digest_valid  \* digest_valid_reg of the core

ctrlVars == <<sha256_ctrl, t_ctr, core_digest_valid>>

CtrlTypeOK ==
  /\ sha256_ctrl \in {"idle", "rounds", "done"}
  /\ t_ctr \in 0 .. LastRound
  /\ core_digest_valid \in BOOLEAN

CtrlInit ==
  /\ sha256_ctrl = "idle"
  /\ t_ctr = 0
  /\ core_digest_valid = FALSE

\* The wires.
core_ready == sha256_ctrl = "idle"

\* digest_init and first_block
digest_init(init) == core_ready /\ init

\* w_init, state_init and t_ctr_rst
state_init(init, next) == core_ready /\ (init \/ next)

\* w_next, state_update and t_ctr_inc
state_update == sha256_ctrl = "rounds"

digest_update == sha256_ctrl = "done"

\* One clock edge, by the state of the machine.
BeginRounds(init, next) ==
  /\ state_init(init, next)
  /\ sha256_ctrl' = "rounds"
  /\ t_ctr' = 0
  /\ core_digest_valid' = FALSE

StayIdle(init, next) ==
  /\ core_ready /\ ~state_init(init, next)
  /\ UNCHANGED ctrlVars

NextRound == (t_ctr + 1) % (LastRound + 1)

\* The last round is compared with a value the 6-bit counter never has.
BugRoundEndless ==
  /\ state_update
  /\ sha256_ctrl' = IF t_ctr = LastRound + 1 THEN "done" ELSE "rounds"
  /\ t_ctr' = NextRound
  /\ UNCHANGED core_digest_valid

Round ==
  /\ state_update
  /\ sha256_ctrl' = IF t_ctr = LastRound THEN "done" ELSE "rounds"
  /\ t_ctr' = NextRound
  /\ UNCHANGED core_digest_valid

EndRounds ==
  /\ digest_update
  /\ sha256_ctrl' = "idle"
  /\ core_digest_valid' = TRUE
  /\ UNCHANGED t_ctr

CtrlTick(init, next) ==
  BeginRounds(init, next) \/ StayIdle(init, next) \/ Round \/ EndRounds
=============================================================================
