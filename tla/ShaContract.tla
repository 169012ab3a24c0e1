--------------------------- MODULE ShaContract ---------------------------
(***************************************************************************)
(* What the firmware relies on from one SHA core: a started core computes  *)
(* the digest it was asked for, shows it all at once together with the     *)
(* interrupt, and keeps it until the next digest; a start is not lost.     *)
(* Miner's SHA_Init and Finish are these actions, core by core.            *)
(***************************************************************************)
CONSTANTS Job, NoJob

VARIABLES
  job,     \* what the core is computing, or NoJob
  digest,  \* the last digest shown
  irq      \* the interrupt request

contractVars == <<job, digest, irq>>

Init == job = NoJob /\ digest \notin Job /\ irq = FALSE

Begin ==
  /\ job = NoJob /\ ~irq
  /\ job' \in Job
  /\ UNCHANGED <<digest, irq>>

Finish ==
  /\ job # NoJob
  /\ digest' = job
  /\ job' = NoJob
  /\ irq' = TRUE

Acknowledge ==
  /\ job = NoJob /\ irq
  /\ irq' = FALSE
  /\ UNCHANGED <<job, digest>>

Next == Begin \/ Finish \/ Acknowledge

Safety == Init /\ [][Next]_contractVars

Spec == Safety /\ WF_contractVars(Finish)
=============================================================================
