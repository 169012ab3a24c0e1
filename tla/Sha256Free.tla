---------------------------- MODULE Sha256Free ----------------------------
(***************************************************************************)
(* The peripheral sha256.v under a bus master that writes anything at any  *)
(* time: what the peripheral guarantees on its own.  An asynchronous reset *)
(* brings the initial state back, so it adds no state.                     *)
(***************************************************************************)
EXTENDS Sha256

CONSTANT MaxBlocks   \* bound: no NEXT is written on a chain this long

VARIABLE completed   \* history: was the core in CTRL_DONE one and two cycles ago

vars == <<shaVars, completed>>

Writes ==
  {NoWrite}
    \cup {WriteCtrl(i, n, m, e) : i \in BOOLEAN, n \in BOOLEAN,
                                  m \in {"sha224", "sha256"}, e \in BOOLEAN}
    \cup {WriteBlock(i, w) : i \in Index, w \in Word}
    \cup {WriteIrqClr(b) : b \in BOOLEAN}

Init == ShaInit /\ completed = <<FALSE, FALSE>>

Clock(w) ==
  /\ w.to = "ctrl" /\ w.next => Len(H) < MaxBlocks
  /\ Tick(w)
  /\ completed' = <<digest_update, completed[1]>>

Next == \E w \in Writes : Clock(w)

Spec == Init /\ [][Next]_vars

-----------------------------------------------------------------------------
TypeOK == ShaTypeOK /\ completed \in BOOLEAN \X BOOLEAN

\* digest_reg never shows an initial value, a value between the INIT and the
\* last round, or a sum of mismatched halves: only a finished digest, whatever
\* is written while the rounds run.
DigestIsFinished ==
  digest_reg # Broken /\ digest_reg \notin {Iv("sha224"), Iv("sha256")}

\* A status word with ready and valid set, read while no start is on its way
\* into the core, comes with the digest of everything the core has absorbed.
ReadyMeansFresh ==
  core_done /\ core_ready /\ ~init_reg /\ ~next_reg => digest_reg = H

\* irq_set pulses two cycles after a compression ended and at no other time:
\* one interrupt for every compression, even when the next start comes at once.
OneIrqPerCompression == irq_set <=> completed[2]
=============================================================================
