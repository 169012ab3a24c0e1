------------------------------ MODULE Sha256 ------------------------------
(***************************************************************************)
(* The bus peripheral sha256.v around the core: one step per clock cycle.  *)
(* All registers change together from their old values; the bus carries at *)
(* most one write per cycle.  Digests are symbolic: the chaining value is  *)
(* the sequence of blocks absorbed since the last INIT, led by the mode.   *)
(***************************************************************************)
EXTENDS Sha256Ctrl, Sequences

CONSTANTS
  BlockWords,  \* words of a block, 16
  Word,        \* values a block word can take
  NoWord       \* the word after reset

ASSUME BlockAssumption == BlockWords \in Nat \ {0}

Index == 0 .. BlockWords - 1

VARIABLES
  init_reg, next_reg, mode_reg,   \* the control register; init and next pulse
  irq_clr_reg, irq_en_reg,
  ready_reg, digest_valid_reg,    \* the core's ready and valid, a cycle later
  block_reg, digest_reg,
  core_done_d, irq_reg,
  H, a_h                          \* in the core: the chaining value; the value
                                  \* and the block the rounds work on

busVars  == <<init_reg, next_reg, mode_reg, irq_clr_reg, irq_en_reg, block_reg>>
outVars  == <<ready_reg, digest_valid_reg, digest_reg, core_done_d, irq_reg>>
dataVars == <<H, a_h>>
shaVars  == <<ctrlVars, busVars, outVars, dataVars>>

\* Chaining values.
NoDigest == <<"reset">>
Iv(mode) == <<mode>>
Broken   == <<"broken">>

\* 64 rounds from chain on block, added to h.
Compress(h, work) ==
  IF work.chain = h THEN Append(h, work.block) ELSE Broken

\* Bus writes.
NoWrite                     == [to |-> "none"]
WriteCtrl(init, next, m, e) ==
  [to |-> "ctrl", init |-> init, next |-> next, mode |-> m, irq_en |-> e]
WriteBlock(i, w)            == [to |-> "block", index |-> i, word |-> w]
WriteIrqClr(bit)            == [to |-> "irq_clr", bit |-> bit]

ShaInit ==
  /\ CtrlInit
  /\ init_reg = FALSE /\ next_reg = FALSE /\ mode_reg = "sha256"
  /\ irq_clr_reg = FALSE /\ irq_en_reg = FALSE
  /\ ready_reg = FALSE /\ digest_valid_reg = FALSE
  /\ block_reg = [i \in Index |-> NoWord]
  /\ digest_reg = NoDigest
  /\ core_done_d = FALSE /\ irq_reg = FALSE
  /\ H = NoDigest
  /\ a_h = [chain |-> NoDigest, block |-> block_reg]

\* Wires of the wrapper.
core_done == digest_valid_reg /\ ready_reg
irq_set   == core_done /\ ~core_done_d

BugDigestUngated == H
BugDigestLate    == IF digest_valid_reg THEN H ELSE digest_reg

next_digest == IF core_digest_valid THEN H ELSE digest_reg

\* A new completion beats a clear.
next_irq ==
  IF irq_set /\ irq_en_reg THEN TRUE ELSE IF irq_clr_reg THEN FALSE ELSE irq_reg

\* api_logic and reg_update for the registers the bus writes.
BusTick(w) ==
  /\ init_reg' = (w.to = "ctrl" /\ w.init)
  /\ next_reg' = (w.to = "ctrl" /\ w.next)
  /\ mode_reg' = IF w.to = "ctrl" THEN w.mode ELSE mode_reg
  /\ irq_en_reg' = IF w.to = "ctrl" THEN w.irq_en ELSE irq_en_reg
  /\ irq_clr_reg' = (w.to = "irq_clr" /\ w.bit)
  /\ block_reg' = IF w.to = "block" THEN [block_reg EXCEPT ![w.index] = w.word]
                                    ELSE block_reg

\* reg_update for the registers that follow the core, and the interrupt.
OutTick ==
  /\ ready_reg' = core_ready
  /\ digest_valid_reg' = core_digest_valid
  /\ digest_reg' = next_digest
  /\ core_done_d' = core_done
  /\ irq_reg' = next_irq

\* digest_logic and state_logic, with the block w_mem loads on w_init.
DataTick ==
  /\ H' = IF digest_init(init_reg) THEN Iv(mode_reg)
          ELSE IF digest_update THEN Compress(H, a_h) ELSE H
  /\ a_h' = IF state_init(init_reg, next_reg)
              THEN [chain |-> IF digest_init(init_reg) THEN Iv(mode_reg) ELSE H,
                    block |-> block_reg]
              ELSE a_h

\* One clock cycle with bus write w.
Tick(w) ==
  /\ CtrlTick(init_reg, next_reg)
  /\ DataTick
  /\ BusTick(w)
  /\ OutTick

ShaTypeOK ==
  /\ CtrlTypeOK
  /\ {init_reg, next_reg, irq_clr_reg, irq_en_reg, ready_reg, digest_valid_reg,
      core_done_d, irq_reg} \subseteq BOOLEAN
  /\ mode_reg \in {"sha224", "sha256"}
  /\ block_reg \in [Index -> Word \cup {NoWord}]
=============================================================================
