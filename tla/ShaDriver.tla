---------------------------- MODULE ShaDriver ----------------------------
(***************************************************************************)
(* One SHA core driven by the firmware at the level of single bus cycles:  *)
(* SHA_Init's writes one by one, the interrupt handler of the core, and    *)
(* read_digest.  Between two bus accesses of the CPU any number of SHA     *)
(* clock cycles may pass.  The three compressions of a header follow each  *)
(* other as in mining.c: INIT on the first block, NEXT on the second, INIT *)
(* on the padded digest.                                                   *)
(***************************************************************************)
EXTENDS Sha256

CONSTANT
  ReturnCycles  \* SHA clock cycles that pass at least between the handler's
                \* write of the interrupt clear and the dispatcher's next look
                \* at the interrupt when the handler does nothing else on the
                \* bus (the handler that raises the flag)

ASSUME ReturnAssumption == ReturnCycles \in Nat

VARIABLES
  at,     \* the CPU's next access: "ctrl0", "clr0", "ctrl0_last", "block",
          \* "go", "wait", "read", "return", "result"
  index,  \* the block word written next
  count0, \* compressions finished for this header
  gap,    \* cycles spent returning
  got     \* what read_digest returned last

cpuVars    == <<at, index, count0, gap, got>>
driverVars == <<shaVars, cpuVars>>

\* The blocks by count: words 0..15, 16..31, 32..47 of the region.
BlockOf == [k \in 0 .. 2 |-> <<"head", "tail", "pad">>[k + 1]]

Whole(b) == [i \in Index |-> b]

\* The digest due after count + 1 compressions.
Due(k) == IF k = 1 THEN <<"sha256", Whole("head"), Whole("tail")>>
                   ELSE <<"sha256", Whole(BlockOf[k])>>

DriverInit ==
  /\ ShaInit
  /\ at = "ctrl0" /\ index = 0 /\ count0 = 0 /\ gap = 0
  /\ got = NoDigest

\* A cycle in which the CPU does not access the core.
Elsewhere ==
  /\ Tick(NoWrite)
  /\ IF at = "return" /\ gap < ReturnCycles THEN gap' = gap + 1 ELSE UNCHANGED gap
  /\ UNCHANGED <<at, index, count0, got>>

\* SHA_Init.  The pointers are not volatile: the compiler exchanges the writes
\* that clear the control register and the interrupt, or does not.
ClearControl ==
  /\ at \in {"ctrl0", "ctrl0_last"}
  /\ Tick(WriteCtrl(FALSE, FALSE, "sha224", FALSE))
  /\ at' = IF at = "ctrl0" THEN "clr0" ELSE "block"
  /\ UNCHANGED <<index, count0, gap, got>>

ClearInterrupt ==
  /\ at \in {"ctrl0", "clr0"}
  /\ Tick(WriteIrqClr(TRUE))
  /\ at' = IF at = "ctrl0" THEN "ctrl0_last" ELSE "block"
  /\ UNCHANGED <<index, count0, gap, got>>

\* The loop ends a word early.
BugWriteBlockShort ==
  /\ at = "block"
  /\ Tick(WriteBlock(index, BlockOf[count0]))
  /\ index' = (index + 1) % (BlockWords - 1)
  /\ at' = IF index = BlockWords - 2 THEN "go" ELSE "block"
  /\ UNCHANGED <<count0, gap, got>>

WriteBlockWord ==
  /\ at = "block"
  /\ Tick(WriteBlock(index, BlockOf[count0]))
  /\ index' = (index + 1) % BlockWords
  /\ at' = IF index = BlockWords - 1 THEN "go" ELSE "block"
  /\ UNCHANGED <<count0, gap, got>>

Go ==
  /\ at = "go"
  /\ Tick(WriteCtrl(count0 # 1, count0 = 1, "sha256", TRUE))
  /\ at' = "wait"
  /\ UNCHANGED <<index, count0, gap, got>>

\* The handler: write_clr_irq first, then by count.
TakeInterrupt ==
  /\ at = "wait" /\ irq_reg
  /\ Tick(WriteIrqClr(TRUE))
  /\ at' = CASE count0 = 0 -> "ctrl0" [] count0 = 1 -> "read" [] count0 = 2 -> "return"
  /\ count0' = (count0 + 1) % 3
  /\ gap' = 0
  /\ UNCHANGED <<index, got>>

\* read_digest in the handler (count 2) and in main() (count 0).
ReadDigest ==
  /\ at \in {"read", "result"}
  /\ Tick(NoWrite)
  /\ got' = digest_reg
  /\ at' = "ctrl0"
  /\ UNCHANGED <<index, count0, gap>>

\* The dispatcher looks at the interrupt after the handler that set the flag:
\* low, main() goes on; still high, the handler runs once more.
ReturnToMain ==
  /\ at = "return" /\ gap = ReturnCycles
  /\ Tick(NoWrite)
  /\ at' = IF irq_reg THEN "wait" ELSE "result"
  /\ UNCHANGED <<index, count0, gap, got>>

Cpu == ClearControl \/ ClearInterrupt \/ WriteBlockWord \/ Go \/ TakeInterrupt
         \/ ReadDigest \/ ReturnToMain

DriverNext == Elsewhere \/ Cpu

DriverSpec == DriverInit /\ [][DriverNext]_driverVars /\ WF_driverVars(DriverNext) /\ WF_driverVars(Cpu)

-----------------------------------------------------------------------------
DriverTypeOK ==
  /\ ShaTypeOK
  /\ at \in {"ctrl0", "clr0", "ctrl0_last", "block", "go", "wait", "read", "return",
             "result"}
  /\ index \in Index /\ count0 \in 0 .. 2 /\ gap \in 0 .. ReturnCycles

\* Whenever the CPU reads the digest, in the handler or in main(), it reads the
\* digest of the compressions that came before, of whole blocks and in the mode
\* the firmware asked for: SHA_Init's write of 0 (mode SHA-224, interrupt off)
\* and its block writes never reach a running compression.
ReadsDueDigest ==
  /\ at = "read"   => digest_reg = Due(1)
  /\ at = "result" => digest_reg = Due(2)

\* A start pulse reaches the core only while it is idle.
PulseMeetsIdle == init_reg \/ next_reg => core_ready

\* Every start brings an interrupt, so the firmware gets round the three
\* compressions again and again.
KeepsHashing == []<>(at = "result")

\* The driven peripheral fulfils the contract the firmware relies on.  A digest
\* counts as shown when digest_reg holds it; the interrupt register follows one
\* cycle later.
InFlight == init_reg \/ next_reg \/ ~core_ready \/ (core_digest_valid /\ ~core_done)

PendingJob ==
  IF init_reg \/ next_reg
    THEN Append(IF init_reg THEN Iv(mode_reg) ELSE H, block_reg)
  ELSE IF digest_update \/ state_update THEN Compress(H, a_h)
  ELSE H

Contract == INSTANCE ShaContract WITH
  Job    <- {Due(0), Due(1), Due(2)},
  NoJob  <- NoDigest,
  job    <- IF InFlight THEN PendingJob ELSE NoDigest,
  digest <- digest_reg,
  irq    <- irq_reg \/ (irq_set /\ irq_en_reg)

FulfilsContract == Contract!Spec
=============================================================================
