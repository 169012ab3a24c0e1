-------------------------- MODULE MCPeripheral --------------------------
(***************************************************************************)
(* The peripheral in its three surroundings: a bus master that writes      *)
(* anything at any time (Sha256Free, with short computations), the         *)
(* testbench (ShaBench, with the real 64 rounds and 16 words), and the     *)
(* datapath on its own, bit for bit (Sha256Core).  A behaviour is one of   *)
(* them; the variables of the others stay as they are.                     *)
(***************************************************************************)
EXTENDS Integers, Sequences

CONSTANTS
  LastRound, BlockWords, Word, NoWord,         \* of the testbench and the datapath
  FreeLast, FreeWords, FreeWord, MaxBlocks,    \* of the peripheral on its own
  Messages                                     \* of the datapath

VARIABLES
  unit,                                        \* what runs
  sha256_ctrl, t_ctr, core_digest_valid,       \* the peripheral's
  init_reg, next_reg, mode_reg, irq_clr_reg, irq_en_reg,
  ready_reg, digest_valid_reg, block_reg, digest_reg, core_done_d, irq_reg,
  H, a_h,
  completed,                                   \* Sha256Free's
  at, index, test, part,                       \* ShaBench's
  fsm, round, valid, chain, working,           \* Sha256Core's: its control part,
  w_mem, w_ctr, msg, absorbed                  \* its registers and its message

shaVars   == <<sha256_ctrl, t_ctr, core_digest_valid, init_reg, next_reg, mode_reg,
               irq_clr_reg, irq_en_reg, ready_reg, digest_valid_reg, block_reg,
               digest_reg, core_done_d, irq_reg, H, a_h, completed>>
benchVars == <<at, index, test, part>>
coreVars  == <<fsm, round, valid, chain, working, w_mem, w_ctr, msg, absorbed>>

Free == INSTANCE Sha256Free
          WITH LastRound <- FreeLast, BlockWords <- FreeWords, Word <- FreeWord

Bench == INSTANCE ShaBench

Core == INSTANCE Sha256Core
          WITH sha256_ctrl <- fsm, t_ctr <- round, core_digest_valid <- valid,
               H <- chain, a_h <- working

\* The messages of the testbenches, named without the constant they are the value of.
Tests == INSTANCE Sha256Core WITH Messages <- {}

Hashed == Tests!TestMessages

mcVars == <<shaVars, unit, benchVars, coreVars>>

ASSUME PeripheralAssumption ==
  /\ Free!LastRoundAssumption  /\ Free!BlockAssumption
  /\ Bench!LastRoundAssumption /\ Bench!BlockAssumption
  /\ Core!MessagesAssumption   /\ Core!AnswersAssumption

NoBench == at = "off" /\ index = 0 /\ test = 0 /\ part = 0
NoCore  == /\ fsm = 0 /\ round = 0 /\ valid = 0 /\ chain = 0 /\ working = 0
           /\ w_mem = 0 /\ w_ctr = 0 /\ msg = 0 /\ absorbed = 0

MCInit ==
  \/ unit = "free"  /\ Free!Init /\ NoBench    /\ NoCore
  \/ unit = "bench" /\ Bench!Init /\ NoCore    /\ completed = <<FALSE, FALSE>>
  \/ unit = "core"  /\ Free!Init /\ Core!Init  /\ NoBench

FreeNext  == unit = "free" /\ Free!Next /\ UNCHANGED <<unit, benchVars, coreVars>>
BenchNext == unit = "bench" /\ Bench!Next /\ UNCHANGED <<unit, completed, coreVars>>
CoreNext  == unit = "core" /\ Core!Next /\ UNCHANGED <<shaVars, unit, benchVars>>

MCNext == FreeNext \/ BenchNext \/ CoreNext

MCSpec == MCInit /\ [][MCNext]_mcVars /\ WF_mcVars(BenchNext)

-----------------------------------------------------------------------------
\* digest_reg never shows an initial value, a value between the INIT and the
\* last round, or a sum of mismatched halves, whatever is written meanwhile.
DigestIsFinished == unit = "free" => Free!DigestIsFinished

\* Ready and valid, read with no start on its way into the core, come with the
\* digest of all the core has absorbed.
ReadyMeansFresh == unit = "free" => Free!ReadyMeansFresh

\* The testbench reads the digest of the message it has written, never that of
\* the block before, and finds the interrupt where it clears it.
BenchReadsDigest ==
  unit = "bench" => Bench!TypeOK /\ Bench!ReadsExpectedDigest /\ Bench!InterruptIsSpent

\* wait_ready ends, test after test.
BenchTestsEnd == unit = "bench" => Bench!TestsEnd

\* The datapath computes SHA-224 and SHA-256 as the standard defines them: its
\* sliding window is in step with the rounds, and the testbenches' messages give
\* the digests written there.
CoreIsSha2 ==
  unit = "core" =>
    Core!TypeOK /\ Core!WindowInStep /\ Core!DigestCorrect /\ Core!KnownAnswers
=============================================================================
