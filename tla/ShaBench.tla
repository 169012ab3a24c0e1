----------------------------- MODULE ShaBench -----------------------------
(***************************************************************************)
(* The peripheral under its testbench SHA2/tb_sha256.v.  Every task call   *)
(* takes a clock cycle: the testbench drives the bus between two clock     *)
(* edges and looks at what it reads after the edge.  It does not use the   *)
(* interrupt: it polls the status register.                                *)
(*                                                                         *)
(* A test is a message of one or two blocks in one of the two modes; tests *)
(* follow each other in any order without a reset, as the tasks can be     *)
(* called.                                                                 *)
(***************************************************************************)
EXTENDS Sha256

VARIABLES
  at,     \* the next task call: "block", "start", "pause", "poll",
          \* "status", "clear", "settle", "stop", "digest"
  index,  \* the block word or digest word the call is about
  test,   \* the test: its mode, its kind and its blocks
  part    \* the block of the test being hashed

benchVars == <<at, index, test, part>>
vars      == <<shaVars, benchVars>>

\* single_block_test clears the interrupt it enables, double_block_test never
\* enables it.  In mode SHA-224 single_block_test does not enable it either.
Tests ==
  {[kind |-> "single", mode |-> m, blocks |-> <<b>>] :
      m \in {"sha224", "sha256"}, b \in Word}
    \cup {[kind |-> "double", mode |-> m, blocks |-> <<b, c>>] :
      m \in {"sha224", "sha256"}, b \in Word, c \in Word}

Whole(b) == [i \in Index |-> b]

\* What read_digest is expected to give after block part.
Expected == <<test.mode>> \o [i \in 1 .. part |-> Whole(test.blocks[i])]

Init ==
  /\ ShaInit
  /\ at = "block" /\ index = 0 /\ part = 1
  /\ test \in Tests

WriteBlockWord ==
  /\ at = "block"
  /\ Tick(WriteBlock(index, test.blocks[part]))
  /\ index' = (index + 1) % BlockWords
  /\ at' = IF index = BlockWords - 1 THEN "start" ELSE "block"
  /\ UNCHANGED <<test, part>>

Start(after) ==
  /\ at = "start"
  /\ Tick(WriteCtrl(part = 1, part = 2, test.mode,
                    test.kind = "single" /\ test.mode = "sha256"))
  /\ at' = after
  /\ UNCHANGED <<index, test, part>>

\* wait_ready is called without the cycle in between.
BugWriteStartNoPause == Start("poll")

WriteStart == Start("pause")

\* #(CLK_PERIOD): a cycle without bus access.
Pause ==
  /\ at \in {"pause", "settle"}
  /\ Tick(NoWrite)
  /\ at' = IF at = "pause" THEN "poll" ELSE "stop"
  /\ UNCHANGED <<index, test, part>>

\* wait_ready: read the status until it is not 0.  Its bits are irq_reg,
\* digest_valid_reg and ready_reg after the edge.
status == irq_reg \/ digest_valid_reg \/ ready_reg

Poll ==
  /\ at = "poll"
  /\ Tick(NoWrite)
  /\ at' = IF ~status' THEN "poll" ELSE IF test.kind = "single" THEN "status" ELSE "digest"
  /\ UNCHANGED <<index, test, part>>

\* single_block_test reads the status, clears the interrupt, waits a cycle,
\* clears the control register and reads the status once more.
ReadStatus ==
  /\ at = "status"
  /\ Tick(NoWrite)
  /\ at' = IF index = 0 THEN "clear" ELSE "digest"
  /\ index' = 0
  /\ UNCHANGED <<test, part>>

ClearInterrupt ==
  /\ at = "clear"
  /\ Tick(WriteIrqClr(TRUE))
  /\ at' = "settle"
  /\ UNCHANGED <<index, test, part>>

ClearControl ==
  /\ at = "stop"
  /\ Tick(WriteCtrl(FALSE, FALSE, "sha224", FALSE))
  /\ at' = "status" /\ index' = 1
  /\ UNCHANGED <<test, part>>

\* read_digest: eight words, one a cycle; then the next block or the next test.
ReadDigestWord ==
  /\ at = "digest"
  /\ Tick(NoWrite)
  /\ index' = (index + 1) % 8
  /\ IF index < 7
       THEN at' = "digest" /\ UNCHANGED <<test, part>>
       ELSE /\ at' = "block"
            /\ IF part < Len(test.blocks)
                 THEN part' = part + 1 /\ UNCHANGED test
                 ELSE part' = 1 /\ test' \in Tests

Next ==
  \/ WriteBlockWord \/ WriteStart \/ Pause \/ Poll
  \/ ReadStatus \/ ClearInterrupt \/ ClearControl \/ ReadDigestWord

Spec == Init /\ [][Next]_vars /\ WF_vars(Next)

-----------------------------------------------------------------------------
TypeOK ==
  /\ ShaTypeOK
  /\ at \in {"block", "start", "pause", "poll", "status", "clear", "settle", "stop",
             "digest"}
  /\ index \in 0 .. BlockWords + 7 /\ test \in Tests /\ part \in 1 .. Len(test.blocks)

\* wait_ready never takes the ready flag of the previous block for that of the
\* block just started, nor an interrupt still set for an answer: every word that
\* read_digest reads belongs to the digest the test compares with.
ReadsExpectedDigest == at = "digest" => digest_reg = Expected

\* The interrupt a test has enabled is set when the test clears it, neither
\* earlier nor later, so the next test starts with a status that tells the truth.
InterruptIsSpent == at \in {"block", "start", "pause", "digest"} => ~irq_reg

\* wait_ready ends, test after test.
TestsEnd == (at = "poll") ~> (at = "digest")
=============================================================================
