------------------------------ MODULE Miner ------------------------------
(***************************************************************************)
(* The mining firmware (FW_2/mining.c with the driver SHA.c), the HAL's    *)
(* interrupt dispatcher and the SHA cores as the CPU sees them.            *)
(*                                                                         *)
(* Three kinds of actor share the state.  main() fills the header regions, *)
(* starts every core and then polls the flags for ever.  A core computes   *)
(* on its own and raises its interrupt.  The dispatcher runs the handler   *)
(* of the lowest pending interrupt, again and again, and gives the CPU     *)
(* back to main() only when it reads no pending interrupt; handlers do not *)
(* nest, so a handler is one action.                                       *)
(*                                                                         *)
(* Hash values are symbolic: a digest says which of the three compressions *)
(* of a header produced it and for which nonce.  Any other use of the core *)
(* gives Garbage.                                                          *)
(*                                                                         *)
(* The definitions whose name begins with Bug are not part of the model:   *)
(* each is a slip the definition after it could have, and is used to see   *)
(* that a property notices it.                                             *)
(***************************************************************************)
EXTENDS Integers

CONSTANTS
  NCores,      \* number of SHA cores: 10 in the firmware
  NonceSpan,   \* size of the nonce space: 2^32, alt_u32 arithmetic
  Start,       \* Start[c] is the initial value of nounce<c>
  Winners,     \* the nonces whose double hash is below the target
  PromptClear  \* TRUE: main() is assumed to execute the store that clears a
               \* flag before the core it has just restarted has gone through
               \* all three compressions.  FALSE: no timing is assumed.

Core  == 0 .. NCores - 1
Nonce == 0 .. NonceSpan - 1

ASSUME CoresAssumption   == NCores \in Nat \ {0}
ASSUME SpanAssumption    == NonceSpan \in Nat \ {0}
ASSUME StartAssumption   == Start \in [Core -> Nonce]
ASSUME WinnersAssumption == Winners \subseteq Nonce
ASSUME PromptAssumption  == PromptClear \in BOOLEAN

\* For the instances TLC checks: nearly equal intervals of a small nonce space,
\* as nounce0 .. nounce9 are of the 32-bit one.
EvenStart == [c \in Core |-> (c * NonceSpan) \div NCores]

VARIABLES
  pc,      \* the statement of main() that runs next
  cur,     \* the core main() works on
  nounce,  \* nounce0 .. nounce9
  count,   \* count0 .. count9: compressions finished for the current nonce
  flag,    \* flag0 .. flag9: the double hash is ready
  head,    \* words 0..15 of the core's region hold the header's first block
  word19,  \* word 19 of the core's region: the nonce inside the second block
  slot,    \* words 32..39 of the core's region
  job,     \* the digest the core is computing, or Idle
  digest,  \* the core's digest register
  irq,     \* the core's interrupt request, as the CPU sees it
  inIsr,   \* the CPU is inside alt_irq_handler
  active,  \* the pending interrupts alt_irq_handler last read
  report   \* what main() printed on success: core and nonce, or NoReport

mainVars == <<pc, cur, nounce, report>>
memVars  == <<head, word19, slot>>
isrVars  == <<count, flag>>
hwVars   == <<job, digest, irq>>
excVars  == <<inIsr, active>>
vars     == <<mainVars, memVars, isrVars, hwVars, excVars>>

-----------------------------------------------------------------------------
(***************************************************************************)
(* Digests and the three compressions of one nonce.                        *)
(***************************************************************************)
Stage  == {"idle", "reset", "mid", "first", "double", "garbage"}
Digest == [stage : Stage, nonce : Nonce]

Idle      == [stage |-> "idle",    nonce |-> 0]
Reset     == [stage |-> "reset",   nonce |-> 0]
Mid       == [stage |-> "mid",     nonce |-> 0]
Garbage   == [stage |-> "garbage", nonce |-> 0]
First(n)  == [stage |-> "first",   nonce |-> n]
Double(n) == [stage |-> "double",  nonce |-> n]

\* INIT on words 0..15: the midstate, the same for every nonce.
HashHead(c) == IF head[c] THEN Mid ELSE Garbage

\* NEXT on words 16..31 continues the chain the core holds.
HashTail(c) == IF digest[c] = Mid THEN First(word19[c]) ELSE Garbage

\* INIT on a digest followed by padding_for_first_hash.
HashDigest(d) == IF d.stage = "first" THEN Double(d.nonce) ELSE Garbage

\* compareWithTarget: strictly below the target.
Below(d) == d.stage = "double" /\ d.nonce \in Winners

Succ(n) == (n + 1) % NonceSpan

NoReport == [core |-> 0, nonce |-> -1]

\* The interrupt of the last compression is left pending.
BugSHA_InitKeepsIrq(c, d) ==
  /\ job' = [job EXCEPT ![c] = IF @ = Idle THEN d ELSE @]
  /\ UNCHANGED <<irq, digest>>

(***************************************************************************)
(* SHA_Init: clear the control register and the interrupt, write the       *)
(* block, write the control register.  The start bit is a pulse that a     *)
(* core which is not idle ignores.                                         *)
(***************************************************************************)
SHA_Init(c, d) ==
  /\ job' = [job EXCEPT ![c] = IF @ = Idle THEN d ELSE @]
  /\ irq' = [irq EXCEPT ![c] = FALSE]
  /\ UNCHANGED digest

Pending == {c \in Core : irq[c]}

\* The CPU executes main() only outside the dispatcher, and leaves it at once
\* for the dispatcher when an interrupt is pending.
MainRuns == ~inIsr /\ Pending = {}

-----------------------------------------------------------------------------
Init ==
  /\ pc = "header"
  /\ cur = 0
  /\ nounce = Start
  /\ count = [c \in Core |-> 0]
  /\ flag = [c \in Core |-> FALSE]
  /\ head = [c \in Core |-> FALSE]
  /\ word19 = [c \in Core |-> 0]
  /\ slot = [c \in Core |-> Reset]
  /\ job = [c \in Core |-> Idle]
  /\ digest = [c \in Core |-> Reset]
  /\ irq = [c \in Core |-> FALSE]
  /\ inIsr = FALSE
  /\ active = {}
  /\ report = NoReport

(***************************************************************************)
(* main() up to the polling loop.                                          *)
(***************************************************************************)
\* After core cur: the next core, or the next part of main().
Advance(again, after) ==
  IF cur = NCores - 1
    THEN cur' = 0 /\ pc' = after
    ELSE cur' = cur + 1 /\ pc' = again

\* The regions lie in memory the other way round.
BugWriteHeaderDown ==
  /\ MainRuns /\ pc = "header"
  /\ head' = [c \in Core |-> IF c = cur THEN TRUE
                             ELSE IF c = cur - 1 THEN FALSE ELSE head[c]]
  /\ word19' = [word19 EXCEPT ![cur] = nounce[cur]]
  /\ slot' = [slot EXCEPT ![cur] = Reset]
  /\ Advance("header", "start")
  /\ UNCHANGED <<nounce, report, isrVars, hwVars, excVars>>

\* init_block_header.  Padding_Mem writes 64 words into a region of 48: its
\* last 16 zeros fall on the first block of the next core's region.
WriteHeader ==
  /\ MainRuns /\ pc = "header"
  /\ head' = [c \in Core |-> IF c = cur THEN TRUE
                             ELSE IF c = cur + 1 THEN FALSE ELSE head[c]]
  /\ word19' = [word19 EXCEPT ![cur] = nounce[cur]]
  /\ slot' = [slot EXCEPT ![cur] = Reset]
  /\ Advance("header", "start")
  /\ UNCHANGED <<nounce, report, isrVars, hwVars, excVars>>

StartCore ==
  /\ MainRuns /\ pc = "start"
  /\ SHA_Init(cur, HashHead(cur))
  /\ Advance("start", "poll")
  /\ UNCHANGED <<nounce, report, memVars, isrVars, excVars>>

(***************************************************************************)
(* The polling loop, core by core.                                         *)
(***************************************************************************)
PollClear ==
  /\ MainRuns /\ pc = "poll"
  /\ ~flag[cur]
  /\ Advance("poll", "poll")
  /\ UNCHANGED <<nounce, report, memVars, isrVars, hwVars, excVars>>

PollSet ==
  /\ MainRuns /\ pc = "poll"
  /\ flag[cur]
  /\ pc' = "take"
  /\ UNCHANGED <<cur, nounce, report, memVars, isrVars, hwVars, excVars>>

\* read_digest and reverse_byte_in_memory.
TakeDigest ==
  /\ MainRuns /\ pc = "take"
  /\ slot' = [slot EXCEPT ![cur] = digest[cur]]
  /\ pc' = "compare"
  /\ UNCHANGED <<cur, nounce, report, head, word19, isrVars, hwVars, excVars>>

\* The break is missing.
BugFoundNoBreak ==
  /\ MainRuns /\ pc = "compare"
  /\ Below(slot[cur])
  /\ report' = [core |-> cur, nonce |-> nounce[cur]]
  /\ nounce' = [nounce EXCEPT ![cur] = Succ(@)]
  /\ pc' = "store"
  /\ UNCHANGED <<cur, memVars, isrVars, hwVars, excVars>>

\* Success: print nounce<cur> and break out of the loop; main() returns.
Found ==
  /\ MainRuns /\ pc = "compare"
  /\ Below(slot[cur])
  /\ report' = [core |-> cur, nonce |-> nounce[cur]]
  /\ pc' = "exit"
  /\ UNCHANGED <<cur, nounce, memVars, isrVars, hwVars, excVars>>

\* A copy of the block of core 0 increments nounce0.
BugNextNounceCopied ==
  /\ MainRuns /\ pc = "compare"
  /\ ~Below(slot[cur])
  /\ nounce' = [nounce EXCEPT ![0] = Succ(@)]
  /\ pc' = "store"
  /\ UNCHANGED <<cur, report, memVars, isrVars, hwVars, excVars>>

NextNounce ==
  /\ MainRuns /\ pc = "compare"
  /\ ~Below(slot[cur])
  /\ nounce' = [nounce EXCEPT ![cur] = Succ(@)]
  /\ pc' = "store"
  /\ UNCHANGED <<cur, report, memVars, isrVars, hwVars, excVars>>

\* The incremented nonce does not reach the header.
BugStoreNounceLost ==
  /\ MainRuns /\ pc = "store"
  /\ pc' = "restart"
  /\ UNCHANGED <<cur, nounce, report, memVars, isrVars, hwVars, excVars>>

StoreNounce ==
  /\ MainRuns /\ pc = "store"
  /\ word19' = [word19 EXCEPT ![cur] = nounce[cur]]
  /\ pc' = "restart"
  /\ UNCHANGED <<cur, nounce, report, head, slot, isrVars, hwVars, excVars>>

RestartCore ==
  /\ MainRuns /\ pc = "restart"
  /\ SHA_Init(cur, HashHead(cur))
  /\ pc' = "clear"
  /\ UNCHANGED <<cur, nounce, report, memVars, isrVars, excVars>>

\* All flags are cleared at once.
BugClearAllFlags ==
  /\ MainRuns /\ pc = "clear"
  /\ flag' = [c \in Core |-> FALSE]
  /\ Advance("poll", "poll")
  /\ UNCHANGED <<nounce, report, count, memVars, hwVars, excVars>>

\* The flag is cleared after the restart.
ClearFlag ==
  /\ MainRuns /\ pc = "clear"
  /\ flag' = [flag EXCEPT ![cur] = FALSE]
  /\ Advance("poll", "poll")
  /\ UNCHANGED <<nounce, report, count, memVars, hwVars, excVars>>

\* After main() returns the HAL spins with interrupts enabled.
Spin ==
  /\ MainRuns /\ pc = "exit"
  /\ UNCHANGED vars

Main ==
  \/ WriteHeader \/ StartCore
  \/ PollClear \/ PollSet \/ TakeDigest
  \/ Found \/ NextNounce \/ StoreNounce \/ RestartCore \/ ClearFlag
  \/ Spin

(***************************************************************************)
(* A core finishes: digest register, interrupt.                            *)
(***************************************************************************)
Finish(c) ==
  /\ job[c] # Idle
  /\ PromptClear => ~(pc = "clear" /\ cur = c /\ count[c] = 2)
  /\ digest' = [digest EXCEPT ![c] = job[c]]
  /\ job' = [job EXCEPT ![c] = Idle]
  /\ irq' = [irq EXCEPT ![c] = TRUE]
  /\ UNCHANGED <<mainVars, memVars, isrVars, excVars>>

(***************************************************************************)
(* The handler SHA_<c>_IRQ_Handler, by the value count<c> reaches.         *)
(***************************************************************************)
HashSecondBlock(c) ==
  /\ count[c] = 0
  /\ count' = [count EXCEPT ![c] = 1]
  /\ SHA_Init(c, HashTail(c))
  /\ UNCHANGED <<flag, memVars>>

\* The flag is raised a compression too early.
BugHashAgainEarly(c) ==
  /\ count[c] = 1
  /\ count' = [count EXCEPT ![c] = 2]
  /\ flag' = [flag EXCEPT ![c] = TRUE]
  /\ slot' = [slot EXCEPT ![c] = digest[c]]
  /\ SHA_Init(c, HashDigest(digest[c]))
  /\ UNCHANGED <<head, word19>>

HashAgain(c) ==
  /\ count[c] = 1
  /\ count' = [count EXCEPT ![c] = 2]
  /\ slot' = [slot EXCEPT ![c] = digest[c]]
  /\ SHA_Init(c, HashDigest(digest[c]))
  /\ UNCHANGED <<flag, head, word19>>

\* A copy of another core's handler clears the wrong interrupt.
BugRaiseFlagClearsOther(c) ==
  /\ count[c] = 2
  /\ count' = [count EXCEPT ![c] = 0]
  /\ flag' = [flag EXCEPT ![c] = TRUE]
  /\ irq' = [irq EXCEPT ![0] = FALSE]
  /\ UNCHANGED <<job, digest, memVars>>

\* The handler starts the core on its next header itself.
BugRaiseFlagRestarts(c) ==
  /\ count[c] = 2
  /\ count' = [count EXCEPT ![c] = 0]
  /\ flag' = [flag EXCEPT ![c] = TRUE]
  /\ SHA_Init(c, HashHead(c))
  /\ UNCHANGED memVars

\* write_clr_irq is missing.
BugRaiseFlagKeepsIrq(c) ==
  /\ count[c] = 2
  /\ count' = [count EXCEPT ![c] = 0]
  /\ flag' = [flag EXCEPT ![c] = TRUE]
  /\ UNCHANGED <<irq, job, digest, memVars>>

RaiseFlag(c) ==
  /\ count[c] = 2
  /\ count' = [count EXCEPT ![c] = 0]
  /\ flag' = [flag EXCEPT ![c] = TRUE]
  /\ irq' = [irq EXCEPT ![c] = FALSE]
  /\ UNCHANGED <<job, digest, memVars>>

SHA_IRQ_Handler(c) == HashSecondBlock(c) \/ HashAgain(c) \/ RaiseFlag(c)

(***************************************************************************)
(* alt_irq_handler: read the pending interrupts, run the handler of the    *)
(* lowest one of those read, read again, until none is pending.            *)
(***************************************************************************)
EnterIsr ==
  /\ ~inIsr /\ Pending # {}
  /\ inIsr' = TRUE
  /\ active' = Pending
  /\ UNCHANGED <<mainVars, memVars, isrVars, hwVars>>

ServeIrq(c) ==
  /\ inIsr /\ c \in active
  /\ \A d \in active : c <= d
  /\ SHA_IRQ_Handler(c)
  /\ active' = {}
  /\ UNCHANGED <<mainVars, inIsr>>

ReadAgain ==
  /\ inIsr /\ active = {}
  /\ active' = Pending
  /\ inIsr' = (Pending # {})
  /\ UNCHANGED <<mainVars, memVars, isrVars, hwVars>>

Exception == EnterIsr \/ (\E c \in Core : ServeIrq(c)) \/ ReadAgain

Next == Main \/ (\E c \in Core : Finish(c)) \/ Exception

\* The CPU never stops fetching instructions and a started core always ends.
Fairness ==
  /\ WF_vars(Main)
  /\ WF_vars(Exception)
  /\ \A c \in Core : WF_vars(Finish(c))

Safety == Init /\ [][Next]_vars
Spec   == Safety /\ Fairness

-----------------------------------------------------------------------------
(***************************************************************************)
(* Properties.                                                             *)
(***************************************************************************)
Places == {"header", "start", "poll", "take", "compare", "store", "restart",
           "clear", "exit"}

\* The variables stay in their ranges.
TypeOK ==
  /\ pc \in Places
  /\ cur \in Core
  /\ nounce \in [Core -> Nonce]
  /\ count \in [Core -> 0 .. 2]
  /\ flag \in [Core -> BOOLEAN]
  /\ head \in [Core -> BOOLEAN]
  /\ word19 \in [Core -> Nonce]
  /\ slot \in [Core -> Digest]
  /\ job \in [Core -> Digest]
  /\ digest \in [Core -> Digest]
  /\ irq \in [Core -> BOOLEAN]
  /\ inIsr \in BOOLEAN
  /\ active \subseteq Core
  /\ report \in [core : Core, nonce : Nonce] \cup {NoReport}

\* SHA_Init is only ever reached, by main() or by a handler, when its core is
\* idle and, for main(), has no interrupt pending: no start pulse is ignored by
\* a busy core and no interrupt that someone waits for is wiped by SHA_Init.
NoStartDropped ==
  /\ pc \in {"start", "restart"} => job[cur] = Idle /\ ~irq[cur]
  /\ \A c \in active : job[c] = Idle /\ irq[c]

\* No core ever compresses anything but the three blocks of a header in their
\* order: the header regions are whole when the cores start, although writing
\* one clears part of the next, and a handler never mistakes the compression
\* it answers for another one.
PipelineInOrder == \A c \in Core : job[c] # Garbage /\ digest[c] # Garbage

\* What main() compares with the target is the double hash of the very nonce it
\* would print: the handlers, the register, the region and nounce<c> agree.
ComparesItsNonce == pc = "compare" => slot[cur] = Double(nounce[cur])

\* A reported nonce is below the target.
ReportIsWinner == report # NoReport => report.nonce \in Winners

\* The digest register of a core whose flag is set stays as it is until main()
\* has restarted the core, so the eight reads of read_digest see one digest.
FlaggedDigestStable ==
  [][\A c \in Core : flag[c] /\ ~(pc = "clear" /\ cur = c)
                       => digest'[c] = digest[c]]_vars

\* Somebody will carry the core's work on: the core, a handler or main().
Working(c) == job[c] # Idle \/ irq[c] \/ flag[c]

\* A core stops working (no compression, no interrupt, no flag) only at the
\* store that clears its flag in main(), and then with a result unread: the
\* flag the handlers had raised for the restarted core.
OnlyClearLosesCore ==
  [][\A c \in Core : Working(c) /\ ~Working(c)'
        => pc = "clear" /\ cur = c /\ digest[c] = Double(nounce[c])]_vars

\* A core that was started is computing, has its interrupt pending or has its
\* flag set: it never falls silent.
NoCoreSilent ==
  \A c \in Core : pc = "header" \/ (pc = "start" /\ c >= cur) \/ Working(c)

\* The dispatcher always gives the CPU back to main(): between two visits of
\* main() a core can interrupt three times only.
DispatcherReturns == inIsr ~> ~inIsr

\* Every core goes on to its next nonce until one of them succeeds.
EveryCoreAdvances ==
  \A c \in Core : \A n \in Nonce :
    (pc = "poll" /\ nounce[c] = n) ~> (nounce[c] # n \/ pc = "exit")

\* If a nonce below the target exists, one is reported.
WinnerIsFound == Winners # {} => <>(report # NoReport)

\* After main() has returned the cores come to rest with nothing pending.
RestAfterExit ==
  (pc = "exit") ~> [](~inIsr /\ \A c \in Core : job[c] = Idle /\ ~irq[c])

\* The firmware implements the abstract search, and with prompt clears also its
\* fairness.
Search == INSTANCE NonceSearch WITH cursor <- nounce, result <- report

SearchSafety == Search!Safety
SearchSpec   == Search!Spec
=============================================================================
