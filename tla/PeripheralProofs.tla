------------------------- MODULE PeripheralProofs -------------------------
(***************************************************************************)
(* What the peripheral sha256.v guarantees against any bus master, and     *)
(* what its testbench reads, proved for every number of rounds, every      *)
(* block size, every set of word values and chains of any length.          *)
(***************************************************************************)
EXTENDS MCPeripheral, TLAPS, SequenceTheorems, WellFoundedInduction

(***************************************************************************)
(* The three units do not meet.                                            *)
(***************************************************************************)
FreeStep == Free!Next \/ UNCHANGED shaVars

BenchStep == Bench!Next \/ UNCHANGED <<shaVars, benchVars>>

CoreStep == Core!Next \/ UNCHANGED coreVars

LEMMA UnitSteps ==
  [MCNext]_mcVars =>
    /\ UNCHANGED unit
    /\ unit = "free"  => FreeStep
    /\ unit = "bench" => BenchStep
    /\ unit = "core"  => CoreStep
BY DEF MCNext, FreeNext, BenchNext, CoreNext, mcVars, shaVars, benchVars, FreeStep, BenchStep, CoreStep

LEMMA UnitStarts ==
  MCInit =>
    /\ unit \in {"free", "bench", "core"}
    /\ unit = "free"  => Free!Init
    /\ unit = "bench" => Bench!Init
    /\ unit = "core"  => Core!Init
BY DEF MCInit

-----------------------------------------------------------------------------
(***************************************************************************)
(* Against any bus master control and data are proved apart.  ControlInv   *)
(* says what a set valid flag means (an idle core whose last compression   *)
(* was absorbed), DataInv that the chaining value the rounds began with is *)
(* still the one in H when they end, so that no sum ever mixes two         *)
(* computations.                                                           *)
(***************************************************************************)
\* What a chaining value is made of.
Atom == {"reset", "broken", "sha224", "sha256"} \cup [Free!Index -> FreeWord \cup {NoWord}]

\* At least one block was absorbed.
Absorbed(h) == h \in Seq(Atom) /\ Len(h) > 1

\* The values H may have: never Broken.
Chain(h) == Absorbed(h) \/ h \in {Free!NoDigest, Free!Iv("sha224"), Free!Iv("sha256")}

\* A valid flag belongs to an idle core; the wrapper has seen it, except in the
\* cycle after the compression has ended.
ControlInv ==
  /\ sha256_ctrl # "idle" => ~core_digest_valid
  /\ completed[1] => Free!core_ready /\ core_digest_valid
  /\ Free!core_ready /\ core_digest_valid => (Free!core_done <=> ~completed[1])
  /\ Free!irq_set <=> completed[2]

\* The rounds add to the value they began with.
DataInv ==
  /\ Chain(H)
  /\ core_digest_valid => Absorbed(H)
  /\ ~Free!core_ready => a_h.chain = H
  /\ a_h.block \in [Free!Index -> FreeWord \cup {NoWord}]
  /\ digest_reg = Free!NoDigest \/ Absorbed(digest_reg)

-----------------------------------------------------------------------------
LEMMA NextRoundType == Free!TypeOK => Free!NextRound \in 0 .. FreeLast
<1>. SUFFICES ASSUME NEW N \in Nat \ {0}, NEW a \in 0 .. N
              PROVE  (a + 1) % (N + 1) \in 0 .. N
  BY PeripheralAssumption DEF Free!TypeOK, Free!ShaTypeOK, Free!CtrlTypeOK, Free!NextRound
<1>. QED OBVIOUS

LEMMA WriteTypes ==
  ASSUME NEW w \in Free!Writes
  PROVE  /\ w.to = "ctrl" => /\ w.init \in BOOLEAN /\ w.next \in BOOLEAN
                             /\ w.irq_en \in BOOLEAN /\ w.mode \in {"sha224", "sha256"}
         /\ w.to = "block" => w.index \in Free!Index /\ w.word \in FreeWord
         /\ w.to = "irq_clr" => w.bit \in BOOLEAN
BY DEF Free!Writes, Free!NoWrite, Free!WriteCtrl, Free!WriteBlock, Free!WriteIrqClr

LEMMA InitType == Free!Init => Free!TypeOK
<1>. SUFFICES ASSUME Free!Init PROVE Free!TypeOK
  OBVIOUS
<1>1. Free!CtrlTypeOK
  <2>1. sha256_ctrl = "idle" /\ t_ctr = 0 /\ core_digest_valid = FALSE
    BY DEF Free!Init, Free!ShaInit, Free!CtrlInit
  <2>2. 0 \in 0 .. FreeLast
    BY PeripheralAssumption
  <2>. QED BY <2>1, <2>2, Zenon DEF Free!CtrlTypeOK
<1>2. {init_reg, next_reg, irq_clr_reg, irq_en_reg, ready_reg, digest_valid_reg,
       core_done_d, irq_reg} \subseteq BOOLEAN
  <2>1. /\ init_reg = FALSE /\ next_reg = FALSE /\ irq_clr_reg = FALSE
        /\ irq_en_reg = FALSE /\ ready_reg = FALSE /\ digest_valid_reg = FALSE
        /\ core_done_d = FALSE /\ irq_reg = FALSE
    BY DEF Free!Init, Free!ShaInit
  <2>. QED BY <2>1, Zenon
<1>3. completed \in BOOLEAN \X BOOLEAN
  BY DEF Free!Init
<1>4. mode_reg \in {"sha224", "sha256"} /\ block_reg \in [Free!Index -> FreeWord \cup {NoWord}]
  BY DEF Free!Init, Free!ShaInit
<1>. QED BY <1>1, <1>2, <1>3, <1>4 DEF Free!TypeOK, Free!ShaTypeOK

LEMMA NextType == Free!TypeOK /\ FreeStep => Free!TypeOK'
<1>. SUFFICES ASSUME Free!TypeOK, FreeStep PROVE Free!TypeOK'
  OBVIOUS
<1>1. ASSUME NEW w \in Free!Writes, Free!Clock(w) PROVE Free!TypeOK'
  <2>1. Free!CtrlTypeOK'
    <3>1. Free!CtrlTick(init_reg, next_reg) BY <1>1 DEF Free!Clock, Free!Tick
    <3>2. Free!NextRound \in 0 .. FreeLast /\ 0 \in 0 .. FreeLast
      BY NextRoundType, PeripheralAssumption
    <3>3. Free!CtrlTypeOK BY DEF Free!TypeOK, Free!ShaTypeOK
    <3>. QED BY <3>1, <3>2, <3>3
         DEF Free!CtrlTick, Free!BeginRounds, Free!StayIdle, Free!Round, Free!EndRounds, Free!ctrlVars, Free!CtrlTypeOK
  <2>2. /\ init_reg' \in BOOLEAN /\ next_reg' \in BOOLEAN
        /\ irq_clr_reg' \in BOOLEAN /\ irq_en_reg' \in BOOLEAN
        /\ mode_reg' \in {"sha224", "sha256"}
        /\ block_reg' \in [Free!Index -> FreeWord \cup {NoWord}]
    BY <1>1, WriteTypes DEF Free!Clock, Free!Tick, Free!BusTick, Free!TypeOK, Free!ShaTypeOK
  <2>3. /\ ready_reg' \in BOOLEAN /\ digest_valid_reg' \in BOOLEAN
        /\ core_done_d' \in BOOLEAN /\ irq_reg' \in BOOLEAN
    BY <1>1 DEF Free!Clock, Free!Tick, Free!OutTick, Free!next_irq, Free!core_done, Free!core_ready,
                Free!TypeOK, Free!ShaTypeOK, Free!CtrlTypeOK
  <2>4. completed' \in BOOLEAN \X BOOLEAN
    BY <1>1 DEF Free!Clock, Free!digest_update, Free!TypeOK
  <2>. QED BY <2>1, <2>2, <2>3, <2>4 DEF Free!TypeOK, Free!ShaTypeOK
<1>2. CASE UNCHANGED shaVars
  BY <1>2 DEF shaVars, Free!ctrlVars, Free!busVars, Free!outVars, Free!dataVars,
              Free!TypeOK, Free!ShaTypeOK, Free!CtrlTypeOK
<1>. QED BY <1>1, <1>2 DEF FreeStep, Free!Next

\* Every register keeps its type, for any program on the bus.
THEOREM PeripheralTypeCorrect == MCSpec => [](unit = "free" => Free!TypeOK)
<1> DEFINE Inv == unit = "free" => Free!TypeOK
<1>1. MCInit => Inv BY InitType, UnitStarts
<1>2. Inv /\ [MCNext]_mcVars => Inv' BY NextType, UnitSteps
<1>. QED BY <1>1, <1>2, PTL DEF MCSpec

-----------------------------------------------------------------------------
LEMMA InitControl == Free!Init => ControlInv
BY DEF Free!Init, Free!ShaInit, Free!CtrlInit, ControlInv, Free!core_ready, Free!core_done, Free!irq_set

LEMMA NextControl == Free!TypeOK /\ ControlInv /\ FreeStep => ControlInv'
<1>. SUFFICES ASSUME Free!TypeOK, ControlInv, FreeStep PROVE ControlInv'
  OBVIOUS
<1>1. ASSUME NEW w \in Free!Writes, Free!Clock(w) PROVE ControlInv'
  <2>1. /\ ready_reg' = Free!core_ready /\ digest_valid_reg' = core_digest_valid
        /\ core_done_d' = Free!core_done
        /\ completed' = <<Free!digest_update, completed[1]>>
    BY <1>1 DEF Free!Clock, Free!Tick, Free!OutTick
  <2>2. completed'[1] = Free!digest_update /\ completed'[2] = completed[1]
    BY <2>1
  <2>3. Free!irq_set' <=> completed'[2]
    BY <2>1, <2>2 DEF Free!irq_set, Free!core_done, Free!core_ready, ControlInv
  <2>4. Free!CtrlTick(init_reg, next_reg) BY <1>1 DEF Free!Clock, Free!Tick
  <2>5. CASE Free!BeginRounds(init_reg, next_reg)
    BY <2>1, <2>2, <2>3, <2>5 DEF Free!BeginRounds, Free!state_init, Free!core_ready, Free!core_done,
       Free!digest_update, ControlInv
  <2>6. CASE Free!StayIdle(init_reg, next_reg)
    BY <2>1, <2>2, <2>3, <2>6 DEF Free!StayIdle, Free!ctrlVars, Free!core_ready, Free!core_done,
       Free!digest_update, ControlInv
  <2>7. CASE Free!Round
    BY <2>1, <2>2, <2>3, <2>7 DEF Free!Round, Free!state_update, Free!core_ready, Free!core_done,
       Free!digest_update, ControlInv
  <2>8. CASE Free!EndRounds
    BY <2>1, <2>2, <2>3, <2>8 DEF Free!EndRounds, Free!core_ready, Free!core_done,
       Free!digest_update, ControlInv
  <2>. QED BY <2>4, <2>5, <2>6, <2>7, <2>8 DEF Free!CtrlTick
<1>2. CASE UNCHANGED shaVars
  BY <1>2 DEF shaVars, Free!ctrlVars, Free!outVars, ControlInv, Free!core_ready, Free!core_done,
              Free!irq_set
<1>. QED BY <1>1, <1>2 DEF FreeStep, Free!Next

\* One interrupt pulse for every compression, two cycles after it has ended,
\* whatever is written meanwhile and however soon the next start comes.
THEOREM OneInterruptEach == MCSpec => [](unit = "free" => Free!OneIrqPerCompression)
<1> DEFINE Type == unit = "free" => Free!TypeOK
           Inv  == unit = "free" => ControlInv
           Goal == unit = "free" => Free!OneIrqPerCompression
<1>1. MCInit => Inv BY InitControl, UnitStarts
<1>2. Type /\ Inv /\ [MCNext]_mcVars => Inv' BY NextControl, UnitSteps
<1>3. Inv => Goal BY DEF ControlInv, Free!OneIrqPerCompression
<1>4. MCSpec => []Type BY PeripheralTypeCorrect
<1>. QED BY <1>1, <1>2, <1>3, <1>4, PTL DEF MCSpec

-----------------------------------------------------------------------------
\* A block more, and the chain is longer than any initial value.
LEMMA CompressAbsorbs ==
  ASSUME NEW h, Chain(h), NEW b \in [Free!Index -> FreeWord \cup {NoWord}]
  PROVE  Absorbed(Append(h, b))
<1>1. h \in Seq(Atom) /\ Len(h) >= 1
  <2>1. CASE Absorbed(h) BY <2>1 DEF Absorbed
  <2>2. ASSUME NEW s \in {"reset", "sha224", "sha256"}, h = <<s>> PROVE <1>1
    BY <2>2 DEF Atom
  <2>. QED BY <2>1, <2>2 DEF Chain, Free!NoDigest, Free!Iv
<1>2. b \in Atom BY DEF Atom
<1>. QED BY <1>1, <1>2 DEF Absorbed

\* No finished digest is an initial value or the mark of a mixed sum.
LEMMA AbsorbedIsFinished ==
  ASSUME NEW h, Absorbed(h)
  PROVE  h # Free!Broken /\ h \notin {Free!Iv("sha224"), Free!Iv("sha256")}
<1>1. Len(h) > 1
  BY DEF Absorbed
<1>2. ASSUME NEW s, h = <<s>> PROVE FALSE
  BY <1>1, <1>2
<1>. QED BY <1>2, Zenon DEF Free!Broken, Free!Iv

LEMMA InitData == Free!Init => DataInv
<1>. SUFFICES ASSUME Free!Init PROVE DataInv
  OBVIOUS
<1>1. /\ H = Free!NoDigest /\ digest_reg = Free!NoDigest
      /\ ~core_digest_valid /\ Free!core_ready
  BY DEF Free!Init, Free!ShaInit, Free!CtrlInit, Free!core_ready
<1>2. a_h = [chain |-> Free!NoDigest, block |-> [i \in Free!Index |-> NoWord]]
  BY DEF Free!Init, Free!ShaInit
<1>3. a_h.block \in [Free!Index -> FreeWord \cup {NoWord}]
  BY <1>2
<1>4. Chain(H)
  BY <1>1 DEF Chain
<1>. QED BY <1>1, <1>3, <1>4 DEF DataInv

LEMMA NextData == Free!TypeOK /\ DataInv /\ FreeStep => DataInv'
<1>. SUFFICES ASSUME Free!TypeOK, DataInv, FreeStep PROVE DataInv'
  OBVIOUS
<1>1. ASSUME NEW w \in Free!Writes, Free!Clock(w) PROVE DataInv'
  <2>1. Free!DataTick /\ Free!CtrlTick(init_reg, next_reg) /\ digest_reg' = Free!next_digest
    BY <1>1 DEF Free!Clock, Free!Tick, Free!OutTick
  <2>2. digest_reg' = Free!NoDigest \/ Absorbed(digest_reg')
    BY <2>1 DEF Free!next_digest, DataInv
  <2>3. a_h'.block \in [Free!Index -> FreeWord \cup {NoWord}]
    BY <2>1 DEF Free!DataTick, DataInv, Free!TypeOK, Free!ShaTypeOK
  <2>4. CASE Free!BeginRounds(init_reg, next_reg)
    <3>1. /\ H' = IF init_reg THEN Free!Iv(mode_reg) ELSE H
          /\ a_h'.chain = H' /\ ~core_digest_valid'
      BY <2>1, <2>4 DEF Free!DataTick, Free!BeginRounds, Free!state_init, Free!digest_init,
         Free!digest_update, Free!core_ready
    <3>2. Chain(H')
      BY <3>1 DEF DataInv, Chain, Free!TypeOK, Free!ShaTypeOK
    <3>. QED BY <2>2, <2>3, <3>1, <3>2 DEF DataInv
  <2>5. CASE Free!StayIdle(init_reg, next_reg)
    <3>1. /\ H' = H /\ a_h' = a_h /\ Free!core_ready /\ Free!core_ready'
          /\ core_digest_valid' = core_digest_valid
      BY <2>1, <2>5 DEF Free!DataTick, Free!StayIdle, Free!state_init, Free!digest_init,
         Free!digest_update, Free!core_ready, Free!ctrlVars
    <3>. QED BY <2>2, <2>3, <3>1 DEF DataInv
  <2>6. CASE Free!Round
    <3>1. /\ H' = H /\ a_h' = a_h /\ ~Free!core_ready
          /\ core_digest_valid' = core_digest_valid
      BY <2>1, <2>6 DEF Free!DataTick, Free!Round, Free!state_init, Free!digest_init,
         Free!digest_update, Free!state_update, Free!core_ready
    <3>. QED BY <2>2, <2>3, <3>1 DEF DataInv
  <2>7. CASE Free!EndRounds
    <3>1. a_h.chain = H
      BY <2>7 DEF Free!EndRounds, Free!digest_update, Free!core_ready, DataInv
    <3>2. H' = Append(H, a_h.block) /\ Free!core_ready'
      BY <2>1, <2>7, <3>1 DEF Free!DataTick, Free!EndRounds, Free!digest_init,
         Free!digest_update, Free!core_ready, Free!Compress
    <3>3. Absorbed(H')
      BY <3>2, CompressAbsorbs DEF DataInv
    <3>. QED BY <2>2, <2>3, <3>2, <3>3 DEF DataInv, Chain
  <2>. QED BY <2>1, <2>4, <2>5, <2>6, <2>7 DEF Free!CtrlTick
<1>2. CASE UNCHANGED shaVars
  BY <1>2 DEF shaVars, Free!ctrlVars, Free!outVars, Free!dataVars, DataInv, Free!core_ready
<1>. QED BY <1>1, <1>2 DEF FreeStep, Free!Next

\* digest_reg shows nothing but finished digests, whatever is written while the
\* rounds run.
THEOREM DigestAlwaysFinished == MCSpec => []DigestIsFinished
<1> DEFINE Type == unit = "free" => Free!TypeOK
           Inv  == unit = "free" => DataInv
<1>1. MCInit => Inv BY InitData, UnitStarts
<1>2. Free!NoDigest # Free!Broken /\ Free!NoDigest \notin {Free!Iv("sha224"), Free!Iv("sha256")}
  BY DEF Free!NoDigest, Free!Broken, Free!Iv
<1>3. Inv => DigestIsFinished
  BY <1>2, AbsorbedIsFinished DEF DataInv, Free!DigestIsFinished, DigestIsFinished
<1>4. Type /\ Inv /\ [MCNext]_mcVars => Inv' BY NextData, UnitSteps
<1>5. MCSpec => []Type BY PeripheralTypeCorrect
<1>. QED BY <1>1, <1>3, <1>4, <1>5, PTL DEF MCSpec

-----------------------------------------------------------------------------
\* A core that was idle and valid in the last cycle and is idle now kept its
\* chaining value, and the wrapper has just copied it.
LEMMA FreshStep == FreeStep /\ Free!ReadyMeansFresh => Free!ReadyMeansFresh'
<1>. SUFFICES ASSUME FreeStep, Free!ReadyMeansFresh, Free!core_done', Free!core_ready',
                     ~init_reg', ~next_reg'
              PROVE  digest_reg' = H'
  BY DEF Free!ReadyMeansFresh
<1>1. ASSUME NEW w \in Free!Writes, Free!Clock(w) PROVE digest_reg' = H'
  <2>1. Free!DataTick /\ Free!CtrlTick(init_reg, next_reg) /\ Free!OutTick
    BY <1>1 DEF Free!Clock, Free!Tick
  <2>2. Free!core_ready /\ core_digest_valid
    BY <2>1 DEF Free!OutTick, Free!core_done
  <2>3. Free!StayIdle(init_reg, next_reg)
    BY <2>1, <2>2 DEF Free!CtrlTick, Free!BeginRounds, Free!Round, Free!EndRounds, Free!core_ready,
       Free!state_update, Free!digest_update
  <2>. QED BY <2>1, <2>2, <2>3 DEF Free!OutTick, Free!DataTick, Free!StayIdle, Free!next_digest,
          Free!state_init, Free!digest_init, Free!digest_update, Free!core_ready
<1>2. CASE UNCHANGED shaVars
  BY <1>2 DEF shaVars, Free!ctrlVars, Free!busVars, Free!outVars, Free!dataVars, Free!core_done,
              Free!core_ready, Free!ReadyMeansFresh
<1>. QED BY <1>1, <1>2 DEF FreeStep, Free!Next

\* Ready and valid, read with no start on its way into the core, come with the
\* digest of all the core has absorbed.
THEOREM ReadyDigestIsFresh == MCSpec => []ReadyMeansFresh
<1>1. Free!Init => Free!ReadyMeansFresh
  BY DEF Free!Init, Free!ShaInit, Free!ReadyMeansFresh, Free!core_done
<1>2. MCInit => ReadyMeansFresh BY <1>1, UnitStarts DEF ReadyMeansFresh
<1>3. ReadyMeansFresh /\ [MCNext]_mcVars => ReadyMeansFresh'
  BY FreshStep, UnitSteps DEF ReadyMeansFresh
<1>. QED BY <1>2, <1>3, PTL DEF MCSpec

-----------------------------------------------------------------------------
(***************************************************************************)
(* The testbench, for every number of rounds, every block size and all     *)
(* messages: what the peripheral is doing at each of its task calls.       *)
(***************************************************************************)
\* The digest of the first block of the test, and what its block's rounds begin
\* with.
First == <<test.mode, Bench!Whole(test.blocks[1])>>
Base  == IF part = 1 THEN <<test.mode>> ELSE First

Pulse == init_reg \/ next_reg

\* The wrapper shows what the core has absorbed, or nothing was begun yet.
Settled ==
  /\ Bench!core_ready /\ core_digest_valid /\ ready_reg /\ digest_valid_reg /\ core_done_d
  /\ digest_reg = H
Unstarted ==
  /\ Bench!core_ready /\ ~core_digest_valid /\ ~digest_valid_reg /\ ~core_done_d

\* Before a block: the second one of a test follows the first.
Rests ==
  /\ Settled \/ (Unstarted /\ part = 1)
  /\ part = 2 => H = First

\* A block on its way: the rounds, their end, the digest shown, the completion
\* noticed.
Computes ==
  /\ ~core_digest_valid
  /\ a_h = [chain |-> H, block |-> Bench!Whole(test.blocks[part])] /\ H = Base
  /\ \/ sha256_ctrl = "rounds" /\ (Bench!core_done => core_done_d)
     \/ sha256_ctrl = "done" /\ ~Bench!core_done
Computed ==
  /\ Bench!core_ready /\ core_digest_valid /\ ~ready_reg /\ ~Bench!core_done
  /\ H = Bench!Expected /\ ~core_done_d
Shown ==
  /\ Bench!core_ready /\ core_digest_valid /\ Bench!core_done /\ ~core_done_d
  /\ H = Bench!Expected /\ digest_reg = H
Finished == Settled /\ H = Bench!Expected

\* What is in the block register.
BlockInv ==
  /\ DOMAIN block_reg = Bench!Index /\ block_reg = [k \in Bench!Index |-> block_reg[k]]
  /\ at = "block" => \A k \in 0 .. index - 1 : block_reg[k] = test.blocks[part]
  /\ at \in {"start", "pause"} => block_reg = Bench!Whole(test.blocks[part])

\* Where the testbench is.
BenchTypes ==
  /\ Bench!ShaTypeOK
  /\ at \in {"block", "start", "pause", "poll", "status", "clear", "settle", "stop", "digest"}
  /\ test \in Bench!Tests /\ part \in 1 .. Len(test.blocks)
  /\ at = "block" => index \in Bench!Index
  /\ at = "digest" => index \in 0 .. 7
  /\ at = "status" => index \in {0, 1}
  /\ at \notin {"block", "digest", "status"} => index = 0
  /\ at \in {"status", "clear", "settle", "stop"} => test.kind = "single"

\* What the peripheral is doing there.
BenchPhase ==
  /\ at \in {"block", "start", "pause"} => Rests
  /\ at = "poll" => Computes \/ Computed
  /\ at = "status" => IF index = 0 THEN Shown ELSE Finished
  /\ at \in {"clear", "settle", "stop"} => Finished
  /\ at = "digest" => Finished \/ (Shown /\ ~irq_en_reg)

\* The pulses and the interrupt.
BenchWires ==
  /\ at # "pause" => ~Pulse
  /\ at = "pause" => mode_reg = test.mode /\ (init_reg <=> part = 1) /\ (next_reg <=> part = 2)
  /\ at \in {"pause", "poll"} /\ test.kind = "double" => ~irq_en_reg
  /\ at \notin {"clear", "settle"} => ~irq_reg
  /\ at = "settle" => irq_clr_reg

BenchInv == BenchTypes /\ BlockInv /\ BenchPhase /\ BenchWires

-----------------------------------------------------------------------------

\* Sequences of two and three.
LEMMA PairIs ==
  ASSUME NEW S, NEW s \in Seq(S), NEW x, NEW y, Len(s) = 2, s[1] = x, s[2] = y
  PROVE  s = <<x, y>>
BY SeqEqual

LEMMA TripleIs ==
  ASSUME NEW S, NEW s \in Seq(S), NEW x, NEW y, NEW z, Len(s) = 3, s[1] = x, s[2] = y, s[3] = z
  PROVE  s = <<x, y, z>>
BY SeqEqual

LEMMA AppendThird ==
  ASSUME NEW S, NEW s \in Seq(S), NEW b \in S, Len(s) = 2
  PROVE  Append(s, b) \in Seq(S) /\ Len(Append(s, b)) = 3
         /\ Append(s, b)[1] = s[1] /\ Append(s, b)[2] = s[2] /\ Append(s, b)[3] = b
<1>1. Append(s, b) \in Seq(S) OBVIOUS
<1>2. Len(Append(s, b)) = 3
  <2>1. Len(Append(s, b)) = Len(s) + 1 BY AppendProperties, Zenon
  <2>. QED BY <2>1
<1>3. Append(s, b)[1] = s[1] /\ Append(s, b)[2] = s[2] OBVIOUS
<1>4. Append(s, b)[3] = b
  <2>1. Append(s, b)[Len(s) + 1] = b BY AppendProperties, Zenon
  <2>2. Len(s) + 1 = 3 OBVIOUS
  <2>. QED BY <2>1, <2>2
<1>. QED BY <1>1, <1>2, <1>3, <1>4

LEMMA ShortConcats ==
  ASSUME NEW S, NEW m \in S, NEW a \in S, NEW b \in S
  PROVE  /\ <<m>> \o <<a>> = <<m, a>>
         /\ <<m>> \o <<a, b>> = <<m, a, b>>
         /\ Append(<<m, a>>, b) = <<m, a, b>>
         /\ Append(<<m>>, a) = <<m, a>>
<1> DEFINE One(x) == <<x>>
           Two(x, y) == <<x, y>>
<1>1. \A x \in S : One(x) \in Seq(S) /\ Len(One(x)) = 1 /\ One(x)[1] = x OBVIOUS
<1>2. \A x, y \in S : /\ Two(x, y) \in Seq(S) /\ Len(Two(x, y)) = 2
                      /\ Two(x, y)[1] = x /\ Two(x, y)[2] = y
  OBVIOUS
<1> HIDE DEF One, Two
<1> DEFINE ma == One(m) \o One(a)
           mab == One(m) \o Two(a, b)
           xab == Append(Two(m, a), b)
           xa == Append(One(m), a)
<1>3. ma \in Seq(S) /\ Len(ma) = 2 /\ ma[1] = m /\ ma[2] = a
  BY <1>1, ConcatProperties
<1>4. mab \in Seq(S) /\ Len(mab) = 3 /\ mab[1] = m /\ mab[2] = a /\ mab[3] = b
  <2>1. One(m) \in Seq(S) /\ Two(a, b) \in Seq(S) /\ Len(One(m)) = 1 /\ Len(Two(a, b)) = 2
    BY <1>1, <1>2
  <2>2. /\ mab \in Seq(S) /\ Len(mab) = Len(One(m)) + Len(Two(a, b))
        /\ \A i \in 1 .. Len(One(m)) + Len(Two(a, b)) :
             mab[i] = IF i <= Len(One(m)) THEN One(m)[i] ELSE Two(a, b)[i - Len(One(m))]
    BY <2>1, ConcatProperties, Zenon
  <2>3. mab[1] = One(m)[1] /\ mab[2] = Two(a, b)[1] /\ mab[3] = Two(a, b)[2]
    BY <2>1, <2>2
  <2>. QED BY <1>1, <1>2, <2>1, <2>2, <2>3
<1>5. xab \in Seq(S) /\ Len(xab) = 3 /\ xab[1] = m /\ xab[2] = a /\ xab[3] = b
  <2>1. Two(m, a) \in Seq(S) /\ Len(Two(m, a)) = 2 /\ Two(m, a)[1] = m /\ Two(m, a)[2] = a
    BY <1>2
  <2>. QED BY <2>1, AppendThird
<1>6. xa \in Seq(S) /\ Len(xa) = 2 /\ xa[1] = m /\ xa[2] = a
  BY <1>1, AppendProperties
<1> HIDE DEF ma, mab, xab, xa
<1>7. ma = <<m, a>> BY <1>3, PairIs
<1>8. mab = <<m, a, b>> BY <1>4, TripleIs
<1>9. xab = <<m, a, b>> BY <1>5, TripleIs
<1>10. xa = <<m, a>> BY <1>6, PairIs
<1>. QED BY <1>7, <1>8, <1>9, <1>10 DEF One, Two, ma, mab, xab, xa

\* What the members of Tests have in common.
LEMMA TestsAre ==
  ASSUME test \in Bench!Tests
  PROVE  /\ test.mode \in {"sha224", "sha256"} /\ test.kind \in {"single", "double"}
         /\ Len(test.blocks) \in {1, 2} /\ test.blocks \in Seq(Word)
         /\ \A i \in 1 .. Len(test.blocks) : test.blocks[i] \in Word
<1>1. CASE \E m \in {"sha224", "sha256"}, b \in Word :
             test = [kind |-> "single", mode |-> m, blocks |-> <<b>>]
  BY <1>1
<1>2. CASE \E m \in {"sha224", "sha256"}, b \in Word, c \in Word :
             test = [kind |-> "double", mode |-> m, blocks |-> <<b, c>>]
  BY <1>2
<1>. QED BY <1>1, <1>2 DEF Bench!Tests

\* The digest of a block is that of what came before it, and the block.
LEMMA ExpectedIsNext ==
  ASSUME test \in Bench!Tests, part \in 1 .. Len(test.blocks)
  PROVE  /\ part \in {1, 2}
         /\ Bench!Expected = Append(Base, Bench!Whole(test.blocks[part]))
         /\ part = 1 => Bench!Expected = First
<1>1. part \in {1, 2} BY TestsAre
<1> DEFINE f(i) == Bench!Whole(test.blocks[i])
<1>2. Bench!Expected = <<test.mode>> \o [i \in 1 .. part |-> f(i)]
  BY DEF Bench!Expected
<1>3. First = <<test.mode, f(1)>> BY DEF First
<1>4. Base = IF part = 1 THEN <<test.mode>> ELSE First BY DEF Base
<1> HIDE DEF f
<1>7. LET S == {test.mode, f(1), f(2)} IN
      test.mode \in S /\ f(1) \in S /\ f(2) \in S
  OBVIOUS
<1>8. /\ <<test.mode>> \o <<f(1)>> = <<test.mode, f(1)>>
      /\ Append(<<test.mode>>, f(1)) = <<test.mode, f(1)>>
      /\ <<test.mode>> \o <<f(1), f(2)>> = <<test.mode, f(1), f(2)>>
      /\ Append(<<test.mode, f(1)>>, f(2)) = <<test.mode, f(1), f(2)>>
  BY <1>7, ShortConcats, Zenon
<1>5. CASE part = 1
  <2>1. [i \in 1 .. part |-> f(i)] = <<f(1)>> BY <1>5
  <2>2. <<test.mode>> \o <<f(1)>> = <<test.mode, f(1)>> BY <1>8
  <2>3. Append(<<test.mode>>, f(1)) = <<test.mode, f(1)>> BY <1>8
  <2>. QED BY <1>1, <1>2, <1>3, <1>4, <1>5, <2>1, <2>2, <2>3 DEF f
<1>6. CASE part = 2
  <2>1. [i \in 1 .. part |-> f(i)] = <<f(1), f(2)>> BY <1>6
  <2>2. <<test.mode>> \o <<f(1), f(2)>> = <<test.mode, f(1), f(2)>> BY <1>8
  <2>3. Append(<<test.mode, f(1)>>, f(2)) = <<test.mode, f(1), f(2)>> BY <1>8
  <2>. QED BY <1>1, <1>2, <1>3, <1>4, <1>6, <2>1, <2>2, <2>3 DEF f
<1>. QED BY <1>1, <1>5, <1>6

-----------------------------------------------------------------------------
\* The registers stay registers, whatever is written.
LEMMA TickType ==
  ASSUME NEW w, Bench!ShaTypeOK, Bench!Tick(w),
         w.to = "ctrl" => w.mode \in {"sha224", "sha256"} /\ w.irq_en \in BOOLEAN,
         w.to = "block" => w.index \in Bench!Index /\ w.word \in Word
  PROVE  Bench!ShaTypeOK'
<1>1. Bench!CtrlTypeOK'
  <2>1. Bench!NextRound \in 0 .. LastRound
    <3>. SUFFICES ASSUME NEW N \in Nat \ {0}, NEW a \in 0 .. N
                  PROVE  (a + 1) % (N + 1) \in 0 .. N
      BY PeripheralAssumption DEF Bench!LastRoundAssumption, Bench!ShaTypeOK,
         Bench!CtrlTypeOK, Bench!NextRound
    <3>. QED OBVIOUS
  <2>2. Bench!CtrlTick(init_reg, next_reg) /\ Bench!CtrlTypeOK /\ 0 \in 0 .. LastRound
    BY PeripheralAssumption DEF Bench!LastRoundAssumption, Bench!Tick, Bench!ShaTypeOK
  <2>. QED BY <2>1, <2>2
       DEF Bench!CtrlTick, Bench!BeginRounds, Bench!StayIdle, Bench!Round,
           Bench!EndRounds, Bench!ctrlVars, Bench!CtrlTypeOK
<1>2. Bench!BusTick(w) /\ Bench!OutTick
  BY DEF Bench!Tick
<1>3. init_reg' \in BOOLEAN /\ next_reg' \in BOOLEAN /\ irq_clr_reg' \in BOOLEAN
  BY <1>2, Zenon DEF Bench!BusTick
<1>4. /\ irq_en_reg' \in BOOLEAN /\ mode_reg' \in {"sha224", "sha256"}
      /\ block_reg' \in [Bench!Index -> Word \cup {NoWord}]
  BY <1>2 DEF Bench!BusTick, Bench!ShaTypeOK
<1>5. /\ ready_reg' \in BOOLEAN /\ digest_valid_reg' \in BOOLEAN
      /\ core_done_d' \in BOOLEAN /\ irq_reg' \in BOOLEAN
  BY <1>2 DEF Bench!OutTick, Bench!next_irq, Bench!core_done, Bench!core_ready,
              Bench!ShaTypeOK, Bench!CtrlTypeOK
<1>. QED BY <1>1, <1>3, <1>4, <1>5 DEF Bench!ShaTypeOK

\* A core without a pulse stays as it is, and the wrapper repeats what it shows.
LEMMA RestTick ==
  ASSUME NEW w, Bench!ShaTypeOK, Bench!Tick(w), ~Pulse, Settled \/ Unstarted
  PROVE  /\ Settled => Settled'
         /\ Unstarted => Unstarted'
         /\ H' = H
         /\ irq_reg' = IF irq_clr_reg THEN FALSE ELSE irq_reg
<1>1. /\ Bench!CtrlTick(init_reg, next_reg) /\ Bench!DataTick /\ Bench!OutTick
  BY DEF Bench!Tick
<1>2. Bench!StayIdle(init_reg, next_reg)
  BY <1>1 DEF Settled, Unstarted, Bench!CtrlTick, Bench!BeginRounds, Bench!Round,
     Bench!EndRounds, Bench!core_ready, Bench!state_init, Bench!state_update,
     Bench!digest_update, Pulse
<1>3. H' = H /\ sha256_ctrl' = sha256_ctrl /\ core_digest_valid' = core_digest_valid
  BY <1>1, <1>2 DEF Bench!StayIdle, Bench!ctrlVars, Bench!DataTick, Bench!state_init,
     Bench!digest_init, Bench!digest_update, Bench!core_ready
<1>4. ~Bench!irq_set
  BY DEF Bench!irq_set, Bench!core_done, Settled, Unstarted
<1>. QED BY <1>1, <1>3, <1>4 DEF Settled, Unstarted, Bench!OutTick, Bench!next_digest,
        Bench!next_irq, Bench!core_ready, Bench!core_done

\* The cycle with the pulse begins the block's rounds.
LEMMA LaunchTick ==
  ASSUME NEW w, Bench!Tick(w), Rests, ~irq_reg, UNCHANGED <<test, part>>,
         part \in {1, 2}, mode_reg = test.mode,
         init_reg <=> part = 1, next_reg <=> part = 2,
         block_reg = Bench!Whole(test.blocks[part])
  PROVE  Computes' /\ ~irq_reg'
<1>1. /\ Bench!CtrlTick(init_reg, next_reg) /\ Bench!DataTick /\ Bench!OutTick
  BY DEF Bench!Tick
<1>2. Bench!core_ready /\ Bench!state_init(init_reg, next_reg)
  BY DEF Rests, Settled, Unstarted, Bench!state_init
<1>3. sha256_ctrl' = "rounds" /\ ~core_digest_valid'
  BY <1>1, <1>2 DEF Bench!CtrlTick, Bench!BeginRounds, Bench!StayIdle, Bench!Round,
     Bench!EndRounds, Bench!core_ready, Bench!state_update, Bench!digest_update
<1>4. H' = Base'
  <2>1. H' = IF init_reg THEN <<mode_reg>> ELSE H
    BY <1>1, <1>2 DEF Bench!DataTick, Bench!digest_init, Bench!digest_update,
       Bench!core_ready, Bench!Iv
  <2>2. Base' = IF part = 1 THEN <<test.mode>> ELSE First
    BY DEF Base, First, Bench!Whole, Bench!Index
  <2>. QED BY <2>1, <2>2 DEF Rests
<1>5. a_h' = [chain |-> H', block |-> Bench!Whole(test'.blocks[part'])]
  BY <1>1, <1>2 DEF Bench!DataTick, Bench!digest_init, Bench!digest_update, Bench!core_ready
<1>6. ~Bench!irq_set
  BY DEF Bench!irq_set, Bench!core_done, Rests, Settled, Unstarted
<1>7. ~irq_reg' /\ core_done_d' = Bench!core_done
  BY <1>1, <1>6 DEF Bench!OutTick, Bench!next_irq
<1>8. Bench!core_done' => core_done_d'
  BY <1>1, <1>7 DEF Bench!OutTick, Bench!core_done, Rests, Settled, Unstarted
<1>. QED BY <1>3, <1>4, <1>5, <1>7, <1>8 DEF Computes, Bench!Whole, Bench!Index

\* A cycle of the rounds, and the one after the last.
LEMMA RoundTick ==
  ASSUME NEW w, Bench!Tick(w), Computes, ~irq_reg, UNCHANGED <<test, part>>,
         test \in Bench!Tests, part \in 1 .. Len(test.blocks)
  PROVE  (Computes' \/ Computed') /\ ~irq_reg' /\ ~Bench!status'
<1>1. /\ Bench!CtrlTick(init_reg, next_reg) /\ Bench!DataTick /\ Bench!OutTick
  BY DEF Bench!Tick
<1>2. ~Bench!core_ready
  BY DEF Computes, Bench!core_ready
<1>3. ~ready_reg' /\ ~digest_valid_reg' /\ core_done_d' = Bench!core_done
  BY <1>1, <1>2 DEF Bench!OutTick, Computes
<1>4. ~irq_reg'
  BY <1>1 DEF Bench!OutTick, Bench!next_irq, Bench!irq_set, Computes
<1>5. CASE sha256_ctrl = "rounds"
  <2>1. Bench!Round
    BY <1>1, <1>5 DEF Bench!CtrlTick, Bench!BeginRounds, Bench!StayIdle, Bench!EndRounds,
       Bench!core_ready, Bench!state_init, Bench!digest_update
  <2>2. sha256_ctrl' \in {"rounds", "done"} /\ ~core_digest_valid'
    BY <2>1 DEF Bench!Round, Computes
  <2>3. H' = H /\ a_h' = a_h
    BY <1>1, <1>5 DEF Bench!DataTick, Bench!core_ready, Bench!state_init,
       Bench!digest_init, Bench!digest_update
  <2>4. Base' = Base /\ Bench!Whole(test'.blocks[part']) = Bench!Whole(test.blocks[part])
    BY DEF Base, First, Bench!Whole, Bench!Index
  <2>5. Computes'
    BY <1>3, <2>2, <2>3, <2>4 DEF Computes, Bench!core_done, Bench!Whole, Bench!Index
  <2>. QED BY <1>3, <1>4, <2>5 DEF Bench!status
<1>6. CASE sha256_ctrl = "done"
  <2>1. Bench!EndRounds
    BY <1>1, <1>6 DEF Bench!CtrlTick, Bench!BeginRounds, Bench!StayIdle, Bench!Round,
       Bench!core_ready, Bench!state_init, Bench!state_update
  <2>2. H' = Append(Base, Bench!Whole(test.blocks[part]))
    BY <1>1, <1>2, <1>6 DEF Bench!DataTick, Bench!digest_init, Bench!digest_update,
       Bench!Compress, Computes
  <2>3. H' = Bench!Expected
    BY <2>2, ExpectedIsNext
  <2>4. Bench!Expected' = Bench!Expected
    BY DEF Bench!Expected, Bench!Whole, Bench!Index
  <2>5. Computed'
    BY <1>3, <1>6, <2>1, <2>3, <2>4 DEF Computed, Computes, Bench!EndRounds,
       Bench!core_ready, Bench!core_done
  <2>. QED BY <1>3, <1>4, <2>5 DEF Bench!status
<1>. QED BY <1>5, <1>6 DEF Computes

\* The wrapper takes the digest over, and says so.
LEMMA ShowTick ==
  ASSUME NEW w, Bench!Tick(w), Computed, ~Pulse, ~irq_reg, UNCHANGED <<test, part>>
  PROVE  Shown' /\ ~irq_reg' /\ Bench!status'
<1>1. /\ Bench!CtrlTick(init_reg, next_reg) /\ Bench!DataTick /\ Bench!OutTick
  BY DEF Bench!Tick
<1>2. Bench!StayIdle(init_reg, next_reg)
  BY <1>1 DEF Computed, Bench!CtrlTick, Bench!BeginRounds, Bench!Round,
     Bench!EndRounds, Bench!core_ready, Bench!state_init, Bench!state_update,
     Bench!digest_update, Pulse
<1>3. H' = H /\ sha256_ctrl' = sha256_ctrl /\ core_digest_valid' = core_digest_valid
  BY <1>1, <1>2 DEF Bench!StayIdle, Bench!ctrlVars, Bench!DataTick, Bench!state_init,
     Bench!digest_init, Bench!digest_update, Bench!core_ready
<1>4. Bench!Expected' = Bench!Expected
  BY DEF Bench!Expected, Bench!Whole, Bench!Index
<1>5. ready_reg' /\ digest_valid_reg' /\ ~core_done_d' /\ digest_reg' = H
  BY <1>1 DEF Bench!OutTick, Bench!next_digest, Computed
<1>6. ~irq_reg'
  BY <1>1 DEF Bench!OutTick, Bench!next_irq, Bench!irq_set, Computed
<1>. QED BY <1>3, <1>4, <1>5, <1>6 DEF Computed, Shown, Bench!status, Bench!core_ready,
        Bench!core_done

\* The completion is noticed, and raises the interrupt where it is enabled.
LEMMA NoticeTick ==
  ASSUME NEW w, Bench!Tick(w), Shown, ~Pulse
  PROVE  Settled' /\ H' = H /\ (~irq_reg /\ ~irq_en_reg => ~irq_reg')
<1>1. /\ Bench!CtrlTick(init_reg, next_reg) /\ Bench!DataTick /\ Bench!OutTick
  BY DEF Bench!Tick
<1>2. Bench!StayIdle(init_reg, next_reg)
  BY <1>1 DEF Shown, Bench!CtrlTick, Bench!BeginRounds, Bench!Round,
     Bench!EndRounds, Bench!core_ready, Bench!state_init, Bench!state_update,
     Bench!digest_update, Pulse
<1>3. H' = H /\ sha256_ctrl' = sha256_ctrl /\ core_digest_valid' = core_digest_valid
  BY <1>1, <1>2 DEF Bench!StayIdle, Bench!ctrlVars, Bench!DataTick, Bench!state_init,
     Bench!digest_init, Bench!digest_update, Bench!core_ready
<1>. QED BY <1>1, <1>3 DEF Shown, Settled, Bench!OutTick, Bench!next_digest,
        Bench!next_irq, Bench!core_ready, Bench!core_done

\* What a test call writes besides the block.
LEMMA WritesAre ==
  /\ Bench!NoWrite.to = "none"
  /\ \A b : Bench!WriteIrqClr(b).to = "irq_clr" /\ Bench!WriteIrqClr(b).bit = b
  /\ \A i, n, m, e : LET w == Bench!WriteCtrl(i, n, m, e) IN
       w.to = "ctrl" /\ w.init = i /\ w.next = n /\ w.mode = m /\ w.irq_en = e
  /\ \A i, x : LET w == Bench!WriteBlock(i, x) IN
       w.to = "block" /\ w.index = i /\ w.word = x
BY DEF Bench!NoWrite, Bench!WriteIrqClr, Bench!WriteCtrl, Bench!WriteBlock

\* A cycle without a write to the control register gives no pulse and leaves the
\* interrupt enable alone; without one to the block, the block.
LEMMA PlainTick ==
  ASSUME NEW w, Bench!Tick(w), w.to # "ctrl"
  PROVE  /\ ~Pulse' /\ irq_en_reg' = irq_en_reg
         /\ w.to # "block" => block_reg' = block_reg
BY DEF Bench!Tick, Bench!BusTick, Pulse

LEMMA BenchStarts == Bench!Init => BenchInv
<1>. SUFFICES ASSUME Bench!Init PROVE BenchInv
  OBVIOUS
<1>1. /\ sha256_ctrl = "idle" /\ t_ctr = 0 /\ core_digest_valid = FALSE
      /\ init_reg = FALSE /\ next_reg = FALSE /\ mode_reg = "sha256"
      /\ irq_clr_reg = FALSE /\ irq_en_reg = FALSE
      /\ ready_reg = FALSE /\ digest_valid_reg = FALSE
      /\ core_done_d = FALSE /\ irq_reg = FALSE
      /\ block_reg = [i \in Bench!Index |-> NoWord]
      /\ at = "block" /\ index = 0 /\ part = 1 /\ test \in Bench!Tests
  BY DEF Bench!Init, Bench!ShaInit, Bench!CtrlInit
<1>2. 0 \in 0 .. LastRound /\ 0 \in Bench!Index
  BY PeripheralAssumption DEF Bench!LastRoundAssumption, Bench!BlockAssumption, Bench!Index
<1>3. Bench!CtrlTypeOK
  BY <1>1, <1>2, Zenon DEF Bench!CtrlTypeOK
<1>4. {init_reg, next_reg, irq_clr_reg, irq_en_reg, ready_reg, digest_valid_reg,
       core_done_d, irq_reg} \subseteq BOOLEAN
  BY <1>1, Zenon
<1>5. mode_reg \in {"sha224", "sha256"} /\ block_reg \in [Bench!Index -> Word \cup {NoWord}]
  BY <1>1
<1>6. Bench!ShaTypeOK
  BY <1>3, <1>4, <1>5 DEF Bench!ShaTypeOK
<1>7. part \in 1 .. Len(test.blocks)
  <2>1. Len(test.blocks) \in {1, 2} BY <1>1, TestsAre, Zenon
  <2>. QED BY <1>1, <2>1
<1>8. BenchTypes
  BY <1>1, <1>2, <1>6, <1>7 DEF BenchTypes
<1>9. BlockInv
  BY <1>1 DEF BlockInv
<1>10. BenchPhase
  BY <1>1 DEF BenchPhase, Rests, Unstarted, Bench!core_ready
<1>11. BenchWires
  BY <1>1 DEF BenchWires, Pulse
<1>. QED BY <1>8, <1>9, <1>10, <1>11 DEF BenchInv

LEMMA BlockStep == BenchInv /\ Bench!WriteBlockWord => BenchInv'
<1>. SUFFICES ASSUME BenchInv, Bench!WriteBlockWord PROVE BenchInv'
  OBVIOUS
<1> DEFINE w == Bench!WriteBlock(index, test.blocks[part])
<1>1. /\ at = "block" /\ Bench!Tick(w) /\ UNCHANGED <<test, part>>
      /\ index' = (index + 1) % BlockWords
      /\ at' = IF index = BlockWords - 1 THEN "start" ELSE "block"
  BY DEF Bench!WriteBlockWord
<1>2. w.to = "block" /\ w.index = index /\ w.word = test.blocks[part]
  BY WritesAre
<1>3. /\ Bench!ShaTypeOK /\ test \in Bench!Tests /\ part \in 1 .. Len(test.blocks)
      /\ index \in Bench!Index /\ Rests /\ ~Pulse /\ ~irq_reg
      /\ BlockWords \in Nat \ {0}
  BY <1>1, PeripheralAssumption
     DEF BenchInv, BenchTypes, BenchPhase, BenchWires, Bench!BlockAssumption
<1>4. test.blocks[part] \in Word
  BY <1>3, TestsAre
<1> HIDE DEF w
<1>5. Bench!ShaTypeOK'
  BY <1>1, <1>2, <1>3, <1>4, TickType
<1>6. Rests' /\ ~irq_reg' /\ ~Pulse'
  <2>1. Settled \/ Unstarted BY <1>3 DEF Rests
  <2>2. /\ Settled => Settled'
        /\ Unstarted => Unstarted'
        /\ H' = H /\ ~irq_reg'
    BY <1>1, <1>3, <2>1, RestTick
  <2>3. First' = First BY <1>1 DEF First, Bench!Whole, Bench!Index
  <2>4. ~Pulse' BY <1>1, <1>2, PlainTick
  <2>5. Settled' \/ (Unstarted' /\ part = 1) BY <1>3, <2>2, Zenon DEF Rests
  <2>6. part = 2 => H' = First' BY <1>3, <2>2, <2>3, Zenon DEF Rests
  <2>7. part' = part BY <1>1
  <2>. QED BY <2>2, <2>4, <2>5, <2>6, <2>7, Zenon DEF Rests
<1>7. block_reg' = [block_reg EXCEPT ![index] = test.blocks[part]]
  BY <1>1, <1>2 DEF Bench!Tick, Bench!BusTick
<1>8. block_reg \in [Bench!Index -> Word \cup {NoWord}]
      /\ block_reg' \in [Bench!Index -> Word \cup {NoWord}]
  BY <1>3, <1>5 DEF Bench!ShaTypeOK
<1>9. \A k \in 0 .. index : block_reg'[k] = test.blocks[part]
  <2>1. index \in Nat /\ \A k \in 0 .. index - 1 : block_reg[k] = test.blocks[part]
    <3>1. at = "block" BY <1>1
    <3>2. index \in Nat BY <1>3 DEF Bench!Index
    <3>. QED BY <3>1, <3>2 DEF BenchInv, BlockInv
  <2>2. \A k \in 0 .. index : k \in Bench!Index
    BY <1>3 DEF Bench!Index
  <2>3. \A k \in Bench!Index :
          block_reg'[k] = IF k = index THEN test.blocks[part] ELSE block_reg[k]
    BY <1>7, <1>8
  <2>. QED BY <2>1, <2>2, <2>3
<1>10. IF index = BlockWords - 1 THEN index' = 0 ELSE index' = index + 1
  <2>. SUFFICES ASSUME NEW B \in Nat \ {0}, NEW x \in 0 .. B - 1
                PROVE  IF x = B - 1 THEN (x + 1) % B = 0 ELSE (x + 1) % B = x + 1
    BY <1>1, <1>3 DEF Bench!Index
  <2>. QED OBVIOUS
<1>11. BlockInv'
  <2>1. DOMAIN block_reg' = Bench!Index /\ block_reg' = [k \in Bench!Index |-> block_reg'[k]]
    BY <1>8
  <2>2. at' = "block" => \A k \in 0 .. index' - 1 : block_reg'[k] = test'.blocks[part']
    BY <1>1, <1>3, <1>9, <1>10 DEF Bench!Index
  <2>3. at' = "start" => block_reg' = Bench!Whole(test.blocks[part])
    BY <1>1, <1>9, <2>1 DEF Bench!Whole, Bench!Index
  <2>. QED BY <1>1, <2>1, <2>2, <2>3 DEF BlockInv, Bench!Whole, Bench!Index
<1>12. BenchTypes'
  BY <1>1, <1>3, <1>5, <1>10 DEF BenchTypes, Bench!Index, Bench!Tests
<1>13. BenchPhase'
  BY <1>1, <1>6 DEF BenchPhase
<1>14. BenchWires'
  BY <1>1, <1>6 DEF BenchWires
<1>. QED BY <1>11, <1>12, <1>13, <1>14 DEF BenchInv

\* What the calls other than that of a block word have in common: the types, and
\* the block register.
LEMMA CallTypes ==
  ASSUME BenchInv, NEW w, Bench!Tick(w), w.to # "block",
         w.to = "ctrl" => w.mode \in {"sha224", "sha256"} /\ w.irq_en \in BOOLEAN
  PROVE  Bench!ShaTypeOK' /\ block_reg' = block_reg
<1>1. Bench!ShaTypeOK BY DEF BenchInv, BenchTypes
<1>2. Bench!ShaTypeOK' BY <1>1, TickType
<1>3. block_reg' = block_reg BY DEF Bench!Tick, Bench!BusTick
<1>. QED BY <1>2, <1>3

LEMMA BlockKept ==
  ASSUME BenchInv, block_reg' = block_reg, UNCHANGED <<test, part>>,
         at' = "block" => index' = 0,
         at' \in {"start", "pause"} => at = "start"
  PROVE  BlockInv'
<1>1. /\ DOMAIN block_reg' = Bench!Index
      /\ block_reg' = [k \in Bench!Index |-> block_reg'[k]]
  BY DEF BenchInv, BlockInv
<1>2. at' = "block" => \A k \in 0 .. index' - 1 : block_reg'[k] = test'.blocks[part']
  OBVIOUS
<1>3. at' \in {"start", "pause"} => block_reg' = Bench!Whole(test.blocks[part])
  BY DEF BenchInv, BlockInv
<1>. QED BY <1>1, <1>2, <1>3 DEF BlockInv, Bench!Whole, Bench!Index

LEMMA FinishedTick ==
  ASSUME NEW w, Bench!ShaTypeOK, Bench!Tick(w), ~Pulse, Finished, UNCHANGED <<test, part>>
  PROVE  Finished' /\ irq_reg' = IF irq_clr_reg THEN FALSE ELSE irq_reg
<1>1. Settled' /\ H' = H /\ irq_reg' = IF irq_clr_reg THEN FALSE ELSE irq_reg
  BY RestTick DEF Finished
<1>2. Bench!Expected' = Bench!Expected
  BY DEF Bench!Expected, Bench!Whole, Bench!Index
<1>. QED BY <1>1, <1>2 DEF Finished

LEMMA StartStep == BenchInv /\ Bench!WriteStart => BenchInv'
<1>. SUFFICES ASSUME BenchInv, Bench!WriteStart PROVE BenchInv'
  OBVIOUS
<1> DEFINE w == Bench!WriteCtrl(part = 1, part = 2, test.mode,
                                test.kind = "single" /\ test.mode = "sha256")
<1>1. /\ at = "start" /\ Bench!Tick(w) /\ UNCHANGED <<index, test, part>>
      /\ at' = "pause"
  BY DEF Bench!WriteStart, Bench!Start
<1>2. /\ w.to = "ctrl" /\ (w.init <=> part = 1) /\ (w.next <=> part = 2) /\ w.mode = test.mode
      /\ w.irq_en \in BOOLEAN /\ (test.kind = "double" => ~w.irq_en)
  BY DEF Bench!WriteCtrl
<1>3. /\ Bench!ShaTypeOK /\ test \in Bench!Tests /\ part \in 1 .. Len(test.blocks)
      /\ index = 0 /\ Rests /\ ~Pulse /\ ~irq_reg
  BY <1>1 DEF BenchInv, BenchTypes, BenchPhase, BenchWires
<1> HIDE DEF w
<1>4. Bench!ShaTypeOK' /\ block_reg' = block_reg
  BY <1>1, <1>2, <1>3, CallTypes, TestsAre
<1>5. /\ Settled => Settled'
      /\ Unstarted => Unstarted'
      /\ H' = H /\ ~irq_reg'
  <2>1. Settled \/ Unstarted BY <1>3 DEF Rests
  <2>. QED BY <1>1, <1>3, <2>1, RestTick
<1>6. Rests'
  <2>1. First' = First BY <1>1 DEF First, Bench!Whole, Bench!Index
  <2>. QED BY <1>1, <1>3, <1>5, <2>1 DEF Rests
<1>7. /\ mode_reg' = test.mode /\ (init_reg' <=> part = 1) /\ (next_reg' <=> part = 2)
      /\ (test.kind = "double" => ~irq_en_reg')
  BY <1>1, <1>2 DEF Bench!Tick, Bench!BusTick
<1>8. BlockInv'
  BY <1>1, <1>4, BlockKept
<1>9. BenchTypes'
  BY <1>1, <1>3, <1>4 DEF BenchTypes, Bench!Tests
<1>10. BenchPhase' BY <1>1, <1>6 DEF BenchPhase
<1>11. BenchWires' BY <1>1, <1>5, <1>7 DEF BenchWires
<1>. QED BY <1>8, <1>9, <1>10, <1>11 DEF BenchInv

LEMMA PauseStep == BenchInv /\ Bench!Pause => BenchInv'
<1>. SUFFICES ASSUME BenchInv, Bench!Pause PROVE BenchInv'
  OBVIOUS
<1> DEFINE w == Bench!NoWrite
<1>1. /\ at \in {"pause", "settle"} /\ Bench!Tick(w) /\ UNCHANGED <<index, test, part>>
      /\ at' = IF at = "pause" THEN "poll" ELSE "stop"
  BY DEF Bench!Pause
<1>2. w.to = "none" BY WritesAre
<1>3. /\ Bench!ShaTypeOK /\ test \in Bench!Tests /\ part \in 1 .. Len(test.blocks)
      /\ index = 0 /\ (at = "settle" => test.kind = "single")
  BY <1>1 DEF BenchInv, BenchTypes
<1> HIDE DEF w
<1>4. Bench!ShaTypeOK' /\ block_reg' = block_reg
  BY <1>1, <1>2, CallTypes
<1>5. ~Pulse' /\ irq_en_reg' = irq_en_reg
  BY <1>1, <1>2, PlainTick
<1>6. BlockInv'
  BY <1>1, <1>4, BlockKept
<1>7. BenchTypes'
  BY <1>1, <1>3, <1>4 DEF BenchTypes, Bench!Tests
<1>8. CASE at = "pause"
  <2>1. /\ Rests /\ ~irq_reg /\ mode_reg = test.mode
        /\ (init_reg <=> part = 1) /\ (next_reg <=> part = 2)
        /\ (test.kind = "double" => ~irq_en_reg)
        /\ block_reg = Bench!Whole(test.blocks[part])
    BY <1>8 DEF BenchInv, BenchPhase, BenchWires, BlockInv
  <2>2. part \in {1, 2} BY <1>3, ExpectedIsNext
  <2>3. Computes' /\ ~irq_reg' BY <1>1, <2>1, <2>2, LaunchTick
  <2>4. BenchPhase' BY <1>1, <1>8, <2>3 DEF BenchPhase
  <2>5. BenchWires' BY <1>1, <1>5, <1>8, <2>1, <2>3 DEF BenchWires
  <2>. QED BY <1>6, <1>7, <2>4, <2>5 DEF BenchInv
<1>9. CASE at = "settle"
  <2>1. Finished /\ ~Pulse /\ irq_clr_reg
    BY <1>9 DEF BenchInv, BenchPhase, BenchWires
  <2>2. Finished' /\ ~irq_reg' BY <1>1, <1>3, <2>1, FinishedTick
  <2>3. BenchPhase' BY <1>1, <1>9, <2>2 DEF BenchPhase
  <2>4. BenchWires' BY <1>1, <1>5, <1>9, <2>2 DEF BenchWires
  <2>. QED BY <1>6, <1>7, <2>3, <2>4 DEF BenchInv
<1>. QED BY <1>1, <1>8, <1>9

LEMMA PollStep == BenchInv /\ Bench!Poll => BenchInv'
<1>. SUFFICES ASSUME BenchInv, Bench!Poll PROVE BenchInv'
  OBVIOUS
<1> DEFINE w == Bench!NoWrite
<1>1. /\ at = "poll" /\ Bench!Tick(w) /\ UNCHANGED <<index, test, part>>
      /\ at' = IF ~Bench!status' THEN "poll"
               ELSE IF test.kind = "single" THEN "status" ELSE "digest"
  BY DEF Bench!Poll
<1>2. w.to = "none" BY WritesAre
<1>3. /\ Bench!ShaTypeOK /\ test \in Bench!Tests /\ part \in 1 .. Len(test.blocks)
      /\ index = 0 /\ ~Pulse /\ ~irq_reg /\ (Computes \/ Computed)
      /\ (test.kind = "double" => ~irq_en_reg)
  BY <1>1 DEF BenchInv, BenchTypes, BenchPhase, BenchWires
<1> HIDE DEF w
<1>4. Bench!ShaTypeOK' /\ block_reg' = block_reg
  BY <1>1, <1>2, CallTypes
<1>5. ~Pulse' /\ irq_en_reg' = irq_en_reg
  BY <1>1, <1>2, PlainTick
<1>6. BlockInv'
  BY <1>1, <1>4, BlockKept
<1>7. test.kind \in {"single", "double"} BY <1>3, TestsAre
<1>8. BenchTypes'
  BY <1>1, <1>3, <1>4, <1>7 DEF BenchTypes, Bench!Tests
<1>9. CASE Computes
  <2>1. (Computes' \/ Computed') /\ ~irq_reg' /\ ~Bench!status'
    BY <1>1, <1>3, <1>9, RoundTick
  <2>2. at' = "poll" BY <1>1, <2>1
  <2>3. BenchPhase' BY <2>1, <2>2 DEF BenchPhase
  <2>4. BenchWires' BY <1>1, <1>3, <1>5, <2>1, <2>2 DEF BenchWires
  <2>. QED BY <1>6, <1>8, <2>3, <2>4 DEF BenchInv
<1>10. CASE Computed
  <2>1. Shown' /\ ~irq_reg' /\ Bench!status'
    BY <1>1, <1>3, <1>10, ShowTick
  <2>2. at' = IF test.kind = "single" THEN "status" ELSE "digest" BY <1>1, <2>1
  <2>3. BenchPhase' BY <1>1, <1>3, <1>5, <1>7, <2>1, <2>2 DEF BenchPhase
  <2>4. BenchWires' BY <1>1, <1>3, <1>5, <2>1, <2>2 DEF BenchWires
  <2>. QED BY <1>6, <1>8, <2>3, <2>4 DEF BenchInv
<1>. QED BY <1>3, <1>9, <1>10

LEMMA StatusStep == BenchInv /\ Bench!ReadStatus => BenchInv'
<1>. SUFFICES ASSUME BenchInv, Bench!ReadStatus PROVE BenchInv'
  OBVIOUS
<1> DEFINE w == Bench!NoWrite
<1>1. /\ at = "status" /\ Bench!Tick(w) /\ UNCHANGED <<test, part>>
      /\ at' = IF index = 0 THEN "clear" ELSE "digest"
      /\ index' = 0
  BY DEF Bench!ReadStatus
<1>2. w.to = "none" BY WritesAre
<1>3. /\ Bench!ShaTypeOK /\ test \in Bench!Tests /\ part \in 1 .. Len(test.blocks)
      /\ index \in {0, 1} /\ ~Pulse /\ ~irq_reg /\ test.kind = "single"
      /\ (IF index = 0 THEN Shown ELSE Finished)
  BY <1>1 DEF BenchInv, BenchTypes, BenchPhase, BenchWires
<1> HIDE DEF w
<1>4. Bench!ShaTypeOK' /\ block_reg' = block_reg
  BY <1>1, <1>2, CallTypes
<1>5. ~Pulse'
  BY <1>1, <1>2, PlainTick
<1>6. BlockInv'
  BY <1>1, <1>4, BlockKept
<1>7. BenchTypes'
  BY <1>1, <1>3, <1>4 DEF BenchTypes, Bench!Tests
<1>8. Finished' /\ (index = 1 => ~irq_reg')
  <2>1. CASE index = 0
    <3>1. Settled' /\ H' = H BY <1>1, <1>3, <2>1, NoticeTick
    <3>2. Bench!Expected' = Bench!Expected
      BY <1>1 DEF Bench!Expected, Bench!Whole, Bench!Index
    <3>. QED BY <1>3, <2>1, <3>1, <3>2 DEF Shown, Finished
  <2>2. CASE index = 1
    <3>1. Finished BY <1>3, <2>2
    <3>2. Finished' /\ irq_reg' = IF irq_clr_reg THEN FALSE ELSE irq_reg
      BY <1>1, <1>3, <3>1, FinishedTick, Zenon
    <3>. QED BY <1>3, <3>2
  <2>. QED BY <1>3, <2>1, <2>2
<1>9. BenchPhase' BY <1>1, <1>8 DEF BenchPhase
<1>10. BenchWires' BY <1>1, <1>3, <1>5, <1>8 DEF BenchWires
<1>. QED BY <1>6, <1>7, <1>9, <1>10 DEF BenchInv

LEMMA ClearStep == BenchInv /\ Bench!ClearInterrupt => BenchInv'
<1>. SUFFICES ASSUME BenchInv, Bench!ClearInterrupt PROVE BenchInv'
  OBVIOUS
<1> DEFINE w == Bench!WriteIrqClr(TRUE)
<1>1. /\ at = "clear" /\ Bench!Tick(w) /\ UNCHANGED <<index, test, part>>
      /\ at' = "settle"
  BY DEF Bench!ClearInterrupt
<1>2. w.to = "irq_clr" /\ w.bit = TRUE BY WritesAre
<1>3. /\ Bench!ShaTypeOK /\ test \in Bench!Tests /\ part \in 1 .. Len(test.blocks)
      /\ index = 0 /\ ~Pulse /\ test.kind = "single" /\ Finished
  BY <1>1 DEF BenchInv, BenchTypes, BenchPhase, BenchWires
<1> HIDE DEF w
<1>4. Bench!ShaTypeOK' /\ block_reg' = block_reg
  BY <1>1, <1>2, CallTypes
<1>5. ~Pulse' BY <1>1, <1>2, PlainTick
<1>6. irq_clr_reg' BY <1>1, <1>2 DEF Bench!Tick, Bench!BusTick
<1>7. Finished' BY <1>1, <1>3, FinishedTick
<1>8. BlockInv' BY <1>1, <1>4, BlockKept
<1>9. BenchTypes' BY <1>1, <1>3, <1>4 DEF BenchTypes, Bench!Tests
<1>10. BenchPhase' BY <1>1, <1>7 DEF BenchPhase
<1>11. BenchWires' BY <1>1, <1>5, <1>6 DEF BenchWires
<1>. QED BY <1>8, <1>9, <1>10, <1>11 DEF BenchInv

LEMMA StopStep == BenchInv /\ Bench!ClearControl => BenchInv'
<1>. SUFFICES ASSUME BenchInv, Bench!ClearControl PROVE BenchInv'
  OBVIOUS
<1> DEFINE w == Bench!WriteCtrl(FALSE, FALSE, "sha224", FALSE)
<1>1. /\ at = "stop" /\ Bench!Tick(w) /\ UNCHANGED <<test, part>>
      /\ at' = "status" /\ index' = 1
  BY DEF Bench!ClearControl
<1>2. /\ w.to = "ctrl" /\ ~w.init /\ ~w.next /\ w.mode = "sha224" /\ w.irq_en = FALSE
  BY DEF Bench!WriteCtrl
<1>3. /\ Bench!ShaTypeOK /\ test \in Bench!Tests /\ part \in 1 .. Len(test.blocks)
      /\ ~Pulse /\ ~irq_reg /\ test.kind = "single" /\ Finished
  BY <1>1 DEF BenchInv, BenchTypes, BenchPhase, BenchWires
<1> HIDE DEF w
<1>4. Bench!ShaTypeOK' /\ block_reg' = block_reg
  BY <1>1, <1>2, CallTypes
<1>5. ~Pulse' BY <1>1, <1>2 DEF Bench!Tick, Bench!BusTick, Pulse
<1>6. Finished' /\ ~irq_reg' BY <1>1, <1>3, FinishedTick
<1>7. BlockInv' BY <1>1, <1>4, BlockKept
<1>8. BenchTypes' BY <1>1, <1>3, <1>4 DEF BenchTypes, Bench!Tests
<1>9. BenchPhase' BY <1>1, <1>6 DEF BenchPhase
<1>10. BenchWires' BY <1>1, <1>5, <1>6 DEF BenchWires
<1>. QED BY <1>7, <1>8, <1>9, <1>10 DEF BenchInv

LEMMA DigestStep == BenchInv /\ Bench!ReadDigestWord => BenchInv'
<1>. SUFFICES ASSUME BenchInv, Bench!ReadDigestWord PROVE BenchInv'
  OBVIOUS
<1> DEFINE w == Bench!NoWrite
<1>1. /\ at = "digest" /\ Bench!Tick(w) /\ index' = (index + 1) % 8
      /\ IF index < 7
           THEN at' = "digest" /\ UNCHANGED <<test, part>>
           ELSE /\ at' = "block"
                /\ IF part < Len(test.blocks)
                     THEN part' = part + 1 /\ UNCHANGED test
                     ELSE part' = 1 /\ test' \in Bench!Tests
  BY DEF Bench!ReadDigestWord
<1>2. w.to = "none" BY WritesAre
<1>3. /\ Bench!ShaTypeOK /\ test \in Bench!Tests /\ part \in 1 .. Len(test.blocks)
      /\ index \in 0 .. 7 /\ ~Pulse /\ ~irq_reg /\ (Finished \/ (Shown /\ ~irq_en_reg))
  BY <1>1 DEF BenchInv, BenchTypes, BenchPhase, BenchWires
<1> HIDE DEF w
<1>4. Bench!ShaTypeOK' /\ block_reg' = block_reg
  BY <1>1, <1>2, CallTypes
<1>5. ~Pulse' BY <1>1, <1>2, PlainTick
<1>6. Settled' /\ H' = Bench!Expected /\ ~irq_reg'
  <2>1. CASE Finished
    BY <1>1, <1>3, <2>1, RestTick DEF Finished
  <2>2. CASE Shown /\ ~irq_en_reg
    BY <1>1, <1>3, <2>2, NoticeTick DEF Shown
  <2>. QED BY <1>3, <2>1, <2>2
<1>7. IF index = 7 THEN index' = 0 ELSE index' \in 0 .. 7
  BY <1>1, <1>3
<1>8. part \in {1, 2} /\ (part = 1 => Bench!Expected = First) /\ Len(test.blocks) \in {1, 2}
  BY <1>3, ExpectedIsNext, TestsAre
<1>9. CASE index < 7
  <2>1. at' = "digest" /\ UNCHANGED <<test, part>> BY <1>1, <1>9
  <2>2. index' \in 0 .. 7 BY <1>3, <1>7, <1>9
  <2>3. BlockInv' BY <1>4, <2>1, BlockKept
  <2>4. BenchTypes' BY <1>3, <1>4, <2>1, <2>2 DEF BenchTypes, Bench!Tests
  <2>5. Bench!Expected' = Bench!Expected
    BY <2>1 DEF Bench!Expected, Bench!Whole, Bench!Index
  <2>6. BenchPhase' BY <1>6, <2>1, <2>5 DEF BenchPhase, Finished
  <2>7. BenchWires' BY <1>5, <1>6, <2>1 DEF BenchWires
  <2>. QED BY <2>3, <2>4, <2>6, <2>7 DEF BenchInv
<1>10. CASE ~(index < 7)
  <2>1. at' = "block" /\ index' = 0 BY <1>1, <1>3, <1>7, <1>10
  <2>2. /\ test' \in Bench!Tests
        /\ \/ part' = 1
           \/ part = 1 /\ part' = 2 /\ Len(test.blocks) = 2 /\ test' = test
    <3>1. IF part < Len(test.blocks)
            THEN part' = part + 1 /\ test' = test
            ELSE part' = 1 /\ test' \in Bench!Tests
      BY <1>1, <1>10
    <3>2. CASE part < Len(test.blocks)
      <4>1. part = 1 /\ Len(test.blocks) = 2
        <5>. SUFFICES ASSUME NEW p \in {1, 2}, NEW l \in {1, 2}, p < l PROVE p = 1 /\ l = 2
          BY <1>8, <3>2
        <5>. QED OBVIOUS
      <4>2. part' = 2 /\ test' = test BY <3>1, <3>2, <4>1
      <4>3. test' \in Bench!Tests BY <1>3, <4>2, Zenon
      <4>. QED BY <4>1, <4>2, <4>3
    <3>3. CASE ~(part < Len(test.blocks))
      BY <3>1, <3>3
    <3>. QED BY <3>2, <3>3
  <2>3. part' \in 1 .. Len(test'.blocks)
    <3>1. Len(test'.blocks) \in {1, 2} BY <2>2 DEF Bench!Tests
    <3>. QED BY <2>2, <3>1
  <2>4. BlockInv'
    <3>1. /\ DOMAIN block_reg' = Bench!Index
          /\ block_reg' = [k \in Bench!Index |-> block_reg'[k]]
      BY <1>4 DEF BenchInv, BlockInv
    <3>. QED BY <2>1, <3>1 DEF BlockInv, Bench!Index
  <2>5. 0 \in Bench!Index
    BY PeripheralAssumption DEF Bench!BlockAssumption, Bench!Index
  <2>6. BenchTypes'
    BY <1>4, <2>1, <2>2, <2>3, <2>5 DEF BenchTypes, Bench!Tests, Bench!Index
  <2>7. part' = 2 => H' = First'
    <3>1. part' = 2 => First' = First BY <2>2 DEF First, Bench!Whole, Bench!Index
    <3>. QED BY <1>6, <1>8, <2>2, <3>1
  <2>8. BenchPhase' BY <1>6, <2>1, <2>7 DEF BenchPhase, Rests
  <2>9. BenchWires' BY <1>5, <1>6, <2>1 DEF BenchWires
  <2>. QED BY <2>4, <2>6, <2>8, <2>9 DEF BenchInv
<1>. QED BY <1>9, <1>10

LEMMA BenchKept == BenchInv /\ BenchStep => BenchInv'
<1>1. CASE UNCHANGED <<shaVars, benchVars>>
  <2>. SUFFICES ASSUME BenchInv, UNCHANGED <<shaVars, benchVars>> PROVE BenchInv'
    BY <1>1
  <2>1. BenchTypes'
    BY DEF BenchInv, BenchTypes, shaVars, benchVars, Bench!ShaTypeOK, Bench!CtrlTypeOK,
       Bench!Tests, Bench!Index
  <2>2. BlockInv'
    BY DEF BenchInv, BlockInv, shaVars, benchVars, Bench!Index, Bench!Whole
  <2>3. BenchPhase'
    BY DEF BenchInv, BenchPhase, shaVars, benchVars, Rests, Settled, Unstarted, Computes,
       Computed, Shown, Finished, First, Base, Bench!Expected, Bench!Index, Bench!Whole,
       Bench!core_ready, Bench!core_done
  <2>4. BenchWires'
    BY DEF BenchInv, BenchWires, shaVars, benchVars, Pulse
  <2>. QED BY <2>1, <2>2, <2>3, <2>4 DEF BenchInv
<1>. QED BY <1>1, BlockStep, StartStep, PauseStep, PollStep, StatusStep, ClearStep, StopStep,
        DigestStep DEF BenchStep, Bench!Next

LEMMA BenchInvSays ==
  BenchInv => Bench!TypeOK /\ Bench!ReadsExpectedDigest /\ Bench!InterruptIsSpent
<1>. SUFFICES ASSUME BenchInv
              PROVE  Bench!TypeOK /\ Bench!ReadsExpectedDigest /\ Bench!InterruptIsSpent
  OBVIOUS
<1>1. index \in 0 .. BlockWords + 7
  <2>1. index \in Bench!Index \/ index \in 0 .. 7
    BY DEF BenchInv, BenchTypes
  <2>2. BlockWords \in Nat \ {0}
    BY PeripheralAssumption DEF Bench!BlockAssumption
  <2>. QED BY <2>1, <2>2 DEF Bench!Index
<1>2. Bench!TypeOK
  BY <1>1 DEF BenchInv, BenchTypes, Bench!TypeOK
<1>3. Bench!ReadsExpectedDigest
  BY DEF BenchInv, BenchPhase, Finished, Settled, Shown, Bench!ReadsExpectedDigest
<1>4. Bench!InterruptIsSpent
  BY DEF BenchInv, BenchWires, Bench!InterruptIsSpent
<1>. QED BY <1>2, <1>3, <1>4

\* Every digest word the testbench reads belongs to the message it has written,
\* and the interrupt its test has raised is spent when the next block begins, for
\* any number of rounds, any block size and any messages, in any order.
THEOREM BenchReadsItsDigest == MCSpec => []BenchReadsDigest
<1> DEFINE Inv == unit = "bench" => BenchInv
<1>1. MCInit => Inv BY BenchStarts, UnitStarts
<1>2. Inv /\ [MCNext]_mcVars => Inv' BY BenchKept, UnitSteps
<1>3. Inv => BenchReadsDigest BY BenchInvSays DEF BenchReadsDigest
<1>. QED BY <1>1, <1>2, <1>3, PTL DEF MCSpec

-----------------------------------------------------------------------------
(***************************************************************************)
(* The datapath, for all messages.  CoreInv says what the registers hold   *)
(* in each state of the machine, by the schedule and the rounds of         *)
(* the standard.  The two are recursive functions: Recursion gives them a  *)
(* row of values, so that each entry is what its equation says.            *)
(***************************************************************************)
LEMMA LessThan == IsWellFoundedOn({p \in Nat \X Nat : p[1] < p[2]}, Nat)
BY NatLessThanWellFounded DEF OpToRel

\* A property of numbers that holds at 0 and is handed on holds of all: the set of
\* those that have it has no least number outside.
LEMMA Induction ==
  ASSUME NEW T, 0 \in T, \A n \in Nat : n \in T => n + 1 \in T
  PROVE  \A n \in Nat : n \in T
<1> DEFINE R == {p \in Nat \X Nat : p[1] < p[2]}
           Out == Nat \ T
<1>1. SUFFICES ASSUME Out # {} PROVE FALSE
  OBVIOUS
<1>2. PICK m \in Out : \A k \in Out : ~(<<k, m>> \in R)
  <2>1. IsWellFoundedOn(R, Nat) /\ Out \subseteq Nat BY LessThan
  <2> HIDE DEF R, Out
  <2> QED BY <1>1, <2>1, WFMin
<1>3. m # 0 /\ m \in Nat OBVIOUS
<1>4. m - 1 \notin T
  <2>1. m - 1 \in Nat /\ (m - 1) + 1 = m BY <1>3
  <2> QED BY <2>1
<1>5. m - 1 \in Out /\ m - 1 \in Nat BY <1>3, <1>4
<1>6. <<m - 1, m>> \in R BY <1>3, <1>5
<1> QED BY <1>2, <1>5, <1>6

\* g holds the values that F makes, one after the other, of the first.
Row(D, first, F, n, g) ==
  /\ g \in [0 .. n -> D] /\ g[0] = first
  /\ \A t \in 1 .. n : g[t] = F[<<g[t - 1], t>>]

LEMMA Recursion ==
  ASSUME NEW D, NEW first \in D, NEW F \in [D \X Nat -> D], NEW n \in Nat
  PROVE  \E g : Row(D, first, F, n, g)
<1> DEFINE T == {m \in Nat : \E g : Row(D, first, F, m, g)}
<1>1. 0 \in T
  <2> DEFINE g == [t \in 0 .. 0 |-> first]
  <2>1. Row(D, first, F, 0, g) BY DEF Row
  <2> QED BY <2>1
<1>2. ASSUME NEW m \in Nat, m \in T PROVE m + 1 \in T
  <2>1. PICK g : Row(D, first, F, m, g) BY <1>2
  <2> DEFINE h == [t \in 0 .. m + 1 |-> IF t = m + 1 THEN F[<<g[m], m + 1>>] ELSE g[t]]
  <2>2. h \in [0 .. m + 1 -> D]
    <3>1. g[m] \in D /\ \A t \in 0 .. m : g[t] \in D BY <2>1 DEF Row
    <3>2. F[<<g[m], m + 1>>] \in D BY <3>1
    <3>3. ASSUME NEW t \in 0 .. m + 1 PROVE h[t] \in D BY <3>1, <3>2
    <3> QED BY <3>3
  <2>3. h[0] = first BY <2>1 DEF Row
  <2>4. ASSUME NEW t \in 1 .. m + 1 PROVE h[t] = F[<<h[t - 1], t>>]
    <3>1. CASE t = m + 1
      <4>1. t - 1 = m /\ m \in 0 .. m + 1 /\ m # m + 1 /\ t \in 0 .. m + 1 BY <3>1
      <4>2. h[t - 1] = g[m] /\ h[t] = F[<<g[m], m + 1>>] BY <3>1, <4>1
      <4> QED BY <3>1, <4>2
    <3>2. CASE t \in 1 .. m
      <4>1. t - 1 \in 0 .. m /\ h[t - 1] = g[t - 1] /\ h[t] = g[t] BY <3>2
      <4> QED BY <2>1, <3>2, <4>1 DEF Row
    <3> QED BY <2>4, <3>1, <3>2
  <2> HIDE DEF h
  <2>5. Row(D, first, F, m + 1, h) BY <2>2, <2>3, <2>4 DEF Row
  <2> QED BY <2>5
<1>3. n \in T
  <2> HIDE DEF T
  <2> QED BY <1>1, <1>2, Induction
<1> QED BY <1>3

LEMMA XIsWord == ASSUME NEW hi, NEW lo PROVE Core!X(hi, lo) \in Core!Word32
BY DEF Core!X, Core!Word32, Core!Bit

LEMMA KWords == \A t \in 1 .. 64 : Core!K[t] \in Core!Word32
BY XIsWord DEF Core!K

LEMMA H0Words == ASSUME NEW m PROVE Core!H0(m) \in [1 .. 8 -> Core!Word32]
BY XIsWord DEF Core!H0, Core!SHA224_H0, Core!SHA256_H0

-----------------------------------------------------------------------------
LEMMA CarryStep ==
  ASSUME NEW x \in Core!Word32, NEW y \in Core!Word32
  PROVE  /\ 0 \notin Core!Carries(x, y)
         /\ Core!Carries(x, y) \subseteq Core!Bit
         /\ \A i \in 0 .. 30 :
              i + 1 \in Core!Carries(x, y) <=>
                \/ i \in x /\ i \in y
                \/ i \in Core!Carries(x, y) /\ (i \in x \/ i \in y)
<1> DEFINE C == Core!Carries(x, y)
<1>1. \A i \in Core!Bit : i \in C <=> \E j \in x \cap y : j < i /\ (j + 1) .. (i - 1) \subseteq x \cup y
  BY DEF Core!Carries
<1>2. x \subseteq 0 .. 31 /\ y \subseteq 0 .. 31 BY DEF Core!Word32, Core!Bit
<1>3. 0 \notin C /\ C \subseteq Core!Bit
  <2>1. C \subseteq Core!Bit BY DEF Core!Carries
  <2>2. 0 \in Core!Bit BY DEF Core!Bit
  <2> QED BY <1>1, <1>2, <2>1, <2>2
<1>4. ASSUME NEW i \in 0 .. 30
      PROVE  i + 1 \in C <=> (i \in x /\ i \in y) \/ (i \in C /\ (i \in x \/ i \in y))
  <2>1. i \in Core!Bit /\ i + 1 \in Core!Bit BY DEF Core!Bit
  <2>2. ASSUME i + 1 \in C PROVE (i \in x /\ i \in y) \/ (i \in C /\ (i \in x \/ i \in y))
    <3>1. PICK j \in x \cap y : j < i + 1 /\ (j + 1) .. ((i + 1) - 1) \subseteq x \cup y
      BY <1>1, <2>1, <2>2
    <3>2. j \in 0 .. 31 BY <1>2, <3>1
    <3>3. CASE j = i BY <3>1, <3>3
    <3>4. CASE j < i
      <4>1. i \in (j + 1) .. ((i + 1) - 1) BY <3>2, <3>4
      <4>2. (j + 1) .. (i - 1) \subseteq (j + 1) .. ((i + 1) - 1) BY <3>2
      <4>3. i \in C BY <1>1, <2>1, <3>1, <3>4, <4>2
      <4> QED BY <3>1, <4>1, <4>3
    <3> QED BY <3>1, <3>2, <3>3, <3>4
  <2>3. ASSUME i \in x, i \in y PROVE i + 1 \in C
    <3>1. i \in x \cap y /\ i < i + 1 /\ (i + 1) .. ((i + 1) - 1) \subseteq x \cup y BY <2>3
    <3> QED BY <1>1, <2>1, <3>1
  <2>4. ASSUME i \in C, i \in x \cup y PROVE i + 1 \in C
    <3>1. PICK j \in x \cap y : j < i /\ (j + 1) .. (i - 1) \subseteq x \cup y
      BY <1>1, <2>1, <2>4
    <3>2. j \in 0 .. 31 BY <1>2, <3>1
    <3>3. ASSUME NEW k \in (j + 1) .. ((i + 1) - 1) PROVE k \in x \cup y
      <4>1. k = i \/ k \in (j + 1) .. (i - 1) BY <3>2, <3>3
      <4> QED BY <2>4, <3>1, <4>1
    <3>4. j < i + 1 BY <3>1, <3>2
    <3> QED BY <1>1, <2>1, <3>1, <3>3, <3>4
  <2> QED BY <2>2, <2>3, <2>4
<1> QED BY <1>3, <1>4

LEMMA SumBit ==
  ASSUME NEW x \in Core!Word32, NEW y \in Core!Word32
  PROVE  /\ Core!Add(x, y) \in Core!Word32
         /\ \A i \in Core!Bit :
              i \in Core!Add(x, y) <=> ((i \in x <=> i \in y) <=> i \in Core!Carries(x, y))
BY CarryStep DEF Core!Add, Core!Xor3, Core!Xor, Core!Word32, Core!Bit

LEMMA AddCommutes ==
  ASSUME NEW x \in Core!Word32, NEW y \in Core!Word32
  PROVE  Core!Add(x, y) = Core!Add(y, x)
<1>1. Core!Carries(x, y) = Core!Carries(y, x) BY DEF Core!Carries
<1>2. Core!Xor3(x, y, Core!Carries(x, y)) = Core!Xor3(y, x, Core!Carries(x, y))
  BY DEF Core!Xor3, Core!Xor
<1> QED BY <1>1, <1>2 DEF Core!Add

\* Bit for bit, both ways of adding three words hand on the same number of carries.
LEMMA AddAssociates ==
  ASSUME NEW x \in Core!Word32, NEW y \in Core!Word32, NEW z \in Core!Word32
  PROVE  Core!Add(Core!Add(x, y), z) = Core!Add(x, Core!Add(y, z))
<1> DEFINE u == Core!Add(x, y)  w == Core!Add(y, z)
           p == Core!Carries(x, y)  q == Core!Carries(u, z)
           r == Core!Carries(y, z)  s == Core!Carries(x, w)
           Same(i) == /\ (i \in p <=> i \in q) <=> (i \in r <=> i \in s)
                      /\ (i \in p /\ i \in q) <=> (i \in r /\ i \in s)
           T == {n \in Nat : n \in 0 .. 31 => Same(n)}
<1>1. u \in Core!Word32 /\ w \in Core!Word32 BY SumBit
<1>2. /\ \A i \in Core!Bit : i \in u <=> ((i \in x <=> i \in y) <=> i \in p)
      /\ \A i \in Core!Bit : i \in w <=> ((i \in y <=> i \in z) <=> i \in r)
      /\ \A i \in Core!Bit : i \in Core!Add(u, z) <=> ((i \in u <=> i \in z) <=> i \in q)
      /\ \A i \in Core!Bit : i \in Core!Add(x, w) <=> ((i \in x <=> i \in w) <=> i \in s)
      /\ Core!Add(u, z) \in Core!Word32 /\ Core!Add(x, w) \in Core!Word32
  BY <1>1, SumBit
<1>3. /\ \A i \in 0 .. 30 : i + 1 \in p <=> (i \in x /\ i \in y) \/ (i \in p /\ (i \in x \/ i \in y))
      /\ \A i \in 0 .. 30 : i + 1 \in q <=> (i \in u /\ i \in z) \/ (i \in q /\ (i \in u \/ i \in z))
      /\ \A i \in 0 .. 30 : i + 1 \in r <=> (i \in y /\ i \in z) \/ (i \in r /\ (i \in y \/ i \in z))
      /\ \A i \in 0 .. 30 : i + 1 \in s <=> (i \in x /\ i \in w) \/ (i \in s /\ (i \in x \/ i \in w))
      /\ 0 \notin p /\ 0 \notin q /\ 0 \notin r /\ 0 \notin s
  BY <1>1, CarryStep
<1> HIDE DEF u, w, p, q, r, s
<1>4. 0 \in T BY <1>3
<1>5. ASSUME NEW n \in Nat, n \in T PROVE n + 1 \in T
  <2>1. SUFFICES ASSUME n + 1 \in 0 .. 31 PROVE Same(n + 1) OBVIOUS
  <2>2. n \in 0 .. 30 /\ n \in Core!Bit BY <2>1 DEF Core!Bit
  <2>3. Same(n) BY <1>5, <2>2
  <2>4. /\ n \in u <=> ((n \in x <=> n \in y) <=> n \in p)
        /\ n \in w <=> ((n \in y <=> n \in z) <=> n \in r)
        /\ n + 1 \in p <=> (n \in x /\ n \in y) \/ (n \in p /\ (n \in x \/ n \in y))
        /\ n + 1 \in q <=> (n \in u /\ n \in z) \/ (n \in q /\ (n \in u \/ n \in z))
        /\ n + 1 \in r <=> (n \in y /\ n \in z) \/ (n \in r /\ (n \in y \/ n \in z))
        /\ n + 1 \in s <=> (n \in x /\ n \in w) \/ (n \in s /\ (n \in x \/ n \in w))
    BY <1>2, <1>3, <2>2
  <2> QED BY <2>3, <2>4
<1>6. \A i \in Core!Bit : Same(i)
  <2>1. \A n \in Nat : n \in T
    <3> HIDE DEF T
    <3> QED BY <1>4, <1>5, Induction
  <2> QED BY <2>1 DEF Core!Bit
<1>7. \A i \in Core!Bit : i \in Core!Add(u, z) <=> i \in Core!Add(x, w)
  BY <1>2, <1>6
<1>8. Core!Add(u, z) = Core!Add(x, w) BY <1>2, <1>7 DEF Core!Word32
<1> QED BY <1>8 DEF u, w

-----------------------------------------------------------------------------
State8 == [1 .. 8 -> Core!Word32]
Block  == [1 .. 16 -> Core!Word32]

LEMMA AddWord ==
  \A x, y \in Core!Word32 : Core!Add(x, y) \in Core!Word32
BY SumBit

LEMMA XorWord ==
  ASSUME NEW x \in Core!Word32, NEW y \in Core!Word32, NEW z \in Core!Word32
  PROVE  Core!Xor3(x, y, z) \in Core!Word32
BY DEF Core!Xor3, Core!Xor, Core!Word32

LEMMA ShiftWord ==
  ASSUME NEW x \in Core!Word32, NEW n \in 0 .. 31
  PROVE  Core!Rotr(x, n) \in Core!Word32 /\ Core!Shr(x, n) \in Core!Word32
BY DEF Core!Rotr, Core!Shr, Core!Word32, Core!Bit

LEMMA SigmaWords ==
  \A x \in Core!Word32 :
    /\ Core!sum0(x) \in Core!Word32 /\ Core!sum1(x) \in Core!Word32
    /\ Core!d0(x) \in Core!Word32 /\ Core!d1(x) \in Core!Word32
BY ShiftWord, XorWord DEF Core!sum0, Core!sum1, Core!d0, Core!d1

LEMMA ChoiceWords ==
  \A x, y, z \in Core!Word32 :
    Core!ch(x, y, z) \in Core!Word32 /\ Core!maj(x, y, z) \in Core!Word32
BY DEF Core!ch, Core!maj, Core!Xor3, Core!Xor, Core!Not, Core!Word32

\* A round as the registers see it: six of them move on.
LEMMA RoundIs ==
  ASSUME NEW v \in State8, NEW w, NEW k
  PROVE  Core!OneRound(v, w, k) =
           LET T1 == Core!Add(Core!Add(Core!Add(Core!Add(v[8], Core!sum1(v[5])), Core!ch(v[5], v[6], v[7])), k), w)
               T2 == Core!Add(Core!sum0(v[1]), Core!maj(v[1], v[2], v[3]))
           IN  <<Core!Add(T1, T2), v[1], v[2], v[3], Core!Add(v[4], T1), v[5], v[6], v[7]>>
<1> DEFINE T1 == Core!Add(Core!Add(Core!Add(Core!Add(v[8], Core!sum1(v[5])), Core!ch(v[5], v[6], v[7])), k), w)
           T2 == Core!Add(Core!sum0(v[1]), Core!maj(v[1], v[2], v[3]))
           a  == Core!Add(T1, T2)
           e  == Core!Add(v[4], T1)
           r  == Core!OneRound(v, w, k)
<1>1. r = [v EXCEPT ![1] = a, ![2] = v[1], ![3] = v[2], ![4] = v[3],
                    ![5] = e, ![6] = v[5], ![7] = v[6], ![8] = v[7]]
  BY DEF Core!OneRound
<1> HIDE DEF a, e, r
<1>2. DOMAIN v = 1 .. 8 /\ v = [i \in 1 .. 8 |-> v[i]] BY DEF State8
<1>3. /\ r = [i \in 1 .. 8 |-> r[i]]
      /\ r[1] = a /\ r[2] = v[1] /\ r[3] = v[2] /\ r[4] = v[3]
      /\ r[5] = e /\ r[6] = v[5] /\ r[7] = v[6] /\ r[8] = v[7]
  <2> DEFINE S == {a, e} \cup {v[i] : i \in 1 .. 8}
             s == [v EXCEPT ![1] = a, ![2] = v[1], ![3] = v[2], ![4] = v[3]]
  <2>1. r = [s EXCEPT ![5] = e, ![6] = v[5], ![7] = v[6], ![8] = v[7]] BY <1>1
  <2>2. a \in S /\ e \in S /\ v \in [1 .. 8 -> S] /\ \A i \in 1 .. 8 : v[i] \in S BY <1>2
  <2> HIDE DEF S
  <2>3. v[1] \in S /\ v[2] \in S /\ v[3] \in S /\ v[5] \in S /\ v[6] \in S /\ v[7] \in S BY <2>2
  <2>4. s \in [1 .. 8 -> S] BY <2>2, <2>3
  <2>5. s[1] = a /\ s[2] = v[1] /\ s[3] = v[2] /\ s[4] = v[3] BY <1>2
  <2> HIDE DEF s
  <2>6. r \in [1 .. 8 -> S] BY <2>1, <2>2, <2>3, <2>4
  <2>7. r[1] = s[1] /\ r[2] = s[2] /\ r[3] = s[3] /\ r[4] = s[4] BY <2>1, <2>4
  <2>8. r[5] = e /\ r[6] = v[5] /\ r[7] = v[6] /\ r[8] = v[7] BY <2>1, <2>4
  <2> QED BY <2>5, <2>6, <2>7, <2>8
<1>4. r = <<a, v[1], v[2], v[3], e, v[5], v[6], v[7]>> BY <1>3
<1> QED BY <1>4 DEF r, a, e

LEMMA RoundWords ==
  ASSUME NEW v \in State8, NEW w \in Core!Word32, NEW k \in Core!Word32
  PROVE  Core!OneRound(v, w, k) \in State8
<1>1. \A i \in 1 .. 8 : v[i] \in Core!Word32 BY DEF State8
<1> DEFINE T1 == Core!Add(Core!Add(Core!Add(Core!Add(v[8], Core!sum1(v[5])), Core!ch(v[5], v[6], v[7])), k), w)
           T2 == Core!Add(Core!sum0(v[1]), Core!maj(v[1], v[2], v[3]))
<1>2. T1 \in Core!Word32 /\ T2 \in Core!Word32
  BY <1>1, AddWord, SigmaWords, ChoiceWords
<1>3. Core!Add(T1, T2) \in Core!Word32 /\ Core!Add(v[4], T1) \in Core!Word32
  BY <1>1, <1>2, AddWord
<1>4. Core!OneRound(v, w, k)
        = <<Core!Add(T1, T2), v[1], v[2], v[3], Core!Add(v[4], T1), v[5], v[6], v[7]>>
  BY RoundIs
<1> HIDE DEF T1, T2
<1> QED BY <1>1, <1>3, <1>4 DEF State8

LEMMA FunIsSeq == ASSUME NEW D, NEW n \in Nat, NEW s \in [1 .. n -> D] PROVE s \in Seq(D) /\ Len(s) = n
OBVIOUS

\* W is the schedule of b, as far as it goes.
Schedules(W, b) ==
  /\ W \in Seq(Core!Word32) /\ Len(W) >= 16
  /\ \A i \in 1 .. 16 : W[i] = b[i]
  /\ \A t \in 17 .. Len(W) :
       W[t] = Core!Add(Core!Add(Core!d1(W[t - 2]), W[t - 7]), Core!Add(Core!d0(W[t - 15]), W[t - 16]))

LEMMA ExtendSchedules ==
  ASSUME NEW b, NEW W, Schedules(W, b)
  PROVE  Schedules(Core!Extend(W), b) /\ Len(Core!Extend(W)) = Len(W) + 1
<1> DEFINE t == Len(W) + 1
           w == Core!Add(Core!Add(Core!d1(W[t - 2]), W[t - 7]), Core!Add(Core!d0(W[t - 15]), W[t - 16]))
           V == Append(W, w)
<1>1. W \in Seq(Core!Word32) /\ Len(W) \in Nat /\ Len(W) >= 16 BY DEF Schedules
<1>2. \A i \in 1 .. Len(W) : W[i] \in Core!Word32 BY <1>1
<1>3. w \in Core!Word32
  <2>1. /\ W[t - 2] \in Core!Word32 /\ W[t - 7] \in Core!Word32
        /\ W[t - 15] \in Core!Word32 /\ W[t - 16] \in Core!Word32
    BY <1>1, <1>2
  <2> QED BY <2>1, AddWord, SigmaWords
<1>4. Core!Extend(W) = V BY DEF Core!Extend
<1> HIDE DEF w
<1>5. V \in Seq(Core!Word32) /\ Len(V) = t BY <1>1, <1>3
<1>6. V[t] = w /\ \A i \in 1 .. Len(W) : V[i] = W[i] BY <1>1, <1>3
<1>7. ASSUME NEW u \in 17 .. t
      PROVE  V[u] = Core!Add(Core!Add(Core!d1(V[u - 2]), V[u - 7]), Core!Add(Core!d0(V[u - 15]), V[u - 16]))
  <2>1. V[u - 2] = W[u - 2] /\ V[u - 7] = W[u - 7] /\ V[u - 15] = W[u - 15] /\ V[u - 16] = W[u - 16]
    BY <1>1, <1>6
  <2>2. CASE u = t BY <1>6, <2>1, <2>2 DEF w
  <2>3. CASE u \in 17 .. Len(W)
    <3>1. V[u] = W[u] BY <1>6, <2>3
    <3> QED BY <2>1, <2>3, <3>1 DEF Schedules
  <2> QED BY <1>1, <2>2, <2>3
<1> HIDE DEF V
<1>8. \A i \in 1 .. 16 : V[i] = b[i]
  <2>1. \A i \in 1 .. 16 : W[i] = b[i] BY DEF Schedules
  <2>2. 1 .. 16 \subseteq 1 .. Len(W) BY <1>1
  <2> QED BY <1>6, <2>1, <2>2
<1>9. Len(V) >= 16 BY <1>1, <1>5
<1>10. Schedules(V, b)
  <2>1. \A u \in 17 .. Len(V) :
          V[u] = Core!Add(Core!Add(Core!d1(V[u - 2]), V[u - 7]), Core!Add(Core!d0(V[u - 15]), V[u - 16]))
    BY <1>5, <1>7
  <2> QED BY <1>5, <1>8, <1>9, <2>1 DEF Schedules
<1> QED BY <1>4, <1>5, <1>10

\* The schedule of a block is one.
LEMMA ScheduleUnfold ==
  ASSUME NEW b \in Block
  PROVE  Schedules(Core!Schedule(b), b) /\ Len(Core!Schedule(b)) = 64
<1> DEFINE D == Seq(Core!Word32)
           F == [p \in D \X Nat |-> IF Schedules(p[1], b) THEN Core!Extend(p[1]) ELSE p[1]]
<1>1. F \in [D \X Nat -> D]
  <2>1. ASSUME NEW W \in D, NEW t \in Nat PROVE F[<<W, t>>] \in D
    BY ExtendSchedules DEF Schedules
  <2> QED BY <2>1
<1>2. b \in D /\ Schedules(b, b) /\ Len(b) = 16
  <2>1. b \in [1 .. 16 -> Core!Word32] BY DEF Block
  <2>2. b \in Seq(Core!Word32) BY <2>1, FunIsSeq DEF Block
  <2>3. Len(b) = 16 BY <2>1, <2>2
  <2> QED BY <2>2, <2>3 DEF Schedules
<1>3. PICK g : Row(D, b, F, 48, g)
  <2> HIDE DEF F, D
  <2> QED BY <1>1, <1>2, Recursion
<1>4. /\ g[0] = b /\ g = [t \in 0 .. 48 |-> g[t]]
      /\ \A n \in 0 .. 48 : g[n] \in D
      /\ \A n \in 1 .. 48 : g[n] = F[<<g[n - 1], n>>]
  <2> HIDE DEF F, D
  <2> QED BY <1>3 DEF Row
<1> DEFINE T == {n \in Nat : n <= 48 =>
                   /\ Schedules(g[n], b) /\ Len(g[n]) = 16 + n
                   /\ n > 0 => g[n] = Core!Extend(g[n - 1])}
<1>5. \A n \in Nat : n \in T
  <2>1. 0 \in T BY <1>2, <1>4
  <2>2. ASSUME NEW n \in Nat, n \in T PROVE n + 1 \in T
    <3>1. SUFFICES ASSUME n + 1 <= 48
                   PROVE  /\ Schedules(g[n + 1], b) /\ Len(g[n + 1]) = 16 + (n + 1)
                          /\ g[n + 1] = Core!Extend(g[(n + 1) - 1])
      OBVIOUS
    <3>2. n + 1 \in 1 .. 48 /\ (n + 1) - 1 = n /\ n \in 0 .. 48 BY <3>1
    <3>3. Schedules(g[n], b) /\ Len(g[n]) = 16 + n
      <4>1. n <= 48 BY <3>2
      <4> QED BY <2>2, <4>1
    <3>6. g[n] \in D BY <1>4, <3>2
    <3>4. g[n + 1] = F[<<g[n], n + 1>>] BY <1>4, <3>2
    <3>5. g[n + 1] = Core!Extend(g[n]) BY <3>3, <3>4, <3>6
    <3> QED BY <3>2, <3>3, <3>5, ExtendSchedules
  <2> HIDE DEF T
  <2> QED BY <2>1, <2>2, Induction
<1>6. \A n \in 0 .. 48 : Schedules(g[n], b) /\ Len(g[n]) = 16 + n
  <2> TAKE n \in 0 .. 48
  <2>1. n \in Nat /\ n <= 48 OBVIOUS
  <2>2. n \in T
    <3> HIDE DEF T
    <3> QED BY <1>5, <2>1
  <2> QED BY <2>1, <2>2
<1>7. ASSUME NEW n \in 1 .. 48 PROVE g[n] = Core!Extend(g[n - 1])
  <2>1. n \in Nat /\ n > 0 /\ n <= 48 OBVIOUS
  <2>2. n \in T
    <3> HIDE DEF T
    <3> QED BY <1>5, <2>1
  <2> QED BY <2>1, <2>2
<1> HIDE DEF F, D, T
<1> DEFINE Body(f) == [n \in 0 .. 48 |-> IF n = 0 THEN b ELSE Core!Extend(f[n - 1])]
           f == Core!Words(b)
<1>8. g = Body(g) BY <1>4, <1>7
<1>9. f = CHOOSE W : W = Body(W) BY DEF Core!Words
<1>10. f = Body(f)
  <2> HIDE DEF Body, f
  <2> QED BY <1>8, <1>9
<1> DEFINE Q == {n \in Nat : n <= 48 => Schedules(f[n], b) /\ Len(f[n]) = 16 + n}
<1>11. \A n \in Nat : n \in Q
  <2> HIDE DEF f
  <2>1. 0 \in Q BY <1>2, <1>10
  <2>2. ASSUME NEW n \in Nat, n \in Q PROVE n + 1 \in Q
    <3>1. SUFFICES ASSUME n + 1 <= 48
                   PROVE  Schedules(f[n + 1], b) /\ Len(f[n + 1]) = 16 + (n + 1)
      OBVIOUS
    <3>2. n + 1 \in 1 .. 48 /\ (n + 1) - 1 = n /\ n <= 48 BY <3>1
    <3>3. Schedules(f[n], b) /\ Len(f[n]) = 16 + n BY <2>2, <3>2
    <3>4. f[n + 1] = Core!Extend(f[n]) BY <1>10, <3>2
    <3> QED BY <3>3, <3>4, ExtendSchedules
  <2> HIDE DEF Q
  <2> QED BY <2>1, <2>2, Induction
<1>12. Schedules(f[48], b) /\ Len(f[48]) = 64
  <2>1. 48 \in Q BY <1>11
  <2> HIDE DEF f
  <2> QED BY <2>1
<1> QED BY <1>12 DEF Core!Schedule

LEMMA ScheduleWords ==
  ASSUME NEW b \in Block
  PROVE  Core!Schedule(b) \in [1 .. 64 -> Core!Word32]
<1> DEFINE S == Core!Schedule(b)
<1>1. S \in Seq(Core!Word32) /\ Len(S) = 64 BY ScheduleUnfold DEF Schedules
<1> HIDE DEF S
<1>2. S \in [1 .. Len(S) -> Core!Word32] BY <1>1, LenProperties
<1>3. S \in [1 .. 64 -> Core!Word32] BY <1>1, <1>2, Zenon
<1> QED BY <1>3 DEF S

\* The working registers after t rounds.
LEMMA RoundsUnfold ==
  ASSUME NEW h \in State8, NEW b, Core!Schedule(b) \in [1 .. 64 -> Core!Word32]
  PROVE  /\ Core!Rounds(h, b)[0] = h
         /\ \A t \in 0 .. 64 : Core!Rounds(h, b)[t] \in State8
         /\ \A t \in 1 .. 64 : Core!Rounds(h, b)[t] =
              Core!OneRound(Core!Rounds(h, b)[t - 1], Core!Schedule(b)[t], Core!K[t])
<1>0. Len(Core!Schedule(b)) = 64 BY FunIsSeq
<1> DEFINE S == Core!Schedule(b)
           F == [p \in State8 \X Nat |->
                   IF p[2] \in 1 .. 64 THEN Core!OneRound(p[1], S[p[2]], Core!K[p[2]]) ELSE p[1]]
<1>1. F \in [State8 \X Nat -> State8]
  <2>1. ASSUME NEW v \in State8, NEW t \in Nat PROVE F[<<v, t>>] \in State8
    BY RoundWords, KWords
  <2> QED BY <2>1
<1>2. PICK g : Row(State8, h, F, 64, g)
  <2> HIDE DEF F
  <2> QED BY <1>1, Recursion
<1>3. /\ \A t \in 0 .. 64 : g[t] \in State8
      /\ g[0] = h /\ DOMAIN g = 0 .. 64 /\ g = [t \in 0 .. 64 |-> g[t]]
      /\ \A t \in 1 .. 64 : g[t] = Core!OneRound(g[t - 1], S[t], Core!K[t])
  <2> USE DEF Row
  <2>1. \A t \in 0 .. 64 : g[t] \in State8 BY <1>2
  <2>2. ASSUME NEW t \in 1 .. 64 PROVE g[t] = Core!OneRound(g[t - 1], S[t], Core!K[t])
    <3>1. t - 1 \in 0 .. 64 /\ t \in Nat OBVIOUS
    <3>2. g[t - 1] \in State8 BY <2>1, <3>1
    <3> QED BY <1>2, <3>1, <3>2
  <2> QED BY <1>2, <2>1, <2>2
<1> HIDE DEF F, S
<1> DEFINE Body(f) == [t \in 0 .. 64 |-> IF t = 0 THEN h ELSE Core!OneRound(f[t - 1], S[t], Core!K[t])]
<1>4. g = Body(g)
  BY <1>3
<1>5. Core!Rounds(h, b) = CHOOSE v : v = Body(v) BY <1>0 DEF Core!Rounds, S
<1>6. Core!Rounds(h, b) = Body(Core!Rounds(h, b))
  <2> HIDE DEF Body
  <2> QED BY <1>4, <1>5
<1>7. ASSUME NEW t \in 1 .. 64
      PROVE  Core!Rounds(h, b)[t] = Core!OneRound(Core!Rounds(h, b)[t - 1], S[t], Core!K[t])
  <2> DEFINE f == Core!Rounds(h, b)
  <2>1. f = Body(f) BY <1>6
  <2> HIDE DEF f
  <2>2. f[t] = Core!OneRound(f[t - 1], S[t], Core!K[t]) BY <2>1
  <2> QED BY <2>2 DEF f
<1>8. Core!Rounds(h, b)[0] = h
  <2> DEFINE f == Core!Rounds(h, b)
  <2>1. f = Body(f) BY <1>6
  <2> HIDE DEF f
  <2>2. f[0] = h BY <2>1
  <2> QED BY <2>2 DEF f
<1>9. \A t \in 0 .. 64 : Core!Rounds(h, b)[t] \in State8
  <2> DEFINE f == Core!Rounds(h, b)
             T == {n \in Nat : n <= 64 => f[n] \in State8}
  <2> HIDE DEF f
  <2>1. 0 \in T BY <1>8 DEF f
  <2>2. ASSUME NEW n \in Nat, n \in T PROVE n + 1 \in T
    <3>1. SUFFICES ASSUME n + 1 <= 64 PROVE f[n + 1] \in State8 OBVIOUS
    <3>2. n + 1 \in 1 .. 64 /\ (n + 1) - 1 = n /\ n <= 64 BY <3>1
    <3>3. f[n] \in State8 /\ S[n + 1] \in Core!Word32 /\ Core!K[n + 1] \in Core!Word32
      BY <2>2, <3>2, KWords DEF S
    <3>4. f[n + 1] = Core!OneRound(f[n], S[n + 1], Core!K[n + 1]) BY <1>7, <3>2 DEF f
    <3> QED BY <3>3, <3>4, RoundWords
  <2>3. \A n \in Nat : n \in T
    <3> HIDE DEF T
    <3> QED BY <2>1, <2>2, Induction
  <2> QED BY <2>3 DEF f
<1> QED BY <1>7, <1>8, <1>9 DEF S

LEMMA AbsorbWords ==
  ASSUME NEW h \in State8, NEW b \in Block
  PROVE  Core!Absorb(h, b) \in State8
<1>1. Core!Schedule(b) \in [1 .. 64 -> Core!Word32] BY ScheduleWords
<1>2. Core!Rounds(h, b)[64] \in State8 BY <1>1, RoundsUnfold
<1> DEFINE v == Core!Rounds(h, b)[64]
<1>3. Core!Absorb(h, b) = [i \in 1 .. 8 |-> Core!Add(h[i], v[i])] BY DEF Core!Absorb
<1> HIDE DEF v
<1>4. \A i \in 1 .. 8 : Core!Add(h[i], v[i]) \in Core!Word32 BY <1>2, AddWord DEF State8, v
<1> QED BY <1>3, <1>4 DEF State8

\* The digest of the first n blocks.
LEMMA HashUnfold ==
  ASSUME NEW m, NEW s \in Seq(Block)
  PROVE  /\ Core!Hash(m, s)[0] = Core!H0(m)
         /\ \A n \in 0 .. Len(s) : Core!Hash(m, s)[n] \in State8
         /\ \A n \in 1 .. Len(s) : Core!Hash(m, s)[n] = Core!Absorb(Core!Hash(m, s)[n - 1], s[n])
<1> DEFINE F == [p \in State8 \X Nat |->
                   IF p[2] \in 1 .. Len(s) THEN Core!Absorb(p[1], s[p[2]]) ELSE p[1]]
           N == Len(s)
<1>0. N \in Nat /\ \A n \in 1 .. N : s[n] \in Block OBVIOUS
<1>1. F \in [State8 \X Nat -> State8]
  <2>1. ASSUME NEW v \in State8, NEW t \in Nat PROVE F[<<v, t>>] \in State8
    BY <1>0, AbsorbWords
  <2> QED BY <2>1
<1>2. Core!H0(m) \in State8 BY H0Words DEF State8
<1>3. PICK g : Row(State8, Core!H0(m), F, N, g)
  <2> HIDE DEF F, N
  <2> QED BY <1>0, <1>1, <1>2, Recursion
<1>4. /\ g[0] = Core!H0(m) /\ g = [t \in 0 .. N |-> g[t]]
      /\ \A t \in 1 .. N : g[t] = Core!Absorb(g[t - 1], s[t])
  <2> USE DEF Row
  <2>1. \A t \in 0 .. N : g[t] \in State8 BY <1>3
  <2>2. ASSUME NEW t \in 1 .. N PROVE g[t] = Core!Absorb(g[t - 1], s[t])
    <3>1. t - 1 \in 0 .. N /\ t \in Nat BY <1>0
    <3>2. g[t - 1] \in State8 BY <2>1, <3>1
    <3> QED BY <1>3, <3>1, <3>2
  <2> QED BY <1>3, <2>2
<1> HIDE DEF F, N
<1> DEFINE Body(f) == [n \in 0 .. N |-> IF n = 0 THEN Core!H0(m) ELSE Core!Absorb(f[n - 1], s[n])]
           f == Core!Hash(m, s)
<1>5. g = Body(g)
  <2>1. \A t \in 0 .. N : g[t] = IF t = 0 THEN Core!H0(m) ELSE Core!Absorb(g[t - 1], s[t])
    <3> TAKE t \in 0 .. N
    <3>1. t = 0 \/ t \in 1 .. N BY <1>0
    <3> QED BY <1>4, <3>1
  <2> QED BY <1>4, <2>1, Zenon
<1>6. f = CHOOSE D : D = Body(D) BY DEF Core!Hash, N
<1>7. f = Body(f)
  <2> HIDE DEF Body, f
  <2> QED BY <1>5, <1>6
<1> HIDE DEF f
<1>8. f[0] = Core!H0(m) BY <1>0, <1>7
<1>9. \A n \in 1 .. N : f[n] = Core!Absorb(f[n - 1], s[n]) BY <1>0, <1>7
<1> DEFINE T == {n \in Nat : n <= N => f[n] \in State8}
<1>10. 0 \in T BY <1>2, <1>8
<1>11. ASSUME NEW n \in Nat, n \in T PROVE n + 1 \in T
  <2>1. SUFFICES ASSUME n + 1 <= N PROVE f[n + 1] \in State8 OBVIOUS
  <2>2. n + 1 \in 1 .. N /\ (n + 1) - 1 = n /\ n <= N BY <1>0, <2>1
  <2>3. f[n] \in State8 BY <1>11, <2>2
  <2>4. s[n + 1] \in Block BY <1>0, <2>2
  <2>5. f[n + 1] = Core!Absorb(f[n], s[n + 1]) BY <1>9, <2>2
  <2> QED BY <2>3, <2>4, <2>5, AbsorbWords
<1>12. \A n \in Nat : n \in T
  <2> HIDE DEF T
  <2> QED BY <1>10, <1>11, Induction
<1>13. \A n \in 0 .. N : f[n] \in State8 BY <1>0, <1>12
<1> QED BY <1>8, <1>9, <1>13 DEF f, N

-----------------------------------------------------------------------------
\* What the registers hold, in each state of the machine, of the message that is
\* being hashed: t rounds of the block, and the words of the schedule the next
\* round needs.
Given == msg.blocks[absorbed]
HashBefore  == Core!Hash(msg.mode, msg.blocks)[absorbed - 1]

Window(t) ==
  IF t <= 16 THEN w_mem = Given
  ELSE \A i \in 1 .. 16 : w_mem[i] = Core!Schedule(Given)[t - 16 + i]

CoreTypes ==
  /\ chain \in State8 /\ working \in State8 /\ w_mem \in Block /\ w_ctr \in 0 .. 63
  /\ fsm \in {"idle", "rounds", "done"} /\ round \in 0 .. 63 /\ valid \in BOOLEAN

Underway == msg \in Messages /\ absorbed \in 1 .. Len(msg.blocks)

Datapath ==
  /\ fsm = "idle" /\ ~valid => msg = Core!Nothing /\ absorbed = 0
  /\ fsm # "idle" => ~valid
  /\ fsm = "idle" /\ valid =>
       Underway /\ chain = Core!Hash(msg.mode, msg.blocks)[absorbed]
  /\ fsm \in {"rounds", "done"} => Underway /\ chain = HashBefore
  /\ fsm = "rounds" =>
       w_ctr = round /\ working = Core!Rounds(HashBefore, Given)[round] /\ Window(round)
  /\ fsm = "done" => working = Core!Rounds(HashBefore, Given)[64]

CoreInv == CoreTypes /\ Datapath

LEMMA MessageFacts ==
  ASSUME NEW m \in Messages
  PROVE  /\ m.blocks \in Seq(Block) /\ Len(m.blocks) \in Nat /\ Len(m.blocks) >= 1
         /\ \A n \in 1 .. Len(m.blocks) : m.blocks[n] \in Block
<1>1. m.blocks \in Seq([1 .. 16 -> Core!Word32]) /\ m.blocks # <<>>
  BY PeripheralAssumption DEF Core!MessagesAssumption
<1>2. m.blocks \in Seq(Block) BY <1>1 DEF Block
<1> QED BY <1>1, <1>2

LEMMA CoreStarts == Core!Init => CoreInv
<1> SUFFICES ASSUME Core!Init PROVE CoreInv OBVIOUS
<1>1. Core!Zero \in Core!Word32 BY DEF Core!Zero, Core!Word32
<1>2. CoreTypes
  <2>1. chain \in State8 /\ working \in State8 /\ w_mem \in Block
    BY <1>1 DEF Core!Init, Core!CoreInit, State8, Block
  <2>2. w_ctr = 0 /\ round = 0 /\ valid = FALSE /\ fsm = "idle"
    BY DEF Core!Init, Core!CoreInit, Core!CtrlInit
  <2>3. w_ctr \in 0 .. 63 BY <2>2
  <2>4. round \in 0 .. 63 BY <2>2
  <2>5. fsm \in {"idle", "rounds", "done"} BY <2>2
  <2>6. valid \in BOOLEAN BY <2>2
  <2> QED BY <2>1, <2>3, <2>4, <2>5, <2>6, Zenon DEF CoreTypes
<1>3. Datapath BY DEF Core!Init, Core!CoreInit, Core!CtrlInit, Datapath
<1> QED BY <1>2, <1>3 DEF CoreInv

\* A block is taken.
LEMMA TakeBlock ==
  ASSUME NEW m \in Messages, NEW n \in 1 .. Len(m.blocks), NEW init \in BOOLEAN, NEW next \in BOOLEAN,
         CoreTypes, fsm = "idle", init \/ next,
         Core!CoreTick(init, next, m.mode, m.blocks[n]), msg' = m, absorbed' = n,
         init => n = 1,
         ~init => n > 1 /\ chain = Core!Hash(m.mode, m.blocks)[n - 1]
  PROVE  CoreInv'
<1> DEFINE b == m.blocks[n]
           h == Core!Hash(m.mode, m.blocks)[n - 1]
<1>1. b \in Block /\ m.blocks \in Seq(Block) BY MessageFacts
<1>2. h \in State8
  <2>1. n - 1 \in 0 .. Len(m.blocks) OBVIOUS
  <2> QED BY <1>1, <2>1, HashUnfold
<1>3. fsm' = "rounds" /\ round' = 0 /\ valid' = FALSE
  BY DEF Core!CoreTick, Core!CtrlTick, Core!BeginRounds, Core!StayIdle, Core!Round, Core!EndRounds,
     Core!state_init, Core!core_ready, Core!state_update, Core!digest_update
<1>4. w_mem' = b /\ w_ctr' = 0
  BY DEF Core!CoreTick, Core!WindowTick, Core!state_init, Core!core_ready
<1>5. chain' = h /\ working' = h
  <2>1. CASE init
    <3>1. h = Core!H0(m.mode) BY <1>1, <2>1, HashUnfold
    <3> QED BY <2>1, <3>1 DEF Core!CoreTick, Core!DigestTick, Core!StateTick, Core!state_init,
              Core!digest_init, Core!core_ready
  <2>2. CASE ~init
    BY <2>2 DEF Core!CoreTick, Core!DigestTick, Core!StateTick, Core!state_init,
       Core!digest_init, Core!core_ready, Core!digest_update
  <2> QED BY <2>1, <2>2
<1>6. Given' = b /\ HashBefore' = h /\ Underway' BY DEF Given, HashBefore, Underway
<1>7. Core!Rounds(h, b)[0] = h
  <2>1. Core!Schedule(b) \in [1 .. 64 -> Core!Word32] BY <1>1, ScheduleWords
  <2> QED BY <1>2, <2>1, RoundsUnfold
<1> HIDE DEF b, h
<1>8. CoreTypes'
  <2>1. chain' \in State8 /\ working' \in State8 /\ w_mem' \in Block /\ w_ctr' \in 0 .. 63
    BY <1>1, <1>2, <1>4, <1>5 DEF b
  <2>2. fsm' \in {"idle", "rounds", "done"} BY <1>3
  <2>3. round' \in 0 .. 63 BY <1>3
  <2>4. valid' \in BOOLEAN BY <1>3
  <2> QED BY <2>1, <2>2, <2>3, <2>4, Zenon DEF CoreTypes, State8, Block
<1>9. Datapath'
  BY <1>3, <1>4, <1>5, <1>6, <1>7 DEF Datapath, Window
<1> QED BY <1>8, <1>9 DEF CoreInv

\* The core computes: a round, the sum, or nothing.
LEMMA Wires ==
  ASSUME NEW v \in State8, NEW w \in Core!Word32, NEW k \in Core!Word32
  PROVE  Core!OneRound(v, w, k) =
           LET U1 == Core!Add(Core!Add(v[8], Core!sum1(v[5])),
                              Core!Add(Core!ch(v[5], v[6], v[7]), Core!Add(w, k)))
               U2 == Core!Add(Core!sum0(v[1]), Core!maj(v[1], v[2], v[3]))
           IN  <<Core!Add(U1, U2), v[1], v[2], v[3], Core!Add(v[4], U1), v[5], v[6], v[7]>>
<1> DEFINE x == Core!Add(v[8], Core!sum1(v[5]))
           c == Core!ch(v[5], v[6], v[7])
<1>1. x \in Core!Word32 /\ c \in Core!Word32
  <2>1. \A i \in 1 .. 8 : v[i] \in Core!Word32 BY DEF State8
  <2> QED BY <2>1, AddWord, SigmaWords, ChoiceWords
<1> HIDE DEF x, c
<1>2. Core!Add(x, Core!Add(c, Core!Add(w, k))) = Core!Add(Core!Add(Core!Add(x, c), k), w)
  <2>1. Core!Add(x, Core!Add(c, Core!Add(w, k))) = Core!Add(Core!Add(x, c), Core!Add(w, k))
    BY <1>1, AddWord, AddAssociates
  <2>2. Core!Add(w, k) = Core!Add(k, w) BY AddCommutes
  <2>3. Core!Add(Core!Add(x, c), Core!Add(k, w)) = Core!Add(Core!Add(Core!Add(x, c), k), w)
    BY <1>1, AddWord, AddAssociates
  <2> QED BY <2>1, <2>2, <2>3
<1> QED BY <1>2, RoundIs, Zenon DEF x, c

\* The word the window delivers is the schedule's.
LEMMA WindowDelivers ==
  ASSUME NEW t \in 0 .. 63, w_ctr = t, Given \in Block, Window(t)
  PROVE  /\ Core!w_data = Core!Schedule(Given)[t + 1]
         /\ t >= 16 => Core!w_new = Core!Schedule(Given)[t + 1]
<1> DEFINE S == Core!Schedule(Given)
<1>1. Schedules(S, Given) /\ Len(S) = 64 BY ScheduleUnfold
<1> HIDE DEF S
<1>4. /\ \A i \in 1 .. 16 : S[i] = Given[i]
      /\ \A u \in 17 .. 64 :
           S[u] = Core!Add(Core!Add(Core!d1(S[u - 2]), S[u - 7]), Core!Add(Core!d0(S[u - 15]), S[u - 16]))
  BY <1>1 DEF Schedules
<1>2. CASE t < 16
  <2>1. w_mem = Given BY <1>2 DEF Window
  <2>2. Core!w_data = Given[t + 1] BY <1>2, <2>1 DEF Core!w_data
  <2>3. S[t + 1] = Given[t + 1] BY <1>2, <1>4
  <2> QED BY <1>2, <2>2, <2>3 DEF S
<1>3. CASE t >= 16
  <2>1. \A i \in 1 .. 16 : w_mem[i] = S[t - 16 + i]
    <3>1. CASE t = 16
      <4>1. w_mem = Given BY <3>1 DEF Window
      <4>2. \A i \in 1 .. 16 : S[i] = Given[i] BY <1>1 DEF Schedules
      <4>3. \A i \in 1 .. 16 : t - 16 + i = i BY <3>1
      <4> QED BY <4>1, <4>2, <4>3
    <3>2. CASE t > 16
      BY <3>2 DEF Window, S
    <3> QED BY <1>3, <3>1, <3>2
  <2>2. /\ w_mem[15] = S[t - 1] /\ w_mem[10] = S[t - 6] /\ w_mem[2] = S[t - 14]
        /\ w_mem[1] = S[t - 15]
    BY <2>1
  <2>3. Core!w_new = Core!Add(Core!Add(Core!d1(S[t - 1]), S[t - 6]), Core!Add(Core!d0(S[t - 14]), S[t - 15]))
    BY <2>2 DEF Core!w_new
  <2>4. S[t + 1] = Core!Add(Core!Add(Core!d1(S[t - 1]), S[t - 6]), Core!Add(Core!d0(S[t - 14]), S[t - 15]))
    <3>1. t + 1 \in 17 .. 64 BY <1>3
    <3>2. /\ (t + 1) - 2 = t - 1 /\ (t + 1) - 7 = t - 6 /\ (t + 1) - 15 = t - 14
          /\ (t + 1) - 16 = t - 15
      OBVIOUS
    <3> DEFINE u == t + 1
    <3> HIDE DEF u
    <3>4. S[u] = Core!Add(Core!Add(Core!d1(S[u - 2]), S[u - 7]), Core!Add(Core!d0(S[u - 15]), S[u - 16]))
      BY <1>4, <3>1 DEF u
    <3> QED BY <3>2, <3>4 DEF u
  <2>5. Core!w_data = Core!w_new BY <1>3 DEF Core!w_data
  <2> QED BY <2>3, <2>4, <2>5 DEF S
<1> QED BY <1>2, <1>3

\* A window of n words slides by one.
Slid(D, s, n, e, r) == /\ r \in Seq(D) /\ Len(r) = n
                       /\ \A i \in 1 .. n - 1 : r[i] = s[i + 1]
                       /\ r[n] = e

LEMMA SlidesBy ==
  ASSUME NEW D, NEW n \in Nat, n > 0, NEW s \in Seq(D), Len(s) = n, NEW e \in D
  PROVE  Slid(D, s, n, e, Append(Tail(s), e))
<1>1. s # <<>> OBVIOUS
<1>2. /\ Tail(s) \in Seq(D) /\ Len(Tail(s)) = n - 1
      /\ \A i \in 1 .. n - 1 : Tail(s)[i] = s[i + 1]
  BY <1>1
<1> QED BY <1>2 DEF Slid

LEMMA RoundInv ==
  ASSUME LastRound = 63, CoreInv, fsm = "rounds", NEW init \in BOOLEAN, NEW next \in BOOLEAN,
         NEW m, NEW b, Core!CoreTick(init, next, m, b), UNCHANGED <<msg, absorbed>>
  PROVE  CoreInv'
<1>0. PICK t \in 0 .. 63 : t = round BY DEF CoreInv, CoreTypes
<1>1. /\ t \in 0 .. 63 /\ w_ctr = t /\ working = Core!Rounds(HashBefore, Given)[t] /\ Window(t)
      /\ Underway /\ chain = HashBefore /\ ~valid
      /\ chain \in State8 /\ working \in State8 /\ w_mem \in Block
  BY <1>0 DEF CoreInv, CoreTypes, Datapath
<1>2. Given \in Block BY <1>1, MessageFacts DEF Underway, Given
<1>3. /\ fsm' = IF t = 63 THEN "done" ELSE "rounds"
      /\ round' = (t + 1) % 64 /\ valid' = valid
  BY <1>0 DEF Core!CoreTick, Core!CtrlTick, Core!BeginRounds, Core!StayIdle, Core!Round, Core!EndRounds,
     Core!state_init, Core!core_ready, Core!state_update, Core!digest_update, Core!NextRound
<1>4. /\ chain' = chain /\ w_ctr' = (t + 1) % 64
      /\ w_mem' = IF t > 15 THEN Append(Tail(w_mem), Core!w_new) ELSE w_mem
  BY <1>1 DEF Core!CoreTick, Core!DigestTick, Core!WindowTick, Core!state_init, Core!core_ready,
     Core!state_update, Core!digest_update, Core!digest_init, Core!SlideWindow
<1>5. working' = Core!OneRound(working, Core!Schedule(Given)[t + 1], Core!K[t + 1])
  <2>1. working' = <<Core!Add(Core!t1, Core!t2), working[1], working[2], working[3],
                     Core!Add(working[4], Core!t1), working[5], working[6], working[7]>>
    BY DEF Core!CoreTick, Core!StateTick, Core!state_init, Core!core_ready, Core!state_update
  <2>2. Core!w_data = Core!Schedule(Given)[t + 1] BY <1>1, <1>2, WindowDelivers
  <2>3. Core!Schedule(Given)[t + 1] \in Core!Word32 /\ Core!K[t + 1] \in Core!Word32
    BY <1>1, <1>2, ScheduleWords, KWords
  <2> DEFINE w == Core!w_data  k == Core!K[t + 1]
  <2>4. w \in Core!Word32 /\ k \in Core!Word32 BY <2>2, <2>3
  <2>5. Core!t1 = Core!Add(Core!Add(working[8], Core!sum1(working[5])),
                           Core!Add(Core!ch(working[5], working[6], working[7]), Core!Add(w, k)))
    BY <1>0, Zenon DEF Core!t1
  <2> HIDE DEF w, k
  <2>6. working' = Core!OneRound(working, w, k)
    BY <1>1, <2>1, <2>4, <2>5, Wires DEF Core!t2
  <2> QED BY <2>2, <2>6 DEF w, k
<1>6. Given' = Given /\ HashBefore' = HashBefore /\ Underway' BY <1>1 DEF Given, HashBefore, Underway
<1>7. chain' \in State8 /\ working' \in State8
  <2>1. Core!Schedule(Given)[t + 1] \in Core!Word32 /\ Core!K[t + 1] \in Core!Word32
    BY <1>1, <1>2, ScheduleWords, KWords
  <2> QED BY <1>1, <1>4, <1>5, <2>1, RoundWords
<1>8. w_mem' \in Block /\ (t < 63 => Window(t + 1)')
  <2> DEFINE S == Core!Schedule(Given)
  <2>0. S \in [1 .. 64 -> Core!Word32] BY <1>2, ScheduleWords
  <2>1. CASE t <= 15
    <3>1. w_mem' = w_mem BY <1>4, <2>1
    <3>2. Window(t + 1)' BY <1>1, <1>6, <2>1, <3>1 DEF Window
    <3> QED BY <1>1, <3>1, <3>2 DEF Block
  <2>2. CASE t > 15
    <3>1. Core!w_new = S[t + 1] BY <1>1, <1>2, <2>2, WindowDelivers
    <3>2. S[t + 1] \in Core!Word32 BY <1>1, <2>0
    <3>3. w_mem' = Append(Tail(w_mem), S[t + 1]) BY <1>4, <2>2, <3>1
    <3>4. w_mem \in Seq(Core!Word32) /\ Len(w_mem) = 16 BY <1>1, FunIsSeq, ZenonT(20) DEF Block
    <3> HIDE DEF S
    <3>5. /\ w_mem' \in Seq(Core!Word32) /\ Len(w_mem') = 16
          /\ \A i \in 1 .. 15 : w_mem'[i] = w_mem[i + 1]
          /\ w_mem'[16] = S[t + 1]
      <4>1. PICK s : s = w_mem OBVIOUS
      <4>2. PICK r : r = w_mem' OBVIOUS
      <4>3. PICK e : e = S[t + 1] OBVIOUS
      <4>4. s \in Seq(Core!Word32) /\ Len(s) = 16 /\ e \in Core!Word32 /\ r = Append(Tail(s), e)
        BY <3>2, <3>3, <3>4, <4>1, <4>2, <4>3, Zenon
      <4>5. 16 \in Nat /\ 16 > 0 /\ 16 - 1 = 15 OBVIOUS
      <4>6. Slid(Core!Word32, s, 16, e, Append(Tail(s), e)) BY <4>4, <4>5, SlidesBy, Zenon
      <4>7. /\ r \in Seq(Core!Word32) /\ Len(r) = 16
            /\ \A i \in 1 .. 15 : r[i] = s[i + 1]
            /\ r[16] = e
        BY <4>4, <4>5, <4>6, Zenon DEF Slid
      <4> QED BY <4>1, <4>2, <4>3, <4>7, Zenon
    <3>6. w_mem' \in Block BY <3>5, LenProperties DEF Block
    <3>7. ASSUME NEW i \in 1 .. 16, t < 63 PROVE w_mem'[i] = S[(t + 1) - 16 + i]
      <4>1. CASE i = 16 BY <1>1, <3>5, <4>1
      <4>2. CASE i \in 1 .. 15
        <5>1. w_mem'[i] = w_mem[i + 1] BY <3>5, <4>2
        <5>2. w_mem[i + 1] = S[t - 16 + (i + 1)]
          <6>1. CASE t = 16
            <7>1. w_mem = Given BY <1>1, <6>1 DEF Window
            <7>2. \A j \in 1 .. 16 : S[j] = Given[j] BY <1>2, ScheduleUnfold DEF Schedules, S
            <7> QED BY <4>2, <6>1, <7>1, <7>2
          <6>2. CASE t > 16
            <7>1. \A j \in 1 .. 16 : w_mem[j] = S[t - 16 + j] BY <1>1, <6>2 DEF Window, S
            <7>2. i + 1 \in 1 .. 16 BY <4>2
            <7> QED BY <7>1, <7>2
          <6> QED BY <1>1, <2>2, <6>1, <6>2
        <5>3. t - 16 + (i + 1) = (t + 1) - 16 + i BY <1>1, <4>2
        <5> QED BY <5>1, <5>2, <5>3
      <4> QED BY <4>1, <4>2
    <3>8. t < 63 => Window(t + 1)'
      <4>1. ~(t + 1 <= 16) BY <1>1, <2>2
      <4> QED BY <1>6, <3>7, <4>1 DEF Window, S
    <3> QED BY <3>6, <3>8
  <2> QED BY <1>1, <2>1, <2>2
<1>9. working' = Core!Rounds(HashBefore, Given)[t + 1]
  <2>1. HashBefore \in State8 BY <1>1
  <2>2. t + 1 \in 1 .. 64 /\ (t + 1) - 1 = t BY <1>1
  <2>3. Core!Schedule(Given) \in [1 .. 64 -> Core!Word32] BY <1>2, ScheduleWords
  <2> QED BY <1>1, <1>5, <2>1, <2>2, <2>3, RoundsUnfold
<1>10. CoreTypes'
  <2>1. /\ fsm' \in {"idle", "rounds", "done"} /\ round' \in 0 .. 63 /\ w_ctr' \in 0 .. 63
    BY <1>1, <1>3, <1>4
  <2>2. valid' \in BOOLEAN
    <3>1. valid' = valid BY <1>3
    <3>2. valid \in BOOLEAN BY DEF CoreInv, CoreTypes
    <3> QED BY <3>1, <3>2, Zenon
  <2> QED BY <1>7, <1>8, <2>1, <2>2, Zenon DEF CoreTypes, State8, Block
<1>11. CASE t = 63
  BY <1>1, <1>3, <1>4, <1>6, <1>9, <1>10, <1>11 DEF CoreInv, Datapath
<1>12. CASE t < 63
  <2>1. (t + 1) % 64 = t + 1 BY <1>1, <1>12
  <2>2. fsm' = "rounds" /\ round' = t + 1 /\ w_ctr' = t + 1 BY <1>3, <1>4, <1>12, <2>1
  <2>3. Window(round)' BY <1>8, <1>12, <2>2 DEF Window
  <2> QED BY <1>1, <1>3, <1>4, <1>6, <1>9, <1>10, <2>2, <2>3 DEF CoreInv, Datapath
<1> QED BY <1>1, <1>11, <1>12

LEMMA SumInv ==
  ASSUME CoreInv, fsm = "done", NEW init \in BOOLEAN, NEW next \in BOOLEAN,
         NEW m, NEW b, Core!CoreTick(init, next, m, b), UNCHANGED <<msg, absorbed>>
  PROVE  CoreInv'
<1>1. /\ Underway /\ chain = HashBefore /\ ~valid /\ working = Core!Rounds(HashBefore, Given)[64]
      /\ chain \in State8 /\ working \in State8 /\ w_mem \in Block
      /\ w_ctr \in 0 .. 63 /\ round \in 0 .. 63
  BY DEF CoreInv, CoreTypes, Datapath
<1>2. fsm' = "idle" /\ valid' = TRUE /\ round' = round
  BY DEF Core!CoreTick, Core!CtrlTick, Core!BeginRounds, Core!StayIdle, Core!Round, Core!EndRounds,
     Core!state_init, Core!core_ready, Core!state_update, Core!digest_update
<1>3. /\ chain' = [i \in 1 .. 8 |-> Core!Add(chain[i], working[i])]
      /\ working' = working /\ w_mem' = w_mem /\ w_ctr' = w_ctr
  BY DEF Core!CoreTick, Core!DigestTick, Core!StateTick, Core!WindowTick, Core!state_init,
     Core!core_ready, Core!state_update, Core!digest_update, Core!digest_init
<1>4. chain' = Core!Absorb(HashBefore, Given) BY <1>1, <1>3, Zenon DEF Core!Absorb
<1>5. /\ absorbed \in 1 .. Len(msg.blocks) /\ msg.blocks \in Seq(Block)
      /\ Given \in Block /\ HashBefore \in State8
  BY <1>1, MessageFacts DEF Underway, Given
<1>6. chain' = Core!Hash(msg.mode, msg.blocks)[absorbed]
  BY <1>4, <1>5, HashUnfold DEF HashBefore, Given
<1>7. chain' \in State8 BY <1>4, <1>5, AbsorbWords
<1>8. CoreTypes'
  <2>1. fsm' \in {"idle", "rounds", "done"} /\ valid' \in BOOLEAN BY <1>2
  <2> QED BY <1>1, <1>2, <1>3, <1>7, <2>1, Zenon DEF CoreTypes, State8, Block
<1>9. Datapath' BY <1>1, <1>2, <1>6 DEF Datapath, Underway
<1> QED BY <1>8, <1>9 DEF CoreInv

LEMMA CoreNextInv == ASSUME LastRound = 63, CoreInv, Core!Next PROVE CoreInv'
<1>1. CASE Core!Begin
  <2>1. PICK m \in Messages : Core!CoreTick(TRUE, FALSE, m.mode, m.blocks[1]) /\ msg' = m /\ absorbed' = 1
    BY <1>1 DEF Core!Begin
  <2>2. 1 \in 1 .. Len(m.blocks) BY MessageFacts
  <2>3. fsm = "idle" /\ CoreTypes BY <1>1 DEF Core!Begin, Core!core_ready, CoreInv
  <2> QED BY <2>1, <2>2, <2>3, TakeBlock
<1>2. CASE Core!Continue
  <2>1. /\ fsm = "idle" /\ absorbed < Len(msg.blocks) /\ msg' = msg /\ absorbed' = absorbed + 1
        /\ Core!CoreTick(FALSE, TRUE, msg.mode, msg.blocks[absorbed + 1])
    BY <1>2 DEF Core!Continue, Core!core_ready
  <2>2. valid
    <3>1. ASSUME ~valid PROVE FALSE
      <4>1. msg = Core!Nothing /\ absorbed = 0 BY <2>1, <3>1 DEF CoreInv, Datapath
      <4>2. Len(msg.blocks) = 0 BY <4>1 DEF Core!Nothing, Core!Message
      <4> QED BY <2>1, <4>1, <4>2
    <3> QED BY <3>1
  <2>3. Underway /\ chain = Core!Hash(msg.mode, msg.blocks)[absorbed] /\ CoreTypes
    BY <2>1, <2>2 DEF CoreInv, Datapath
  <2>4. /\ msg \in Messages /\ absorbed + 1 \in 1 .. Len(msg.blocks) /\ (absorbed + 1) - 1 = absorbed
        /\ absorbed + 1 > 1
    BY <2>1, <2>3, MessageFacts DEF Underway
  <2> QED BY <2>1, <2>3, <2>4, TakeBlock
<1>3. CASE Core!Compute
  <2>1. PICK init \in BOOLEAN, next \in BOOLEAN, m \in Messages :
          Core!CoreTick(init, next, m.mode, m.blocks[1])
    BY <1>3 DEF Core!Compute
  <2>2. fsm \in {"rounds", "done"} /\ UNCHANGED <<msg, absorbed>>
    BY <1>3 DEF Core!Compute, Core!core_ready, CoreInv, CoreTypes
  <2> QED BY <2>1, <2>2, RoundInv, SumInv
<1> QED BY <1>1, <1>2, <1>3 DEF Core!Next

LEMMA CoreKept == ASSUME LastRound = 63, CoreInv, CoreStep PROVE CoreInv'
<1>1. CASE UNCHANGED coreVars
  <2> USE DEF coreVars
  <2>1. CoreTypes' BY <1>1 DEF CoreInv, CoreTypes
  <2>2. Given' = Given /\ HashBefore' = HashBefore /\ (Underway <=> Underway') /\ Datapath
    BY <1>1 DEF Given, HashBefore, Underway, CoreInv
  <2>3. (fsm = "rounds" => Window(round)) => (fsm = "rounds" => Window(round))'
    BY <1>1, <2>2 DEF Window
  <2>4. Datapath' BY <1>1, <2>2, <2>3 DEF Datapath
  <2> QED BY <2>1, <2>4 DEF CoreInv
<1> QED BY <1>1, CoreNextInv DEF CoreStep

\* The invariant gives what the run checks of the datapath.
LEMMA CoreInvSays ==
  ASSUME LastRound = 63, CoreInv
  PROVE  Core!TypeOK /\ Core!WindowInStep /\ Core!DigestCorrect /\ Core!KnownAnswers
<1>1. Core!TypeOK
  BY DEF CoreInv, CoreTypes, Core!TypeOK, Core!CtrlTypeOK, State8, Block
<1>2. Core!WindowInStep
  <2> SUFFICES ASSUME Core!state_update
               PROVE  Core!w_data = Core!Schedules[msg.blocks[absorbed]][round + 1]
    BY DEF Core!WindowInStep
  <2>1. /\ fsm = "rounds" /\ Underway /\ w_ctr = round /\ Window(round) /\ round \in 0 .. 63
    BY DEF Core!state_update, CoreInv, CoreTypes, Datapath
  <2>2. msg \in Messages /\ absorbed \in 1 .. Len(msg.blocks) /\ Given \in Block
    BY <2>1, MessageFacts DEF Underway, Given
  <2>3. Core!w_data = Core!Schedule(Given)[round + 1]
    <3>1. PICK t : t = round OBVIOUS
    <3>2. t \in 0 .. 63 /\ w_ctr = t /\ Window(t) BY <2>1, <3>1
    <3> QED BY <2>2, <3>1, <3>2, WindowDelivers
  <2>4. Core!Schedules[Given] = Core!Schedule(Given)
    <3>1. Given \in UNION {{m.blocks[i] : i \in 1 .. Len(m.blocks)} : m \in Messages}
      BY <2>2 DEF Given
    <3> QED BY <3>1 DEF Core!Schedules
  <2> QED BY <2>3, <2>4 DEF Given
<1>3. Core!DigestCorrect
  <2> SUFFICES ASSUME Core!core_ready, valid
               PROVE  chain = Core!Digests[msg][absorbed]
    BY DEF Core!DigestCorrect
  <2>1. Underway /\ chain = Core!Hash(msg.mode, msg.blocks)[absorbed]
    BY DEF Core!core_ready, CoreInv, Datapath
  <2> QED BY <2>1 DEF Core!Digests, Underway
<1>4. Core!KnownAnswers
  <2> SUFFICES ASSUME Core!core_ready, valid, absorbed = Len(msg.blocks),
                      NEW t \in Core!Tested, msg = t.message
               PROVE  chain = t.digest
    BY DEF Core!KnownAnswers
  <2>1. chain = Core!Hash(msg.mode, msg.blocks)[absorbed]
    BY DEF Core!core_ready, CoreInv, Datapath
  <2>2. Core!Hash(t.message.mode, t.message.blocks)[Len(t.message.blocks)] = t.digest
    BY PeripheralAssumption DEF Core!AnswersAssumption
  <2> QED BY <2>1, <2>2
<1> QED BY <1>1, <1>2, <1>3, <1>4

\* The datapath computes what the standard defines, for all messages it is given.
THEOREM CoreComputesSha2 == ASSUME LastRound = 63 PROVE MCSpec => []CoreIsSha2
<1> DEFINE Inv == unit = "core" => CoreInv
<1>1. MCInit => Inv BY CoreStarts, UnitStarts
<1>2. Inv /\ [MCNext]_mcVars => Inv' BY CoreKept, UnitSteps
<1>3. Inv => CoreIsSha2 BY CoreInvSays DEF CoreIsSha2
<1> QED BY <1>1, <1>2, <1>3, PTL DEF MCSpec
=============================================================================
