--------------------------- MODULE MinerProofs ---------------------------
(***************************************************************************)
(* Proofs about the firmware: first about Miner, for any number of cores,  *)
(* any nonce space and any set of winning nonces; then, below, about the   *)
(* bus accesses of ShaDriver, for any number of rounds.                    *)
(***************************************************************************)
EXTENDS Miner, ShaDriver, SequenceTheorems, TLAPS

-----------------------------------------------------------------------------
(***************************************************************************)
(* The inductive invariant.  A core is either busy with the compression    *)
(* that count<c> says comes next (still running, or finished with its      *)
(* interrupt pending) or quiet.                                            *)
(***************************************************************************)
Started(c) == pc # "header" /\ (pc = "start" => c < cur)

Expected(c) ==
  IF count[c] = 0 THEN Mid
  ELSE IF count[c] = 1 THEN First(word19[c]) ELSE Double(word19[c])

Busy(c) ==
  \/ job[c] = Expected(c) /\ ~irq[c]
  \/ job[c] = Idle /\ irq[c] /\ digest[c] = Expected(c)

Quiet(c) == job[c] = Idle /\ ~irq[c] /\ count[c] = 0

AtClear(c) == pc = "clear" /\ cur = c

\* The regions: whole once written, and word 19 follows nounce<c> except
\* between the increment and the store.
RegionInv(c) ==
  /\ pc = "header" /\ c < cur => head[c] /\ word19[c] = nounce[c]
  /\ pc # "header" => head[c] /\ (word19[c] = nounce[c] \/ (pc = "store" /\ cur = c))

CoreInv(c) ==
  /\ Busy(c) \/ Quiet(c)
  /\ digest[c] # Garbage
  /\ ~Started(c) => Quiet(c) /\ ~flag[c]
  /\ flag[c] => Quiet(c) \/ AtClear(c)
  /\ flag[c] /\ Quiet(c) /\ ~(pc = "restart" /\ cur = c)
       => digest[c] = Double(word19[c])

MainInv ==
  /\ pc \in {"take", "compare", "store", "restart", "clear"} => flag[cur]
  /\ pc = "compare" => slot[cur] = Double(nounce[cur])
  /\ pc # "exit" => report = NoReport
  /\ report # NoReport => report.nonce \in Winners

DispatchInv == active \subseteq Pending /\ (~inIsr => active = {})

IInv ==
  /\ TypeOK
  /\ MainInv
  /\ DispatchInv
  /\ \A c \in Core : RegionInv(c) /\ CoreInv(c)

-----------------------------------------------------------------------------
(***************************************************************************)
(* Type correctness.                                                       *)
(***************************************************************************)
USE CoresAssumption, SpanAssumption, StartAssumption, WinnersAssumption,
    PromptAssumption DEF Core, Nonce

\* An increment stays in the nonce space: it wraps at NonceSpan.
LEMMA SuccInNonce == \A n \in Nonce : Succ(n) \in Nonce
  BY DEF Succ

\* The digests the definitions name are digests.
LEMMA DigestTypes ==
  /\ {Idle, Reset, Mid, Garbage} \subseteq Digest
  /\ \A n \in Nonce : First(n) \in Digest /\ Double(n) \in Digest
  BY DEF Digest, Stage, Idle, Reset, Mid, Garbage, First, Double

\* What a start makes a core compute is a digest.
LEMMA HashTypes ==
  ASSUME TypeOK, NEW c \in Core
  PROVE  /\ HashHead(c) \in Digest /\ HashTail(c) \in Digest
         /\ HashDigest(digest[c]) \in Digest
  <1>1. word19[c] \in Nonce /\ digest[c] \in Digest
    BY DEF TypeOK
  <1>2. digest[c].nonce \in Nonce
    BY <1>1 DEF Digest
  <1> QED BY <1>1, <1>2, DigestTypes DEF HashHead, HashTail, HashDigest

\* Going on to the next core keeps main() in its places.
LEMMA AdvanceType ==
  ASSUME TypeOK, NEW again \in Places, NEW after \in Places, Advance(again, after)
  PROVE  pc' \in Places /\ cur' \in Core
  BY DEF Advance, TypeOK

\* SHA_Init keeps the hardware variables in their ranges.
LEMMA StartType ==
  ASSUME TypeOK, NEW c \in Core, NEW d \in Digest, SHA_Init(c, d)
  PROVE  /\ job' \in [Core -> Digest] /\ digest' \in [Core -> Digest]
         /\ irq' \in [Core -> BOOLEAN]
  BY DigestTypes DEF SHA_Init, TypeOK

\* Every step of main() preserves the types.
LEMMA MainType == TypeOK /\ Main => TypeOK'
  <1> SUFFICES ASSUME TypeOK, Main PROVE TypeOK'
    OBVIOUS
  <1> USE DEF Main, mainVars, memVars, isrVars, hwVars, excVars
  <1>1. CASE WriteHeader
    <2>1. pc' \in Places /\ cur' \in Core
      BY <1>1, AdvanceType DEF WriteHeader, Places
    <2> QED BY <1>1, <2>1, DigestTypes DEF WriteHeader, TypeOK
  <1>2. CASE StartCore
    <2>1. pc' \in Places /\ cur' \in Core
      BY <1>2, AdvanceType DEF StartCore, Places
    <2>2. cur \in Core
      BY DEF TypeOK
    <2> QED BY <1>2, <2>1, <2>2, HashTypes, StartType DEF StartCore, TypeOK
  <1>3. CASE PollClear
    <2>1. pc' \in Places /\ cur' \in Core
      BY <1>3, AdvanceType DEF PollClear, Places
    <2> QED BY <1>3, <2>1 DEF PollClear, TypeOK
  <1>4. CASE PollSet
    BY <1>4 DEF PollSet, TypeOK, Places
  <1>5. CASE TakeDigest
    BY <1>5 DEF TakeDigest, TypeOK, Places
  <1>6. CASE Found
    BY <1>6 DEF Found, TypeOK, Places
  <1>7. CASE NextNounce
    BY <1>7, SuccInNonce DEF NextNounce, TypeOK, Places
  <1>8. CASE StoreNounce
    BY <1>8 DEF StoreNounce, TypeOK, Places
  <1>9. CASE RestartCore
    <2>1. cur \in Core /\ pc' \in Places
      BY <1>9 DEF TypeOK, RestartCore, Places
    <2> QED BY <1>9, <2>1, HashTypes, StartType DEF RestartCore, TypeOK
  <1>10. CASE ClearFlag
    <2>1. pc' \in Places /\ cur' \in Core
      BY <1>10, AdvanceType DEF ClearFlag, Places
    <2> QED BY <1>10, <2>1 DEF ClearFlag, TypeOK
  <1>11. CASE Spin
    BY <1>11 DEF Spin, vars, TypeOK
  <1> QED BY <1>1, <1>2, <1>3, <1>4, <1>5, <1>6, <1>7, <1>8, <1>9, <1>10, <1>11

\* Every step of a core, a handler or the dispatcher preserves the types.
LEMMA InterruptType ==
  TypeOK /\ (Exception \/ \E c \in Core : Finish(c)) => TypeOK'
  <1> SUFFICES ASSUME TypeOK, Exception \/ \E c \in Core : Finish(c) PROVE TypeOK'
    OBVIOUS
  <1> USE DEF mainVars, memVars, isrVars, hwVars, excVars
  <1>1. ASSUME NEW c \in Core, Finish(c) PROVE TypeOK'
    BY <1>1, DigestTypes DEF Finish, TypeOK
  <1>2. CASE EnterIsr \/ ReadAgain
    BY <1>2 DEF EnterIsr, ReadAgain, Pending, TypeOK
  <1>3. ASSUME NEW c \in Core, ServeIrq(c) PROVE TypeOK'
    <2>1. CASE HashSecondBlock(c)
      <3>1. SHA_Init(c, HashTail(c)) /\ HashTail(c) \in Digest
        BY <2>1, HashTypes DEF HashSecondBlock
      <3>2. /\ job' \in [Core -> Digest] /\ digest' \in [Core -> Digest]
            /\ irq' \in [Core -> BOOLEAN]
        BY <3>1, StartType
      <3> QED BY <1>3, <2>1, <3>2 DEF ServeIrq, HashSecondBlock, TypeOK
    <2>2. CASE HashAgain(c)
      <3>1. SHA_Init(c, HashDigest(digest[c])) /\ HashDigest(digest[c]) \in Digest
        BY <2>2, HashTypes DEF HashAgain
      <3>2. /\ job' \in [Core -> Digest] /\ digest' \in [Core -> Digest]
            /\ irq' \in [Core -> BOOLEAN]
        BY <3>1, StartType
      <3> QED BY <1>3, <2>2, <3>2 DEF ServeIrq, HashAgain, TypeOK
    <2>3. CASE RaiseFlag(c)
      BY <1>3, <2>3 DEF ServeIrq, RaiseFlag, TypeOK
    <2> QED BY <1>3, <2>1, <2>2, <2>3 DEF ServeIrq, SHA_IRQ_Handler
  <1>4. CASE Exception
    <2>1. EnterIsr \/ ReadAgain \/ \E c \in Core : ServeIrq(c)
      BY <1>4 DEF Exception
    <2> QED BY <2>1, <1>2, <1>3
  <1> QED BY <1>1, <1>4

\* The initial state is well typed.
LEMMA InitType == Init => TypeOK
  <1> SUFFICES ASSUME Init PROVE TypeOK
    OBVIOUS
  <1>1. 0 \in Core /\ 0 \in Nonce /\ 0 \in 0 .. 2
    OBVIOUS
  <1>2. /\ flag \in [Core -> BOOLEAN] /\ head \in [Core -> BOOLEAN]
        /\ irq \in [Core -> BOOLEAN] /\ inIsr \in BOOLEAN
    BY DEF Init
  <1>3. Idle \in Digest /\ Reset \in Digest
    BY DigestTypes
  <1>4. /\ slot \in [Core -> Digest] /\ job \in [Core -> Digest]
        /\ digest \in [Core -> Digest]
    BY <1>3 DEF Init
  <1>5. count \in [Core -> 0 .. 2] /\ word19 \in [Core -> Nonce]
    BY <1>1 DEF Init
  <1>6. pc \in Places /\ cur \in Core /\ nounce \in [Core -> Nonce]
    BY <1>1 DEF Init, Places
  <1> QED BY <1>2, <1>4, <1>5, <1>6 DEF Init, TypeOK

\* Every step is well typed.

LEMMA NextType == TypeOK /\ [Next]_vars => TypeOK'
  <1> SUFFICES ASSUME TypeOK, [Next]_vars PROVE TypeOK'
    OBVIOUS
  <1>1. CASE Next
    BY <1>1, MainType, InterruptType DEF Next
  <1>2. CASE UNCHANGED vars
    BY <1>2 DEF vars, mainVars, memVars, isrVars, hwVars, excVars, TypeOK
  <1> QED BY <1>1, <1>2

\* The variables of the miner stay in their ranges.
THEOREM TypeCorrect == Safety => []TypeOK
  BY InitType, NextType, PTL DEF Safety

-----------------------------------------------------------------------------
(***************************************************************************)
(* The invariant is inductive: one lemma per action.                       *)
(***************************************************************************)
USE DEF mainVars, memVars, isrVars, hwVars, excVars

\* The stages tell the named digests apart.
LEMMA StagesDiffer ==
  /\ Idle # Garbage /\ Mid # Garbage /\ Mid # Idle /\ Reset # Garbage
  /\ \A n : /\ First(n) # Idle /\ First(n) # Garbage
            /\ Double(n) # Idle /\ Double(n) # Garbage
  BY DEF Idle, Garbage, Mid, Reset, First, Double

\* At the start nothing runs and nothing is written.
LEMMA InitInv == Init => IInv
  <1> SUFFICES ASSUME Init PROVE IInv
    OBVIOUS
  <1>1. TypeOK
    BY InitType
  <1>2. MainInv
    BY DEF Init, MainInv
  <1>3. DispatchInv
    BY DEF Init, DispatchInv
  <1>4. ASSUME NEW c \in Core PROVE RegionInv(c)
    BY <1>4 DEF Init, RegionInv
  <1>5. ASSUME NEW c \in Core PROVE CoreInv(c)
    BY <1>5, StagesDiffer DEF Init, CoreInv, Started, Quiet
  <1> QED BY <1>1, <1>2, <1>3, <1>4, <1>5 DEF IInv

\* WriteHeader fills region cur and clears the first block of region cur + 1,
\* which is still to be written: nothing that is whole is lost.
LEMMA WriteHeaderInv == IInv /\ WriteHeader => IInv'
  <1> SUFFICES ASSUME IInv, WriteHeader PROVE IInv'
    OBVIOUS
  <1>1. TypeOK /\ TypeOK'
    BY MainType DEF IInv, Main
  <1>2. MainInv'
    BY DEF IInv, MainInv, WriteHeader, Advance
  <1>3. DispatchInv'
    BY DEF IInv, DispatchInv, WriteHeader, Pending
  <1>4. ASSUME NEW c \in Core PROVE RegionInv(c)'
    <2>1. RegionInv(c)
      BY DEF IInv
    <2> QED BY <1>1, <2>1 DEF TypeOK, RegionInv, WriteHeader, Advance
  <1>5. ASSUME NEW c \in Core PROVE CoreInv(c)'
    <2>1. CoreInv(c) /\ Quiet(c) /\ ~flag[c]
      BY DEF IInv, CoreInv, Started, WriteHeader
    <2>2. Quiet(c)' /\ ~flag'[c] /\ digest'[c] # Garbage
      BY <2>1 DEF Quiet, WriteHeader, CoreInv
    <2> QED BY <2>2 DEF CoreInv
  <1> QED BY <1>1, <1>2, <1>3, <1>4, <1>5 DEF IInv

\* StartCore starts a quiet core whose region is whole.
LEMMA StartCoreInv == IInv /\ StartCore => IInv'
  <1> SUFFICES ASSUME IInv, StartCore PROVE IInv'
    OBVIOUS
  <1>1. TypeOK /\ TypeOK'
    BY MainType DEF IInv, Main
  <1>2. MainInv'
    BY DEF IInv, MainInv, StartCore, Advance
  <1>3. DispatchInv'
    BY <1>1 DEF IInv, DispatchInv, StartCore, MainRuns, Pending, TypeOK
  <1>4. ASSUME NEW c \in Core PROVE RegionInv(c)'
    <2>1. RegionInv(c)
      BY DEF IInv
    <2> QED BY <1>1, <2>1 DEF TypeOK, RegionInv, StartCore, Advance
  <1>5. ASSUME NEW c \in Core PROVE CoreInv(c)'
    <2>1. CoreInv(c) /\ RegionInv(c)
      BY DEF IInv
    <2>2. CASE c = cur
      <3>1. Quiet(c) /\ ~flag[c] /\ head[c]
        BY <2>1, <2>2, <1>1 DEF CoreInv, RegionInv, Started, StartCore, TypeOK
      <3>2. job'[c] = Mid /\ ~irq'[c] /\ count'[c] = 0 /\ ~flag'[c] /\ digest'[c] # Garbage
        BY <3>1, <2>1, <2>2, <1>1
        DEF StartCore, SHA_Init, HashHead, Quiet, CoreInv, TypeOK
      <3>3. Busy(c)' /\ Started(c)'
        BY <3>2, <2>2, <1>1 DEF Busy, Expected, Started, StartCore, Advance, TypeOK
      <3> QED BY <3>2, <3>3 DEF CoreInv
    <2>3. CASE c # cur
      <3>1. /\ job'[c] = job[c] /\ irq'[c] = irq[c] /\ digest'[c] = digest[c]
            /\ count' = count /\ flag' = flag /\ word19' = word19
        BY <2>3, <1>1 DEF StartCore, SHA_Init, TypeOK
      <3>2. Started(c)' => Started(c)
        BY <2>3, <1>1 DEF Started, StartCore, Advance, TypeOK
      <3>3. Started(c) => Started(c)'
        BY <2>3, <1>1 DEF Started, StartCore, Advance, TypeOK
      <3>4. ~AtClear(c) /\ ~AtClear(c)' /\ pc # "restart" /\ pc' # "restart"
        BY DEF AtClear, StartCore, Advance
      <3> QED BY <2>1, <3>1, <3>2, <3>3, <3>4 DEF CoreInv, Busy, Expected, Quiet
    <2> QED BY <2>2, <2>3
  <1> QED BY <1>1, <1>2, <1>3, <1>4, <1>5 DEF IInv

\* A step of the polling loop that leaves a core's registers, count and flag
\* alone, and does not enter or leave the places where the core's flag may
\* outlive its digest, keeps what the invariant says of the core.
LEMMA CoreFrame ==
  ASSUME NEW c \in Core, CoreInv(c), Started(c),
         job'[c] = job[c], irq'[c] = irq[c], digest'[c] = digest[c],
         count'[c] = count[c], flag'[c] = flag[c], word19'[c] = word19[c],
         Started(c)', ~AtClear(c),
         pc = "restart" /\ cur = c => pc' = "restart" /\ cur' = c
  PROVE  CoreInv(c)'
  BY DEF CoreInv, Busy, Expected, Quiet

\* Looking at a flag changes nothing but main()'s place.
LEMMA PollInv == IInv /\ (PollClear \/ PollSet) => IInv'
  <1> SUFFICES ASSUME IInv, PollClear \/ PollSet PROVE IInv'
    OBVIOUS
  <1>1. TypeOK /\ TypeOK'
    BY MainType DEF IInv, Main
  <1>2. pc = "poll" /\ pc' \in {"poll", "take"} /\ UNCHANGED
          <<nounce, report, memVars, isrVars, hwVars, excVars>>
    BY DEF PollClear, PollSet, Advance
  <1>3. MainInv'
    BY DEF IInv, MainInv, PollClear, PollSet, Advance
  <1>4. DispatchInv'
    BY <1>2 DEF IInv, DispatchInv, Pending
  <1>5. ASSUME NEW c \in Core PROVE RegionInv(c)'
    BY <1>2 DEF IInv, RegionInv
  <1>6. ASSUME NEW c \in Core PROVE CoreInv(c)'
    BY <1>2, CoreFrame DEF IInv, Started, AtClear
  <1> QED BY <1>1, <1>3, <1>4, <1>5, <1>6 DEF IInv

\* The digest taken is the double hash of word 19, which is nounce<cur>.
LEMMA TakeDigestInv == IInv /\ TakeDigest => IInv'
  <1> SUFFICES ASSUME IInv, TakeDigest PROVE IInv'
    OBVIOUS
  <1>1. TypeOK /\ TypeOK'
    BY MainType DEF IInv, Main
  <1>2. slot'[cur] = digest[cur] /\ cur' = cur /\ pc = "take" /\ pc' = "compare"
    BY <1>1 DEF TakeDigest, TypeOK
  <1>3. flag[cur] /\ CoreInv(cur) /\ RegionInv(cur)
    BY <1>1, <1>2 DEF IInv, MainInv, TypeOK
  <1>4. digest[cur] = Double(word19[cur]) /\ word19[cur] = nounce[cur]
    BY <1>2, <1>3 DEF CoreInv, RegionInv, AtClear
  <1>5. MainInv'
    BY <1>2, <1>3, <1>4 DEF IInv, MainInv, TakeDigest, Double
  <1>6. DispatchInv'
    BY DEF IInv, DispatchInv, Pending, TakeDigest
  <1>7. ASSUME NEW c \in Core PROVE RegionInv(c)'
    BY DEF IInv, RegionInv, TakeDigest
  <1>8. ASSUME NEW c \in Core PROVE CoreInv(c)'
    BY CoreFrame DEF IInv, Started, AtClear, TakeDigest
  <1> QED BY <1>1, <1>5, <1>6, <1>7, <1>8 DEF IInv

\* The nonce printed is the one whose double hash was compared.
LEMMA FoundInv == IInv /\ Found => IInv'
  <1> SUFFICES ASSUME IInv, Found PROVE IInv'
    OBVIOUS
  <1>1. TypeOK /\ TypeOK'
    BY MainType DEF IInv, Main
  <1>2. nounce[cur] \in Winners
    BY DEF IInv, MainInv, Found, Below, Double
  <1>3. MainInv'
    BY <1>2 DEF IInv, MainInv, Found
  <1>4. DispatchInv'
    BY DEF IInv, DispatchInv, Pending, Found
  <1>5. ASSUME NEW c \in Core PROVE RegionInv(c)'
    BY DEF IInv, RegionInv, Found
  <1>6. ASSUME NEW c \in Core PROVE CoreInv(c)'
    BY CoreFrame DEF IInv, Started, AtClear, Found
  <1> QED BY <1>1, <1>3, <1>4, <1>5, <1>6 DEF IInv

\* From the increment to the store, and only there, word 19 lags behind.
LEMMA NextNounceInv == IInv /\ NextNounce => IInv'
  <1> SUFFICES ASSUME IInv, NextNounce PROVE IInv'
    OBVIOUS
  <1>1. TypeOK /\ TypeOK'
    BY MainType DEF IInv, Main
  <1>2. MainInv'
    BY DEF IInv, MainInv, NextNounce
  <1>3. DispatchInv'
    BY DEF IInv, DispatchInv, Pending, NextNounce
  <1>4. ASSUME NEW c \in Core PROVE RegionInv(c)'
    BY <1>1 DEF IInv, RegionInv, NextNounce, TypeOK
  <1>5. ASSUME NEW c \in Core PROVE CoreInv(c)'
    BY CoreFrame DEF IInv, Started, AtClear, NextNounce
  <1> QED BY <1>1, <1>2, <1>3, <1>4, <1>5 DEF IInv

\* The store closes the gap; the digest of the last nonce is not read again.
LEMMA StoreNounceInv == IInv /\ StoreNounce => IInv'
  <1> SUFFICES ASSUME IInv, StoreNounce PROVE IInv'
    OBVIOUS
  <1>1. TypeOK /\ TypeOK'
    BY MainType DEF IInv, Main
  <1>2. MainInv'
    BY DEF IInv, MainInv, StoreNounce
  <1>3. DispatchInv'
    BY DEF IInv, DispatchInv, Pending, StoreNounce
  <1>4. ASSUME NEW c \in Core PROVE RegionInv(c)'
    BY <1>1 DEF IInv, RegionInv, StoreNounce, TypeOK
  <1>5. ASSUME NEW c \in Core PROVE CoreInv(c)'
    <2>1. CASE c = cur
      <3>1. Quiet(c) /\ CoreInv(c)
        BY <2>1 DEF IInv, MainInv, CoreInv, AtClear, StoreNounce
      <3>2. Quiet(c)' /\ digest'[c] # Garbage /\ Started(c)'
        BY <3>1 DEF Quiet, CoreInv, Started, StoreNounce
      <3>3. pc' = "restart" /\ cur' = c
        BY <2>1 DEF StoreNounce
      <3> QED BY <3>2, <3>3 DEF CoreInv
    <2>2. CASE c # cur
      <3>1. word19'[c] = word19[c]
        BY <2>2, <1>1 DEF StoreNounce, TypeOK
      <3> QED BY <3>1, <2>2, CoreFrame DEF IInv, Started, AtClear, StoreNounce
    <2> QED BY <2>1, <2>2
  <1> QED BY <1>1, <1>2, <1>3, <1>4, <1>5 DEF IInv

\* The restarted core is busy while its flag is still set.
LEMMA RestartCoreInv == IInv /\ RestartCore => IInv'
  <1> SUFFICES ASSUME IInv, RestartCore PROVE IInv'
    OBVIOUS
  <1>1. TypeOK /\ TypeOK'
    BY MainType DEF IInv, Main
  <1>2. MainInv'
    BY DEF IInv, MainInv, RestartCore
  <1>3. DispatchInv'
    BY <1>1 DEF IInv, DispatchInv, RestartCore, MainRuns, Pending, TypeOK
  <1>4. ASSUME NEW c \in Core PROVE RegionInv(c)'
    BY DEF IInv, RegionInv, RestartCore
  <1>5. ASSUME NEW c \in Core PROVE CoreInv(c)'
    <2>1. CASE c = cur
      <3>1. Quiet(c) /\ CoreInv(c) /\ head[c]
        BY <2>1 DEF IInv, MainInv, CoreInv, RegionInv, AtClear, RestartCore
      <3>2. job'[c] = Mid /\ ~irq'[c] /\ count'[c] = 0 /\ digest'[c] # Garbage
        BY <3>1, <2>1, <1>1
        DEF RestartCore, SHA_Init, HashHead, Quiet, CoreInv, TypeOK
      <3>3. Busy(c)' /\ ~Quiet(c)' /\ AtClear(c)' /\ Started(c)'
        BY <3>2, <2>1, StagesDiffer
        DEF Busy, Expected, Quiet, AtClear, Started, RestartCore
      <3> QED BY <3>2, <3>3 DEF CoreInv
    <2>2. CASE c # cur
      <3>1. job'[c] = job[c] /\ irq'[c] = irq[c] /\ digest'[c] = digest[c]
        BY <2>2, <1>1 DEF RestartCore, SHA_Init, TypeOK
      <3> QED BY <3>1, <2>2, CoreFrame DEF IInv, Started, AtClear, RestartCore
    <2> QED BY <2>1, <2>2
  <1> QED BY <1>1, <1>2, <1>3, <1>4, <1>5 DEF IInv

\* Clearing the flag is always consistent with the rest; what it may lose is
\* the subject of OnlyClearLosesCore.
LEMMA ClearFlagInv == IInv /\ ClearFlag => IInv'
  <1> SUFFICES ASSUME IInv, ClearFlag PROVE IInv'
    OBVIOUS
  <1>1. TypeOK /\ TypeOK'
    BY MainType DEF IInv, Main
  <1>2. pc = "clear" /\ pc' = "poll"
    BY DEF ClearFlag, Advance
  <1>3. MainInv'
    BY <1>2 DEF IInv, MainInv, ClearFlag
  <1>4. DispatchInv'
    BY DEF IInv, DispatchInv, Pending, ClearFlag
  <1>5. ASSUME NEW c \in Core PROVE RegionInv(c)'
    BY <1>2 DEF IInv, RegionInv, ClearFlag
  <1>6. ASSUME NEW c \in Core PROVE CoreInv(c)'
    <2>1. CASE c = cur
      <3>1. ~flag'[c] /\ CoreInv(c) /\ Started(c)'
        BY <1>1, <1>2, <2>1 DEF IInv, ClearFlag, Started, TypeOK
      <3>2. (Busy(c)' \/ Quiet(c)') /\ digest'[c] # Garbage
        BY <3>1 DEF CoreInv, Busy, Expected, Quiet, ClearFlag
      <3> QED BY <3>1, <3>2 DEF CoreInv
    <2>2. CASE c # cur
      <3>1. flag'[c] = flag[c]
        BY <2>2, <1>1 DEF ClearFlag, TypeOK
      <3> QED BY <3>1, <1>2, <2>2, CoreFrame DEF IInv, Started, AtClear, ClearFlag
    <2> QED BY <2>1, <2>2
  <1> QED BY <1>1, <1>3, <1>4, <1>5, <1>6 DEF IInv

\* A finished core holds the digest its count expects; a finished core that was
\* flagged can only be the one main() is about to clear.
LEMMA FinishInv == ASSUME NEW c \in Core, IInv, Finish(c) PROVE IInv'
  <1>1. TypeOK /\ TypeOK'
    BY InterruptType DEF IInv
  <1>2. MainInv'
    BY DEF IInv, MainInv, Finish
  <1>3. DispatchInv'
    BY <1>1 DEF IInv, DispatchInv, Pending, Finish, TypeOK
  <1>4. ASSUME NEW d \in Core PROVE RegionInv(d)'
    BY DEF IInv, RegionInv, Finish
  <1>5. ASSUME NEW d \in Core PROVE CoreInv(d)'
    <2>1. CASE d = c
      <3>1. job[d] = Expected(d) /\ ~irq[d] /\ ~Quiet(d) /\ CoreInv(d)
        BY <2>1 DEF IInv, CoreInv, Busy, Quiet, Finish
      <3>2. Expected(d) # Garbage
        BY StagesDiffer DEF Expected
      <3>3. digest'[d] = Expected(d) /\ job'[d] = Idle /\ irq'[d]
        BY <1>1, <2>1, <3>1 DEF Finish, TypeOK
      <3>4. /\ Expected(d)' = Expected(d) /\ (Started(d)' <=> Started(d))
            /\ (AtClear(d)' <=> AtClear(d)) /\ flag' = flag
        BY DEF Finish, Expected, Started, AtClear
      <3>5. Busy(d)' /\ ~Quiet(d)' /\ digest'[d] # Garbage
        BY <3>2, <3>3, <3>4 DEF Busy, Quiet
      <3> QED BY <3>1, <3>4, <3>5 DEF CoreInv
    <2>2. CASE d # c
      <3>1. job'[d] = job[d] /\ irq'[d] = irq[d] /\ digest'[d] = digest[d]
        BY <1>1, <2>2 DEF Finish, TypeOK
      <3>2. CoreInv(d)
        BY DEF IInv
      <3> QED BY <3>1, <3>2
              DEF CoreInv, Busy, Expected, Quiet, Started, AtClear, Finish
    <2> QED BY <2>1, <2>2
  <1> QED BY <1>1, <1>2, <1>3, <1>4, <1>5 DEF IInv

\* Entering the dispatcher and reading the interrupts again only copy Pending.
LEMMA DispatcherInv == IInv /\ (EnterIsr \/ ReadAgain) => IInv'
  <1> SUFFICES ASSUME IInv, EnterIsr \/ ReadAgain PROVE IInv'
    OBVIOUS
  <1>1. TypeOK'
    BY InterruptType DEF IInv, Exception
  <1>2. UNCHANGED <<mainVars, memVars, isrVars, hwVars>>
    BY DEF EnterIsr, ReadAgain
  <1>3. MainInv'
    BY <1>2 DEF IInv, MainInv
  <1>4. DispatchInv'
    BY DEF DispatchInv, Pending, EnterIsr, ReadAgain
  <1>5. ASSUME NEW c \in Core PROVE RegionInv(c)' /\ CoreInv(c)'
    BY <1>2 DEF IInv, RegionInv, CoreInv, Busy, Expected, Quiet, Started, AtClear
  <1> QED BY <1>1, <1>3, <1>4, <1>5 DEF IInv

\* The handler of core c touches nothing of another core.
LEMMA HandlerFrame ==
  ASSUME NEW c \in Core, IInv, ServeIrq(c), NEW d \in Core, d # c
  PROVE  RegionInv(d)' /\ CoreInv(d)' /\ slot'[d] = slot[d] /\ flag'[d] = flag[d]
  <1>1. /\ job'[d] = job[d] /\ irq'[d] = irq[d] /\ digest'[d] = digest[d]
        /\ count'[d] = count[d] /\ flag'[d] = flag[d]
        /\ UNCHANGED <<mainVars, head, word19>> /\ slot'[d] = slot[d]
    BY DEF IInv, TypeOK, ServeIrq, SHA_IRQ_Handler, HashSecondBlock, HashAgain,
           RaiseFlag, SHA_Init
  <1>2. RegionInv(d) /\ CoreInv(d)
    BY DEF IInv
  <1> QED BY <1>1, <1>2
          DEF RegionInv, CoreInv, Busy, Expected, Quiet, Started, AtClear

\* A handler finds its core finished with the digest its count expects, takes
\* the core through the next compression or raises the flag, and never meets
\* a core whose digest main() is handling.
LEMMA ServeIrqInv == ASSUME NEW c \in Core, IInv, ServeIrq(c) PROVE IInv'
  <1>1. TypeOK /\ TypeOK'
    BY InterruptType DEF IInv, Exception
  <1>2. /\ job[c] = Idle /\ irq[c] /\ digest[c] = Expected(c) /\ Started(c)
        /\ (flag[c] => AtClear(c)) /\ digest[c] # Garbage /\ RegionInv(c)
    BY DEF IInv, CoreInv, Busy, Quiet, DispatchInv, Pending, ServeIrq
  <1>3. UNCHANGED <<mainVars, head, word19, inIsr>> /\ active' = {}
    BY DEF ServeIrq, SHA_IRQ_Handler, HashSecondBlock, HashAgain, RaiseFlag
  <1>4. flag[c] => flag'[c]
    BY <1>1 DEF ServeIrq, SHA_IRQ_Handler, HashSecondBlock, HashAgain, RaiseFlag, TypeOK
  <1>5. MainInv'
    <2>1. CASE cur = c
      BY <1>2, <1>3, <1>4, <2>1 DEF IInv, MainInv, AtClear
    <2>2. CASE cur # c
      <3>1. slot'[cur] = slot[cur] /\ flag'[cur] = flag[cur]
        BY <1>1, <2>2, HandlerFrame DEF TypeOK
      <3> QED BY <1>3, <3>1 DEF IInv, MainInv
    <2> QED BY <2>1, <2>2
  <1>6. DispatchInv'
    BY <1>3 DEF DispatchInv, ServeIrq
  <1>7. RegionInv(c)'
    BY <1>2, <1>3 DEF RegionInv
  <1>8. CoreInv(c)'
    <2>1. Started(c)' /\ (AtClear(c)' <=> AtClear(c))
      BY <1>2, <1>3 DEF Started, AtClear
    <2>2. CASE HashSecondBlock(c)
      <3>1. /\ job'[c] = First(word19[c]) /\ ~irq'[c] /\ count'[c] = 1
            /\ digest'[c] # Garbage /\ flag'[c] = flag[c]
        BY <1>1, <1>2, <2>2 DEF HashSecondBlock, SHA_Init, HashTail, Expected, TypeOK
      <3>2. Busy(c)' /\ ~Quiet(c)'
        BY <3>1, <1>3 DEF Busy, Quiet, Expected
      <3> QED BY <1>2, <2>1, <3>1, <3>2 DEF CoreInv
    <2>3. CASE HashAgain(c)
      <3>1. digest[c] = First(word19[c])
        BY <1>2, <2>3 DEF HashAgain, Expected
      <3>2. HashDigest(digest[c]) = Double(word19[c])
        BY <3>1 DEF HashDigest, First
      <3>3. /\ job'[c] = Double(word19[c]) /\ ~irq'[c] /\ count'[c] = 2
            /\ digest'[c] # Garbage /\ flag'[c] = flag[c]
        BY <1>1, <1>2, <2>3, <3>2 DEF HashAgain, SHA_Init, TypeOK
      <3>4. Busy(c)' /\ ~Quiet(c)'
        BY <3>3, <1>3 DEF Busy, Quiet, Expected
      <3> QED BY <1>2, <2>1, <3>3, <3>4 DEF CoreInv
    <2>4. CASE RaiseFlag(c)
      <3>1. digest[c] = Double(word19[c])
        BY <1>2, <2>4 DEF RaiseFlag, Expected
      <3>2. /\ job'[c] = Idle /\ ~irq'[c] /\ count'[c] = 0
            /\ digest'[c] = Double(word19[c])
        BY <1>1, <1>2, <2>4, <3>1 DEF RaiseFlag, TypeOK
      <3>3. Quiet(c)' /\ digest'[c] # Garbage
        BY <3>2, StagesDiffer DEF Quiet
      <3> QED BY <1>3, <2>1, <3>2, <3>3 DEF CoreInv
    <2> QED BY <2>2, <2>3, <2>4 DEF ServeIrq, SHA_IRQ_Handler
  <1>9. \A d \in Core : RegionInv(d)' /\ CoreInv(d)'
    BY <1>7, <1>8, HandlerFrame
  <1> QED BY <1>1, <1>5, <1>6, <1>9 DEF IInv

\* Every step preserves the invariant.
LEMMA NextInv == IInv /\ [Next]_vars => IInv'
  <1> SUFFICES ASSUME IInv, [Next]_vars PROVE IInv'
    OBVIOUS
  <1>1. CASE Main
    <2>1. CASE Spin
      BY <2>1 DEF Spin, vars, IInv, TypeOK, MainInv, DispatchInv, Pending, RegionInv,
         CoreInv, Busy, Expected, Quiet, Started, AtClear
    <2> QED BY <1>1, <2>1, WriteHeaderInv, StartCoreInv, PollInv, TakeDigestInv,
            FoundInv, NextNounceInv, StoreNounceInv, RestartCoreInv, ClearFlagInv
            DEF Main
  <1>2. CASE \E c \in Core : Finish(c)
    BY <1>2, FinishInv
  <1>3. CASE Exception
    <2>1. EnterIsr \/ ReadAgain \/ \E c \in Core : ServeIrq(c)
      BY <1>3 DEF Exception
    <2> QED BY <2>1, DispatcherInv, ServeIrqInv
  <1>4. CASE UNCHANGED vars
    BY <1>4 DEF vars, IInv, TypeOK, MainInv, DispatchInv, Pending, RegionInv,
       CoreInv, Busy, Expected, Quiet, Started, AtClear
  <1> QED BY <1>1, <1>2, <1>3, <1>4 DEF Next

\* Every reachable state satisfies the inductive invariant.
THEOREM InductiveInvariant == Safety => []IInv
  BY InitInv, NextInv, PTL DEF Safety

-----------------------------------------------------------------------------
(***************************************************************************)
(* What follows from the invariant.                                        *)
(***************************************************************************)
\* No start pulse of SHA_Init ever meets a busy core.
THEOREM StartsAreTaken == Safety => []NoStartDropped
  <1>1. IInv => NoStartDropped
    <2> SUFFICES ASSUME IInv PROVE NoStartDropped
      OBVIOUS
    <2>1. ASSUME pc \in {"start", "restart"} PROVE job[cur] = Idle /\ ~irq[cur]
      <3>1. cur \in Core /\ CoreInv(cur)
        BY DEF IInv, TypeOK
      <3>2. pc = "restart" => flag[cur]
        BY DEF IInv, MainInv
      <3> QED BY <2>1, <3>1, <3>2 DEF CoreInv, Started, Quiet, AtClear
    <2>2. ASSUME NEW c \in active PROVE job[c] = Idle /\ irq[c]
      BY <2>2 DEF IInv, DispatchInv, Pending, CoreInv, Busy, Quiet
    <2> QED BY <2>1, <2>2 DEF NoStartDropped
  <1> QED BY <1>1, InductiveInvariant, PTL

\* No core ever computes or holds anything but the hashes of a header.
THEOREM PipelineCorrect == Safety => []PipelineInOrder
  <1>1. IInv => PipelineInOrder
    BY StagesDiffer
    DEF IInv, PipelineInOrder, CoreInv, Busy, Quiet, Expected
  <1> QED BY <1>1, InductiveInvariant, PTL

\* The digest compared with the target belongs to the nonce that is printed.
THEOREM ComparisonCorrect == Safety => []ComparesItsNonce
  <1>1. IInv => ComparesItsNonce
    BY DEF IInv, MainInv, ComparesItsNonce
  <1> QED BY <1>1, InductiveInvariant, PTL

\* The miner reports winners only.
THEOREM ReportCorrect == Safety => []ReportIsWinner
  <1>1. IInv => ReportIsWinner
    BY DEF IInv, MainInv, ReportIsWinner
  <1> QED BY <1>1, InductiveInvariant, PTL

\* The digest of a flagged core does not change under main()'s reads.
THEOREM DigestStable == Safety => FlaggedDigestStable
  <1>1. ASSUME IInv, [Next]_vars, NEW c \in Core, flag[c], ~(pc = "clear" /\ cur = c)
        PROVE  digest'[c] = digest[c]
    <2>1. job[c] = Idle
      BY <1>1 DEF IInv, CoreInv, Quiet, AtClear
    <2>2. digest' = digest \/ \E d \in Core : Finish(d)
      BY <1>1 DEF Next, Main, WriteHeader, StartCore, PollClear, PollSet, TakeDigest,
         Found, NextNounce, StoreNounce, RestartCore, ClearFlag, Spin, Exception,
         EnterIsr, ReadAgain, ServeIrq, SHA_IRQ_Handler, HashSecondBlock, HashAgain,
         RaiseFlag, SHA_Init, vars
    <2>3. ASSUME NEW d \in Core, Finish(d) PROVE digest'[c] = digest[c]
      BY <1>1, <2>1, <2>3 DEF Finish, IInv, TypeOK
    <2> QED BY <2>2, <2>3
  <1>2. IInv /\ [Next]_vars =>
          [\A c \in Core : flag[c] /\ ~(pc = "clear" /\ cur = c)
                             => digest'[c] = digest[c]]_vars
    BY <1>1
  <1> QED BY <1>2, InductiveInvariant, PTL DEF Safety, FlaggedDigestStable

\* One step: the only way to fall silent.
LEMMA LossStep ==
  ASSUME IInv, [Next]_vars, NEW c \in Core, Working(c), ~Working(c)'
  PROVE  ClearFlag /\ cur = c /\ Quiet(c) /\ digest[c] = Double(nounce[c])
  <1>1. TypeOK
    BY DEF IInv
  <1>2. CASE ClearFlag
    <2>1. cur = c /\ pc = "clear" /\ flag[c]
      BY <1>1, <1>2 DEF ClearFlag, Working, TypeOK
    <2>2. job[c] = Idle /\ ~irq[c] /\ CoreInv(c) /\ RegionInv(c)
      BY <1>2 DEF ClearFlag, Working, IInv
    <2>3. Quiet(c) /\ word19[c] = nounce[c]
      BY <2>1, <2>2, StagesDiffer DEF CoreInv, RegionInv, Busy, Quiet, Expected
    <2> QED BY <1>2, <2>1, <2>2, <2>3 DEF CoreInv
  <1>3. CASE StartCore \/ RestartCore
    <2>1. cur \in Core /\ head[cur] /\ RegionInv(cur) /\ CoreInv(cur)
      BY <1>1, <1>3 DEF IInv, RegionInv, StartCore, RestartCore, TypeOK
    <2>2. job'[cur] # Idle /\ flag' = flag
      BY <1>1, <1>3, <2>1, StagesDiffer
      DEF StartCore, RestartCore, SHA_Init, HashHead, TypeOK
    <2>3. c # cur => job'[c] = job[c] /\ irq'[c] = irq[c]
      BY <1>1, <1>3 DEF StartCore, RestartCore, SHA_Init, TypeOK
    <2> QED BY <2>2, <2>3 DEF Working
  <1>4. ASSUME NEW d \in Core, Finish(d) PROVE FALSE
    BY <1>1, <1>4 DEF Finish, Working, TypeOK
  <1>5. ASSUME NEW d \in Core, ServeIrq(d) PROVE FALSE
    <2>1. CASE c = d
      <3>1. job[d] = Idle /\ irq[d] /\ digest[d] = Expected(d)
        BY <1>5 DEF IInv, CoreInv, Busy, Quiet, DispatchInv, Pending, ServeIrq
      <3>2. CASE HashSecondBlock(d) \/ HashAgain(d)
        <4>1. HashTail(d) # Idle /\ HashDigest(digest[d]) # Idle
          BY StagesDiffer DEF HashTail, HashDigest
        <4>2. job'[d] # Idle
          BY <1>1, <3>1, <3>2, <4>1 DEF HashSecondBlock, HashAgain, SHA_Init, TypeOK
        <4> QED BY <2>1, <4>2 DEF Working
      <3>3. CASE RaiseFlag(d)
        BY <1>1, <2>1, <3>3 DEF RaiseFlag, Working, TypeOK
      <3> QED BY <1>5, <3>2, <3>3 DEF ServeIrq, SHA_IRQ_Handler
    <2>2. CASE c # d
      BY <1>1, <1>5, <2>2 DEF ServeIrq, SHA_IRQ_Handler, HashSecondBlock,
         HashAgain, RaiseFlag, SHA_Init, Working, TypeOK
    <2> QED BY <2>1, <2>2
  <1>6. ASSUME UNCHANGED <<job, irq, flag>> PROVE FALSE
    BY <1>6 DEF Working
  <1> QED BY <1>2, <1>3, <1>4, <1>5, <1>6
          DEF Next, Main, WriteHeader, PollClear, PollSet, TakeDigest, Found,
              NextNounce, StoreNounce, Spin, Exception, EnterIsr, ReadAgain, vars

\* The store that clears the flag is the only step that can silence a core, and
\* it does so exactly by erasing the flag of a result main() has not read.
THEOREM LossOnlyAtClear == Safety => OnlyClearLosesCore
  <1>1. IInv /\ [Next]_vars =>
          [\A c \in Core : Working(c) /\ ~Working(c)'
             => pc = "clear" /\ cur = c /\ digest[c] = Double(nounce[c])]_vars
    BY LossStep DEF ClearFlag
  <1> QED BY <1>1, InductiveInvariant, PTL DEF Safety, OnlyClearLosesCore

(***************************************************************************)
(* With prompt clears no core falls silent.  Between the restart and the   *)
(* clear the core is computing, or has an interrupt pending that is not    *)
(* the last of the three.                                                  *)
(***************************************************************************)
RestartedInv ==
  pc = "clear" => job[cur] # Idle \/ (irq[cur] /\ count[cur] # 2)

\* Under PromptClear a restarted core cannot get past its third compression
\* before the clear.
LEMMA RestartedStep ==
  ASSUME PromptClear, IInv, RestartedInv, [Next]_vars
  PROVE  RestartedInv'
  <1>1. TypeOK /\ cur \in Core
    BY DEF IInv, TypeOK
  <1> SUFFICES ASSUME pc' = "clear"
               PROVE  job'[cur'] # Idle \/ (irq'[cur'] /\ count'[cur'] # 2)
    BY DEF RestartedInv
  <1>2. CASE RestartCore
    <2>1. head[cur]
      BY <1>1, <1>2 DEF IInv, RegionInv, RestartCore
    <2>2. job'[cur] = Mid \/ (job'[cur] = job[cur] /\ job[cur] # Idle)
      BY <1>1, <1>2, <2>1 DEF RestartCore, SHA_Init, HashHead, TypeOK
    <2> QED BY <1>2, <2>2, StagesDiffer DEF RestartCore
  <1>3. CASE ~RestartCore
    <2>1. pc = "clear" /\ cur' = cur
      BY <1>3 DEF Next, Main, WriteHeader, StartCore, PollClear, PollSet, TakeDigest,
         Found, NextNounce, StoreNounce, ClearFlag, Spin, Advance, Finish, Exception,
         EnterIsr, ReadAgain, ServeIrq, vars
    <2>2. job[cur] # Idle \/ (irq[cur] /\ count[cur] # 2)
      BY <2>1 DEF RestartedInv
    <2>3. ASSUME NEW d \in Core, Finish(d)
          PROVE  job'[cur] # Idle \/ (irq'[cur] /\ count'[cur] # 2)
      BY <1>1, <2>1, <2>2, <2>3 DEF Finish, TypeOK
    <2>4. ASSUME NEW d \in Core, ServeIrq(d)
          PROVE  job'[cur] # Idle \/ (irq'[cur] /\ count'[cur] # 2)
      <3>1. CASE d = cur
        <4>1. job[d] = Idle /\ irq[d]
          BY <2>4 DEF IInv, CoreInv, Busy, Quiet, DispatchInv, Pending, ServeIrq
        <4>2. HashSecondBlock(d) \/ HashAgain(d)
          BY <2>2, <2>4, <3>1, <4>1 DEF ServeIrq, SHA_IRQ_Handler, RaiseFlag
        <4>3. HashTail(d) # Idle /\ HashDigest(digest[d]) # Idle
          BY StagesDiffer DEF HashTail, HashDigest
        <4>4. job'[d] # Idle
          BY <1>1, <4>1, <4>2, <4>3 DEF HashSecondBlock, HashAgain, SHA_Init, TypeOK
        <4> QED BY <3>1, <4>4
      <3>2. CASE d # cur
        <4>1. job'[cur] = job[cur] /\ irq'[cur] = irq[cur] /\ count'[cur] = count[cur]
          BY <1>1, <2>4, <3>2 DEF ServeIrq, SHA_IRQ_Handler, HashSecondBlock,
             HashAgain, RaiseFlag, SHA_Init, TypeOK
        <4> QED BY <2>2, <4>1
      <3> QED BY <3>1, <3>2
    <2>5. CASE EnterIsr \/ ReadAgain \/ UNCHANGED vars
      BY <2>2, <2>1, <2>5 DEF EnterIsr, ReadAgain, vars
    <2>6. CASE Main
      BY <1>3, <2>1, <2>2, <2>6 DEF Main, WriteHeader, StartCore, PollClear, PollSet,
         TakeDigest, Found, NextNounce, StoreNounce, ClearFlag, Spin, Advance, vars
    <2> QED BY <2>1, <2>3, <2>4, <2>5, <2>6 DEF Next, Exception
  <1> QED BY <1>2, <1>3

\* A core that works goes on working, and starting one makes it work.
LEMMA SilentStep ==
  ASSUME IInv, RestartedInv, NoCoreSilent, [Next]_vars
  PROVE  NoCoreSilent'
  <1>1. TypeOK /\ TypeOK' /\ cur \in Core /\ cur' \in Core
    BY NextInv DEF IInv, TypeOK
  <1> SUFFICES ASSUME NEW c \in Core, Started(c)' PROVE Working(c)'
    BY <1>1 DEF NoCoreSilent, Started
  <1>2. CASE Started(c)
    <2>1. Working(c)
      BY <1>1, <1>2 DEF NoCoreSilent, Started
    <2>2. ASSUME ~Working(c)' PROVE FALSE
      <3>1. ClearFlag /\ cur = c /\ Quiet(c)
        BY <2>1, <2>2, LossStep
      <3> QED BY <3>1 DEF RestartedInv, ClearFlag, Quiet
    <2> QED BY <2>2
  <1>3. CASE ~Started(c)
    <2>1. StartCore /\ c = cur
      <3>1. pc = "header" \/ (pc = "start" /\ cur <= c)
        BY <1>1, <1>3 DEF Started
      <3>2. ASSUME WriteHeader PROVE FALSE
        <4>1. pc' = "header" \/ (pc' = "start" /\ cur' = 0)
          BY <3>2 DEF WriteHeader, Advance
        <4>2. pc' # "header" /\ (pc' = "start" => c < cur')
          BY DEF Started
        <4> QED BY <4>1, <4>2
      <3>3. pc' # pc \/ cur' # cur
        BY <1>3 DEF Started
      <3>4. StartCore
        BY <3>1, <3>2, <3>3 DEF Next, Main, PollClear, PollSet, TakeDigest, Found,
           NextNounce, StoreNounce, RestartCore, ClearFlag, Spin, Finish, Exception,
           EnterIsr, ReadAgain, ServeIrq, vars
      <3>5. c <= cur
        BY <1>1, <3>4 DEF StartCore, Advance, Started
      <3> QED BY <1>1, <3>1, <3>4, <3>5 DEF StartCore
    <2>2. head[c] /\ job[c] = Idle
      BY <1>1, <1>3, <2>1 DEF IInv, RegionInv, CoreInv, Quiet, StartCore
    <2>3. job'[c] # Idle
      BY <1>1, <2>1, <2>2, StagesDiffer DEF StartCore, SHA_Init, HashHead, TypeOK
    <2> QED BY <2>3 DEF Working
  <1> QED BY <1>2, <1>3

\* If main() clears a flag before the restarted core can raise it again, every
\* started core goes on working.
THEOREM PromptClearKeepsCores == ASSUME PromptClear PROVE Safety => []NoCoreSilent
  <1>1. Init => RestartedInv /\ NoCoreSilent
    BY DEF Init, RestartedInv, NoCoreSilent
  <1>2. IInv /\ RestartedInv /\ NoCoreSilent /\ [Next]_vars
          => RestartedInv' /\ NoCoreSilent'
    BY RestartedStep, SilentStep
  <1> QED BY <1>1, <1>2, InductiveInvariant, PTL DEF Safety

-----------------------------------------------------------------------------
(***************************************************************************)
(* Refinement: Found and NextNounce are the steps of the abstract search.  *)
(***************************************************************************)
\* A nonce is passed over only if its double hash is not below the target.
LEMMA SearchStep ==
  ASSUME IInv, [Next]_vars
  PROVE  [Search!Next]_(Search!searchVars)
  <1>1. TypeOK /\ cur \in Core
    BY DEF IInv, TypeOK
  <1>2. CASE Found
    <2>1. nounce[cur] \in Winners /\ report = NoReport
      BY <1>2 DEF IInv, MainInv, Found, Below, Double
    <2>2. Search!Accept(cur)
      BY <1>2, <2>1 DEF Found, Search!Accept, NoReport, Search!NoResult
    <2> QED BY <1>1, <2>2 DEF Search!Next, Search!Examine, Search!Core
  <1>3. CASE NextNounce
    <2>1. nounce[cur] \notin Winners /\ report = NoReport
      BY <1>1, <1>3 DEF IInv, MainInv, NextNounce, Below, Double
    <2>2. Search!Reject(cur)
      BY <1>3, <2>1
      DEF NextNounce, Search!Reject, NoReport, Search!NoResult, Succ, Search!Succ
    <2> QED BY <1>1, <2>2 DEF Search!Next, Search!Examine, Search!Core
  <1>4. CASE ~Found /\ ~NextNounce
    <2>1. UNCHANGED <<nounce, report>>
      BY <1>4 DEF Next, Main, WriteHeader, StartCore, PollClear, PollSet, TakeDigest,
         StoreNounce, RestartCore, ClearFlag, Spin, Finish, Exception, EnterIsr,
         ReadAgain, ServeIrq, vars
    <2> QED BY <2>1 DEF Search!searchVars
  <1> QED BY <1>2, <1>3, <1>4

\* The firmware, its interrupts and its hardware implement the abstract search.
THEOREM ImplementsSearch == Safety => SearchSafety
  <1>1. Init => Search!Init
    BY DEF Init, Search!Init, NoReport, Search!NoResult
  <1>2. IInv /\ [Next]_vars => [Search!Next]_(Search!searchVars)
    BY SearchStep
  <1> QED BY <1>1, <1>2, InductiveInvariant, PTL
          DEF Safety, SearchSafety, Search!Safety

-----------------------------------------------------------------------------
(***************************************************************************)
(* The firmware's accesses against the peripheral, proved for every number *)
(* of rounds and every block size, as long as the dispatcher takes at      *)
(* least one clock cycle of the core from the write that clears the        *)
(* interrupt to its next look at it (ReturnCycles > 0).                    *)
(*                                                                         *)
(* The invariant says what the peripheral is doing at each place of the    *)
(* program: at rest, with the digest due before, everywhere but at "wait"; *)
(* there it goes through six phases, from the start pulse to the           *)
(* interrupt.                                                              *)
(***************************************************************************)
\* The digest before compression k, and the value it starts from.
Before(k) == IF k = 0 THEN Due(2) ELSE Due(k - 1)
Base(k)   == IF k = 1 THEN Due(0) ELSE Iv("sha256")

Pulse == init_reg \/ next_reg

\* Nothing was computed yet, or everything that was is shown.
Unstarted ==
  /\ core_ready /\ ~core_digest_valid /\ ~digest_valid_reg /\ ~core_done_d

Settled ==
  /\ core_ready /\ core_digest_valid /\ ready_reg /\ digest_valid_reg /\ core_done_d
  /\ digest_reg = H

AtRest ==
  \/ Settled /\ H = Before(count0)
  \/ Unstarted /\ count0 = 0 /\ digest_reg = NoDigest

\* The phases of a compression as the waiting processor sees them.
Started0 ==
  /\ AtRest /\ ~irq_reg
  /\ init_reg <=> count0 # 1
  /\ next_reg <=> count0 = 1

Computing ==
  /\ ~core_digest_valid /\ ~Pulse /\ ~irq_reg
  /\ a_h = [chain |-> H, block |-> Whole(BlockOf[count0])] /\ H = Base(count0)
  /\ \/ sha256_ctrl = "rounds" /\ (core_done => core_done_d /\ t_ctr = 0)
     \/ sha256_ctrl = "done" /\ ~core_done

Computed ==
  /\ core_ready /\ core_digest_valid /\ ~Pulse /\ ~irq_reg
  /\ H = Due(count0)
  /\ ~core_done /\ ~core_done_d

Shown ==
  /\ core_ready /\ core_digest_valid /\ ~Pulse /\ ~irq_reg
  /\ H = Due(count0) /\ digest_reg = H
  /\ core_done /\ ~core_done_d

Asking ==
  /\ Settled /\ ~Pulse /\ irq_reg
  /\ H = Due(count0)

\* The block is written from its first word on.
BlockInv ==
  /\ DOMAIN block_reg = Index /\ block_reg = [i \in Index |-> block_reg[i]]
  /\ at = "block" => \A i \in 0 .. index - 1 : block_reg[i] = BlockOf[count0]
  /\ at \in {"go", "wait"} => block_reg = Whole(BlockOf[count0])
  /\ at # "block" => index = 0

\* Outside "wait" the interrupt is down or being cleared.
ProgramInv ==
  IF at = "wait"
    THEN /\ mode_reg = "sha256" /\ irq_en_reg /\ ~irq_clr_reg
         /\ Started0 \/ Computing \/ Computed \/ Shown \/ Asking
    ELSE /\ AtRest /\ ~Pulse
         /\ irq_reg => irq_clr_reg /\ (at \in {"ctrl0", "read"} \/ (at = "return" /\ gap = 0))
         /\ at = "read" => count0 = 2
         /\ at \in {"return", "result"} => count0 = 0 /\ core_digest_valid

CpuTypes ==
  /\ at \in {"ctrl0", "clr0", "ctrl0_last", "block", "go", "wait", "read", "return",
             "result"}
  /\ index \in Index /\ count0 \in 0 .. 2 /\ gap \in 0 .. ReturnCycles

Inv == CtrlTypeOK /\ CpuTypes /\ BlockInv /\ ProgramInv

-----------------------------------------------------------------------------
(***************************************************************************)
(* The digests, one growing out of the other.                              *)
(***************************************************************************)
LEMMA DueIsNext ==
  ASSUME NEW k \in 0 .. 2
  PROVE  Append(Base(k), Whole(BlockOf[k])) = Due(k)
<1>1. /\ BlockOf[0] = "head" /\ BlockOf[1] = "tail" /\ BlockOf[2] = "pad"
  BY DEF BlockOf
<1>2. ASSUME NEW x, NEW y, NEW z
      PROVE  Append(<<x>>, y) = <<x, y>> /\ Append(<<x, y>>, z) = <<x, y, z>>
  <2>. DEFINE S == {x, y, z}
  <2>1. <<x>> \in Seq(S) /\ <<x, y>> \in Seq(S) /\ <<x, y, z>> \in Seq(S)
    OBVIOUS
  <2>2. Append(<<x>>, y) \in Seq(S) /\ Append(<<x, y>>, z) \in Seq(S)
    BY <2>1
  <2>3. /\ Len(Append(<<x>>, y)) = 2 /\ Append(<<x>>, y)[1] = x /\ Append(<<x>>, y)[2] = y
    BY <2>1
  <2>4. /\ Len(Append(<<x, y>>, z)) = 3 /\ Append(<<x, y>>, z)[1] = x
        /\ Append(<<x, y>>, z)[2] = y /\ Append(<<x, y>>, z)[3] = z
    BY <2>1
  <2>5. Append(<<x>>, y) = <<x, y>>
    <3>1. Len(<<x, y>>) = 2 /\ \A i \in 1 .. 2 : Append(<<x>>, y)[i] = <<x, y>>[i]
      BY <2>3
    <3>. QED BY <2>1, <2>2, <2>3, <3>1, SeqEqual
  <2>6. Append(<<x, y>>, z) = <<x, y, z>>
    <3>1. Len(<<x, y, z>>) = 3 /\ \A i \in 1 .. 3 : Append(<<x, y>>, z)[i] = <<x, y, z>>[i]
      BY <2>4
    <3>. QED BY <2>1, <2>2, <2>4, <3>1, SeqEqual
  <2>. QED BY <2>5, <2>6
<1>3. /\ Due(0) = <<"sha256", Whole("head")>> /\ Due(2) = <<"sha256", Whole("pad")>>
      /\ Due(1) = <<"sha256", Whole("head"), Whole("tail")>>
  BY <1>1 DEF Due
<1>4. /\ Base(0) = <<"sha256">> /\ Base(1) = Due(0) /\ Base(2) = <<"sha256">>
  BY DEF Base, Iv
<1>5. /\ Append(Base(0), Whole(BlockOf[0])) = Due(0)
      /\ Append(Base(1), Whole(BlockOf[1])) = Due(1)
      /\ Append(Base(2), Whole(BlockOf[2])) = Due(2)
  BY <1>1, <1>2, <1>3, <1>4, ZenonT(20)
<1>. QED BY <1>5, SMTT(20)

\* No digest due is a mode, the reset value or a mixed sum.
LEMMA DueIsDigest ==
  ASSUME NEW k \in 0 .. 2
  PROVE  Due(k) # NoDigest
<1>1. Len(Due(k)) # 1
  BY DEF Due
<1>2. Len(NoDigest) = 1
  BY DEF NoDigest
<1>. QED BY <1>1, <1>2

(***************************************************************************)
(* What a clock cycle does, whatever is written.                           *)
(***************************************************************************)
LEMMA NextRoundType ==
  CtrlTypeOK =>
    NextRound \in 0 .. LastRound /\ (t_ctr < LastRound => NextRound = t_ctr + 1)
<1>. SUFFICES ASSUME NEW N \in Nat \ {0}, NEW a \in 0 .. N
              PROVE  (a + 1) % (N + 1) \in 0 .. N /\ (a < N => (a + 1) % (N + 1) = a + 1)
  BY LastRoundAssumption DEF CtrlTypeOK, NextRound
<1>. QED OBVIOUS

LEMMA CtrlType ==
  ASSUME CtrlTypeOK, NEW w, Tick(w)
  PROVE  CtrlTypeOK'
<1>1. CtrlTick(init_reg, next_reg) BY DEF Tick
<1>2. NextRound \in 0 .. LastRound /\ 0 \in 0 .. LastRound
  BY NextRoundType, LastRoundAssumption
<1>. QED BY <1>1, <1>2
     DEF CtrlTick, BeginRounds, StayIdle, Round, EndRounds, ctrlVars, CtrlTypeOK

\* A cycle without a start pulse leaves a resting core as it is; the interrupt
\* is cleared if that was asked for.
LEMMA RestTick ==
  ASSUME NEW w, Tick(w), ~Pulse, AtRest
  PROVE  /\ Settled => Settled'
         /\ Unstarted => Unstarted'
         /\ H' = H /\ digest_reg' = digest_reg
         /\ core_digest_valid' = core_digest_valid
         /\ irq_reg' => irq_reg /\ ~irq_clr_reg
<1>1. CtrlTick(init_reg, next_reg) /\ DataTick /\ OutTick
  BY DEF Tick
<1>2. core_ready /\ ~init_reg /\ ~next_reg
  BY DEF AtRest, Settled, Unstarted, Pulse
<1>3. StayIdle(init_reg, next_reg)
  BY <1>1, <1>2 DEF CtrlTick, BeginRounds, Round, EndRounds, state_init, core_ready,
     state_update, digest_update
<1>4. H' = H
  BY <1>1, <1>2 DEF DataTick, digest_init, digest_update, core_ready
<1>5. /\ core_ready' /\ core_digest_valid' = core_digest_valid
  BY <1>3 DEF StayIdle, ctrlVars, core_ready
<1>6. digest_reg' = digest_reg
  BY <1>1 DEF OutTick, next_digest, AtRest, Settled, Unstarted
<1>7. ~irq_set
  BY DEF AtRest, Settled, Unstarted, irq_set, core_done
<1>. QED BY <1>1, <1>4, <1>5, <1>6, <1>7 DEF OutTick, next_irq, Settled, Unstarted,
         core_done, core_ready, AtRest

\* A cycle without a write at all.
LEMMA QuietBus ==
  ASSUME Tick(NoWrite)
  PROVE  /\ ~Pulse' /\ ~irq_clr_reg'
         /\ mode_reg' = mode_reg /\ (irq_en_reg' <=> irq_en_reg) /\ block_reg' = block_reg
BY DEF Tick, BusTick, NoWrite, Pulse

\* A cycle of a compression under way: each phase stays or gives way to the next.
LEMMA WaitTick ==
  ASSUME CtrlTypeOK, Tick(NoWrite), count0 \in 0 .. 2, count0' = count0,
         mode_reg = "sha256", irq_en_reg, ~irq_clr_reg,
         block_reg = Whole(BlockOf[count0])
  PROVE  /\ Started0 => Computing'
         /\ Computing => Computing' \/ Computed'
         /\ Computed => Shown'
         /\ Shown => Asking'
         /\ Asking => Asking'
<1>1. CtrlTick(init_reg, next_reg) /\ DataTick /\ OutTick
  BY DEF Tick
<1>2. /\ ready_reg' = core_ready /\ (digest_valid_reg' <=> core_digest_valid)
      /\ digest_reg' = next_digest /\ (core_done_d' <=> core_done)
      /\ irq_reg' <=> irq_reg \/ irq_set
  BY <1>1 DEF OutTick, next_irq
<1>3. ASSUME Started0 PROVE Computing'
  <2>1. Pulse /\ core_ready /\ (init_reg <=> count0 # 1)
    BY <1>3 DEF Started0, Pulse, AtRest, Settled, Unstarted
  <2>2. BeginRounds(init_reg, next_reg)
    BY <1>1, <2>1 DEF CtrlTick, StayIdle, Round, EndRounds, state_init, core_ready,
       state_update, digest_update, Pulse
  <2>3. H' = Base(count0) /\ a_h' = [chain |-> H', block |-> Whole(BlockOf[count0])]
    <3>1. CASE count0 = 1
      <4>1. H = Before(1) /\ ~init_reg
        BY <1>3, <2>1, <3>1 DEF Started0, AtRest
      <4>. QED BY <1>1, <2>1, <3>1, <4>1 DEF DataTick, digest_init, digest_update,
               state_init, core_ready, Base, Before, Pulse
    <3>2. CASE count0 # 1
      BY <1>1, <2>1, <3>2 DEF DataTick, digest_init, digest_update, state_init,
         core_ready, Base, Pulse
    <3>. QED BY <3>1, <3>2
  <2>4. ~irq_set /\ (core_done' => core_done)
    BY <1>2, <1>3 DEF Started0, AtRest, Settled, Unstarted, irq_set, core_done
  <2>5. sha256_ctrl' = "rounds" /\ t_ctr' = 0 /\ ~core_digest_valid'
    BY <2>2 DEF BeginRounds
  <2>6. ~irq_reg
    BY <1>3 DEF Started0
  <2>. QED BY <1>2, <2>3, <2>4, <2>5, <2>6, QuietBus DEF Computing
<1>4. ASSUME Computing PROVE Computing' \/ Computed'
  <2>1. ~irq_set /\ ~Pulse /\ ~core_digest_valid /\ ~irq_reg
    BY <1>4 DEF Computing, irq_set
  <2>2. CASE sha256_ctrl = "rounds"
    <3>1. Round
      BY <1>1, <2>2 DEF CtrlTick, BeginRounds, StayIdle, EndRounds, state_init,
         core_ready, digest_update
    <3>2. H' = H /\ a_h' = a_h
      BY <1>1, <2>2 DEF DataTick, digest_init, digest_update, state_init, core_ready
    <3>3. ~core_digest_valid' /\ ~core_done'
      BY <1>2, <2>1, <3>1 DEF Round, core_done
    <3>4. sha256_ctrl' \in {"rounds", "done"}
      BY <3>1 DEF Round
    <3>. QED BY <1>2, <1>4, <2>1, <3>2, <3>3, <3>4, QuietBus DEF Computing
  <2>3. CASE sha256_ctrl = "done"
    <3>1. EndRounds /\ ~core_done
      BY <1>1, <1>4, <2>3 DEF CtrlTick, BeginRounds, StayIdle, Round, state_init,
         core_ready, state_update, Computing
    <3>2. H' = Due(count0)
      <4>1. H' = Compress(H, a_h)
        BY <1>1, <2>3 DEF DataTick, digest_init, digest_update, core_ready
      <4>2. Compress(H, a_h) = Append(Base(count0), Whole(BlockOf[count0]))
        BY <1>4 DEF Compress, Computing
      <4>. QED BY <4>1, <4>2, DueIsNext
    <3>3. core_ready' /\ core_digest_valid' /\ ~core_done'
      BY <1>2, <2>1, <3>1 DEF EndRounds, core_ready, core_done
    <3>. QED BY <1>2, <2>1, <3>1, <3>2, <3>3, QuietBus DEF Computed
  <2>. QED BY <1>4, <2>2, <2>3 DEF Computing
<1>5. ASSUME core_ready, ~Pulse
      PROVE  H' = H /\ core_ready' /\ (core_digest_valid' <=> core_digest_valid)
  <2>1. StayIdle(init_reg, next_reg)
    BY <1>1, <1>5 DEF CtrlTick, BeginRounds, Round, EndRounds, state_init, core_ready,
       state_update, digest_update, Pulse
  <2>. QED BY <1>1, <1>5, <2>1 DEF DataTick, StayIdle, digest_init, digest_update,
           core_ready, ctrlVars, Pulse
<1>6. ASSUME Computed PROVE Shown'
  <2>1. ~irq_set
    BY <1>6 DEF Computed, irq_set
  <2>. QED BY <1>2, <1>5, <1>6, <2>1, QuietBus DEF Computed, Shown, next_digest, core_done
<1>7. ASSUME Shown PROVE Asking'
  <2>1. irq_set
    BY <1>7 DEF Shown, irq_set
  <2>. QED BY <1>2, <1>5, <1>7, <2>1, QuietBus DEF Shown, Asking, Settled, next_digest
<1>8. ASSUME Asking PROVE Asking'
  BY <1>2, <1>5, <1>8, QuietBus DEF Asking, Settled, next_digest, core_done
<1>. QED BY <1>3, <1>4, <1>6, <1>7, <1>8

-----------------------------------------------------------------------------
(***************************************************************************)
(* The steps of the program.                                               *)
(***************************************************************************)
LEMMA DriverInitInv == DriverInit => Inv
<1>. SUFFICES ASSUME DriverInit PROVE Inv
  OBVIOUS
<1>1. CtrlTypeOK
  <2>1. sha256_ctrl = "idle" /\ t_ctr = 0 /\ core_digest_valid = FALSE
    BY DEF DriverInit, ShaInit, CtrlInit
  <2>2. 0 \in 0 .. LastRound
    BY LastRoundAssumption
  <2>. QED BY <2>1, <2>2, Zenon DEF CtrlTypeOK
<1>2. CpuTypes /\ at = "ctrl0" /\ index = 0 /\ count0 = 0
  BY BlockAssumption, ReturnAssumption DEF DriverInit, CpuTypes, Index
<1>3. BlockInv
  BY <1>2 DEF DriverInit, ShaInit, BlockInv
<1>4. AtRest /\ ~Pulse /\ ~irq_reg
  BY <1>2 DEF DriverInit, ShaInit, CtrlInit, AtRest, Unstarted, core_ready, Pulse
<1>. QED BY <1>1, <1>2, <1>3, <1>4 DEF Inv, ProgramInv

\* A write that starts nothing, or none, of a program that is not waiting.
LEMMA RestStep ==
  ASSUME Inv, NEW w, Tick(w), at # "wait", count0' = count0
  PROVE  /\ CtrlTypeOK' /\ AtRest' /\ ~irq_reg'
         /\ H' = H /\ digest_reg' = digest_reg
         /\ core_digest_valid' = core_digest_valid
<1>1. AtRest /\ ~Pulse /\ (irq_reg => irq_clr_reg)
  BY DEF Inv, ProgramInv
<1>. QED BY <1>1, RestTick, CtrlType DEF Inv, AtRest

LEMMA ElsewhereInv == Inv /\ Elsewhere => Inv'
<1>. SUFFICES ASSUME Inv, Elsewhere PROVE Inv'
  OBVIOUS
<1>1. Tick(NoWrite) /\ UNCHANGED <<at, index, count0, got>>
  BY DEF Elsewhere
<1>2. CtrlTypeOK'
  BY <1>1, CtrlType DEF Inv
<1>3. CpuTypes'
  BY ReturnAssumption DEF Elsewhere, Inv, CpuTypes
<1>4. BlockInv'
  BY <1>1, QuietBus DEF Inv, BlockInv
<1>5. CASE at = "wait"
  <2>1. ProgramInv'
    BY <1>1, <1>5, WaitTick, QuietBus DEF Inv, CpuTypes, BlockInv, ProgramInv
  <2>. QED BY <1>2, <1>3, <1>4, <2>1 DEF Inv
<1>6. CASE at # "wait"
  <2>1. ProgramInv'
    BY <1>1, <1>6, RestStep, QuietBus DEF Inv, ProgramInv
  <2>. QED BY <1>2, <1>3, <1>4, <2>1 DEF Inv
<1>. QED BY <1>5, <1>6

LEMMA ClearControlInv == Inv /\ ClearControl => Inv'
<1>. SUFFICES ASSUME Inv, ClearControl PROVE Inv'
  OBVIOUS
<1>. DEFINE w == WriteCtrl(FALSE, FALSE, "sha224", FALSE)
<1>1. /\ Tick(w) /\ at \in {"ctrl0", "ctrl0_last"} /\ at' \in {"clr0", "block"}
      /\ UNCHANGED <<index, count0, gap, got>>
  BY DEF ClearControl
<1>2. ~Pulse' /\ block_reg' = block_reg
  BY <1>1 DEF Tick, BusTick, WriteCtrl, Pulse
<1>. HIDE DEF w
<1>3. CtrlTypeOK' /\ AtRest' /\ ~irq_reg'
  BY <1>1, RestStep
<1>4. index = 0
  BY <1>1 DEF Inv, BlockInv
<1>5. BlockInv'
  BY <1>1, <1>2, <1>4 DEF Inv, BlockInv
<1>. QED BY <1>1, <1>2, <1>3, <1>5 DEF Inv, CpuTypes, ProgramInv

LEMMA ClearInterruptInv == Inv /\ ClearInterrupt => Inv'
<1>. SUFFICES ASSUME Inv, ClearInterrupt PROVE Inv'
  OBVIOUS
<1>. DEFINE w == WriteIrqClr(TRUE)
<1>1. /\ Tick(w) /\ at \in {"ctrl0", "clr0"} /\ at' \in {"ctrl0_last", "block"}
      /\ UNCHANGED <<index, count0, gap, got>>
  BY DEF ClearInterrupt
<1>2. ~Pulse' /\ block_reg' = block_reg
  BY <1>1 DEF Tick, BusTick, WriteIrqClr, Pulse
<1>. HIDE DEF w
<1>3. CtrlTypeOK' /\ AtRest' /\ ~irq_reg'
  BY <1>1, RestStep
<1>4. index = 0
  BY <1>1 DEF Inv, BlockInv
<1>5. BlockInv'
  BY <1>1, <1>2, <1>4 DEF Inv, BlockInv
<1>. QED BY <1>1, <1>2, <1>3, <1>5 DEF Inv, CpuTypes, ProgramInv

\* The next word's index.
LEMMA NextIndex ==
  ASSUME NEW i \in Index
  PROVE  (i + 1) % BlockWords = IF i = BlockWords - 1 THEN 0 ELSE i + 1
<1>. SUFFICES ASSUME NEW N \in Nat \ {0}, NEW a \in 0 .. N - 1
              PROVE  (a + 1) % N = IF a = N - 1 THEN 0 ELSE a + 1
  BY BlockAssumption DEF Index
<1>1. CASE a = N - 1
  <2>1. N % N = 0 OBVIOUS
  <2>2. a + 1 = N BY <1>1
  <2>. QED BY <1>1, <2>1, <2>2
<1>2. CASE a # N - 1
  BY <1>2
<1>. QED BY <1>1, <1>2

LEMMA WriteBlockWordInv == Inv /\ WriteBlockWord => Inv'
<1>. SUFFICES ASSUME Inv, WriteBlockWord PROVE Inv'
  OBVIOUS
<1>. DEFINE w == WriteBlock(index, BlockOf[count0])
<1>1. /\ Tick(w) /\ at = "block"
      /\ index' = (index + 1) % BlockWords
      /\ at' = IF index = BlockWords - 1 THEN "go" ELSE "block"
      /\ UNCHANGED <<count0, gap, got>>
  BY DEF WriteBlockWord
<1>2. ~Pulse' /\ block_reg' = [block_reg EXCEPT ![index] = BlockOf[count0]]
  BY <1>1 DEF Tick, BusTick, WriteBlock, Pulse
<1>. HIDE DEF w
<1>3. CtrlTypeOK' /\ AtRest' /\ ~irq_reg'
  BY <1>1, RestStep
<1>4. /\ index \in Index /\ index \in Nat /\ BlockWords \in Nat \ {0}
      /\ index' = IF index = BlockWords - 1 THEN 0 ELSE index + 1
      /\ index' \in Index
  BY <1>1, NextIndex, BlockAssumption DEF Inv, CpuTypes, Index
<1>5. /\ DOMAIN block_reg' = Index /\ block_reg' = [i \in Index |-> block_reg'[i]]
      /\ \A i \in Index : block_reg'[i] = IF i = index THEN BlockOf[count0] ELSE block_reg[i]
  BY <1>2, <1>4 DEF Inv, BlockInv
<1>6. \A i \in 0 .. index : block_reg'[i] = BlockOf[count0]
  <2>. TAKE i \in 0 .. index
  <2>1. i \in Index
    BY <1>4 DEF Index
  <2>2. CASE i = index BY <1>5, <2>1, <2>2
  <2>3. CASE i # index
    <3>1. i \in 0 .. index - 1 BY <1>4, <2>3
    <3>2. block_reg'[i] = block_reg[i] BY <1>5, <2>1, <2>3
    <3>3. block_reg[i] = BlockOf[count0] BY <1>1, <3>1 DEF Inv, BlockInv
    <3>. QED BY <3>2, <3>3
  <2>. QED BY <2>2, <2>3
<1>7. BlockInv'
  <2>1. CASE index = BlockWords - 1
    <3>1. \A i \in Index : block_reg'[i] = BlockOf[count0]
      BY <1>6, <2>1 DEF Index
    <3>2. block_reg' = Whole(BlockOf[count0])
      BY <1>5, <3>1 DEF Whole
    <3>. QED BY <1>1, <1>4, <1>5, <2>1, <3>2 DEF BlockInv, Whole
  <2>2. CASE index # BlockWords - 1
    BY <1>1, <1>4, <1>5, <1>6, <2>2 DEF BlockInv
  <2>. QED BY <2>1, <2>2
<1>. QED BY <1>1, <1>2, <1>3, <1>4, <1>7 DEF Inv, CpuTypes, ProgramInv

LEMMA GoInv == Inv /\ Go => Inv'
<1>. SUFFICES ASSUME Inv, Go PROVE Inv'
  OBVIOUS
<1>. DEFINE w == WriteCtrl(count0 # 1, count0 = 1, "sha256", TRUE)
<1>1. /\ Tick(w) /\ at = "go" /\ at' = "wait"
      /\ UNCHANGED <<index, count0, gap, got>>
  BY DEF Go
<1>2. /\ init_reg' <=> count0 # 1
      /\ next_reg' <=> count0 = 1
      /\ mode_reg' = "sha256" /\ irq_en_reg' /\ ~irq_clr_reg' /\ block_reg' = block_reg
  BY <1>1 DEF Tick, BusTick, WriteCtrl
<1>. HIDE DEF w
<1>3. CtrlTypeOK' /\ AtRest' /\ ~irq_reg'
  BY <1>1, RestStep
<1>4. Started0'
  BY <1>1, <1>2, <1>3 DEF Started0
<1>5. BlockInv'
  BY <1>1, <1>2 DEF Inv, BlockInv
<1>. QED BY <1>1, <1>2, <1>3, <1>4, <1>5 DEF Inv, CpuTypes, ProgramInv

LEMMA TakeInterruptInv == Inv /\ TakeInterrupt => Inv'
<1>. SUFFICES ASSUME Inv, TakeInterrupt PROVE Inv'
  OBVIOUS
<1>. DEFINE w == WriteIrqClr(TRUE)
<1>1. /\ Tick(w) /\ at = "wait" /\ irq_reg
      /\ count0' = (count0 + 1) % 3 /\ gap' = 0 /\ index' = index
  BY DEF TakeInterrupt
<1>2. ~Pulse' /\ irq_clr_reg' /\ block_reg' = block_reg
  BY <1>1 DEF Tick, BusTick, WriteIrqClr, Pulse
<1>. HIDE DEF w
<1>3. Asking /\ count0 \in 0 .. 2
  BY <1>1 DEF Inv, CpuTypes, ProgramInv, Started0, Computing, Computed, Shown
<1>4. /\ count0 = 0 => at' = "ctrl0" /\ count0' = 1
      /\ count0 = 1 => at' = "read" /\ count0' = 2
      /\ count0 = 2 => at' = "return" /\ count0' = 0
  BY <1>1, <1>3 DEF TakeInterrupt
<1>5. CtrlTypeOK'
  BY <1>1, CtrlType DEF Inv
<1>6. Settled' /\ H' = H /\ core_digest_valid'
  <2>1. /\ CtrlTick(init_reg, next_reg) /\ DataTick /\ OutTick
    BY <1>1 DEF Tick
  <2>2. StayIdle(init_reg, next_reg) /\ H' = H
    BY <1>3, <2>1 DEF CtrlTick, BeginRounds, Round, EndRounds, state_init, core_ready,
       state_update, digest_update, Pulse, Asking, Settled, DataTick, digest_init
  <2>. QED BY <1>3, <2>1, <2>2 DEF OutTick, StayIdle, ctrlVars, next_digest, core_done,
           core_ready, Asking, Settled
<1>7. AtRest'
  <2>1. Before(count0') = Due(count0)
    BY <1>3, <1>4 DEF Before
  <2>. QED BY <1>3, <1>6, <2>1 DEF AtRest, Asking
<1>8. BlockInv'
  BY <1>1, <1>2, <1>3, <1>4 DEF Inv, BlockInv
<1>9. CpuTypes'
  BY <1>1, <1>3, <1>4, ReturnAssumption DEF Inv, CpuTypes
<1>. QED BY <1>1, <1>2, <1>3, <1>4, <1>5, <1>6, <1>7, <1>8, <1>9 DEF Inv, ProgramInv

LEMMA ReadDigestInv == Inv /\ ReadDigest => Inv'
<1>. SUFFICES ASSUME Inv, ReadDigest PROVE Inv'
  OBVIOUS
<1>1. /\ Tick(NoWrite) /\ at \in {"read", "result"} /\ at' = "ctrl0"
      /\ UNCHANGED <<index, count0, gap>>
  BY DEF ReadDigest
<1>2. CtrlTypeOK' /\ AtRest' /\ ~irq_reg'
  BY <1>1, RestStep
<1>3. BlockInv'
  BY <1>1, QuietBus DEF Inv, BlockInv
<1>. QED BY <1>1, <1>2, <1>3, QuietBus DEF Inv, CpuTypes, ProgramInv

LEMMA ReturnToMainInv == ASSUME ReturnCycles > 0 PROVE Inv /\ ReturnToMain => Inv'
<1>. SUFFICES ASSUME Inv, ReturnToMain PROVE Inv'
  OBVIOUS
<1>1. /\ Tick(NoWrite) /\ at = "return" /\ gap = ReturnCycles
      /\ at' = IF irq_reg THEN "wait" ELSE "result"
      /\ UNCHANGED <<index, count0, gap, got>>
  BY DEF ReturnToMain
<1>2. ~irq_reg
  BY <1>1, ReturnAssumption DEF Inv, ProgramInv
<1>3. /\ CtrlTypeOK' /\ AtRest' /\ ~irq_reg'
      /\ core_digest_valid' = core_digest_valid
  BY <1>1, RestStep
<1>4. BlockInv'
  BY <1>1, <1>2, QuietBus DEF Inv, BlockInv
<1>. QED BY <1>1, <1>2, <1>3, <1>4, QuietBus DEF Inv, CpuTypes, ProgramInv

LEMMA DriverNextInv == ASSUME ReturnCycles > 0 PROVE Inv /\ [DriverNext]_driverVars => Inv'
<1>. SUFFICES ASSUME Inv, [DriverNext]_driverVars PROVE Inv'
  OBVIOUS
<1>1. CASE UNCHANGED driverVars
  BY <1>1 DEF driverVars, shaVars, ctrlVars, busVars, outVars, dataVars, cpuVars, Inv,
     CtrlTypeOK, CpuTypes, BlockInv, ProgramInv, Pulse, AtRest, Settled, Unstarted,
     Started0, Computing, Computed, Shown, Asking, core_ready, core_done
<1>. QED BY <1>1, ElsewhereInv, ClearControlInv, ClearInterruptInv, WriteBlockWordInv,
        GoInv, TakeInterruptInv, ReadDigestInv, ReturnToMainInv DEF DriverNext, Cpu

\* The invariant the properties follow from.
THEOREM DriverInvariant == ASSUME ReturnCycles > 0 PROVE DriverSpec => []Inv
BY DriverInitInv, DriverNextInv, PTL DEF DriverSpec

-----------------------------------------------------------------------------
\* Whenever the CPU reads the digest, in the handler or in main(), it reads the
\* digest of the compressions that came before.
THEOREM DigestIsDue == ASSUME ReturnCycles > 0 PROVE DriverSpec => []ReadsDueDigest
<1>1. Inv => ReadsDueDigest
  BY DueIsDigest DEF Inv, ProgramInv, CpuTypes, AtRest, Settled, Unstarted, Before,
     ReadsDueDigest
<1>. QED BY <1>1, DriverInvariant, PTL

\* No start pulse meets a busy core, which would ignore it.
THEOREM PulsesAreTaken == ASSUME ReturnCycles > 0 PROVE DriverSpec => []PulseMeetsIdle
<1>1. Inv => PulseMeetsIdle
  BY DEF Inv, ProgramInv, Pulse, AtRest, Settled, Unstarted, Started0, Computing,
     Computed, Shown, Asking, PulseMeetsIdle
<1>. QED BY <1>1, DriverInvariant, PTL

-----------------------------------------------------------------------------
(***************************************************************************)
(* The contract: what Miner sees of the core.                              *)
(***************************************************************************)
JobBar == IF InFlight THEN PendingJob ELSE NoDigest
IrqBar == irq_reg \/ (irq_set /\ irq_en_reg)

LEMMA RestView == AtRest /\ ~Pulse => JobBar = NoDigest /\ (IrqBar <=> irq_reg)
BY DEF AtRest, Settled, Unstarted, Pulse, JobBar, InFlight, IrqBar, irq_set, core_done

LEMMA RestViewNext == (AtRest /\ ~Pulse => JobBar = NoDigest /\ (IrqBar <=> irq_reg))'
BY DEF AtRest, Settled, Unstarted, Pulse, JobBar, InFlight, IrqBar, irq_set, core_done

\* What the contract sees of a waiting program.
Viewed ==
  /\ Started0 \/ Computing \/ Computed => JobBar = Due(count0) /\ ~IrqBar
  /\ Shown \/ Asking => JobBar = NoDigest /\ IrqBar /\ digest_reg = Due(count0)

LEMMA WaitView == Inv /\ at = "wait" => Viewed
<1>. SUFFICES ASSUME Inv, at = "wait" PROVE Viewed
  OBVIOUS
<1>1. /\ mode_reg = "sha256" /\ irq_en_reg /\ block_reg = Whole(BlockOf[count0])
      /\ count0 \in 0 .. 2
  BY DEF Inv, ProgramInv, BlockInv, CpuTypes
<1>2. ASSUME Started0 PROVE JobBar = Due(count0) /\ ~IrqBar
  <2>1. Pulse /\ ~irq_reg /\ ~irq_set /\ (init_reg <=> count0 # 1)
    BY <1>2 DEF Started0, Pulse, AtRest, Settled, Unstarted, irq_set, core_done
  <2>2. count0 = 1 => H = Due(0)
    BY <1>2 DEF Started0, AtRest, Before
  <2>3. JobBar = Append(Base(count0), Whole(BlockOf[count0]))
    BY <1>1, <2>1, <2>2 DEF JobBar, InFlight, PendingJob, Pulse, Base
  <2>. QED BY <1>1, <2>1, <2>3, DueIsNext DEF IrqBar
<1>3. ASSUME Computing PROVE JobBar = Due(count0) /\ ~IrqBar
  <2>1. JobBar = Append(Base(count0), Whole(BlockOf[count0]))
    BY <1>3 DEF Computing, JobBar, InFlight, PendingJob, Pulse, Compress, core_ready,
       digest_update, state_update
  <2>2. ~IrqBar
    BY <1>3 DEF Computing, IrqBar, irq_set
  <2>. QED BY <1>1, <2>1, <2>2, DueIsNext
<1>4. ASSUME Computed PROVE JobBar = Due(count0) /\ ~IrqBar
  BY <1>4 DEF Computed, JobBar, InFlight, PendingJob, Pulse, IrqBar, irq_set,
     core_ready, digest_update, state_update
<1>5. ASSUME Shown \/ Asking PROVE JobBar = NoDigest /\ IrqBar /\ digest_reg = Due(count0)
  BY <1>1, <1>5 DEF Shown, Asking, Settled, JobBar, InFlight, Pulse, IrqBar, irq_set,
     core_done
<1>. QED BY <1>2, <1>3, <1>4, <1>5 DEF Viewed

LEMMA WaitViewNext == (Inv /\ at = "wait" => Viewed)'
BY WaitView, PTL

\* The digest shown while a compression is under way.
LEMMA WaitShows ==
  ASSUME Inv, at = "wait", NEW w, Tick(w)
  PROVE  /\ Started0 \/ Computing \/ Shown \/ Asking => digest_reg' = digest_reg
         /\ Computed => digest_reg' = Due(count0)
<1>1. digest_reg' = next_digest
  BY DEF Tick, OutTick
<1>. QED BY <1>1 DEF next_digest, Started0, AtRest, Settled, Unstarted, Computing,
         Computed, Shown, Asking

LEMMA RestContract ==
  ASSUME Inv, NEW w, Tick(w), at # "wait", at' # "wait", count0' = count0, Inv'
  PROVE  Contract!Acknowledge \/ UNCHANGED Contract!contractVars
<1>1. AtRest /\ ~Pulse /\ AtRest' /\ ~Pulse'
  BY DEF Inv, ProgramInv
<1>2. JobBar = NoDigest /\ (IrqBar <=> irq_reg) /\ JobBar' = NoDigest /\ (IrqBar' <=> irq_reg')
  BY <1>1, RestView, RestViewNext
<1>3. digest_reg' = digest_reg /\ ~irq_reg'
  BY RestStep
<1>. QED BY <1>2, <1>3 DEF Contract!Acknowledge, Contract!contractVars, JobBar, IrqBar

LEMMA WaitContract ==
  ASSUME Inv, Inv', at = "wait", Elsewhere
  PROVE  Contract!Finish \/ UNCHANGED Contract!contractVars
<1>1. /\ Tick(NoWrite) /\ at' = "wait" /\ count0' = count0 /\ count0 \in 0 .. 2
  BY DEF Elsewhere, Inv, CpuTypes
<1>2. /\ Started0 => Computing'
      /\ Computing => Computing' \/ Computed'
      /\ Computed => Shown'
      /\ Shown => Asking'
      /\ Asking => Asking'
  BY <1>1, WaitTick DEF Inv, BlockInv, ProgramInv
<1>3. /\ Started0' \/ Computing' \/ Computed' => JobBar' = Due(count0) /\ ~IrqBar'
      /\ Shown' \/ Asking' => JobBar' = NoDigest /\ IrqBar' /\ digest_reg' = Due(count0)
  BY <1>1, WaitViewNext DEF Viewed
<1>4. CASE Started0 \/ Computing
  <2>1. JobBar' = JobBar /\ ~IrqBar' /\ ~IrqBar /\ digest_reg' = digest_reg
    BY <1>1, <1>2, <1>3, <1>4, WaitView, WaitShows DEF Viewed
  <2>. QED BY <2>1 DEF Contract!contractVars, JobBar, IrqBar
<1>5. CASE Computed
  <2>1. /\ JobBar = Due(count0) /\ JobBar # NoDigest /\ JobBar' = NoDigest
        /\ digest_reg' = JobBar /\ IrqBar'
    BY <1>1, <1>2, <1>3, <1>5, WaitView, DueIsDigest DEF Viewed
  <2>. QED BY <2>1 DEF Contract!Finish, JobBar, IrqBar
<1>6. CASE Shown \/ Asking
  <2>1. JobBar' = JobBar /\ IrqBar' /\ IrqBar /\ digest_reg' = digest_reg
    BY <1>1, <1>2, <1>3, <1>6, WaitView, WaitShows DEF Viewed
  <2>. QED BY <2>1 DEF Contract!contractVars, JobBar, IrqBar
<1>. QED BY <1>4, <1>5, <1>6 DEF Inv, ProgramInv

LEMMA GoContract ==
  ASSUME Inv, Inv', Go
  PROVE  Contract!Begin
<1>. DEFINE w == WriteCtrl(count0 # 1, count0 = 1, "sha256", TRUE)
<1>1. Tick(w) /\ at = "go" /\ at' = "wait" /\ count0' = count0 /\ count0 \in 0 .. 2
  BY DEF Go, Inv, CpuTypes
<1>2. JobBar = NoDigest /\ ~IrqBar
  BY <1>1, RestView DEF Inv, ProgramInv
<1>3. Started0'
  <2>1. AtRest' /\ ~irq_reg'
    BY <1>1, RestStep
  <2>2. /\ init_reg' <=> count0 # 1
        /\ next_reg' <=> count0 = 1
    BY <1>1 DEF Tick, BusTick, WriteCtrl
  <2>. QED BY <1>1, <2>1, <2>2 DEF Started0
<1>4. JobBar' = Due(count0) /\ ~IrqBar'
  BY <1>1, <1>3, WaitViewNext DEF Viewed
<1>5. Due(count0) \in {Due(0), Due(1), Due(2)}
  BY <1>1
<1>6. digest_reg' = digest_reg
  BY <1>1, RestStep
<1>. QED BY <1>2, <1>4, <1>5, <1>6 DEF Contract!Begin, JobBar, IrqBar

LEMMA TakeContract ==
  ASSUME Inv, Inv', TakeInterrupt
  PROVE  UNCHANGED Contract!contractVars
<1>. DEFINE w == WriteIrqClr(TRUE)
<1>1. Tick(w) /\ at = "wait" /\ irq_reg /\ ~irq_clr_reg /\ at' # "wait"
  <2>1. at' # "wait"
    BY DEF TakeInterrupt, Inv, CpuTypes
  <2>. QED BY <2>1 DEF TakeInterrupt, Inv, ProgramInv
<1>2. Asking
  BY <1>1 DEF Inv, ProgramInv, Started0, Computing, Computed, Shown
<1>3. irq_reg'
  BY <1>1 DEF Tick, OutTick, next_irq
<1>4. JobBar' = NoDigest /\ (IrqBar' <=> irq_reg')
  BY <1>1, RestViewNext DEF Inv, ProgramInv
<1>5. JobBar = NoDigest /\ IrqBar
  BY <1>1, <1>2, WaitView DEF Viewed
<1>6. digest_reg' = digest_reg
  BY <1>1, <1>2, WaitShows
<1>. QED BY <1>3, <1>4, <1>5, <1>6 DEF Contract!contractVars, JobBar, IrqBar

LEMMA ContractStep ==
  ASSUME ReturnCycles > 0, Inv, Inv', [DriverNext]_driverVars
  PROVE  [Contract!Next]_Contract!contractVars
<1>1. CASE UNCHANGED driverVars
  BY <1>1 DEF driverVars, shaVars, ctrlVars, busVars, outVars, dataVars, Contract!contractVars,
     InFlight, PendingJob, core_ready, core_done, irq_set, digest_update, state_update
<1>2. CASE Elsewhere
  <2>1. Tick(NoWrite) /\ at' = at /\ count0' = count0
    BY <1>2 DEF Elsewhere
  <2>. QED BY <1>2, <2>1, WaitContract, RestContract DEF Contract!Next
<1>3. CASE ClearControl
  BY <1>3, RestContract DEF ClearControl, Contract!Next
<1>4. CASE ClearInterrupt
  BY <1>4, RestContract DEF ClearInterrupt, Contract!Next
<1>5. CASE WriteBlockWord
  BY <1>5, RestContract DEF WriteBlockWord, Contract!Next
<1>6. CASE Go
  BY <1>6, GoContract DEF Contract!Next
<1>7. CASE TakeInterrupt
  BY <1>7, TakeContract
<1>8. CASE ReadDigest
  BY <1>8, RestContract DEF ReadDigest, Contract!Next
<1>9. CASE ReturnToMain
  <2>1. ~irq_reg
    BY <1>9, ReturnAssumption DEF ReturnToMain, Inv, ProgramInv
  <2>. QED BY <1>9, <2>1, RestContract DEF ReturnToMain, Contract!Next
<1>. QED BY <1>1, <1>2, <1>3, <1>4, <1>5, <1>6, <1>7, <1>8, <1>9 DEF DriverNext, Cpu

\* Driver and peripheral do nothing that Miner's SHA_Init and Finish do not allow:
\* no start is lost, and a digest is shown whole, together with its interrupt.
THEOREM ImplementsContract == ASSUME ReturnCycles > 0 PROVE DriverSpec => Contract!Safety
<1>1. DriverInit => Contract!Init
  <2>. SUFFICES ASSUME DriverInit PROVE Contract!Init
    OBVIOUS
  <2>1. AtRest /\ ~Pulse /\ ~irq_reg /\ digest_reg = NoDigest
    BY DriverInitInv DEF Inv, ProgramInv, DriverInit, ShaInit
  <2>2. JobBar = NoDigest /\ ~IrqBar
    BY <2>1, RestView
  <2>3. digest_reg \notin {Due(0), Due(1), Due(2)}
    BY <2>1, DueIsDigest
  <2>. QED BY <2>2, <2>3 DEF Contract!Init, JobBar, IrqBar
<1>. QED BY <1>1, ContractStep, DriverInvariant, PTL DEF DriverSpec, Contract!Safety
=============================================================================
