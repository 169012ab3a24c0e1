--------------------------- MODULE MiningProofs ---------------------------
(***************************************************************************)
(* Theorems about what mining rests on: that the search skips no nonce,    *)
(* that every block a core is fed is the one the standard calls for, that  *)
(* the addresses main() and the handlers use reach the core or the word    *)
(* they mean and start no core that is at work, and that the PC tools and  *)
(* the firmware agree on the target and on every verdict.                  *)
(***************************************************************************)
EXTENDS MCMining, TLAPS, SequenceTheorems

(***************************************************************************)
(* Proofs, for every number of cores, every nonce space, every vector of   *)
(* first nonces and every set of winners.                                  *)
(*                                                                         *)
(* The only difficulty is the wrap: a step moves the distance of a cursor  *)
(* from its start on by one, or from the last one back to zero.  The       *)
(* lemmas on remainders say what the provers do not know of a modulus that *)
(* is not a number.                                                        *)
(***************************************************************************)
\* How far n lies past s, going round the nonce space.
Distance(n, s) == IF n >= s THEN n - s ELSE n - s + NonceSpan

\* The remainders a step meets.
LEMMA Remainders ==
  ASSUME NEW N \in Nat \ {0}, NEW a \in 0 .. N - 1
  PROVE  /\ a % N = a
         /\ a > 0 => (a - N) % N = a
         /\ N % N = 0
OBVIOUS

\* Passed measures a distance on the ring of nonces.
LEMMA DistanceIsMod ==
  ASSUME NEW n \in Nonce, NEW s \in Nonce
  PROVE  /\ (n - s) % NonceSpan = Distance(n, s)
         /\ Distance(n, s) \in 0 .. NonceSpan - 1
<1>1. NonceSpan \in Nat \ {0} BY SpanAssumption
<1>2. CASE n >= s
  <2>1. n - s \in 0 .. NonceSpan - 1 BY <1>1, <1>2 DEF Nonce
  <2>. QED BY <1>1, <1>2, <2>1, Remainders DEF Distance
<1>3. CASE n < s
  <2> DEFINE a == n - s + NonceSpan
  <2>1. a \in 0 .. NonceSpan - 1 /\ a > 0 /\ a - NonceSpan = n - s
    BY <1>1, <1>3 DEF Nonce
  <2>2. (a - NonceSpan) % NonceSpan = a
    BY <1>1, <2>1, Remainders
  <2>. QED BY <1>1, <1>3, <2>1, <2>2 DEF Distance, Nonce
<1>. QED BY <1>2, <1>3 DEF Nonce

\* The unsigned increment wraps.
LEMMA SuccWraps ==
  ASSUME NEW n \in Nonce
  PROVE  /\ Succ(n) = IF n = NonceSpan - 1 THEN 0 ELSE n + 1
         /\ Succ(n) \in Nonce
<1>1. NonceSpan \in Nat \ {0} BY SpanAssumption
<1>2. CASE n = NonceSpan - 1
  <2>1. n + 1 = NonceSpan BY <1>1, <1>2
  <2>. QED BY <1>1, <1>2, <2>1, Remainders DEF Succ, Nonce
<1>3. CASE n # NonceSpan - 1
  <2>1. n + 1 \in 0 .. NonceSpan - 1 BY <1>1, <1>3 DEF Nonce
  <2>. QED BY <1>1, <1>3, <2>1, Remainders DEF Succ, Nonce
<1>. QED BY <1>2, <1>3

\* A step moves a cursor one further from where it began, or back there.
LEMMA DistanceGrows ==
  ASSUME NEW n \in Nonce, NEW s \in Nonce
  PROVE  Distance(Succ(n), s) = IF Distance(n, s) = NonceSpan - 1 THEN 0
                                ELSE Distance(n, s) + 1
BY SuccWraps, SpanAssumption DEF Distance, Nonce

\* Two nonces at the same distance are the same.
LEMMA DistanceDetermines ==
  ASSUME NEW m \in Nonce, NEW n \in Nonce, NEW s \in Nonce,
         Distance(m, s) = Distance(n, s)
  PROVE  m = n
BY SpanAssumption DEF Distance, Nonce

\* The cursors stay in the nonce space and the result names a core and a nonce.
THEOREM SearchTypeCorrect == Safety => []TypeOK
<1>1. Init => TypeOK
  BY StartAssumption DEF Init, TypeOK
<1>2. TypeOK /\ [Next]_searchVars => TypeOK'
  <2>. SUFFICES ASSUME TypeOK, [Next]_searchVars PROVE TypeOK'
    OBVIOUS
  <2>1. ASSUME NEW c \in Core, Accept(c) PROVE TypeOK'
    BY <2>1 DEF TypeOK, Accept
  <2>2. ASSUME NEW c \in Core, Reject(c) PROVE TypeOK'
    BY <2>2, SuccWraps DEF TypeOK, Reject
  <2>3. CASE UNCHANGED searchVars
    BY <2>3 DEF TypeOK, searchVars
  <2>. QED BY <2>1, <2>2, <2>3 DEF Next, Examine
<1>. QED BY <1>1, <1>2, PTL DEF Safety

\* The nonces passed, with the remainders evaluated.
LEMMA PassedByDistance ==
  ASSUME TypeOK, NEW c \in Core
  PROVE  Passed(c) = {n \in Nonce : Distance(n, Start[c]) < Distance(cursor[c], Start[c])}
<1>1. Start[c] \in Nonce /\ cursor[c] \in Nonce
  BY StartAssumption DEF TypeOK
<1>2. \A n \in Nonce : (n - Start[c]) % NonceSpan = Distance(n, Start[c])
  BY <1>1, DistanceIsMod
<1>. QED BY <1>1, <1>2 DEF Passed

\* NothingSkipped without remainders.
Skips ==
  \E c \in Core, n \in Winners :
    Distance(n, Start[c]) < Distance(cursor[c], Start[c])

LEMMA SkipsIsSkipped == TypeOK => (NothingSkipped <=> ~Skips)
BY PassedByDistance, WinnersAssumption DEF NothingSkipped, Skips

\* A nonce is behind a cursor after a step only if it was before, or is the one
\* the step rejected.
LEMMA SkipStep == TypeOK /\ ~Skips /\ [Next]_searchVars => ~Skips'
<1>. SUFFICES ASSUME TypeOK, [Next]_searchVars,
                     NEW d \in Core, NEW n \in Winners,
                     Distance(n, Start[d]) < Distance(cursor'[d], Start[d])
              PROVE  Skips
  BY DEF Skips
<1>1. CASE cursor' = cursor
  BY <1>1 DEF Skips
<1>2. ASSUME NEW c \in Core, Reject(c) PROVE Skips
  <2>1. n \in Nonce /\ Start[d] \in Nonce /\ cursor[d] \in Nonce
    BY StartAssumption, WinnersAssumption DEF TypeOK
  <2>2. CASE c # d
    BY <1>2, <2>2 DEF Reject, TypeOK, Skips
  <2>3. CASE c = d
    <3>1. cursor'[d] = Succ(cursor[d]) /\ n # cursor[d]
      BY <1>2, <2>3 DEF Reject, TypeOK
    <3>2. Distance(n, Start[d]) # Distance(cursor[d], Start[d])
      BY <2>1, <3>1, DistanceDetermines
    <3>3. /\ Distance(n, Start[d]) \in 0 .. NonceSpan - 1
          /\ Distance(cursor[d], Start[d]) \in 0 .. NonceSpan - 1
      BY <2>1, DistanceIsMod
    <3>4. Distance(cursor'[d], Start[d])
            = IF Distance(cursor[d], Start[d]) = NonceSpan - 1 THEN 0
              ELSE Distance(cursor[d], Start[d]) + 1
      BY <2>1, <3>1, DistanceGrows
    <3>5. Distance(n, Start[d]) < Distance(cursor[d], Start[d])
      BY <3>2, <3>3, <3>4, SpanAssumption
    <3>. QED BY <3>5 DEF Skips
  <2>. QED BY <2>2, <2>3
<1>. QED BY <1>1, <1>2 DEF Next, Examine, Accept, searchVars

\* No core moves past a nonce that is below the target, wherever its interval
\* begins and however intervals wrap: nounce<c>++ of mining.c may replace a list
\* of nonces still to do.
THEOREM NothingIsSkipped == Safety => []NothingSkipped
<1>1. Init => ~Skips
  BY StartAssumption, WinnersAssumption, DistanceIsMod DEF Init, Skips, Distance, Nonce
<1>2. Safety => [](TypeOK /\ ~Skips)
  BY <1>1, SkipStep, SearchTypeCorrect, PTL DEF Safety
<1>. QED BY <1>2, SkipsIsSkipped, PTL

-----------------------------------------------------------------------------
(***************************************************************************)
(* The bus, for every team of cores at work together, all ten among them.  *)
(*                                                                         *)
(* The accesses a job has left are a sequence over the accesses that land  *)
(* where they should; that they do is a matter of the address map alone    *)
(* and is shown once for every register and every word of a region.        *)
(***************************************************************************)
What == {"read", "write", "zero", "start"}

\* The accesses that are right in a job for core c.
Landing(c) == {x \in [at : Nat, what : What] : Bus!Lands(c, x)}

\* The slaves' address ranges.
LEMMA Decoded ==
  ASSUME NEW s \in Bus!Slaves, NEW a \in Nat
  PROVE  s \in Bus!Decode(a) <=> Bus!From(s) <= a /\ a < Bus!From(s) + Bus!Span(s)
<1>1. CASE s \in Bus!Cores
  BY <1>1, SMT DEF Bus!Decode, Bus!Slaves, Bus!From, Bus!Span, Bus!Cores,
     Bus!SDRAM, Bus!DEBUG, Bus!JTAG, Bus!ONCHIP_0, Bus!ONCHIP_1
<1>2. CASE s \in 10 .. 14
  BY <1>2, SMT DEF Bus!Decode, Bus!Slaves, Bus!From, Bus!Span, Bus!Cores,
     Bus!SDRAM, Bus!DEBUG, Bus!JTAG, Bus!ONCHIP_0, Bus!ONCHIP_1
<1>. QED BY <1>1, <1>2 DEF Bus!Slaves

\* No two slaves answer at an address.
LEMMA OneSlave ==
  ASSUME NEW s \in Bus!Slaves, NEW a \in Nat, s \in Bus!Decode(a)
  PROVE  Bus!Decode(a) = {s}
<1>1. ASSUME NEW r \in Bus!Slaves, r # s, r \in Bus!Decode(a) PROVE FALSE
  <2>1. /\ Bus!From(s) <= a /\ a < Bus!From(s) + Bus!Span(s)
        /\ Bus!From(r) <= a /\ a < Bus!From(r) + Bus!Span(r)
    BY <1>1, Decoded
  <2>. QED BY <1>1, <2>1, SMT DEF Bus!Slaves, Bus!From, Bus!Span, Bus!Cores
<1>2. Bus!Decode(a) \subseteq Bus!Slaves
  BY DEF Bus!Decode
<1>. QED BY <1>1, <1>2

\* The registers of the core.
LEMMA RegisterLands ==
  ASSUME NEW c \in Bus!Cores, NEW k \in {8} \cup (16 .. 31) \cup (32 .. 40), NEW w \in What
  PROVE  /\ Bus!At(Bus!SHA_BASE[c], k, w) \in Landing(c)
         /\ Bus!Word(c, Bus!At(Bus!SHA_BASE[c], k, w).at) = k
         /\ Bus!Decode(Bus!At(Bus!SHA_BASE[c], k, w).at) = {c}
<1> DEFINE a == Bus!SHA_BASE[c] + 4 * k
<1>1. Bus!SHA_BASE[c] = Bus!From(c) /\ Bus!From(c) \in Nat /\ Bus!Span(c) = 1024
  BY SMT DEF Bus!SHA_BASE, Bus!From, Bus!Span, Bus!Cores
<1>2. a \in Nat /\ Bus!From(c) <= a /\ a < Bus!From(c) + Bus!Span(c)
  BY <1>1, SMT
<1>3. c \in Bus!Slaves BY DEF Bus!Slaves
<1>4. Bus!Decode(a) = {c} BY <1>2, <1>3, Decoded, OneSlave
<1>5. Bus!Word(c, a) = k BY <1>1, SMT DEF Bus!Word
<1>. QED BY <1>2, <1>4, <1>5 DEF Landing, Bus!At, Bus!Lands

\* The words of a region, and those of the target.
LEMMA WordLands ==
  ASSUME NEW c \in Bus!Cores, NEW b \in 0 .. 47, NEW k \in 0 .. 47, b + k \in 0 .. 47,
         NEW w \in What
  PROVE  Bus!At(Bus!Region(c) + 4 * b, k, w) \in Landing(c)
<1> DEFINE a == Bus!Region(c) + 4 * b + 4 * k
<1>1. a = Bus!From(11) + 4 * (48 * c + b + k)
  BY SMT DEF Bus!Region, Bus!From, Bus!Cores, Bus!ONCHIP_MEMORY2_1_BASE, Bus!STORAGE_SIZE
<1>2. 48 * c + b + k \in 0 .. 479 BY SMT DEF Bus!Cores
<1>3. Bus!From(11) \in Nat /\ Bus!Span(11) = 262144 /\ 11 \in Bus!Slaves
  BY SMT DEF Bus!From, Bus!Span, Bus!Slaves, Bus!Cores
<1>4. a \in Nat /\ Bus!From(11) <= a /\ a < Bus!From(11) + Bus!Span(11)
  BY <1>1, <1>2, <1>3, SMT
<1>5. Bus!Decode(a) = {11} BY <1>3, <1>4, Decoded, OneSlave
<1>6. Bus!Word(11, a) = 48 * c + b + k BY <1>1, <1>2, <1>3, SMT DEF Bus!Word
<1>7. 4 * Bus!Word(11, a) < Bus!ONCHIP_MEMORY2_1_SPAN
  BY <1>2, <1>6, SMT DEF Bus!ONCHIP_MEMORY2_1_SPAN
<1>8. Bus!Word(11, a) - Bus!STORAGE_SIZE * c \in 0 .. Bus!STORAGE_SIZE - 1
  BY <1>6, SMT DEF Bus!STORAGE_SIZE, Bus!Cores
<1>. QED BY <1>4, <1>5, <1>7, <1>8 DEF Landing, Bus!At, Bus!Lands, Bus!ONCHIP_1

LEMMA TargetLands ==
  ASSUME NEW c \in Bus!Cores, NEW k \in 0 .. 7, NEW w \in What
  PROVE  Bus!At(Bus!Region(12), k, w) \in Landing(c)
<1> DEFINE a == Bus!Region(12) + 4 * k
<1>1. a = Bus!From(11) + 4 * (48 * 12 + k)
  BY SMT DEF Bus!Region, Bus!From, Bus!Cores, Bus!ONCHIP_MEMORY2_1_BASE, Bus!STORAGE_SIZE
<1>2. Bus!From(11) \in Nat /\ Bus!Span(11) = 262144 /\ 11 \in Bus!Slaves
  BY SMT DEF Bus!From, Bus!Span, Bus!Slaves, Bus!Cores
<1>3. a \in Nat /\ Bus!From(11) <= a /\ a < Bus!From(11) + Bus!Span(11)
  BY <1>1, <1>2, SMT
<1>4. Bus!Decode(a) = {11} BY <1>2, <1>3, Decoded, OneSlave
<1>5. Bus!Word(11, a) = 48 * 12 + k BY <1>1, <1>2, SMT DEF Bus!Word
<1>6. /\ 4 * Bus!Word(11, a) < Bus!ONCHIP_MEMORY2_1_SPAN
      /\ Bus!Word(11, a) - Bus!STORAGE_SIZE * 12 \in 0 .. 7
  BY <1>5, SMT DEF Bus!ONCHIP_MEMORY2_1_SPAN, Bus!STORAGE_SIZE
<1>. QED BY <1>3, <1>4, <1>6 DEF Landing, Bus!At, Bus!Lands, Bus!ONCHIP_1

\* What is left of a job for core c: accesses that land, the one that starts the
\* core last but one.
Job(c, n) ==
  {s \in Seq(Landing(c)) :
     /\ Len(s) <= n
     /\ \A k \in 1 .. Len(s) : s[k].what = "start" => k = Len(s) - 1}

\* Accesses that start nothing.
Quiet(c) == {x \in Landing(c) : x.what # "start"}

LEMMA QuietJob ==
  ASSUME NEW c \in Bus!Cores, NEW s \in Seq(Quiet(c))
  PROVE  s \in Job(c, Len(s))
<1>1. \A k \in 1 .. Len(s) : s[k] \in Quiet(c) BY ElementOfSeq
<1>2. s \in Seq(Landing(c)) BY <1>1 DEF Quiet
<1>. QED BY <1>1, <1>2 DEF Job, Quiet

\* A job follows accesses that start nothing.
LEMMA JobFollows ==
  ASSUME NEW c \in Bus!Cores, NEW n \in Nat, NEW s \in Seq(Quiet(c)), NEW t \in Job(c, n)
  PROVE  /\ s \o t \in Job(c, Len(s) + n)
         /\ Len(s \o t) = Len(s) + Len(t)
         /\ Len(s) > 0 => (s \o t)[1] = s[1]
<1>1. /\ \A k \in 1 .. Len(s) : s[k] \in Quiet(c)
      /\ s \in Seq(Landing(c)) /\ Len(s) \in Nat /\ t \in Seq(Landing(c)) /\ Len(t) \in Nat /\ Len(t) <= n
      /\ \A k \in 1 .. Len(t) : t[k].what = "start" => k = Len(t) - 1
  BY ElementOfSeq DEF Quiet, Job
<1>2. /\ s \o t \in Seq(Landing(c)) /\ Len(s \o t) = Len(s) + Len(t)
      /\ \A k \in 1 .. Len(s) + Len(t) : (s \o t)[k] = IF k <= Len(s) THEN s[k] ELSE t[k - Len(s)]
  BY <1>1, ConcatProperties
<1>3. ASSUME NEW k \in 1 .. Len(s \o t), (s \o t)[k].what = "start" PROVE k = Len(s \o t) - 1
  <2>1. CASE k <= Len(s)
    BY <1>1, <1>2, <1>3, <2>1 DEF Quiet
  <2>2. CASE k > Len(s)
    <3>1. k - Len(s) \in 1 .. Len(t) /\ t[k - Len(s)].what = "start"
      BY <1>1, <1>2, <1>3, <2>2
    <3>2. k - Len(s) = Len(t) - 1
      BY <1>1, <3>1
    <3>. QED BY <1>1, <1>2, <3>2
  <2>. QED BY <2>1, <2>2
<1>4. Len(s \o t) <= Len(s) + n
  BY <1>1, <1>2
<1>5. Len(s) > 0 => (s \o t)[1] = s[1]
  BY <1>1, <1>2
<1>. QED BY <1>2, <1>3, <1>4, <1>5 DEF Job

\* An access done: the rest is such a job.
LEMMA JobGoesOn ==
  ASSUME NEW c \in Bus!Cores, NEW n \in Nat, NEW s \in Job(c, n), s # <<>>
  PROVE  /\ Head(s) \in Landing(c) /\ Head(s) = s[1]
         /\ Tail(s) \in Job(c, n) /\ Len(Tail(s)) = Len(s) - 1 /\ Len(s) \in Nat \ {0}
<1> DEFINE r == Tail(s)
<1>1. /\ s \in Seq(Landing(c)) /\ Len(s) <= n /\ Len(s) \in Nat \ {0}
      /\ \A k \in 1 .. Len(s) : s[k].what = "start" => k = Len(s) - 1
  BY EmptySeq DEF Job
<1>2. /\ Head(s) \in Landing(c) /\ r \in Seq(Landing(c)) /\ Len(r) = Len(s) - 1
      /\ \A k \in 1 .. Len(r) : r[k] = s[k + 1]
  BY <1>1, HeadTailProperties
<1>3. Head(s) = s[1]
  BY <1>1
<1> HIDE DEF r
<1>4. ASSUME NEW k \in 1 .. Len(r), r[k].what = "start" PROVE k = Len(r) - 1
  <2>1. k + 1 \in 1 .. Len(s) /\ s[k + 1].what = "start"
    BY <1>1, <1>2, <1>4
  <2>2. k + 1 = Len(s) - 1
    BY <1>1, <2>1
  <2>. QED BY <1>1, <1>2, <2>2
<1>5. r \in Job(c, n)
  BY <1>1, <1>2, <1>4 DEF Job
<1>. QED BY <1>1, <1>2, <1>3, <1>5, Zenon DEF r

-----------------------------------------------------------------------------
(***************************************************************************)
(* The jobs of the firmware are such jobs.                                 *)
(***************************************************************************)
LEMMA QuietRegister ==
  ASSUME NEW c \in Bus!Cores, NEW k \in {8} \cup (16 .. 31) \cup (32 .. 40),
         NEW w \in What \ {"start"}
  PROVE  Bus!At(Bus!SHA_BASE[c], k, w) \in Quiet(c)
BY RegisterLands DEF Quiet, Bus!At

LEMMA QuietWord ==
  ASSUME NEW c \in Bus!Cores, NEW b \in 0 .. 47, NEW k \in 0 .. 47, b + k \in 0 .. 47,
         NEW w \in What \ {"start"}
  PROVE  Bus!At(Bus!Region(c) + 4 * b, k, w) \in Quiet(c)
BY WordLands DEF Quiet, Bus!At

\* SHA_Init on a block in the core's region.
LEMMA SHA_InitJob ==
  ASSUME NEW c \in Bus!Cores, NEW b \in {0, 16, 32}
  PROVE  /\ Bus!SHA_Init(Bus!SHA_BASE[c], Bus!Region(c) + 4 * b) \in Job(c, 36)
         /\ Len(Bus!SHA_Init(Bus!SHA_BASE[c], Bus!Region(c) + 4 * b)) = 36
<1> DEFINE base == Bus!SHA_BASE[c]
           area == Bus!Region(c) + 4 * b
           open == <<Bus!At(base, Bus!ADDR_CTRL, "zero"), Bus!At(base, Bus!ADDR_IRQ_CLR, "write")>>
           copy == [k \in 1 .. 32 |->
                      IF k % 2 = 1 THEN Bus!At(area, k \div 2, "read")
                      ELSE Bus!At(base, Bus!ADDR_BLOCK_START + (k \div 2) - 1, "write")]
           go == <<Bus!At(base, Bus!ADDR_CTRL, "start"), Bus!At(base, Bus!ADDR_CTRL, "read")>>
<1>1. Bus!SHA_Init(base, area) = open \o copy \o go
  BY DEF Bus!SHA_Init
<1>2. open \in Seq(Quiet(c)) /\ Len(open) = 2
  <2>1. /\ Bus!At(base, Bus!ADDR_CTRL, "zero") \in Quiet(c)
        /\ Bus!At(base, Bus!ADDR_IRQ_CLR, "write") \in Quiet(c)
    BY QuietRegister DEF What, Bus!ADDR_CTRL, Bus!ADDR_IRQ_CLR
  <2>. QED BY <2>1
<1>3. copy \in Seq(Quiet(c)) /\ Len(copy) = 32
  <2>1. ASSUME NEW k \in 1 .. 32 PROVE copy[k] \in Quiet(c)
    <3>1. CASE k % 2 = 1
      <4>1. k \div 2 \in 0 .. 15 /\ b + (k \div 2) \in 0 .. 47 /\ b \in 0 .. 47
        BY <3>1
      <4>. QED BY <3>1, <4>1, QuietWord DEF What
    <3>2. CASE k % 2 # 1
      <4>1. 16 + (k \div 2) - 1 \in 16 .. 31
        BY <3>2
      <4>. QED BY <3>2, <4>1, QuietRegister DEF What, Bus!ADDR_BLOCK_START
    <3>. QED BY <3>1, <3>2
  <2>. QED BY <2>1
<1>4. go \in Job(c, 2) /\ Len(go) = 2
  <2>1. /\ Bus!At(base, Bus!ADDR_CTRL, "start") \in Landing(c)
        /\ Bus!At(base, Bus!ADDR_CTRL, "read") \in Landing(c)
    BY RegisterLands DEF What, Bus!ADDR_CTRL
  <2>2. Bus!At(base, Bus!ADDR_CTRL, "read").what = "read"
    BY DEF Bus!At
  <2>. QED BY <2>1, <2>2 DEF Job
<1> HIDE DEF base, area, open, copy, go
<1>5. open \o copy \in Seq(Quiet(c)) /\ Len(open \o copy) = 34
  <2>1. open \o copy \in Seq(Quiet(c)) /\ Len(open \o copy) = Len(open) + Len(copy)
    BY <1>2, <1>3, ConcatProperties, Zenon
  <2>. QED BY <1>2, <1>3, <2>1
<1>6. /\ (open \o copy) \o go \in Job(c, Len(open \o copy) + 2)
      /\ Len((open \o copy) \o go) = Len(open \o copy) + Len(go)
  <2>1. 2 \in Nat OBVIOUS
  <2> DEFINE p == open \o copy
  <2>2. p \in Seq(Quiet(c)) BY <1>5
  <2> HIDE DEF p
  <2>3. p \o go \in Job(c, Len(p) + 2) /\ Len(p \o go) = Len(p) + Len(go)
    BY <1>4, <2>1, <2>2, JobFollows
  <2>. QED BY <2>3 DEF p
<1>7. Len(open \o copy) + 2 = 36 /\ Len(open \o copy) + Len(go) = 36
  BY <1>4, <1>5
<1>8. Bus!SHA_Init(base, area) \in Job(c, 36) /\ Len(Bus!SHA_Init(base, area)) = 36
  BY <1>1, <1>6, <1>7, Zenon
<1>. QED BY <1>8 DEF base, area

LEMMA read_digestQuiet ==
  ASSUME NEW c \in Bus!Cores
  PROVE  /\ Bus!read_digest(Bus!SHA_BASE[c], Bus!Digest(c)) \in Seq(Quiet(c))
         /\ Len(Bus!read_digest(Bus!SHA_BASE[c], Bus!Digest(c))) = 16
<1> DEFINE read(k) ==
      IF k % 2 = 1 THEN Bus!At(Bus!SHA_BASE[c], Bus!ADDR_DIGEST_START + (k \div 2), "read")
      ELSE Bus!At(Bus!Digest(c), (k \div 2) - 1, "write")
<1>1. ASSUME NEW k \in 1 .. 16 PROVE read(k) \in Quiet(c)
  <2>1. CASE k % 2 = 1
    <3>1. 32 + (k \div 2) \in 32 .. 40 BY <2>1
    <3>. QED BY <2>1, <3>1, QuietRegister DEF What, Bus!ADDR_DIGEST_START
  <2>2. CASE k % 2 # 1
    <3>1. (k \div 2) - 1 \in 0 .. 7 /\ 32 + ((k \div 2) - 1) \in 0 .. 47 BY <2>2
    <3>2. Bus!At(Bus!Region(c) + 4 * 32, (k \div 2) - 1, "write") \in Quiet(c)
      BY <3>1, QuietWord DEF What
    <3>. QED BY <2>2, <3>2 DEF Bus!Digest, Bus!BLOCK_HEADER_SIZE
  <2>. QED BY <2>1, <2>2
<1> HIDE DEF read
<1>2. [k \in 1 .. 16 |-> read(k)] \in Seq(Quiet(c)) /\ Len([k \in 1 .. 16 |-> read(k)]) = 16
  BY <1>1
<1>. QED BY <1>2 DEF read, Bus!read_digest

LEMMA QuietTarget ==
  ASSUME NEW c \in Bus!Cores, NEW k \in 0 .. 7
  PROVE  Bus!At(Bus!Region(12), k, "read") \in Quiet(c)
BY TargetLands DEF Quiet, Bus!At, What

\* The words of a digest in memory.
LEMMA QuietDigest ==
  ASSUME NEW c \in Bus!Cores, NEW k \in 0 .. 15, NEW w \in What \ {"start"}
  PROVE  Bus!At(Bus!Digest(c), k, w) \in Quiet(c)
<1>1. 32 + k \in 0 .. 47 /\ k \in 0 .. 47 /\ 32 \in 0 .. 47
  OBVIOUS
<1>2. Bus!At(Bus!Region(c) + 4 * 32, k, w) \in Quiet(c)
  BY <1>1, QuietWord
<1>. QED BY <1>2 DEF Bus!Digest, Bus!BLOCK_HEADER_SIZE

LEMMA padding_for_first_hashQuiet ==
  ASSUME NEW c \in Bus!Cores
  PROVE  /\ Bus!padding_for_first_hash(Bus!Digest(c)) \in Seq(Quiet(c))
         /\ Len(Bus!padding_for_first_hash(Bus!Digest(c))) = 8
<1> DEFINE pad(k) == Bus!At(Bus!Digest(c), k + 7, "write")
<1>1. ASSUME NEW k \in 1 .. 8 PROVE pad(k) \in Quiet(c)
  <2>1. k + 7 \in 0 .. 15 OBVIOUS
  <2>. QED BY <2>1, QuietDigest DEF What
<1> HIDE DEF pad
<1>2. [k \in 1 .. 8 |-> pad(k)] \in Seq(Quiet(c)) /\ Len([k \in 1 .. 8 |-> pad(k)]) = 8
  BY <1>1
<1>. QED BY <1>2 DEF pad, Bus!padding_for_first_hash

LEMMA reverse_byte_in_memoryQuiet ==
  ASSUME NEW c \in Bus!Cores
  PROVE  /\ Bus!reverse_byte_in_memory(Bus!Digest(c)) \in Seq(Quiet(c))
         /\ Len(Bus!reverse_byte_in_memory(Bus!Digest(c))) = 16
<1> DEFINE swap(k) == Bus!At(Bus!Digest(c), (k - 1) \div 2, IF k % 2 = 1 THEN "read" ELSE "write")
<1>1. ASSUME NEW k \in 1 .. 16 PROVE swap(k) \in Quiet(c)
  <2>1. (k - 1) \div 2 \in 0 .. 15 OBVIOUS
  <2>2. (IF k % 2 = 1 THEN "read" ELSE "write") \in What \ {"start"} BY DEF What
  <2>. QED BY <2>1, <2>2, QuietDigest
<1> HIDE DEF swap
<1>2. [k \in 1 .. 16 |-> swap(k)] \in Seq(Quiet(c)) /\ Len([k \in 1 .. 16 |-> swap(k)]) = 16
  BY <1>1
<1>. QED BY <1>2 DEF swap, Bus!reverse_byte_in_memory

LEMMA compareWithTargetQuiet ==
  ASSUME NEW c \in Bus!Cores
  PROVE  /\ Bus!compareWithTarget(Bus!Digest(c)) \in Seq(Quiet(c))
         /\ Len(Bus!compareWithTarget(Bus!Digest(c))) = 16
<1> DEFINE look(k) ==
      IF k % 2 = 1 THEN Bus!At(Bus!Digest(c), 7 - (k \div 2), "read")
      ELSE Bus!At(Bus!Region(12), (k \div 2) - 1, "read")
<1>1. ASSUME NEW k \in 1 .. 16 PROVE look(k) \in Quiet(c)
  <2>1. CASE k % 2 = 1
    <3>1. 7 - (k \div 2) \in 0 .. 15 BY <2>1
    <3>. QED BY <2>1, <3>1, QuietDigest DEF What
  <2>2. CASE k % 2 # 1
    <3>1. (k \div 2) - 1 \in 0 .. 7 BY <2>2
    <3>. QED BY <2>2, <3>1, QuietTarget
  <2>. QED BY <2>1, <2>2
<1> HIDE DEF look
<1>2. [k \in 1 .. 16 |-> look(k)] \in Seq(Quiet(c)) /\ Len([k \in 1 .. 16 |-> look(k)]) = 16
  BY <1>1
<1>. QED BY <1>2 DEF look, Bus!compareWithTarget

\* Quiet accesses one after the other.
LEMMA QuietConcat ==
  ASSUME NEW c \in Bus!Cores, NEW s \in Seq(Quiet(c)), NEW t \in Seq(Quiet(c))
  PROVE  /\ s \o t \in Seq(Quiet(c)) /\ Len(s \o t) = Len(s) + Len(t)
         /\ Len(s) > 0 => (s \o t)[1] = s[1]
<1>1. /\ s \o t \in Seq(Quiet(c)) /\ Len(s \o t) = Len(s) + Len(t)
      /\ Len(s) \in Nat /\ Len(t) \in Nat
      /\ \A k \in 1 .. Len(s) + Len(t) : (s \o t)[k] = IF k <= Len(s) THEN s[k] ELSE t[k - Len(s)]
  BY ConcatProperties
<1>. QED BY <1>1

\* The write that clears core c's request.
Clear(c) == Bus!At(Bus!SHA_BASE[c], Bus!ADDR_IRQ_CLR, "write")

LEMMA ClearQuiet ==
  ASSUME NEW c \in Bus!Cores
  PROVE  Clear(c) \in Quiet(c) /\ <<Clear(c)>> \in Seq(Quiet(c)) /\ Len(<<Clear(c)>>) = 1
<1>1. Clear(c) \in Quiet(c)
  BY QuietRegister DEF What, Clear, Bus!ADDR_IRQ_CLR
<1>. QED BY <1>1

\* A handler's job: it clears its core first, and starts it at its first two calls.
LEMMA HandlerJob ==
  ASSUME NEW c \in Bus!Cores, NEW k \in 0 .. 2
  PROVE  LET s == Bus!HandlerAccesses(c)[k + 1]
         IN  s \in Job(c, 61) /\ Len(s) > 0 /\ s[1] = Clear(c) /\ (k = 2 => Len(s) = 1)
<1> DEFINE clear == <<Clear(c)>>
<1>1. clear \in Seq(Quiet(c)) /\ Len(clear) = 1 /\ clear[1] = Clear(c)
  BY ClearQuiet
<1>2. CASE k = 0
  <2> DEFINE t == Bus!SHA_Init(Bus!SHA_BASE[c], Bus!Region(c) + 4 * 16)
  <2>1. t \in Job(c, 36) /\ Len(t) = 36 /\ t \in Seq(Landing(c))
    BY SHA_InitJob DEF Job
  <2>2. Bus!HandlerAccesses(c)[k + 1] = clear \o t
    BY <1>2 DEF Bus!HandlerAccesses, Clear, Bus!SHA_BLOCK_SIZE
  <2> HIDE DEF clear, t
  <2>3. clear \o t \in Job(c, Len(clear) + 36) /\ Len(clear \o t) = Len(clear) + Len(t)
    BY <1>1, <2>1, JobFollows
  <2>4. (clear \o t)[1] = clear[1]
    <3>1. Len(clear) > 0 BY <1>1
    <3>2. 36 \in Nat OBVIOUS
    <3>. QED BY <1>1, <2>1, <3>1, <3>2, JobFollows, Zenon
  <2>5. Len(clear) + 36 = 37 BY <1>1
  <2>6. clear \o t \in Job(c, 37) BY <2>3, <2>5, Zenon
  <2>. QED BY <1>1, <1>2, <2>1, <2>2, <2>3, <2>4, <2>6 DEF Job
<1>3. CASE k = 1
  <2> DEFINE d == Bus!Digest(c)
             q == Bus!read_digest(Bus!SHA_BASE[c], d)
             r == Bus!padding_for_first_hash(d)
             t == Bus!SHA_Init(Bus!SHA_BASE[c], d)
  <2>1. t \in Job(c, 36) /\ Len(t) = 36 /\ t \in Seq(Landing(c))
    BY SHA_InitJob DEF Job, Bus!Digest, Bus!BLOCK_HEADER_SIZE
  <2>2. /\ q \in Seq(Quiet(c)) /\ Len(q) = 16
        /\ r \in Seq(Quiet(c)) /\ Len(r) = 8
    BY read_digestQuiet, padding_for_first_hashQuiet
  <2>3. Bus!HandlerAccesses(c)[k + 1] = ((clear \o q) \o r) \o t
    BY <1>3 DEF Bus!HandlerAccesses, Clear
  <2> HIDE DEF clear, d, q, r, t
  <2> DEFINE p == clear \o q
             o == p \o r
  <2>4. p \in Seq(Quiet(c)) /\ Len(p) = 17 /\ p[1] = clear[1]
    <3>1. /\ p \in Seq(Quiet(c)) /\ Len(p) = Len(clear) + Len(q)
          /\ Len(clear) > 0 => p[1] = clear[1]
      BY <1>1, <2>2, QuietConcat
    <3> HIDE DEF p
    <3>. QED BY <1>1, <2>2, <3>1
  <2> HIDE DEF p
  <2>5. o \in Seq(Quiet(c)) /\ Len(o) = 25 /\ o[1] = p[1]
    <3>1. /\ o \in Seq(Quiet(c)) /\ Len(o) = Len(p) + Len(r)
          /\ Len(p) > 0 => o[1] = p[1]
      BY <2>2, <2>4, QuietConcat
    <3> HIDE DEF o
    <3>. QED BY <2>2, <2>4, <3>1
  <2> HIDE DEF o
  <2>6. o \o t \in Job(c, Len(o) + 36) /\ Len(o \o t) = Len(o) + Len(t)
    BY <2>1, <2>5, JobFollows
  <2>7. (o \o t)[1] = o[1]
    <3>1. Len(o) > 0 BY <2>5
    <3>2. 36 \in Nat OBVIOUS
    <3>. QED BY <2>1, <2>5, <3>1, <3>2, JobFollows, Zenon
  <2>8. Len(o) + 36 = 61 /\ Len(o) + Len(t) = 61 BY <2>1, <2>5
  <2>9. o \o t \in Job(c, 61) /\ Len(o \o t) = 61 BY <2>6, <2>8, Zenon
  <2>10. Bus!HandlerAccesses(c)[k + 1] = o \o t BY <2>3 DEF o, p
  <2>11. (o \o t)[1] = Clear(c) BY <1>1, <2>4, <2>5, <2>7, Zenon
  <2>12. Len(o \o t) > 0 BY <2>9
  <2>. QED BY <1>3, <2>9, <2>10, <2>11, <2>12, Zenon
<1>4. CASE k = 2
  <2>1. Bus!HandlerAccesses(c)[k + 1] = clear
    BY <1>4 DEF Bus!HandlerAccesses, Clear
  <2>2. clear \in Job(c, Len(clear))
    BY <1>1, QuietJob
  <2>. QED BY <1>1, <1>4, <2>1, <2>2 DEF Job
<1>. QED BY <1>2, <1>3, <1>4

\* main()'s job: it starts the core at its end.
LEMMA MainJob ==
  ASSUME NEW c \in Bus!Cores
  PROVE  Bus!MainAccesses(c) \in Job(c, 85) /\ Len(Bus!MainAccesses(c)) = 85
<1> DEFINE d == Bus!Digest(c)
           q == Bus!read_digest(Bus!SHA_BASE[c], d)
           r == Bus!reverse_byte_in_memory(d)
           e == Bus!compareWithTarget(d)
           n == <<Bus!At(Bus!Region(c), 19, "write")>>
           t == Bus!SHA_Init(Bus!SHA_BASE[c], Bus!Region(c))
<1>1. Bus!Region(c) = Bus!Region(c) + 4 * 0
  BY SMT DEF Bus!Region, Bus!ONCHIP_MEMORY2_1_BASE, Bus!STORAGE_SIZE, Bus!Cores
<1>2. t \in Job(c, 36) /\ Len(t) = 36
  BY <1>1, SHA_InitJob
<1>3. /\ q \in Seq(Quiet(c)) /\ Len(q) = 16
      /\ r \in Seq(Quiet(c)) /\ Len(r) = 16
      /\ e \in Seq(Quiet(c)) /\ Len(e) = 16
  BY read_digestQuiet, reverse_byte_in_memoryQuiet, compareWithTargetQuiet
<1>4. n \in Seq(Quiet(c)) /\ Len(n) = 1
  <2>1. Bus!At(Bus!Region(c) + 4 * 0, 19, "write") \in Quiet(c)
    BY QuietWord DEF What
  <2>. QED BY <1>1, <2>1
<1>5. Bus!MainAccesses(c) = (((q \o r) \o e) \o n) \o t
  BY DEF Bus!MainAccesses
<1> HIDE DEF d, q, r, e, n, t
<1> DEFINE p == q \o r
           o == p \o e
           m == o \o n
<1>6. p \in Seq(Quiet(c)) /\ Len(p) = 32
  <2>1. p \in Seq(Quiet(c)) /\ Len(p) = Len(q) + Len(r) BY <1>3, <1>3, QuietConcat
  <2> HIDE DEF p
  <2>. QED BY <1>3, <1>3, <2>1
<1> HIDE DEF p
<1>7. o \in Seq(Quiet(c)) /\ Len(o) = 48
  <2>1. o \in Seq(Quiet(c)) /\ Len(o) = Len(p) + Len(e) BY <1>6, <1>3, QuietConcat
  <2> HIDE DEF o
  <2>. QED BY <1>6, <1>3, <2>1
<1> HIDE DEF o
<1>8. m \in Seq(Quiet(c)) /\ Len(m) = 49
  <2>1. m \in Seq(Quiet(c)) /\ Len(m) = Len(o) + Len(n) BY <1>7, <1>4, QuietConcat
  <2> HIDE DEF m
  <2>. QED BY <1>7, <1>4, <2>1
<1> HIDE DEF m
<1>9. m \o t \in Job(c, Len(m) + 36) /\ Len(m \o t) = Len(m) + Len(t)
  BY <1>2, <1>8, JobFollows
<1>10. Len(m) + 36 = 85 /\ Len(m) + Len(t) = 85
  BY <1>2, <1>8
<1>11. m \o t \in Job(c, 85) /\ Len(m \o t) = 85
  BY <1>9, <1>10, Zenon
<1>. QED BY <1>5, <1>11 DEF m, o, p

-----------------------------------------------------------------------------
(***************************************************************************)
(* A core that is flagged rests until main() starts it: it neither works   *)
(* nor asks, except for the request its last handler is about to clear.    *)
(***************************************************************************)
BusTyped ==
  /\ team \in Teams \cap SUBSET Bus!Cores /\ working \subseteq team /\ requests \subseteq team
  /\ count \in [Bus!Cores -> 0 .. 2] /\ flags \subseteq team

JobOf(job, n) ==
  \/ job = Bus!Idle
  \/ job = <<job[1], job[2]>> /\ job[1] \in team /\ job[2] \in Job(job[1], n)

\* The handler is still to start its core: the core does not work, and its
\* request falls first.
HandlerStarts ==
  isr # Bus!Idle /\ Len(isr[2]) > 1 =>
    /\ isr[1] \notin working
    /\ isr[1] \in requests => isr[2][1] = Clear(isr[1])

\* main() has started the core it is at.
MainStarted(c) == main # Bus!Idle /\ main[1] = c /\ Len(main[2]) < 2

FlaggedRests ==
  \A c \in flags : MainStarted(c) \/
    /\ c \notin working
    /\ isr # Bus!Idle /\ isr[1] = c => Len(isr[2]) < 2
    /\ c \in requests => isr # Bus!Idle /\ isr[1] = c /\ isr[2] # <<>> /\ isr[2][1] = Clear(c)

\* main() took the core when no request was left, and none comes before the start.
MainTook == main # Bus!Idle /\ ~(Len(main[2]) < 2) => main[1] \notin requests

BusInv ==
  /\ BusTyped /\ JobOf(isr, 61) /\ JobOf(main, 85)
  /\ working \cap requests = {}
  /\ main # Bus!Idle => main[1] \in flags
  /\ HandlerStarts /\ FlaggedRests /\ MainTook

\* An access of core c's job meets no other core.
LEMMA OnlyItsCore ==
  ASSUME NEW c \in Bus!Cores, NEW x \in Landing(c)
  PROVE  Bus!Cores \cap Bus!Decode(x.at) \subseteq {c}
<1>1. Bus!Decode(x.at) = {c} \/ Bus!Decode(x.at) = {11}
  BY DEF Landing, Bus!Lands, Bus!ONCHIP_1
<1>2. 11 \notin Bus!Cores BY DEF Bus!Cores
<1>. QED BY <1>1, <1>2

LEMMA ReachesItsCore ==
  ASSUME NEW c \in Bus!Cores, NEW x \in Landing(c), Bus!Reach(x)
  PROVE  /\ requests' \in {requests, requests \ {c}}
         /\ working' = working \/ (x.what = "start" /\ working' = working \cup {c})
         /\ x = Clear(c) => requests' = requests \ {c}
<1> DEFINE hit(k) == Bus!Hit(x, k)
<1>1. Bus!Cores \cap Bus!Decode(x.at) \subseteq {c}
  BY OnlyItsCore
<1>2. \A k : hit(k) = {} \/ hit(k) = {c}
  BY <1>1 DEF Bus!Hit
<1>3. x = Clear(c) => hit(40) = {c} /\ x.what = "write"
  <2>1. 40 \in {8} \cup (16 .. 31) \cup (32 .. 40) /\ "write" \in What BY DEF What
  <2>2. /\ Bus!Word(c, Clear(c).at) = 40
        /\ Bus!Decode(Clear(c).at) = {c}
    BY <2>1, RegisterLands DEF Clear, Bus!ADDR_IRQ_CLR
  <2>3. Clear(c).what = "write" BY DEF Clear, Bus!At
  <2>4. Bus!Hit(Clear(c), 40) = {c}
    BY <2>2, Zenon DEF Bus!Hit
  <2>. QED BY <2>3, <2>4
<1>4. /\ requests' = IF x.what = "write" THEN requests \ hit(40) ELSE requests
      /\ working' = IF x.what = "start" THEN working \cup hit(8) ELSE working
  BY DEF Bus!Reach, Bus!ADDR_IRQ_CLR, Bus!ADDR_CTRL
<1> HIDE DEF hit
<1>. QED BY <1>2, <1>3, <1>4

\* The first access of a job and what is left after it.
LEMMA NextAccess ==
  ASSUME NEW job, NEW n \in Nat, team \subseteq Bus!Cores, JobOf(job, n), Bus!Left(job)
  PROVE  /\ job[1] \in team /\ job = <<job[1], job[2]>> /\ job[2] \in Job(job[1], n)
         /\ Bus!Upcoming(job) \in Landing(job[1]) /\ Bus!Upcoming(job) = job[2][1]
         /\ Len(job[2]) \in Nat \ {0}
         /\ Bus!Upcoming(job).what = "start" => Len(job[2]) = 2
         /\ [job EXCEPT ![2] = Tail(@)] = <<job[1], Tail(job[2])>>
         /\ Tail(job[2]) \in Job(job[1], n) /\ Len(Tail(job[2])) = Len(job[2]) - 1
<1>1. /\ job[1] \in team /\ job = <<job[1], job[2]>> /\ job[2] \in Job(job[1], n)
      /\ job[2] # <<>> /\ job[1] \in Bus!Cores
  BY DEF Bus!Left, JobOf
<1>2. /\ Head(job[2]) \in Landing(job[1]) /\ Head(job[2]) = job[2][1]
      /\ Tail(job[2]) \in Job(job[1], n) /\ Len(Tail(job[2])) = Len(job[2]) - 1
      /\ Len(job[2]) \in Nat \ {0}
  BY <1>1, JobGoesOn
<1>3. job[2][1].what = "start" => Len(job[2]) = 2
  <2>1. \A k \in 1 .. Len(job[2]) : job[2][k].what = "start" => k = Len(job[2]) - 1
    BY <1>1 DEF Job
  <2>2. 1 \in 1 .. Len(job[2])
    BY <1>2
  <2>3. job[2][1].what = "start" => 1 = Len(job[2]) - 1
    BY <2>1, <2>2
  <2>. QED BY <1>2, <2>3
<1>4. [job EXCEPT ![2] = Tail(@)] = <<job[1], Tail(job[2])>>
  BY <1>1
<1>. QED BY <1>1, <1>2, <1>3, <1>4 DEF Bus!Upcoming

LEMMA BusInit == Bus!Init => BusInv
<1>. SUFFICES ASSUME Bus!Init PROVE BusInv
  OBVIOUS
<1>1. /\ team \in Teams \cap SUBSET Bus!Cores /\ working = team /\ requests = {} /\ flags = {}
      /\ main = <<>> /\ isr = <<>> /\ count = [c \in Bus!Cores |-> 0]
  BY InstancesAssumption DEF Bus!Init, Bus!Idle, Bus!TeamsAssumption
<1>. QED BY <1>1 DEF BusInv, BusTyped, JobOf, HandlerStarts, FlaggedRests, MainTook, Bus!Idle

LEMMA BusComplete ==
  ASSUME BusInv, NEW c \in Bus!Cores, Bus!Complete(c)
  PROVE  BusInv'
<1>1. /\ c \in working /\ working' = working \ {c} /\ requests' = requests \cup {c}
      /\ team' = team /\ count' = count /\ flags' = flags /\ main' = main /\ isr' = isr
  BY DEF Bus!Complete
<1>2. BusTyped'
  BY <1>1 DEF BusInv, BusTyped
<1>3. JobOf(isr, 61)' /\ JobOf(main, 85)'
  BY <1>1 DEF BusInv, JobOf
<1>4. (working \cap requests = {})' /\ (main # Bus!Idle => main[1] \in flags)'
  BY <1>1 DEF BusInv
<1>5. HandlerStarts'
  BY <1>1 DEF BusInv, HandlerStarts
<1>6. FlaggedRests'
  BY <1>1 DEF BusInv, FlaggedRests, MainStarted
<1>7. MainTook'
  BY <1>1 DEF BusInv, FlaggedRests, MainStarted, MainTook
<1>. QED BY <1>2, <1>3, <1>4, <1>5, <1>6, <1>7 DEF BusInv

LEMMA BusDispatch ==
  ASSUME BusInv, NEW c \in Bus!Cores, Bus!Dispatch(c)
  PROVE  BusInv'
<1> DEFINE s == Bus!HandlerAccesses(c)[count[c] + 1]
<1>1. /\ isr = Bus!Idle /\ isr' = <<c, s>>
      /\ count' = [count EXCEPT ![c] = (@ + 1) % 3]
      /\ flags' = IF count[c] = 2 THEN flags \cup {c} ELSE flags
      /\ team' = team /\ working' = working /\ requests' = requests /\ main' = main
  BY DEF Bus!Dispatch
<1>2. c \in requests
  <2>1. PICK d \in requests : Bus!SHA_IRQ[c] = Bus!Line(d)
    BY DEF Bus!Dispatch, Bus!Pending
  <2>2. d \in Bus!Cores BY DEF BusInv, BusTyped
  <2>3. Bus!SHA_IRQ[c] = c + 1 BY DEF Bus!SHA_IRQ, Bus!Cores
  <2>. QED BY <2>1, <2>2, <2>3 DEF Bus!Line, Bus!Cores
<1>3. c \in team /\ c \notin working /\ count[c] \in 0 .. 2
  BY <1>2 DEF BusInv, BusTyped
<1>4. s \in Job(c, 61) /\ Len(s) > 0 /\ s[1] = Clear(c) /\ (count[c] = 2 => Len(s) = 1)
  BY <1>3, HandlerJob
<1> HIDE DEF s
<1>4a. s # <<>>
  BY <1>4
<1>5. BusTyped'
  <2>1. (count[c] + 1) % 3 \in 0 .. 2 BY <1>3
  <2>. QED BY <1>1, <1>3, <2>1 DEF BusInv, BusTyped
<1>6. isr'[1] = c /\ isr'[2] = s /\ isr' # Bus!Idle
  BY <1>1 DEF Bus!Idle
<1>7. JobOf(isr, 61)'
  BY <1>1, <1>3, <1>4, <1>6 DEF JobOf
<1>8. JobOf(main, 85)'
  BY <1>1 DEF BusInv, JobOf
<1>9. (working \cap requests = {})' /\ (main # Bus!Idle => main[1] \in flags)'
  BY <1>1 DEF BusInv
<1>10. HandlerStarts'
  BY <1>1, <1>3, <1>4, <1>6 DEF HandlerStarts
<1>11. FlaggedRests'
  <2>. SUFFICES ASSUME NEW d \in flags', ~MainStarted(d)
                PROVE  /\ d \notin working
                       /\ isr'[1] = d => Len(isr'[2]) < 2
                       /\ d \in requests => isr'[1] = d /\ isr'[2] # <<>> /\ isr'[2][1] = Clear(d)
    BY <1>1, <1>6 DEF FlaggedRests, MainStarted
  <2>1. CASE d = c /\ count[c] = 2
    <3>1. Len(s) = 1 /\ s[1] = Clear(d) /\ isr'[1] = d /\ isr'[2] = s /\ d \notin working
      BY <1>3, <1>4, <1>6, <2>1
    <3>2. Len(s) < 2
      BY <3>1
    <3>. QED BY <1>4a, <3>1, <3>2
  <2>2. CASE d \in flags
    <3>1. d \notin working /\ d \notin requests
      BY <1>1, <2>2 DEF BusInv, FlaggedRests
    <3>. QED BY <1>2, <1>6, <3>1
  <2>. QED BY <1>1, <2>1, <2>2
<1>12. MainTook'
  BY <1>1 DEF BusInv, MainTook
<1>. QED BY <1>5, <1>7, <1>8, <1>9, <1>10, <1>11, <1>12 DEF BusInv

LEMMA BusTake ==
  ASSUME BusInv, NEW c \in Bus!Cores, Bus!Take(c)
  PROVE  BusInv'
<1> DEFINE s == Bus!MainAccesses(c)
<1>1. /\ isr = Bus!Idle /\ main = Bus!Idle /\ c \in flags /\ main' = <<c, s>>
      /\ team' = team /\ working' = working /\ requests' = requests
      /\ count' = count /\ flags' = flags /\ isr' = isr
  BY DEF Bus!Take
<1>2. s \in Job(c, 85) /\ Len(s) = 85
  BY MainJob
<1> HIDE DEF s
<1>3. BusTyped' /\ c \in team
  BY <1>1 DEF BusInv, BusTyped
<1>4. main'[1] = c /\ main'[2] = s /\ main' # Bus!Idle
  BY <1>1 DEF Bus!Idle
<1>5. JobOf(main, 85)'
  BY <1>1, <1>2, <1>3, <1>4 DEF JobOf
<1>6. JobOf(isr, 61)' /\ HandlerStarts'
  BY <1>1 DEF BusInv, JobOf, HandlerStarts
<1>7. (working \cap requests = {})' /\ (main # Bus!Idle => main[1] \in flags)'
  BY <1>1, <1>4 DEF BusInv
<1>8. FlaggedRests'
  BY <1>1 DEF BusInv, FlaggedRests, MainStarted
<1>9. MainTook'
  BY <1>1 DEF Bus!Take, Bus!Pending, MainTook
<1>. QED BY <1>3, <1>5, <1>6, <1>7, <1>8, <1>9 DEF BusInv

LEMMA BusIsrAccess ==
  ASSUME BusInv, Bus!IsrAccess
  PROVE  BusInv'
<1> DEFINE c == isr[1]
           s == isr[2]
           x == Bus!Upcoming(isr)
<1>1. /\ Bus!Left(isr) /\ Bus!Reach(x) /\ isr' = [isr EXCEPT ![2] = Tail(@)]
      /\ team' = team /\ count' = count /\ flags' = flags /\ main' = main
  BY DEF Bus!IsrAccess
<1>2. team \subseteq Bus!Cores /\ JobOf(isr, 61) /\ 61 \in Nat
  BY DEF BusInv, BusTyped
<1>3. /\ c \in team /\ s \in Job(c, 61) /\ x \in Landing(c) /\ x = s[1]
      /\ Len(s) \in Nat \ {0} /\ (x.what = "start" => Len(s) = 2)
      /\ isr' = <<c, Tail(s)>> /\ Tail(s) \in Job(c, 61) /\ Len(Tail(s)) = Len(s) - 1
  BY <1>1, <1>2, NextAccess
<1>4. /\ requests' \in {requests, requests \ {c}}
      /\ working' = working \/ (x.what = "start" /\ working' = working \cup {c})
      /\ x = Clear(c) => requests' = requests \ {c}
  BY <1>1, <1>2, <1>3, ReachesItsCore
<1>5. Len(s) > 1 => c \notin working /\ (c \in requests => x = Clear(c))
  BY <1>1, <1>3 DEF BusInv, HandlerStarts, Bus!Left
<1>6. Clear(c).what = "write"
  BY DEF Clear, Bus!At
<1>7. isr'[1] = c /\ isr'[2] = Tail(s) /\ isr' # Bus!Idle /\ isr # Bus!Idle
  BY <1>1, <1>3 DEF Bus!Idle, Bus!Left
<1> HIDE DEF c, s, x
<1>8. x.what = "start" => c \notin working /\ c \notin requests
  BY <1>3, <1>5, <1>6, SMTT(20)
<1>10. BusTyped'
  BY <1>1, <1>3, <1>4 DEF BusInv, BusTyped
<1>11. JobOf(isr, 61)'
  BY <1>1, <1>3, <1>7 DEF JobOf
<1>12. JobOf(main, 85)'
  BY <1>1 DEF BusInv, JobOf
<1>13. (working \cap requests = {})' /\ (main # Bus!Idle => main[1] \in flags)'
  BY <1>1, <1>4, <1>8 DEF BusInv
<1>14. HandlerStarts'
  <2>. SUFFICES ASSUME Len(Tail(s)) > 1
                PROVE  c \notin working' /\ c \notin requests'
    BY <1>7 DEF HandlerStarts
  <2>1. Len(s) > 2 BY <1>3
  <2>2. x.what # "start" BY <1>3, <2>1
  <2>. QED BY <1>3, <1>4, <1>5, <2>1, <2>2
<1>15. FlaggedRests'
  <2>. SUFFICES ASSUME NEW d \in flags, ~MainStarted(d)
                PROVE  /\ d \notin working'
                       /\ c = d => Len(Tail(s)) < 2
                       /\ d \notin requests'
    BY <1>1, <1>7 DEF FlaggedRests, MainStarted
  <2>1. /\ d \notin working
        /\ c = d => Len(s) < 2
        /\ d \in requests => c = d /\ x = Clear(d)
    BY <1>3, <1>7 DEF BusInv, FlaggedRests, c, s
  <2>2. c = d => Len(s) # 2
    BY <2>1
  <2>3. c = d => x.what # "start"
    BY <1>3, <2>2
  <2>. QED BY <1>3, <1>4, <2>1, <2>3
<1>16. MainTook'
  BY <1>1, <1>4 DEF BusInv, MainTook
<1>. QED BY <1>10, <1>11, <1>12, <1>13, <1>14, <1>15, <1>16 DEF BusInv

LEMMA BusIsrReturns ==
  ASSUME BusInv, Bus!IsrReturns
  PROVE  BusInv'
<1>1. /\ isr # Bus!Idle /\ isr[2] = <<>> /\ isr' = Bus!Idle
      /\ team' = team /\ working' = working /\ requests' = requests
      /\ count' = count /\ flags' = flags /\ main' = main
  BY DEF Bus!IsrReturns, Bus!Left
<1>2. BusTyped' /\ JobOf(isr, 61)' /\ JobOf(main, 85)'
  BY <1>1 DEF BusInv, BusTyped, JobOf
<1>3. (working \cap requests = {})' /\ (main # Bus!Idle => main[1] \in flags)'
  BY <1>1 DEF BusInv
<1>4. HandlerStarts'
  BY <1>1 DEF HandlerStarts
<1>5. FlaggedRests'
  BY <1>1 DEF BusInv, FlaggedRests, MainStarted
<1>6. MainTook'
  BY <1>1 DEF BusInv, MainTook
<1>. QED BY <1>2, <1>3, <1>4, <1>5, <1>6 DEF BusInv

LEMMA BusMainAccess ==
  ASSUME BusInv, Bus!MainAccess
  PROVE  BusInv'
<1> DEFINE c == main[1]
           s == main[2]
           x == Bus!Upcoming(main)
<1>1. /\ isr = Bus!Idle /\ Bus!Left(main) /\ Bus!Reach(x) /\ main' = [main EXCEPT ![2] = Tail(@)]
      /\ team' = team /\ count' = count /\ flags' = flags /\ isr' = isr
  BY DEF Bus!MainAccess
<1>2. requests = {}
  BY DEF Bus!MainAccess, Bus!Pending
<1>3. team \subseteq Bus!Cores /\ JobOf(main, 85) /\ 85 \in Nat
  BY DEF BusInv, BusTyped
<1>4. /\ c \in team /\ x \in Landing(c)
      /\ Len(s) \in Nat \ {0} /\ (x.what = "start" => Len(s) = 2)
      /\ main' = <<c, Tail(s)>> /\ Tail(s) \in Job(c, 85) /\ Len(Tail(s)) = Len(s) - 1
  BY <1>1, <1>3, NextAccess
<1>5. /\ requests' \in {requests, requests \ {c}}
      /\ working' = working \/ (x.what = "start" /\ working' = working \cup {c})
  BY <1>1, <1>3, <1>4, ReachesItsCore
<1>6. main'[1] = c /\ main'[2] = Tail(s) /\ main' # Bus!Idle /\ main # Bus!Idle
  BY <1>1, <1>4 DEF Bus!Idle, Bus!Left
<1>7. c \in flags
  BY <1>6 DEF BusInv
<1>8. requests' = {}
  BY <1>2, <1>5
<1>9. BusTyped'
  BY <1>1, <1>4, <1>5, <1>8 DEF BusInv, BusTyped
<1>10. JobOf(main, 85)'
  BY <1>1, <1>4, <1>6 DEF JobOf
<1>11. JobOf(isr, 61)' /\ HandlerStarts'
  BY <1>1 DEF BusInv, JobOf, HandlerStarts
<1>12. (working \cap requests = {})' /\ (main # Bus!Idle => main[1] \in flags)'
  BY <1>1, <1>6, <1>7, <1>8
<1>13. FlaggedRests'
  <2>. SUFFICES ASSUME NEW d \in flags, ~MainStarted(d)'
                PROVE  d \notin working'
    BY <1>1, <1>8 DEF FlaggedRests
  <2>1. CASE d = c
    <3>1. ~(Len(Tail(s)) < 2)
      BY <1>6, <2>1 DEF MainStarted
    <3>2. Len(s) > 2 /\ x.what # "start"
      BY <1>4, <3>1
    <3>3. ~MainStarted(d)
      BY <2>1, <3>2 DEF MainStarted
    <3>. QED BY <1>5, <3>2, <3>3 DEF BusInv, FlaggedRests
  <2>2. CASE d # c
    <3>1. ~MainStarted(d)
      BY <2>2 DEF MainStarted
    <3>. QED BY <1>5, <2>2, <3>1 DEF BusInv, FlaggedRests
  <2>. QED BY <2>1, <2>2
<1>14. MainTook'
  BY <1>8 DEF MainTook
<1>. QED BY <1>9, <1>10, <1>11, <1>12, <1>13, <1>14 DEF BusInv

LEMMA BusMainNext ==
  ASSUME BusInv, Bus!MainNext
  PROVE  BusInv'
<1>1. /\ isr = Bus!Idle /\ main # Bus!Idle /\ main' = Bus!Idle /\ flags' = flags \ {main[1]}
      /\ team' = team /\ working' = working /\ requests' = requests
      /\ count' = count /\ isr' = isr
  BY DEF Bus!MainNext
<1>2. BusTyped' /\ JobOf(isr, 61)' /\ JobOf(main, 85)'
  BY <1>1 DEF BusInv, BusTyped, JobOf
<1>3. (working \cap requests = {})' /\ (main # Bus!Idle => main[1] \in flags)'
  BY <1>1 DEF BusInv
<1>4. HandlerStarts'
  BY <1>1 DEF HandlerStarts
<1>5. FlaggedRests'
  BY <1>1 DEF BusInv, FlaggedRests, MainStarted
<1>6. MainTook'
  BY <1>1 DEF BusInv, MainTook
<1>. QED BY <1>2, <1>3, <1>4, <1>5, <1>6 DEF BusInv

LEMMA BusStep ==
  ASSUME BusInv, [Bus!Next]_busVars
  PROVE  BusInv'
<1>1. CASE UNCHANGED busVars
  BY <1>1 DEF busVars, BusInv, BusTyped, JobOf, HandlerStarts, FlaggedRests, MainStarted, MainTook
<1>2. CASE Bus!Next
  BY <1>2, BusComplete, BusDispatch, BusTake, BusIsrAccess, BusIsrReturns, BusMainAccess,
     BusMainNext DEF Bus!Next, Bus!Cpu
<1>. QED BY <1>1, <1>2

-----------------------------------------------------------------------------
(***************************************************************************)
(* The theorems, for the behaviours of the suite.                          *)
(***************************************************************************)
LEMMA MCStep ==
  ASSUME [MCNext]_mcVars
  PROVE  /\ unit' = unit /\ [Next]_searchVars
         /\ unit = "bus" => [Bus!Next]_busVars
         /\ unit # "bus" => UNCHANGED busVars
<1>1. ASSUME NEW c \in Core, SearchNext(c)
      PROVE  unit = "search" /\ unit' = unit /\ Next /\ UNCHANGED busVars
  BY <1>1 DEF SearchNext, Next
<1>2. CASE LayoutNext
  BY <1>2 DEF LayoutNext
<1>3. CASE PaddingNext
  BY <1>3 DEF PaddingNext
<1>4. CASE TargetNext
  BY <1>4 DEF TargetNext
<1>5. CASE PcNext
  BY <1>5 DEF PcNext
<1>6. CASE BusNext(Bus!Next)
  BY <1>6 DEF BusNext
<1>7. CASE UNCHANGED mcVars
  BY <1>7 DEF mcVars
<1>. QED BY <1>1, <1>2, <1>3, <1>4, <1>5, <1>6, <1>7 DEF MCNext

THEOREM BusInvariant == MCSpec => [](unit = "bus" => BusInv)
<1>1. MCInit => (unit = "bus" => BusInv)
  BY BusInit DEF MCInit
<1>2. (unit = "bus" => BusInv) /\ [MCNext]_mcVars => (unit = "bus" => BusInv)'
  BY MCStep, BusStep
<1>. QED BY <1>1, <1>2, PTL DEF MCSpec

\* What an access that starts a core meets: only the core of the job is started,
\* and only at its job's end, when it neither works nor asks.
LEMMA StartsMeetIdle ==
  ASSUME BusInv
  PROVE  Bus!StartsIdle
<1> DEFINE Met(job) == Bus!Starts(job) \cap (working \cup requests)
<1>1. team \subseteq Bus!Cores /\ 61 \in Nat /\ 85 \in Nat
  BY DEF BusInv, BusTyped
<1>2. ASSUME NEW job, NEW n \in Nat, JobOf(job, n), Bus!Starts(job) # {}
      PROVE  /\ Bus!Starts(job) \subseteq {job[1]} /\ job # Bus!Idle /\ Len(job[2]) = 2
             /\ Bus!Upcoming(job) = job[2][1] /\ Bus!Upcoming(job).what = "start"
  <2>1. Bus!Left(job) /\ Bus!Upcoming(job).what = "start"
        /\ Bus!Starts(job) = Bus!Hit(Bus!Upcoming(job), Bus!ADDR_CTRL)
    BY <1>2 DEF Bus!Starts
  <2>2. /\ job[1] \in Bus!Cores /\ Bus!Upcoming(job) \in Landing(job[1])
        /\ Bus!Upcoming(job) = job[2][1] /\ Len(job[2]) = 2
    BY <1>1, <1>2, <2>1, NextAccess
  <2>3. Bus!Hit(Bus!Upcoming(job), Bus!ADDR_CTRL) \subseteq {job[1]}
    BY <2>2, OnlyItsCore DEF Bus!Hit
  <2>. QED BY <2>1, <2>2, <2>3 DEF Bus!Left
<1>3. Met(isr) = {}
  <2>. SUFFICES ASSUME Bus!Starts(isr) # {}
                PROVE  isr[1] \notin working /\ isr[1] \notin requests
    BY <1>1, <1>2 DEF BusInv
  <2>1. /\ isr # Bus!Idle /\ Len(isr[2]) = 2 /\ isr[2][1].what = "start"
    BY <1>1, <1>2 DEF BusInv
  <2>2. isr[1] \notin working /\ (isr[1] \in requests => isr[2][1] = Clear(isr[1]))
    BY <2>1 DEF BusInv, HandlerStarts
  <2>3. Clear(isr[1]).what = "write"
    BY DEF Clear, Bus!At
  <2>. QED BY <2>1, <2>2, <2>3
<1>4. Met(main) = {}
  <2>. SUFFICES ASSUME Bus!Starts(main) # {}
                PROVE  main[1] \notin working /\ main[1] \notin requests
    BY <1>1, <1>2 DEF BusInv
  <2>1. main # Bus!Idle /\ Len(main[2]) = 2
    BY <1>1, <1>2 DEF BusInv
  <2>2. main[1] \in flags /\ ~MainStarted(main[1])
    BY <2>1 DEF BusInv, MainStarted
  <2>3. main[1] \notin working
    BY <2>2 DEF BusInv, FlaggedRests
  <2>4. main[1] \notin requests
    BY <2>1 DEF BusInv, MainTook
  <2>. QED BY <2>3, <2>4
<1>. QED BY <1>3, <1>4 DEF Bus!StartsIdle

\* Every access of the firmware reaches the register or the word it means, for
\* every team of cores at work together: the linker's map and the interconnect's
\* agree on each of the 12 registers and 56 words the jobs use; and no access that
\* starts a core meets it at work or with its request standing.
THEOREM EveryAccessIsRight == MCSpec => []AccessesLand
<1>1. (unit = "bus" => BusInv) => AccessesLand
  <2>. SUFFICES ASSUME BusInv PROVE Bus!TypeOK /\ Bus!EveryAccessLands /\ Bus!StartsIdle
    BY DEF AccessesLand
  <2>1. ASSUME NEW job, NEW n \in Nat, JobOf(job, n), Bus!Left(job)
        PROVE  Bus!Lands(job[1], Bus!Upcoming(job))
    BY <2>1, NextAccess DEF BusInv, BusTyped, Landing
  <2>2. Bus!EveryAccessLands
    <3>1. 61 \in Nat /\ 85 \in Nat OBVIOUS
    <3>. QED BY <2>1, <3>1 DEF BusInv, Bus!EveryAccessLands
  <2>3. Bus!TypeOK
    BY DEF BusInv, BusTyped, JobOf, Job, Bus!TypeOK
  <2>4. Bus!StartsIdle
    BY StartsMeetIdle
  <2>. QED BY <2>2, <2>3, <2>4
<1>. QED BY <1>1, BusInvariant, PTL

\* Whenever main() or a handler is about to start a core, by the write that reaches
\* its control register, that core is not computing and its last request is cleared,
\* however the ten of them interleave: no compression is cut short by a start.
THEOREM CoresStartIdle == MCSpec => [](unit = "bus" => Bus!StartsIdle)
<1>1. (unit = "bus" => BusInv) => (unit = "bus" => Bus!StartsIdle)
  BY StartsMeetIdle
<1>. QED BY <1>1, BusInvariant, PTL

\* The suite's search is the search.
THEOREM SuiteSkipsNothing == MCSpec => []NothingSkipped
<1>1. MCInit => Init
  BY DEF MCInit
<1>2. [MCNext]_mcVars => [Next]_searchVars
  BY MCStep
<1>. QED BY <1>1, <1>2, NothingIsSkipped, PTL DEF MCSpec, Safety

(***************************************************************************)
(* The blocks main() and the handlers feed the cores, for every set of     *)
(* started cores and every number of headers: the invariant says what lies *)
(* in the memory, the headers written so far and the target.               *)
(***************************************************************************)
\* The words main() has laid out: the header of every core that was written, ahead
\* of the words of the next one that the writing spoils, and the target.
Written(c) == pc = "run" \/ (pc \in {"nounce", "pad"} /\ c < next)

HeadersStand ==
  \A c \in Layout!Cores, w \in 0 .. 31 :
    Written(c) => mem[Layout!Region(c) + w] = Layout!HeaderWord(c, w)

HeaderBytes ==
  /\ \A k \in 0 .. 75 : header[k] = k + 1
  /\ pc = "pad" => \A k \in 76 .. 79 : header[k] = nounce[next][k - 75]

FedTyped == fed = [c \in Started |-> fed[c]]

LayoutInv ==
  /\ Layout!TypeOK /\ HeaderBytes /\ HeadersStand /\ (pc = "target" => next = 0)
  /\ pc # "run" => \A c \in Started : stage[c] = 0
  /\ FedTyped
  /\ Layout!TargetKept /\ Layout!BlocksAreStandard

LEMMA Addresses ==
  /\ \A c \in Layout!Cores : Layout!Region(c) = 48 * c
  /\ Layout!TARGET = 576 /\ Layout!Memory = 0 .. 584 /\ Layout!Cores = 0 .. 9
  /\ Started \subseteq 0 .. 9 /\ MaxTries \in Nat \ {0}
  /\ Layout!SHA_BLOCK_SIZE = 16 /\ Layout!BLOCK_HEADER_SIZE = 32
BY InstancesAssumption DEF Layout!Region, Layout!STORAGE_SIZE, Layout!TARGET, Layout!Memory, Layout!Cores,
   Layout!StartedAssumption, Layout!SHA_BLOCK_SIZE, Layout!BLOCK_HEADER_SIZE

OneByte == 0 .. 255

LEMMA FourBytes ==
  ASSUME NEW a \in OneByte, NEW b \in OneByte, NEW c \in OneByte, NEW d \in OneByte
  PROVE  <<a, b, c, d>> \in Layout!Word
BY DEF Layout!Word, OneByte

LEMMA PlainWords ==
  /\ Layout!Zero \in Layout!Word /\ Layout!Mark \in Layout!Word
  /\ \A w \in 0 .. 7 : Layout!TargetWord(w) \in Layout!Word
<1>1. 0 \in OneByte /\ 128 \in OneByte /\ 1 \in OneByte BY DEF OneByte
<1>2. ASSUME NEW w \in 0 .. 7 PROVE Layout!TargetWord(w) \in Layout!Word
  <2>1. 200 + w \in OneByte BY DEF OneByte
  <2> QED BY <1>1, <2>1, FourBytes DEF Layout!TargetWord
<1> QED BY <1>1, <1>2, FourBytes DEF Layout!Zero, Layout!Mark

\* The shift count, taken modulo 32, picks the byte that is meant.
LEMMA Remainder32 == ASSUME NEW q \in Int, NEW r \in 0 .. 31 PROVE (32 * q + r) % 32 = r
OBVIOUS

LEMMA NounceBytes ==
  ASSUME NEW n, NEW k \in 76 .. 79
  PROVE  Layout!NounceByte(n, k) = n[k - 75]
<1> DEFINE r == 8 * (79 - k)
<1>1. r \in 0 .. 31 /\ -38 \in Int /\ (3 - k - 76) * 8 = 32 * (-38) + r OBVIOUS
<1>2. r \div 8 = 79 - k /\ 4 - (79 - k) = k - 75 OBVIOUS
<1> HIDE DEF r
<1>3. Layout!Shift(k) = r BY <1>1, Remainder32 DEF Layout!Shift
<1>4. Layout!NounceByte(n, k) = n[4 - (r \div 8)] BY <1>3 DEF Layout!NounceByte
<1> QED BY <1>2, <1>4

LEMMA Typed ==
  ASSUME LayoutInv
  PROVE  /\ mem \in [Layout!Memory -> Layout!Word] /\ header \in [0 .. 79 -> 0 .. 255]
         /\ nounce \in [Layout!Cores -> Layout!Word] /\ next \in Layout!Cores
         /\ stage \in [Started -> 0 .. 4] /\ tries \in [Started -> 1 .. MaxTries]
         /\ fed = [c \in Started |-> fed[c]]
         /\ \A c \in Started : fed[c] \in [0 .. 15 -> Layout!Word] \/ (fed[c] = <<>> /\ stage[c] = 0)
         /\ \A c \in Layout!Cores, p \in 1 .. 4 : nounce[c][p] \in 0 .. 255
<1>1. /\ mem \in [Layout!Memory -> Layout!Word] /\ header \in [0 .. 79 -> 0 .. 255]
      /\ nounce \in [Layout!Cores -> Layout!Word] /\ next \in Layout!Cores
      /\ stage \in [Started -> 0 .. 4] /\ tries \in [Started -> 1 .. MaxTries]
      /\ \A c \in Started : fed[c] \in [0 .. 15 -> Layout!Word] \/ (fed[c] = <<>> /\ stage[c] = 0)
  BY Zenon DEF LayoutInv, Layout!TypeOK
<1>2. fed = [c \in Started |-> fed[c]] BY DEF LayoutInv, FedTyped
<1>3. ASSUME NEW c \in Layout!Cores, NEW p \in 1 .. 4 PROVE nounce[c][p] \in 0 .. 255
  <2>1. nounce[c] \in Layout!Word BY <1>1
  <2> QED BY <2>1, Zenon DEF Layout!Word
<1> QED BY <1>1, <1>2, <1>3, Zenon

LEMMA HeaderTyped == LayoutInv => \A k \in 0 .. 79 : header[k] \in 0 .. 255
<1>1. LayoutInv => header \in [0 .. 79 -> 0 .. 255] BY DEF LayoutInv, Layout!TypeOK
<1> QED BY <1>1

LEMMA LayoutStarts == Layout!Init => LayoutInv
<1> SUFFICES ASSUME Layout!Init PROVE LayoutInv OBVIOUS
<1> USE DEF Layout!Init
<1>1. Layout!TypeOK
  <2>1. mem \in [Layout!Memory -> Layout!Word]
    <3>1. <<222, 173, 190, 239>> \in Layout!Word
      <4>1. 222 \in OneByte /\ 173 \in OneByte /\ 190 \in OneByte /\ 239 \in OneByte BY DEF OneByte
      <4> QED BY <4>1, FourBytes
    <3> QED BY <3>1
  <2>2. header \in [0 .. 79 -> 0 .. 255] OBVIOUS
  <2>3. nounce \in [Layout!Cores -> Layout!Word]
    <3>1. ASSUME NEW c \in 0 .. 9 PROVE nounce[c] \in Layout!Word
      <4>1. nounce = Layout!StartNounce OBVIOUS
      <4>2. CASE c = 0
        <5>1. 0 \in OneByte BY DEF OneByte
        <5>2. nounce[c] = <<0, 0, 0, 0>>
          BY <4>1, <4>2 DEF Layout!StartNounce, Layout!Cores
        <5>3. <<0, 0, 0, 0>> \in Layout!Word BY <5>1, FourBytes
        <5> QED BY <5>2, <5>3, Zenon
      <4>3. CASE c = 1
        <5>1. 25 \in OneByte /\ 153 \in OneByte BY DEF OneByte
        <5>2. nounce[c] = <<25, 153, 153, 153>>
          BY <4>1, <4>3 DEF Layout!StartNounce, Layout!Cores
        <5>3. <<25, 153, 153, 153>> \in Layout!Word BY <5>1, FourBytes
        <5> QED BY <5>2, <5>3, Zenon
      <4>4. CASE c = 2
        <5>1. 51 \in OneByte BY DEF OneByte
        <5>2. nounce[c] = <<51, 51, 51, 51>>
          BY <4>1, <4>4 DEF Layout!StartNounce, Layout!Cores
        <5>3. <<51, 51, 51, 51>> \in Layout!Word BY <5>1, FourBytes
        <5> QED BY <5>2, <5>3, Zenon
      <4>5. CASE c = 3
        <5>1. 76 \in OneByte /\ 204 \in OneByte BY DEF OneByte
        <5>2. nounce[c] = <<76, 204, 204, 204>>
          BY <4>1, <4>5 DEF Layout!StartNounce, Layout!Cores
        <5>3. <<76, 204, 204, 204>> \in Layout!Word BY <5>1, FourBytes
        <5> QED BY <5>2, <5>3, Zenon
      <4>6. CASE c = 4
        <5>1. 102 \in OneByte BY DEF OneByte
        <5>2. nounce[c] = <<102, 102, 102, 102>>
          BY <4>1, <4>6 DEF Layout!StartNounce, Layout!Cores
        <5>3. <<102, 102, 102, 102>> \in Layout!Word BY <5>1, FourBytes
        <5> QED BY <5>2, <5>3, Zenon
      <4>7. CASE c = 5
        <5>1. 127 \in OneByte /\ 255 \in OneByte BY DEF OneByte
        <5>2. nounce[c] = <<127, 255, 255, 255>>
          BY <4>1, <4>7 DEF Layout!StartNounce, Layout!Cores
        <5>3. <<127, 255, 255, 255>> \in Layout!Word BY <5>1, FourBytes
        <5> QED BY <5>2, <5>3, Zenon
      <4>8. CASE c = 6
        <5>1. 51 \in OneByte /\ 147 \in OneByte BY DEF OneByte
        <5>2. nounce[c] = <<147, 51, 51, 51>>
          BY <4>1, <4>8 DEF Layout!StartNounce, Layout!Cores
        <5>3. <<147, 51, 51, 51>> \in Layout!Word BY <5>1, FourBytes
        <5> QED BY <5>2, <5>3, Zenon
      <4>9. CASE c = 7
        <5>1. 51 \in OneByte /\ 179 \in OneByte BY DEF OneByte
        <5>2. nounce[c] = <<179, 51, 51, 51>>
          BY <4>1, <4>9 DEF Layout!StartNounce, Layout!Cores
        <5>3. <<179, 51, 51, 51>> \in Layout!Word BY <5>1, FourBytes
        <5> QED BY <5>2, <5>3, Zenon
      <4>10. CASE c = 8
        <5>1. 204 \in OneByte BY DEF OneByte
        <5>2. nounce[c] = <<204, 204, 204, 204>>
          BY <4>1, <4>10 DEF Layout!StartNounce, Layout!Cores
        <5>3. <<204, 204, 204, 204>> \in Layout!Word BY <5>1, FourBytes
        <5> QED BY <5>2, <5>3, Zenon
      <4>11. CASE c = 9
        <5>1. 102 \in OneByte /\ 230 \in OneByte BY DEF OneByte
        <5>2. nounce[c] = <<230, 102, 102, 102>>
          BY <4>1, <4>11 DEF Layout!StartNounce, Layout!Cores
        <5>3. <<230, 102, 102, 102>> \in Layout!Word BY <5>1, FourBytes
        <5> QED BY <5>2, <5>3, Zenon
      <4> QED BY <4>2, <4>3, <4>4, <4>5, <4>6, <4>7, <4>8, <4>9, <4>10, <4>11
    <3> QED BY <3>1 DEF Layout!StartNounce, Layout!Cores
  <2>4. stage \in [Started -> 0 .. 4] /\ tries \in [Started -> 1 .. MaxTries]
    <3>1. 1 \in 1 .. MaxTries
      <4>1. MaxTries \in Nat \ {0} BY Addresses
      <4> QED BY <4>1
    <3>2. 0 \in 0 .. 4 OBVIOUS
    <3> QED BY <3>1, <3>2
  <2>5. pc \in {"target", "nounce", "pad", "run"} /\ next \in Layout!Cores BY Addresses
  <2>6. \A c \in Started : fed[c] = <<>> /\ stage[c] = 0 OBVIOUS
  <2> QED BY <2>1, <2>2, <2>3, <2>4, <2>5, <2>6 DEF Layout!TypeOK
<1>2. HeaderBytes BY DEF HeaderBytes
<1>3. HeadersStand BY DEF HeadersStand, Written
<1>4. Layout!TargetKept BY DEF Layout!TargetKept
<1>5. Layout!BlocksAreStandard BY DEF Layout!BlocksAreStandard
<1>6. FedTyped BY DEF FedTyped
<1> QED BY <1>1, <1>2, <1>3, <1>4, <1>5, <1>6 DEF LayoutInv

\* The header's word of a core depends on its nounce only.
LEMMA HeaderWords ==
  ASSUME Layout!TypeOK, NEW c \in Layout!Cores, NEW w \in 0 .. 31
  PROVE  Layout!HeaderWord(c, w) \in Layout!Word
<1>1. w < 19 => [p \in 1 .. 4 |-> 4 * w + p] \in Layout!Word BY DEF Layout!Word
<1>2. nounce[c] \in Layout!Word BY DEF Layout!TypeOK
<1>3. <<0, 0, 2, 128>> \in Layout!Word
  <2>1. 0 \in OneByte /\ 2 \in OneByte /\ 128 \in OneByte BY DEF OneByte
  <2> QED BY <2>1, FourBytes
<1> QED BY <1>1, <1>2, <1>3, PlainWords DEF Layout!HeaderWord

LEMMA StoreTargetStep == LayoutInv /\ Layout!StoreTarget => LayoutInv'
<1> SUFFICES ASSUME LayoutInv, Layout!StoreTarget PROVE LayoutInv' OBVIOUS
<1>1. /\ pc = "target" /\ pc' = "nounce" /\ UNCHANGED <<header, nounce, next, stage, fed, tries>>
      /\ mem' = [a \in Layout!Memory |->
                   IF a \in Layout!TARGET .. Layout!TARGET + 7 THEN Layout!TargetWord(a - Layout!TARGET)
                   ELSE IF a = Layout!TARGET + 8 THEN Layout!Zero ELSE mem[a]]
  BY DEF Layout!StoreTarget
<1>2. mem' \in [Layout!Memory -> Layout!Word]
  <2>1. ASSUME NEW a \in Layout!Memory PROVE mem'[a] \in Layout!Word
    <3>1. a - 576 \in 0 .. 7 => Layout!TargetWord(a - 576) \in Layout!Word BY PlainWords
    <3>2. a \in 0 .. 584 /\ mem[a] \in Layout!Word BY Addresses, Typed, Zenon
    <3> QED BY <1>1, <3>1, <3>2, PlainWords, Addresses
  <2> QED BY <1>1, <2>1
<1>3. Layout!TypeOK' BY <1>1, <1>2, Zenon DEF LayoutInv, Layout!TypeOK
<1>4. HeaderBytes' BY <1>1 DEF LayoutInv, HeaderBytes
<1>5. HeadersStand'
  <2>1. next' = 0 BY <1>1 DEF LayoutInv
  <2>2. \A c \in Layout!Cores : ~Written(c)' BY <1>1, <2>1, Addresses DEF Written
  <2> QED BY <2>2 DEF HeadersStand
<1>6. Layout!TargetKept' BY <1>1, Addresses DEF Layout!TargetKept
<1>7. Layout!BlocksAreStandard'
  BY <1>1 DEF LayoutInv, Layout!BlocksAreStandard
<1>8. FedTyped' BY <1>1 DEF LayoutInv, FedTyped
<1> QED BY <1>1, <1>3, <1>4, <1>5, <1>6, <1>7, <1>8 DEF LayoutInv

\* While main() sets things up no core has been fed.
LEMMA NobodyFed ==
  ASSUME LayoutInv, pc # "run", stage' = stage PROVE Layout!BlocksAreStandard'
BY DEF LayoutInv, Layout!BlocksAreStandard

LEMMA StoreNounceBytesStep == LayoutInv /\ Layout!StoreNounceBytes => LayoutInv'
<1> SUFFICES ASSUME LayoutInv, Layout!StoreNounceBytes PROVE LayoutInv' OBVIOUS
<1>1. /\ pc = "nounce" /\ pc' = "pad" /\ UNCHANGED <<mem, nounce, next, stage, fed, tries>>
      /\ header' = [k \in 0 .. 79 |-> IF k >= 76 THEN Layout!NounceByte(nounce[next], k) ELSE header[k]]
  BY DEF Layout!StoreNounceBytes
<1>2. nounce[next] \in [1 .. 4 -> 0 .. 255]
  <2>1. nounce[next] \in Layout!Word BY Typed, Zenon
  <2> QED BY <2>1 DEF Layout!Word
<1>3. \A k \in 76 .. 79 : header'[k] = nounce[next][k - 75] BY <1>1, NounceBytes
<1>4. \A k \in 0 .. 75 : header'[k] = header[k] BY <1>1
<1>5. header' \in [0 .. 79 -> 0 .. 255]
  <2>1. ASSUME NEW k \in 0 .. 79 PROVE header'[k] \in 0 .. 255
    <3>1. CASE k \in 76 .. 79
      <4>1. k - 75 \in 1 .. 4 BY <3>1
      <4> QED BY <1>2, <1>3, <3>1, <4>1
    <3>2. CASE k \in 0 .. 75
      <4>1. header'[k] = header[k] BY <1>4, <3>2
      <4>2. header[k] \in 0 .. 255 BY <3>2, HeaderTyped
      <4> QED BY <4>1, <4>2
    <3> QED BY <3>1, <3>2
  <2> QED BY <1>1, <2>1, Zenon
<1>6. Layout!TypeOK' BY <1>1, <1>5, Zenon DEF LayoutInv, Layout!TypeOK
<1>7. HeaderBytes' BY <1>1, <1>3, <1>4 DEF LayoutInv, HeaderBytes
<1>8. HeadersStand'
  <2> SUFFICES ASSUME NEW c \in Layout!Cores, NEW w \in 0 .. 31, Written(c)'
               PROVE  mem[Layout!Region(c) + w] = Layout!HeaderWord(c, w)
    BY <1>1 DEF HeadersStand, Layout!HeaderWord
  <2>1. Written(c) BY <1>1 DEF Written
  <2> QED BY <2>1 DEF LayoutInv, HeadersStand
<1>9. Layout!TargetKept' BY <1>1 DEF LayoutInv, Layout!TargetKept
<1>10. FedTyped' BY <1>1 DEF LayoutInv, FedTyped
<1> QED BY <1>1, <1>6, <1>7, <1>8, <1>9, <1>10, NobodyFed DEF LayoutInv

\* What Padding_Mem makes of a header is the standard's padding.
LEMMA PaddedHeader ==
  ASSUME LayoutInv, pc = "pad", NEW w \in 0 .. 31
  PROVE  Layout!PaddingMem(Layout!Region(next))[Layout!Region(next) + w] = Layout!HeaderWord(next, w)
<1>1. next \in 0 .. 9 /\ Layout!Region(next) = 48 * next BY Addresses, Typed, Zenon
<1> DEFINE a == 48 * next + w
<1>2. a \in Layout!Memory /\ a - 48 * next = w BY <1>1, Addresses
<1> HIDE DEF a
<1>3. Layout!PaddingMem(48 * next)[a] =
        IF w < 20 THEN [p \in 1 .. 4 |-> header[4 * w + p - 1]]
        ELSE IF w = 20 THEN Layout!Mark ELSE IF w = 31 THEN <<0, 0, 2, 128>> ELSE Layout!Zero
  BY <1>2 DEF Layout!PaddingMem
<1>4. CASE w < 19
  <2>1. ASSUME NEW p \in 1 .. 4 PROVE header[4 * w + p - 1] = 4 * w + p
    <3>1. 4 * w + p - 1 \in 0 .. 75 BY <1>4
    <3> QED BY <3>1 DEF LayoutInv, HeaderBytes
  <2>2. [p \in 1 .. 4 |-> header[4 * w + p - 1]] = [p \in 1 .. 4 |-> 4 * w + p] BY <2>1
  <2> QED BY <1>1, <1>3, <1>4, <2>2 DEF Layout!HeaderWord, a
<1>5. CASE w = 19
  <2>1. ASSUME NEW p \in 1 .. 4 PROVE header[4 * w + p - 1] = nounce[next][p]
    <3>1. 4 * w + p - 1 \in 76 .. 79 /\ (4 * w + p - 1) - 75 = p BY <1>5
    <3> QED BY <3>1 DEF LayoutInv, HeaderBytes
  <2>2. nounce[next] \in [1 .. 4 -> 0 .. 255]
    <3>1. nounce[next] \in Layout!Word BY Typed
    <3> QED BY <3>1 DEF Layout!Word
  <2>3. [p \in 1 .. 4 |-> header[4 * w + p - 1]] = nounce[next] BY <2>1, <2>2
  <2> QED BY <1>1, <1>3, <1>5, <2>3 DEF Layout!HeaderWord, a
<1>6. CASE w \in 20 .. 31 BY <1>1, <1>3, <1>6 DEF Layout!HeaderWord, a
<1> QED BY <1>4, <1>5, <1>6

LEMMA InitBlockHeaderStep == LayoutInv /\ Layout!InitBlockHeader => LayoutInv'
<1> SUFFICES ASSUME LayoutInv, Layout!InitBlockHeader PROVE LayoutInv' OBVIOUS
<1>1. /\ pc = "pad" /\ UNCHANGED <<header, nounce, stage, fed, tries>>
      /\ mem' = Layout!PaddingMem(Layout!Region(next))
      /\ \/ next = 9 /\ pc' = "run" /\ next' = next
         \/ next # 9 /\ pc' = "nounce" /\ next' = next + 1
  BY DEF Layout!InitBlockHeader
<1>2. next \in 0 .. 9 /\ Layout!Region(next) = 48 * next BY Addresses, Zenon DEF LayoutInv, Layout!TypeOK
<1>3. mem' = [a \in Layout!Memory |->
                LET w == a - 48 * next IN
                  IF w \notin 0 .. 63 THEN mem[a]
                  ELSE IF w < 20 THEN [p \in 1 .. 4 |-> header[4 * w + p - 1]]
                  ELSE IF w = 20 THEN Layout!Mark ELSE IF w = 31 THEN <<0, 0, 2, 128>> ELSE Layout!Zero]
  BY <1>1, <1>2 DEF Layout!PaddingMem
<1>4. mem' \in [Layout!Memory -> Layout!Word]
  <2>1. ASSUME NEW a \in Layout!Memory PROVE mem'[a] \in Layout!Word
    <3> DEFINE w == a - 48 * next
    <3>1. w \in Int BY <1>2, Addresses
    <3>2. mem[a] \in Layout!Word BY DEF LayoutInv, Layout!TypeOK
    <3>3. ASSUME w \in 0 .. 19 PROVE [p \in 1 .. 4 |-> header[4 * w + p - 1]] \in Layout!Word
      <4>1. ASSUME NEW p \in 1 .. 4 PROVE header[4 * w + p - 1] \in 0 .. 255
        <5>1. 4 * w + p - 1 \in 0 .. 79 BY <3>3
        <5> QED BY <5>1, HeaderTyped
      <4> QED BY <4>1, Zenon DEF Layout!Word
    <3>4. <<0, 0, 2, 128>> \in Layout!Word
      <4>1. 0 \in OneByte /\ 2 \in OneByte /\ 128 \in OneByte BY DEF OneByte
      <4> QED BY <4>1, FourBytes
    <3>5. mem'[a] = IF w \notin 0 .. 63 THEN mem[a]
                    ELSE IF w < 20 THEN [p \in 1 .. 4 |-> header[4 * w + p - 1]]
                    ELSE IF w = 20 THEN Layout!Mark ELSE IF w = 31 THEN <<0, 0, 2, 128>> ELSE Layout!Zero
      BY <1>3
    <3> HIDE DEF w
    <3> QED BY <3>1, <3>2, <3>3, <3>4, <3>5, PlainWords
  <2> QED BY <1>3, <2>1
<1>5. Layout!TypeOK'
  <2>1. pc' \in {"target", "nounce", "pad", "run"} /\ next' \in Layout!Cores BY <1>1, <1>2, Addresses
  <2> QED BY <1>1, <1>4, <2>1, Zenon DEF LayoutInv, Layout!TypeOK
<1>6. HeaderBytes' BY <1>1 DEF LayoutInv, HeaderBytes
<1>7. HeadersStand'
  <2> SUFFICES ASSUME NEW c \in Layout!Cores, NEW w \in 0 .. 31, Written(c)'
               PROVE  mem'[Layout!Region(c) + w] = Layout!HeaderWord(c, w)
    BY <1>1 DEF HeadersStand, Layout!HeaderWord
  <2>1. c \in 0 .. 9 /\ Layout!Region(c) = 48 * c BY Addresses
  <2>2. c <= next BY <1>1, <1>2, <2>1 DEF Written
  <2>3. CASE c = next BY <1>1, <2>3, PaddedHeader
  <2>4. CASE c < next
    <3> DEFINE a == 48 * c + w
    <3>1. a \in Layout!Memory /\ a - 48 * next \notin 0 .. 63 BY <1>2, <2>1, <2>4, Addresses
    <3> HIDE DEF a
    <3>2. mem'[a] = mem[a] BY <1>3, <3>1
    <3>3. Written(c) BY <1>1, <2>4 DEF Written
    <3> QED BY <2>1, <3>2, <3>3 DEF LayoutInv, HeadersStand, a
  <2> QED BY <1>2, <2>1, <2>2, <2>3, <2>4
<1>8. Layout!TargetKept'
  <2>1. ASSUME NEW w \in 0 .. 7 PROVE mem'[576 + w] = Layout!TargetWord(w)
    <3> DEFINE a == 576 + w
    <3>1. a \in Layout!Memory /\ a - 48 * next \notin 0 .. 63 BY <1>2, Addresses
    <3> HIDE DEF a
    <3>2. mem'[a] = mem[a] BY <1>3, <3>1
    <3> QED BY <1>1, <3>2, Addresses DEF LayoutInv, Layout!TargetKept, a
  <2> QED BY <2>1, Addresses DEF Layout!TargetKept
<1>9. FedTyped' BY <1>1 DEF LayoutInv, FedTyped
<1> QED BY <1>1, <1>5, <1>6, <1>7, <1>8, <1>9, NobodyFed DEF LayoutInv

\* A core is fed what lies in the memory.
LEMMA FedBlock ==
  ASSUME NEW c \in Started, NEW m \in [Layout!Memory -> Layout!Word],
         NEW base, NEW b \in {0, 16, 32}, base = Layout!Region(c) + b
  PROVE  /\ Layout!Block(m, base) \in [0 .. 15 -> Layout!Word]
         /\ \A k \in 0 .. 15 : Layout!Block(m, base)[k] = m[48 * c + b + k]
<1>1. c \in 0 .. 9 /\ base = 48 * c + b BY Addresses
<1>2. \A k \in 0 .. 15 : 48 * c + b + k \in Layout!Memory BY <1>1, Addresses
<1> QED BY <1>1, <1>2 DEF Layout!Block

\* The conjuncts of one core.
Fed(c) ==
  /\ stage[c] = 1 => \A k \in 0 .. 15 : fed[c][k] = Layout!HeaderWord(c, k)
  /\ stage[c] = 2 => \A k \in 0 .. 15 : fed[c][k] = Layout!HeaderWord(c, 16 + k)
  /\ stage[c] = 3 => /\ \A k \in 0 .. 7 : fed[c][k] = <<101, c, nounce[c][4], k>>
                     /\ \A k \in 8 .. 15 :
                          fed[c][k] = CASE k = 8  -> Layout!Mark
                                        [] k = 15 -> <<0, 0, 1, 0>>
                                        [] OTHER  -> Layout!Zero

LEMMA FedIs == Layout!BlocksAreStandard <=> \A c \in Started : Fed(c)
BY DEF Layout!BlocksAreStandard, Fed

LEMMA OthersFed ==
  ASSUME LayoutInv, NEW c \in Started, stage'[c] = stage[c], fed'[c] = fed[c], nounce'[c] = nounce[c]
  PROVE  Fed(c)'
<1>1. Fed(c) BY FedIs DEF LayoutInv
<1> QED BY <1>1 DEF Fed, Layout!HeaderWord

\* What a step of one core has to show: the words of the memory stay words, the
\* headers and the target stay where they are, and the block is the core's own.
LEMMA CoreStepKeeps ==
  ASSUME LayoutInv, pc = "run", NEW c \in Started, UNCHANGED <<header, pc, next>>,
         mem' \in [Layout!Memory -> Layout!Word], nounce' \in [Layout!Cores -> Layout!Word],
         \A d \in Layout!Cores : d # c => nounce'[d] = nounce[d],
         \A d \in Layout!Cores, w \in 0 .. 31 :
           d # c \/ w # 19 => mem'[48 * d + w] = mem[48 * d + w],
         mem'[48 * c + 19] = nounce'[c],
         \A w \in 0 .. 7 : mem'[576 + w] = mem[576 + w],
         NEW s \in 1 .. 4, stage' = [stage EXCEPT ![c] = s],
         tries' \in [Started -> 1 .. MaxTries],
         NEW f \in [0 .. 15 -> Layout!Word], fed' = [fed EXCEPT ![c] = f], Fed(c)'
  PROVE  LayoutInv'
<1>1. Layout!TypeOK'
  <2>1. stage' \in [Started -> 0 .. 4]
    <3>1. stage \in [Started -> 0 .. 4] BY Zenon DEF LayoutInv, Layout!TypeOK
    <3>2. s \in 0 .. 4 OBVIOUS
    <3> QED BY <3>1, <3>2
  <2>2. ASSUME NEW d \in Started
        PROVE  fed'[d] \in [0 .. 15 -> Layout!Word] \/ (fed'[d] = <<>> /\ stage'[d] = 0)
    <3>1. CASE d = c
      <4>0. fed = [e \in Started |-> fed[e]] BY Typed, Zenon
      <4>1. fed'[d] = f BY <3>1, <4>0
      <4> QED BY <4>1, SMTT(20)
    <3>2. CASE d # c
      <4>1. fed'[d] = fed[d] /\ stage'[d] = stage[d]
        <5>1. fed = [e \in Started |-> fed[e]] /\ stage \in [Started -> 0 .. 4] BY Typed, Zenon
        <5>2. fed'[d] = fed[d] BY <3>2, <5>1
        <5>3. stage'[d] = stage[d] BY <3>2, <5>1
        <5> QED BY <5>2, <5>3
      <4>2. fed[d] \in [0 .. 15 -> Layout!Word] \/ (fed[d] = <<>> /\ stage[d] = 0)
        BY Zenon DEF LayoutInv, Layout!TypeOK
      <4> QED BY <4>1, <4>2
    <3> QED BY <3>1, <3>2
  <2>3. /\ header' \in [0 .. 79 -> 0 .. 255] /\ pc' \in {"target", "nounce", "pad", "run"}
        /\ next' \in Layout!Cores
    BY Zenon DEF LayoutInv, Layout!TypeOK
  <2> QED BY <2>1, <2>2, <2>3, Zenon DEF Layout!TypeOK
<1>2. HeaderBytes' BY DEF LayoutInv, HeaderBytes
<1>3. HeadersStand'
  <2> SUFFICES ASSUME NEW d \in Layout!Cores, NEW w \in 0 .. 31
               PROVE  mem'[48 * d + w] = Layout!HeaderWord(d, w)'
    BY Addresses, SMTT(60) DEF HeadersStand
  <2>1. CASE d # c \/ w # 19
    <3>1. mem'[48 * d + w] = mem[48 * d + w] BY <2>1
    <3>2. mem[48 * d + w] = Layout!HeaderWord(d, w)
      BY Addresses DEF LayoutInv, HeadersStand, Written
    <3>3. Layout!HeaderWord(d, w)' = Layout!HeaderWord(d, w) BY <2>1 DEF Layout!HeaderWord
    <3> QED BY <3>1, <3>2, <3>3
  <2>2. CASE d = c /\ w = 19 BY <2>2 DEF Layout!HeaderWord
  <2> QED BY <2>1, <2>2, Zenon
<1>4. FedTyped'
  <2>1. fed = [d \in Started |-> fed[d]] BY Typed, Zenon
  <2> QED BY <2>1 DEF FedTyped
<1>5. Layout!TargetKept'
  <2>1. \A w \in 0 .. 7 : mem[576 + w] = Layout!TargetWord(w)
    BY Addresses DEF LayoutInv, Layout!TargetKept
  <2>2. \A w \in 0 .. 7 : mem'[576 + w] = Layout!TargetWord(w) BY <2>1
  <2> QED BY <2>2, Addresses DEF Layout!TargetKept
<1>6. Layout!BlocksAreStandard'
  <2>1. ASSUME NEW d \in Started PROVE Fed(d)'
    <3>1. CASE d # c
      <4>1. fed'[d] = fed[d] /\ stage'[d] = stage[d]
        <5>1. fed = [e \in Started |-> fed[e]] /\ stage \in [Started -> 0 .. 4] BY Typed
        <5>2. fed'[d] = fed[d] BY <3>1, <5>1
        <5>3. stage'[d] = stage[d] BY <3>1, <5>1
        <5> QED BY <5>2, <5>3
      <4>2. nounce'[d] = nounce[d] BY <3>1, Addresses
      <4> QED BY <4>1, <4>2, OthersFed
    <3> QED BY <3>1
  <2> QED BY <2>1 DEF Layout!BlocksAreStandard, Fed
<1> QED BY <1>1, <1>2, <1>3, <1>4, <1>5, <1>6 DEF LayoutInv

\* Where main()'s memory stays as it is and the nounces too.
LEMMA Undisturbed ==
  ASSUME LayoutInv, pc = "run", NEW c \in Started, UNCHANGED <<mem, nounce, tries>>
  PROVE  /\ mem' \in [Layout!Memory -> Layout!Word] /\ nounce' \in [Layout!Cores -> Layout!Word]
         /\ tries' \in [Started -> 1 .. MaxTries]
         /\ mem'[48 * c + 19] = nounce'[c]
         /\ c \in Layout!Cores
<1>1. c \in Layout!Cores /\ Layout!Region(c) = 48 * c BY Addresses
<1>2. mem[48 * c + 19] = Layout!HeaderWord(c, 19)
  BY <1>1 DEF LayoutInv, HeadersStand, Written
<1>3. Layout!HeaderWord(c, 19) = nounce[c] BY DEF Layout!HeaderWord
<1>4. /\ mem \in [Layout!Memory -> Layout!Word] /\ nounce \in [Layout!Cores -> Layout!Word]
      /\ tries \in [Started -> 1 .. MaxTries]
  BY Typed
<1> QED BY <1>1, <1>2, <1>3, <1>4

LEMMA HeaderAt ==
  ASSUME LayoutInv, pc = "run", NEW c \in Layout!Cores, NEW w \in 0 .. 31
  PROVE  mem[48 * c + w] = Layout!HeaderWord(c, w)
<1>1. Layout!Region(c) = 48 * c BY Addresses
<1>2. HeadersStand /\ Written(c) BY DEF LayoutInv, Written
<1> QED BY <1>1, <1>2 DEF HeadersStand

LEMMA HoldsNounce ==
  ASSUME LayoutInv, pc = "run", NEW c \in Layout!Cores PROVE mem[48 * c + 19] = nounce[c]
<1>1. 19 \in 0 .. 31 /\ ~(19 < 19) OBVIOUS
<1>2. mem[48 * c + 19] = Layout!HeaderWord(c, 19) BY <1>1, HeaderAt
<1> QED BY <1>2 DEF Layout!HeaderWord

LEMMA StartCoreStep == ASSUME LayoutInv, NEW c \in Started, Layout!StartCore(c) PROVE LayoutInv'
<1>1. /\ pc = "run" /\ UNCHANGED <<mem, header, nounce, pc, next, tries>>
      /\ fed' = [fed EXCEPT ![c] = Layout!Block(mem, Layout!Region(c))]
      /\ stage' = [stage EXCEPT ![c] = 1]
  BY DEF Layout!StartCore
<1> DEFINE f == Layout!Block(mem, Layout!Region(c))
<1>2. c \in Layout!Cores /\ Layout!Region(c) + 0 = Layout!Region(c) /\ Layout!Region(c) = 48 * c
  BY Addresses
<1>3. mem \in [Layout!Memory -> Layout!Word] BY DEF LayoutInv, Layout!TypeOK
<1>4. f \in [0 .. 15 -> Layout!Word] /\ \A k \in 0 .. 15 : f[k] = mem[48 * c + 0 + k]
  BY <1>2, <1>3, FedBlock
<1>5. \A k \in 0 .. 15 : 48 * c + 0 + k = 48 * c + k BY <1>2, Addresses
<1>6. \A k \in 0 .. 15 : f[k] = Layout!HeaderWord(c, k)
  <2> TAKE k \in 0 .. 15
  <2>1. k \in 0 .. 31 OBVIOUS
  <2>2. mem[48 * c + k] = Layout!HeaderWord(c, k) BY <1>1, <1>2, <2>1, HeaderAt
  <2> HIDE DEF f
  <2> QED BY <1>4, <1>5, <2>2
<1> HIDE DEF f
<1>7. fed'[c] = f /\ stage'[c] = 1 BY <1>1, Typed DEF f
<1>8. Fed(c)' BY <1>1, <1>6, <1>7 DEF Fed, Layout!HeaderWord
<1>9. fed' = [fed EXCEPT ![c] = f] BY <1>1 DEF f
<1>10. 1 \in 1 .. 4 OBVIOUS
<1> QED BY <1>1, <1>4, <1>8, <1>9, <1>10, Undisturbed, CoreStepKeeps

LEMMA AtWork == ASSUME LayoutInv, NEW c \in Started, stage[c] # 0 PROVE pc = "run"
BY DEF LayoutInv

LEMMA FirstInterruptStep ==
  ASSUME LayoutInv, NEW c \in Started, Layout!FirstInterrupt(c) PROVE LayoutInv'
<1>1. /\ stage[c] = 1 /\ UNCHANGED <<mem, header, nounce, pc, next, tries>>
      /\ fed' = [fed EXCEPT ![c] = Layout!Block(mem, Layout!Region(c) + 16)]
      /\ stage' = [stage EXCEPT ![c] = 2]
  BY Addresses DEF Layout!FirstInterrupt
<1>2. pc = "run" BY <1>1, AtWork
<1> DEFINE f == Layout!Block(mem, Layout!Region(c) + 16)
<1>3. c \in Layout!Cores /\ Layout!Region(c) = 48 * c BY Addresses
<1>4. mem \in [Layout!Memory -> Layout!Word] BY DEF LayoutInv, Layout!TypeOK
<1>5. f \in [0 .. 15 -> Layout!Word] /\ \A k \in 0 .. 15 : f[k] = mem[48 * c + 16 + k]
  BY <1>4, FedBlock
<1>6. \A k \in 0 .. 15 : 48 * c + 16 + k = 48 * c + (16 + k) /\ 16 + k \in 0 .. 31
  BY <1>3, Addresses
<1>7. \A k \in 0 .. 15 : f[k] = Layout!HeaderWord(c, 16 + k)
  <2> TAKE k \in 0 .. 15
  <2>1. mem[48 * c + (16 + k)] = Layout!HeaderWord(c, 16 + k) BY <1>2, <1>3, <1>6, HeaderAt
  <2> HIDE DEF f
  <2> QED BY <1>5, <1>6, <2>1
<1> HIDE DEF f
<1>8. fed'[c] = f /\ stage'[c] = 2 BY <1>1, Typed DEF f
<1>9. Fed(c)' BY <1>1, <1>7, <1>8 DEF Fed, Layout!HeaderWord
<1>10. fed' = [fed EXCEPT ![c] = f] BY <1>1 DEF f
<1>11. 2 \in 1 .. 4 OBVIOUS
<1> QED BY <1>1, <1>2, <1>5, <1>9, <1>10, <1>11, Undisturbed, CoreStepKeeps

\* A handler writes behind its core's header and before the next one's.
LEMMA WriteDigest ==
  ASSUME LayoutInv, NEW c \in Started, NEW n \in {8, 16}, NEW g \in [0 .. n - 1 -> Layout!Word],
         mem' = Layout!Write(Layout!Region(c) + 32, g)
  PROVE  /\ mem' \in [Layout!Memory -> Layout!Word]
         /\ \A d \in Layout!Cores, w \in 0 .. 31 : mem'[48 * d + w] = mem[48 * d + w]
         /\ \A w \in 0 .. 7 : mem'[576 + w] = mem[576 + w]
         /\ \A k \in 0 .. n - 1 : mem'[48 * c + 32 + k] = g[k]
<1>0. n \in Nat /\ n <= 16 OBVIOUS
<1>1. c \in 0 .. 9 /\ Layout!Region(c) = 48 * c BY Addresses, Zenon
<1>2. mem' = [a \in Layout!Memory |->
                IF a - (48 * c + 32) \in 0 .. n - 1 THEN g[a - (48 * c + 32)] ELSE mem[a]]
  BY <1>1 DEF Layout!Write
<1>3. mem' \in [Layout!Memory -> Layout!Word]
  <2>1. mem \in [Layout!Memory -> Layout!Word] BY Typed
  <2> QED BY <1>2, <2>1
<1>4. ASSUME NEW d \in Layout!Cores, NEW w \in 0 .. 31 PROVE mem'[48 * d + w] = mem[48 * d + w]
  <2> DEFINE a == 48 * d + w
  <2>1. d \in 0 .. 9 BY Addresses
  <2>2. a \in 0 .. 584 BY <2>1
  <2>3. ~(a - (48 * c + 32) \in 0 .. n - 1)
    <3>1. CASE d <= c BY <1>1, <2>1, <3>1
    <3>2. CASE d > c BY <1>0, <1>1, <2>1, <3>2
    <3> QED BY <1>1, <2>1, <3>1, <3>2
  <2> HIDE DEF a
  <2>4. a \in Layout!Memory BY <2>2, Addresses
  <2>5. mem'[a] = mem[a] BY <1>2, <2>3, <2>4
  <2> QED BY <2>5 DEF a
<1>5. ASSUME NEW w \in 0 .. 7 PROVE mem'[576 + w] = mem[576 + w]
  <2> DEFINE a == 576 + w
  <2>1. a \in 0 .. 584 /\ ~(a - (48 * c + 32) \in 0 .. n - 1) BY <1>0, <1>1
  <2> HIDE DEF a
  <2>2. mem'[a] = mem[a] BY <1>2, <2>1, Addresses, ZenonT(20)
  <2> QED BY <2>2 DEF a
<1>6. ASSUME NEW k \in 0 .. n - 1 PROVE mem'[48 * c + 32 + k] = g[k]
  <2> DEFINE a == 48 * c + 32 + k
  <2>1. a \in 0 .. 584 /\ a - (48 * c + 32) = k BY <1>0, <1>1
  <2> HIDE DEF a
  <2>2. mem'[a] = g[k] BY <1>2, <2>1, Addresses
  <2> QED BY <2>2 DEF a
<1> QED BY <1>3, <1>4, <1>5, <1>6

LEMMA Digests ==
  ASSUME LayoutInv, NEW c \in Started, NEW r \in {1, 2}, NEW w \in 0 .. 7
  PROVE  /\ Layout!Digest(c, r)[w] = <<100 + r, c, nounce[c][4], w>>
         /\ Layout!Digest(c, r)[w] \in Layout!Word
<1>1. c \in OneByte /\ 100 + r \in OneByte /\ w \in OneByte BY Addresses DEF OneByte
<1>2. nounce[c][4] \in OneByte
  <2>1. c \in Layout!Cores /\ 4 \in 1 .. 4 BY Addresses
  <2> QED BY <2>1, Typed, SMTT(20) DEF OneByte
<1>3. <<100 + r, c, nounce[c][4], w>> \in Layout!Word BY <1>1, <1>2, FourBytes
<1>4. Layout!Digest(c, r)[w] = <<100 + r, c, nounce[c][4], w>> BY DEF Layout!Digest
<1> QED BY <1>3, <1>4

LEMMA SecondInterruptStep ==
  ASSUME LayoutInv, NEW c \in Started, Layout!SecondInterrupt(c) PROVE LayoutInv'
<1> DEFINE g == [w \in 0 .. 15 |-> IF w < 8 THEN Layout!Digest(c, 1)[w] ELSE Layout!FirstHashPadding[w]]
           f == Layout!Block(mem', Layout!Region(c) + 32)
<1>1. /\ stage[c] = 2 /\ UNCHANGED <<header, nounce, pc, next, tries>>
      /\ mem' = Layout!Write(Layout!Region(c) + 32, g)
      /\ fed' = [fed EXCEPT ![c] = f]
      /\ stage' = [stage EXCEPT ![c] = 3]
  BY Addresses DEF Layout!SecondInterrupt
<1>2. pc = "run" BY <1>1, AtWork
<1>3. /\ \A k \in 0 .. 7 : g[k] = <<101, c, nounce[c][4], k>> /\ g[k] \in Layout!Word
      /\ \A k \in 8 .. 15 : /\ g[k] \in Layout!Word
                            /\ g[k] = CASE k = 8  -> Layout!Mark
                                         [] k = 15 -> <<0, 0, 1, 0>>
                                         [] OTHER  -> Layout!Zero
  <2>1. ASSUME NEW k \in 0 .. 7 PROVE g[k] = <<101, c, nounce[c][4], k>> /\ g[k] \in Layout!Word
    <3>1. g[k] = Layout!Digest(c, 1)[k] OBVIOUS
    <3>2. 1 \in {1, 2} /\ 100 + 1 = 101 OBVIOUS
    <3> QED BY <3>1, <3>2, Digests
  <2>2. <<0, 0, 1, 0>> \in Layout!Word
    <3>1. 0 \in OneByte /\ 1 \in OneByte BY DEF OneByte
    <3> QED BY <3>1, FourBytes
  <2>3. ASSUME NEW k \in 8 .. 15
        PROVE  g[k] = IF k = 8 THEN Layout!Mark ELSE IF k = 15 THEN <<0, 0, 1, 0>> ELSE Layout!Zero
    BY DEF Layout!FirstHashPadding
  <2> HIDE DEF g
  <2>4. ASSUME NEW k \in 8 .. 15
        PROVE  /\ g[k] \in Layout!Word
               /\ g[k] = CASE k = 8  -> Layout!Mark
                            [] k = 15 -> <<0, 0, 1, 0>>
                            [] OTHER  -> Layout!Zero
    BY <2>2, <2>3, PlainWords
  <2> QED BY <2>1, <2>4
<1>4. g \in [0 .. 16 - 1 -> Layout!Word]
  <2>1. \A k \in 0 .. 15 : g[k] \in Layout!Word
    <3>1. \A k \in 0 .. 15 : k \in 0 .. 7 \/ k \in 8 .. 15 OBVIOUS
    <3> QED BY <1>3, <3>1
  <2>2. g = [k \in 0 .. 15 |-> g[k]] OBVIOUS
  <2> HIDE DEF g
  <2> QED BY <2>1, <2>2
<1> HIDE DEF g, f
<1>5. /\ mem' \in [Layout!Memory -> Layout!Word]
      /\ \A d \in Layout!Cores, w \in 0 .. 31 : mem'[48 * d + w] = mem[48 * d + w]
      /\ \A w \in 0 .. 7 : mem'[576 + w] = mem[576 + w]
      /\ \A k \in 0 .. 15 : mem'[48 * c + 32 + k] = g[k]
  BY <1>1, <1>4, WriteDigest
<1>6. f \in [0 .. 15 -> Layout!Word] /\ \A k \in 0 .. 15 : f[k] = g[k]
  <2>1. mem' \in [Layout!Memory -> Layout!Word] /\ 32 \in {0, 16, 32} BY <1>5
  <2>2. f \in [0 .. 15 -> Layout!Word] /\ \A k \in 0 .. 15 : f[k] = mem'[48 * c + 32 + k]
    BY <2>1, FedBlock DEF f
  <2> QED BY <1>5, <2>2
<1>7. fed'[c] = f /\ stage'[c] = 3 BY <1>1, Typed
<1>8. Fed(c)'
  <2>1. \A k \in 0 .. 7 : fed'[c][k] = <<101, c, nounce'[c][4], k>> BY <1>1, <1>3, <1>6, <1>7
  <2>2. \A k \in 8 .. 15 : fed'[c][k] = CASE k = 8  -> Layout!Mark
                                          [] k = 15 -> <<0, 0, 1, 0>>
                                          [] OTHER  -> Layout!Zero
    BY <1>3, <1>6, <1>7
  <2> QED BY <1>7, <2>1, <2>2 DEF Fed
<1>9. mem'[48 * c + 19] = nounce'[c]
  <2>1. c \in Layout!Cores BY Addresses
  <2>2. 19 \in 0 .. 31 OBVIOUS
  <2>3. mem'[48 * c + 19] = mem[48 * c + 19] BY <1>5, <2>1, <2>2
  <2> QED BY <1>1, <1>2, <2>1, <2>3, HoldsNounce
<1>10. nounce' \in [Layout!Cores -> Layout!Word] /\ tries' \in [Started -> 1 .. MaxTries]
  BY <1>1, Typed
<1>11. 3 \in 1 .. 4 OBVIOUS
<1>12. \A d \in Layout!Cores : d # c => nounce'[d] = nounce[d] BY <1>1
<1>13. \A d \in Layout!Cores, w \in 0 .. 31 : d # c \/ w # 19 => mem'[48 * d + w] = mem[48 * d + w]
  <2>1. ASSUME NEW d \in Layout!Cores, NEW w \in 0 .. 31 PROVE mem'[48 * d + w] = mem[48 * d + w]
    BY <1>5, ZenonT(60)
  <2> QED BY <2>1
<1> QED
  BY <1>1, <1>2, <1>5, <1>6, <1>8, <1>9, <1>10, <1>11, <1>12, <1>13, CoreStepKeeps

LEMMA TakeDigestStep ==
  ASSUME LayoutInv, NEW c \in Started, Layout!TakeDigest(c) PROVE LayoutInv'
<1> DEFINE g == [w \in 0 .. 7 |-> [p \in 1 .. 4 |-> Layout!Digest(c, 2)[w][5 - p]]]
<1>1. /\ stage[c] = 3 /\ UNCHANGED <<header, nounce, pc, next, fed, tries>>
      /\ mem' = Layout!Write(Layout!Region(c) + 32, g)
      /\ stage' = [stage EXCEPT ![c] = 4]
  BY Addresses DEF Layout!TakeDigest
<1>2. pc = "run" BY <1>1, AtWork
<1>3. g \in [0 .. 8 - 1 -> Layout!Word]
  <2>1. ASSUME NEW w \in 0 .. 7 PROVE [p \in 1 .. 4 |-> Layout!Digest(c, 2)[w][5 - p]] \in Layout!Word
    <3>1. Layout!Digest(c, 2)[w] \in Layout!Word BY Digests
    <3>2. \A p \in 1 .. 4 : 5 - p \in 1 .. 4 OBVIOUS
    <3> QED BY <3>1, <3>2 DEF Layout!Word
  <2> QED BY <2>1
<1> HIDE DEF g
<1>5. /\ mem' \in [Layout!Memory -> Layout!Word]
      /\ \A d \in Layout!Cores, w \in 0 .. 31 : mem'[48 * d + w] = mem[48 * d + w]
      /\ \A w \in 0 .. 7 : mem'[576 + w] = mem[576 + w]
  BY <1>1, <1>3, WriteDigest
<1>6. fed[c] \in [0 .. 15 -> Layout!Word] BY <1>1, SMTT(20) DEF LayoutInv, Layout!TypeOK
<1>7. fed' = [fed EXCEPT ![c] = fed[c]] BY <1>1, Typed, Zenon
<1>8. stage'[c] = 4 BY <1>1, Typed
<1>9. Fed(c)' BY <1>8 DEF Fed
<1>10. mem'[48 * c + 19] = nounce'[c]
  <2>1. c \in Layout!Cores BY Addresses
  <2>2. 19 \in 0 .. 31 OBVIOUS
  <2>3. mem'[48 * c + 19] = mem[48 * c + 19] BY <1>5, <2>1, <2>2
  <2> QED BY <1>1, <1>2, <2>1, <2>3, HoldsNounce
<1>11. nounce' \in [Layout!Cores -> Layout!Word] /\ tries' \in [Started -> 1 .. MaxTries]
  BY <1>1, Typed
<1>12. 4 \in 1 .. 4 OBVIOUS
<1>13. \A d \in Layout!Cores : d # c => nounce'[d] = nounce[d] BY <1>1
<1>14. \A d \in Layout!Cores, w \in 0 .. 31 : d # c \/ w # 19 => mem'[48 * d + w] = mem[48 * d + w]
  <2>1. ASSUME NEW d \in Layout!Cores, NEW w \in 0 .. 31 PROVE mem'[48 * d + w] = mem[48 * d + w]
    BY <1>5, ZenonT(60)
  <2> QED BY <2>1
<1> QED
  BY <1>1, <1>2, <1>5, <1>6, <1>7, <1>9, <1>10, <1>11, <1>12, <1>13, <1>14, CoreStepKeeps

LEMMA SuccWord == ASSUME NEW n \in Layout!Word PROVE Layout!Succ(n) \in Layout!Word
<1>1. \A p \in 1 .. 4 : n[p] \in 0 .. 255 /\ (n[p] + 1) % 256 \in 0 .. 255 BY DEF Layout!Word
<1> QED BY <1>1 DEF Layout!Succ, Layout!Word

LEMMA NextNounceStep ==
  ASSUME LayoutInv, NEW c \in Started, Layout!NextNounce(c) PROVE LayoutInv'
<1> DEFINE f == Layout!Block(mem', Layout!Region(c))
<1>1. /\ stage[c] = 4 /\ tries[c] < MaxTries /\ UNCHANGED <<header, pc, next>>
      /\ nounce' = [nounce EXCEPT ![c] = Layout!Succ(nounce[c])]
      /\ mem' = [mem EXCEPT ![Layout!Region(c) + 19] = nounce'[c]]
      /\ fed' = [fed EXCEPT ![c] = f]
      /\ stage' = [stage EXCEPT ![c] = 1] /\ tries' = [tries EXCEPT ![c] = tries[c] + 1]
  BY DEF Layout!NextNounce
<1>2. pc = "run" BY <1>1, AtWork
<1>3. /\ c \in 0 .. 9 /\ c \in Layout!Cores /\ Layout!Region(c) = 48 * c /\ MaxTries \in Nat \ {0}
      /\ Layout!Region(c) + 0 = Layout!Region(c)
  BY Addresses
<1>4. /\ mem \in [Layout!Memory -> Layout!Word] /\ nounce \in [Layout!Cores -> Layout!Word]
      /\ tries \in [Started -> 1 .. MaxTries]
  BY Zenon DEF LayoutInv, Layout!TypeOK
<1>5. nounce' \in [Layout!Cores -> Layout!Word] /\ \A d \in Layout!Cores : d # c => nounce'[d] = nounce[d]
  BY <1>1, <1>3, <1>4, SuccWord
<1>6. mem' \in [Layout!Memory -> Layout!Word] BY <1>1, <1>3, <1>4, <1>5
<1>7. \A d \in Layout!Cores, w \in 0 .. 31 : d # c \/ w # 19 => mem'[48 * d + w] = mem[48 * d + w]
  BY <1>1, <1>3, <1>4, Addresses
<1>8. mem'[48 * c + 19] = nounce'[c] BY <1>1, <1>3, <1>4, Addresses
<1>9. \A w \in 0 .. 7 : mem'[576 + w] = mem[576 + w] BY <1>1, <1>3, <1>4, Addresses
<1>10. tries' \in [Started -> 1 .. MaxTries] BY <1>1, <1>3, <1>4
<1> HIDE DEF f
<1>11. f \in [0 .. 15 -> Layout!Word] /\ \A k \in 0 .. 15 : f[k] = mem'[48 * c + k]
  <2>1. f = Layout!Block(mem', Layout!Region(c) + 0) BY <1>3 DEF f
  <2>2. \A k \in 0 .. 15 : 48 * c + 0 + k = 48 * c + k BY <1>3
  <2> QED BY <1>6, <2>1, <2>2, FedBlock
<1>12. \A k \in 0 .. 15 : f[k] = Layout!HeaderWord(c, k)'
  <2> TAKE k \in 0 .. 15
  <2>1. f[k] = mem[48 * c + k]
    <3>1. f[k] = mem'[48 * c + k] BY <1>11
    <3>2. k \in 0 .. 31 /\ k # 19 BY Addresses
    <3> QED BY <1>3, <1>7, <3>1, <3>2
  <2>2. mem[48 * c + k] = Layout!HeaderWord(c, k)
    <3>1. k \in 0 .. 31 OBVIOUS
    <3> QED BY <1>2, <1>3, <3>1, HeaderAt
  <2>3. Layout!HeaderWord(c, k)' = Layout!HeaderWord(c, k) BY DEF Layout!HeaderWord
  <2> QED BY <2>1, <2>2, <2>3
<1>13. fed'[c] = f /\ stage'[c] = 1 BY <1>1, Typed
<1>14. Fed(c)' BY <1>12, <1>13 DEF Fed
<1>15. 1 \in 1 .. 4 OBVIOUS
<1> QED BY <1>1, <1>2, <1>5, <1>6, <1>7, <1>8, <1>9, <1>10, <1>11, <1>14, <1>15, CoreStepKeeps

LEMMA LayoutKept == LayoutInv /\ (Layout!Next \/ UNCHANGED layoutVars) => LayoutInv'
<1> SUFFICES ASSUME LayoutInv, Layout!Next \/ UNCHANGED layoutVars PROVE LayoutInv' OBVIOUS
<1>1. CASE UNCHANGED layoutVars
  <2> USE <1>1 DEF layoutVars
  <2>1. Layout!TypeOK' /\ HeaderBytes' BY Zenon DEF LayoutInv, Layout!TypeOK, HeaderBytes
  <2>2. HeadersStand' /\ FedTyped' BY DEF LayoutInv, HeadersStand, Written, Layout!HeaderWord, FedTyped
  <2>3. Layout!TargetKept' BY DEF LayoutInv, Layout!TargetKept
  <2>4. Layout!BlocksAreStandard' BY DEF LayoutInv, Layout!BlocksAreStandard, Layout!HeaderWord
  <2> QED BY <2>1, <2>2, <2>3, <2>4 DEF LayoutInv
<1> QED BY <1>1, StoreTargetStep, StoreNounceBytesStep, InitBlockHeaderStep, StartCoreStep,
       FirstInterruptStep, SecondInterruptStep, TakeDigestStep, NextNounceStep DEF Layout!Next

(***************************************************************************)
(* The padding, for every set of lengths and of chars: each byte packed so *)
(* far is in its place with nothing behind it, then the mark, then zeros   *)
(* up to the word the length goes into.                                    *)
(***************************************************************************)
Clean == fn = "Padding_Mem" \/ \A k \in 0 .. l - 1 : msg[k] < 128

\* The first n bytes of the message lie in their words.
Packed(n) == Clean => \A k \in 0 .. n - 1 : block[k \div 4][(k % 4) + 1] = msg[k]

\* Nothing stands in the word behind its first n bytes.
Behind(w, n) == \A p \in 1 .. 4 : p > n => block[w][p] = 0

Marked == block[l \div 4][(l % 4) + 1] = 128 /\ Behind(l \div 4, (l % 4) + 1)

Blank(low, high) == \A w \in low .. high : block[w] = Padding!Zero

PaddingInv ==
  /\ Padding!TypeOK
  /\ fn = "Padding_Mem" => \A k \in 0 .. l - 1 : msg[k] = 1 + ((7 * k) % 255)
  /\ place = "pack" => i <= l /\ Packed(i) /\ (i > 0 => Behind(i \div 4, i % 4))
  /\ place = "fill" => Packed(l) /\ Marked
  /\ place \in {"length", "done"} /\ Padding!Branch # 0 =>
       /\ Packed(l) /\ Marked /\ Blank(l \div 4 + 1, 16 * Padding!Branch - 2)
       /\ number = Padding!Branch /\ i = 16 * Padding!Branch - 1
  /\ place = "done" /\ Padding!Branch # 0 =>
       /\ block[16 * Padding!Branch - 1] = <<0, 0, (8 * l) \div 256, (8 * l) % 256>>
       /\ Blank(16 * Padding!Branch, 63)

PWord == [1 .. 4 -> 0 .. 255]

LEMMA PaddingTyped ==
  ASSUME Padding!TypeOK
  PROVE  /\ fn \in {"Padding_Mem", "Padding"} /\ l \in Lengths /\ l \in 0 .. 255
         /\ msg \in [0 .. l - 1 -> 0 .. 255] /\ block \in [0 .. 63 -> PWord]
         /\ i \in 0 .. 255 /\ number \in {-1, 1, 2, 3}
         /\ place \in {"pack", "fill", "length", "done"}
         /\ Padding!Words = 0 .. 63
BY InstancesAssumption, Zenon DEF Padding!TypeOK, PWord, Padding!Byte, Padding!Words, Padding!LengthsAssumption

LEMMA PaddingTypedBack ==
  ASSUME fn \in {"Padding_Mem", "Padding"}, l \in Lengths,
         msg \in [0 .. l - 1 -> 0 .. 255], block \in [0 .. 63 -> PWord],
         i \in 0 .. 255, number \in {-1, 1, 2, 3}, place \in {"pack", "fill", "length", "done"}
  PROVE  Padding!TypeOK
BY Zenon DEF Padding!TypeOK, PWord, Padding!Byte, Padding!Words

LEMMA WordBytes ==
  ASSUME NEW a \in OneByte, NEW b \in OneByte, NEW c \in OneByte, NEW d \in OneByte
  PROVE  <<a, b, c, d>> \in PWord
BY DEF PWord, OneByte

LEMMA ZeroIs ==
  /\ Padding!Zero \in PWord /\ \A p \in 1 .. 4 : Padding!Zero[p] = 0
  /\ Padding!Old \in PWord /\ Padding!Old[1] = 222 /\ Padding!Old[2] = 173
  /\ \A p \in 1 .. 4 : Padding!Old[p] # 128
<1>1. 0 \in OneByte /\ 222 \in OneByte /\ 173 \in OneByte /\ 190 \in OneByte /\ 239 \in OneByte
  BY DEF OneByte
<1>2. <<0, 0, 0, 0>> \in PWord BY <1>1, WordBytes
<1>3. <<222, 173, 190, 239>> \in PWord BY <1>1, WordBytes
<1> QED BY <1>2, <1>3 DEF Padding!Zero, Padding!Old

\* Where one of two bytes is 0 or 255, the operator is the processor's or.
LEMMA OrBytes ==
  ASSUME NEW a \in PWord, NEW b \in PWord, \A p \in 1 .. 4 : a[p] = 0 \/ b[p] \in {0, 255}
  PROVE  /\ Padding!Or(a, b) \in PWord
         /\ \A p \in 1 .. 4 : /\ a[p] = 0 => Padding!Or(a, b)[p] = b[p]
                              /\ b[p] = 0 => Padding!Or(a, b)[p] = a[p]
<1>1. \A p \in 1 .. 4 : a[p] \in 0 .. 255 /\ b[p] \in 0 .. 255 BY DEF PWord
<1>2. \A p \in 1 .. 4 : Padding!Or(a, b)[p] = IF a[p] = 255 \/ b[p] = 255 THEN 255 ELSE a[p] + b[p]
  BY DEF Padding!Or
<1>3. ASSUME NEW p \in 1 .. 4
      PROVE  /\ Padding!Or(a, b)[p] \in 0 .. 255
             /\ a[p] = 0 => Padding!Or(a, b)[p] = b[p]
             /\ b[p] = 0 => Padding!Or(a, b)[p] = a[p]
  <2>1. a[p] \in 0 .. 255 /\ b[p] \in 0 .. 255 /\ (a[p] = 0 \/ b[p] = 0 \/ b[p] = 255) BY <1>1
  <2>2. Padding!Or(a, b)[p] = IF a[p] = 255 \/ b[p] = 255 THEN 255 ELSE a[p] + b[p] BY <1>2
  <2> QED BY <2>1, <2>2
<1>4. Padding!Or(a, b) = [p \in 1 .. 4 |-> Padding!Or(a, b)[p]] BY DEF Padding!Or
<1>5. Padding!Or(a, b) \in PWord BY <1>3, <1>4 DEF PWord
<1> QED BY <1>3, <1>5

IsShifted(b, c, r) ==
  /\ b \in PWord /\ b[r + 1] = c
  /\ \A p \in 1 .. 4 : p # r + 1 => b[p] \in {0, 255}
  /\ \A p \in 1 .. 4 : p > r + 1 => b[p] = 0
  /\ fn = "Padding_Mem" \/ c < 128 => \A p \in 1 .. 4 : p # r + 1 => b[p] = 0

LEMMA ShiftedBytes ==
  ASSUME NEW c \in 0 .. 255, NEW r \in 0 .. 3
  PROVE  IsShifted(Padding!Shifted(c, r), c, r)
<1>1. \A p \in 1 .. 4 :
        Padding!Shifted(c, r)[p] = IF p = r + 1 THEN c
                                   ELSE IF p <= r /\ fn = "Padding" /\ c >= 128 THEN 255 ELSE 0
  BY DEF Padding!Shifted
<1>2. \A p \in 1 .. 4 : Padding!Shifted(c, r)[p] \in 0 .. 255 BY <1>1
<1>3. Padding!Shifted(c, r) = [p \in 1 .. 4 |-> Padding!Shifted(c, r)[p]] BY DEF Padding!Shifted
<1>4. Padding!Shifted(c, r) \in PWord BY <1>2, <1>3 DEF PWord
<1>5. r + 1 \in 1 .. 4 OBVIOUS
<1>6. ~(fn = "Padding_Mem" /\ fn = "Padding") OBVIOUS
<1> QED BY <1>1, <1>4, <1>5, <1>6 DEF IsShifted

LEMMA PaddingStarts == Padding!Init => PaddingInv
<1> SUFFICES ASSUME Padding!Init PROVE PaddingInv OBVIOUS
<1>1. /\ block = [w \in 0 .. 63 |-> Padding!Old] /\ i = 0 /\ number = -1 /\ place = "pack"
      /\ fn \in {"Padding_Mem", "Padding"} /\ l \in Lengths
  BY DEF Padding!Init, Padding!Words
<1>2. l \in 0 .. 255 /\ Chars \subseteq 0 .. 255
  BY <1>1, InstancesAssumption DEF Padding!LengthsAssumption, Padding!Byte
<1>3. msg \in [0 .. l - 1 -> 0 .. 255]
  <2>1. CASE fn = "Padding_Mem"
    <3>1. msg = [k \in 0 .. l - 1 |-> 1 + ((7 * k) % 255)] BY <2>1 DEF Padding!Init
    <3>2. \A k \in 0 .. l - 1 : 1 + ((7 * k) % 255) \in 0 .. 255 BY <1>2
    <3> QED BY <3>1, <3>2
  <2>2. CASE fn = "Padding"
    <3>1. PICK c \in Chars : msg = [k \in 0 .. l - 1 |-> c] BY <2>2 DEF Padding!Init
    <3> QED BY <1>2, <3>1
  <2> QED BY <1>1, <2>1, <2>2
<1>4. block \in [0 .. 63 -> PWord] BY <1>1, ZeroIs
<1>5. i \in 0 .. 255 /\ number \in {-1, 1, 2, 3} /\ place \in {"pack", "fill", "length", "done"}
  BY <1>1
<1>6. Padding!TypeOK BY <1>1, <1>3, <1>4, <1>5, PaddingTypedBack
<1>7. fn = "Padding_Mem" => \A k \in 0 .. l - 1 : msg[k] = 1 + ((7 * k) % 255)
  BY DEF Padding!Init
<1>8. Packed(i) /\ i <= l /\ ~(i > 0) BY <1>1, <1>2 DEF Packed
<1> QED BY <1>1, <1>6, <1>7, <1>8 DEF PaddingInv

LEMMA PackStep == ASSUME PaddingInv, Padding!Pack PROVE PaddingInv'
<1> DEFINE v == i \div 4
           r == i % 4
           a == IF i = 0 THEN Padding!Zero ELSE block[v]
           b == Padding!Shifted(msg[i], r)
           o == Padding!Or(a, b)
<1>1. place = "pack" /\ i < l /\ i' = i + 1 /\ UNCHANGED <<fn, l, msg, number, place>>
  BY DEF Padding!Pack
<1>2. block' = [block EXCEPT ![v] = o, ![v + 1] = IF r = 3 THEN Padding!Zero ELSE @]
  BY DEF Padding!Pack
<1>3. Padding!TypeOK BY DEF PaddingInv
<1>4. l \in 0 .. 255 /\ i \in 0 .. 255 BY <1>3, PaddingTyped
<1>5. i \in 0 .. l - 1 /\ i \in 0 .. 254 BY <1>1, <1>4
<1>6. msg \in [0 .. l - 1 -> 0 .. 255] /\ block \in [0 .. 63 -> PWord] BY <1>3, PaddingTyped
<1>7. v \in 0 .. 63 /\ r \in 0 .. 3 /\ i = 4 * v + r BY <1>5
<1>8. msg[i] \in 0 .. 255
  <2>1. \A k \in 0 .. l - 1 : msg[k] \in 0 .. 255 BY <1>6
  <2> QED BY <1>5, <2>1, Zenon
<1>9. a \in PWord /\ \A p \in 1 .. 4 : p > r => a[p] = 0
  <2>1. CASE i = 0 BY <2>1, ZeroIs
  <2>2. CASE i # 0
    <3>1. a = block[v] /\ i > 0 BY <1>4, <2>2
    <3>2. Behind(v, r) BY <1>1, <3>1 DEF PaddingInv
    <3> HIDE DEF v, r, a
    <3> QED BY <1>6, <1>7, <3>1, <3>2 DEF Behind
  <2> QED BY <2>1, <2>2
<1>10. v' = (i + 1) \div 4 /\ r' = (i + 1) % 4 BY <1>1
<1>11. IF r = 3 THEN v' = v + 1 /\ r' = 0 /\ v + 1 \in 0 .. 63 ELSE v' = v /\ r' = r + 1
  <2>1. l <= 255 /\ i + 1 <= 255 BY <1>4, <1>5
  <2> QED BY <1>5, <1>10, <2>1
<1> HIDE DEF v, r, a
<1>12. IsShifted(b, msg[i], r) BY <1>7, <1>8, ShiftedBytes, Zenon
<1> HIDE DEF b
<1>13. /\ o \in PWord
       /\ \A p \in 1 .. 4 : (a[p] = 0 => o[p] = b[p]) /\ (b[p] = 0 => o[p] = a[p])
  <2>1. \A p \in 1 .. 4 : a[p] = 0 \/ b[p] \in {0, 255} BY <1>7, <1>9, <1>12 DEF IsShifted
  <2>2. b \in PWord BY <1>12 DEF IsShifted
  <2> QED BY <1>9, <2>1, <2>2, OrBytes
<1> HIDE DEF o
<1>14. \A w \in 0 .. 63 : block'[w] = IF w = v THEN o
                                      ELSE IF w = v + 1 /\ r = 3 THEN Padding!Zero ELSE block[w]
  <2> TAKE w \in 0 .. 63
  <2>1. v + 1 # v BY <1>7
  <2>2. CASE w = v BY <1>2, <1>6, <1>7, <2>1, <2>2
  <2>3. CASE w = v + 1 BY <1>2, <1>6, <1>7, <2>1, <2>3
  <2>4. CASE w # v /\ w # v + 1 BY <1>2, <1>6, <1>7, <2>4
  <2> QED BY <2>2, <2>3, <2>4
<1>15. Padding!TypeOK'
  <2>1. block' \in [0 .. 63 -> PWord]
    <3>1. ASSUME NEW w \in 0 .. 63 PROVE block'[w] \in PWord
      <4>1. block[w] \in PWord BY <1>6
      <4> QED BY <1>13, <1>14, <4>1, ZeroIs
    <3>2. block' = [w \in 0 .. 63 |-> block'[w]] BY <1>2, <1>6
    <3> QED BY <3>1, <3>2
  <2>2. i' \in 0 .. 255 BY <1>1, <1>5
  <2>3. /\ fn' \in {"Padding_Mem", "Padding"} /\ l' \in Lengths
        /\ number' \in {-1, 1, 2, 3} /\ place' \in {"pack", "fill", "length", "done"}
    BY <1>1, <1>3, PaddingTyped
  <2>4. msg' \in [0 .. l' - 1 -> 0 .. 255] BY <1>1, <1>6
  <2> QED BY <2>1, <2>2, <2>3, <2>4, Zenon DEF Padding!TypeOK, PWord, Padding!Byte, Padding!Words
<1>16. Packed(i)'
  <2> SUFFICES ASSUME Clean, NEW k \in 0 .. i PROVE block'[k \div 4][(k % 4) + 1] = msg[k]
    <3>1. Clean' <=> Clean BY <1>1 DEF Clean
    <3>2. i' - 1 = i BY <1>1, <1>4
    <3> QED BY <1>1, <3>1, <3>2 DEF Packed
  <2>1. k \in 0 .. 254 BY <1>5
  <2>2. k \div 4 \in 0 .. 63 /\ (k % 4) + 1 \in 1 .. 4 /\ k = 4 * (k \div 4) + (k % 4) BY <2>1
  <2>3. CASE k = i
    <3>1. k \div 4 = v /\ (k % 4) + 1 = r + 1 BY <2>3 DEF v, r
    <3>2. r + 1 \in 1 .. 4 /\ r + 1 > r BY <1>7
    <3>3. o[r + 1] = msg[i] BY <1>9, <1>12, <1>13, <3>2 DEF IsShifted
    <3> QED BY <1>7, <1>14, <2>3, <3>1, <3>3
  <2>4. CASE k < i
    <3>1. k \in 0 .. i - 1 BY <1>4, <2>1, <2>4
    <3>2. Packed(i) BY <1>1 DEF PaddingInv
    <3>3. block[k \div 4][(k % 4) + 1] = msg[k] BY <3>1, <3>2 DEF Packed
    <3>4. CASE k \div 4 = v
      <4>1. (k % 4) + 1 # r + 1 BY <1>7, <2>2, <2>4, <3>4
      <4>2. fn = "Padding_Mem" \/ msg[i] < 128 BY <1>5 DEF Clean
      <4>3. b[(k % 4) + 1] = 0 BY <1>12, <2>2, <4>1, <4>2 DEF IsShifted
      <4>4. i # 0 BY <2>1, <2>4, <1>4
      <4>5. a = block[v] BY <4>4 DEF a
      <4>6. o[(k % 4) + 1] = a[(k % 4) + 1] BY <1>13, <2>2, <4>3
      <4> QED BY <1>7, <1>14, <3>3, <3>4, <4>5, <4>6
    <3>5. CASE k \div 4 # v
      <4>1. k \div 4 < v BY <1>7, <2>2, <2>4, <3>5
      <4>2. k \div 4 # v + 1 BY <1>7, <2>2, <4>1
      <4>3. block'[k \div 4] = block[k \div 4] BY <1>14, <2>2, <3>5, <4>2
      <4> QED BY <3>3, <4>3
    <3> QED BY <3>4, <3>5
  <2> QED BY <1>4, <2>1, <2>3, <2>4
<1>17. ASSUME NEW p \in 1 .. 4, p > r' PROVE block'[v'][p] = 0
  <2>1. CASE r = 3
    <3>1. v' = v + 1 /\ v + 1 \in 0 .. 63 BY <1>11, <2>1
    <3>2. v + 1 # v BY <1>7
    <3>3. block'[v + 1] = Padding!Zero BY <1>14, <2>1, <3>1, <3>2
    <3> QED BY <3>1, <3>3, ZeroIs
  <2>2. CASE r # 3
    <3>1. v' = v /\ r' = r + 1 BY <1>11, <2>2
    <3>2. p > r /\ p > r + 1 BY <1>7, <1>17, <3>1
    <3>3. a[p] = 0 /\ b[p] = 0 BY <1>9, <1>12, <3>2 DEF IsShifted
    <3>4. o[p] = 0 BY <1>13, <3>3
    <3> QED BY <1>7, <1>14, <3>1, <3>4
  <2> QED BY <2>1, <2>2
<1>18. Behind(i \div 4, i % 4)' BY <1>17 DEF v, r, Behind
<1>19. fn' = "Padding_Mem" => \A k \in 0 .. l' - 1 : msg'[k] = 1 + ((7 * k) % 255)
  BY <1>1 DEF PaddingInv
<1>20. i' <= l' /\ place' = "pack" BY <1>1, <1>4
<1> QED BY <1>15, <1>16, <1>18, <1>19, <1>20 DEF PaddingInv

\* The bytes of the message stay where a step leaves its words' bytes alone.
LEMMA StillPacked ==
  ASSUME Packed(l), UNCHANGED <<fn, l, msg>>, l \in 0 .. 255,
         \A k \in 0 .. l - 1 : block'[k \div 4][(k % 4) + 1] = block[k \div 4][(k % 4) + 1]
  PROVE  Packed(l)'
<1>1. Clean' <=> Clean BY DEF Clean
<1> QED BY <1>1 DEF Packed

LEMMA MarkStep == ASSUME PaddingInv, Padding!Mark PROVE PaddingInv'
<1> DEFINE v == l \div 4
           r == l % 4
           mark == [p \in 1 .. 4 |-> IF p = r + 1 THEN 128 ELSE 0]
           o == IF r = 0 THEN mark ELSE Padding!Or(block[v], mark)
<1>1. /\ place = "pack" /\ i = l /\ UNCHANGED <<fn, l, msg, number>>
      /\ place' = "fill" /\ i' = IF r = 0 THEN l ELSE r
  BY DEF Padding!Mark
<1>2. block' = [block EXCEPT ![v] = o] BY DEF Padding!Mark
<1>3. Padding!TypeOK BY DEF PaddingInv
<1>4. l \in 0 .. 255 BY <1>3, PaddingTyped
<1>5. block \in [0 .. 63 -> PWord] BY <1>3, PaddingTyped
<1>6. v \in 0 .. 63 /\ r \in 0 .. 3 /\ l = 4 * v + r BY <1>4
<1>7. (l % 4) + 1 = r + 1 /\ r + 1 \in 1 .. 4 BY <1>6
<1>8. r # 0 => \A p \in 1 .. 4 : p > r => block[v][p] = 0
  <2>1. r # 0 => i > 0 BY <1>1, <1>4, <1>6
  <2>2. i > 0 => Behind(i \div 4, i % 4) BY <1>1 DEF PaddingInv
  <2> QED BY <1>1, <2>1, <2>2 DEF Behind
<1> HIDE DEF v, r
<1>9. mark \in PWord /\ \A p \in 1 .. 4 : mark[p] = IF p = r + 1 THEN 128 ELSE 0
  <2>1. \A p \in 1 .. 4 : (IF p = r + 1 THEN 128 ELSE 0) \in 0 .. 255 OBVIOUS
  <2> QED BY <2>1 DEF PWord
<1> HIDE DEF mark
<1>10. /\ o \in PWord /\ \A p \in 1 .. 4 : p > r => o[p] = mark[p]
       /\ r # 0 => \A p \in 1 .. 4 : p <= r => o[p] = block[v][p]
  <2>1. CASE r = 0 BY <1>9, <2>1
  <2>2. CASE r # 0
    <3>1. o = Padding!Or(block[v], mark) /\ block[v] \in PWord BY <1>5, <1>6, <2>2
    <3>2. \A p \in 1 .. 4 : block[v][p] = 0 \/ mark[p] \in {0, 255}
      <4> TAKE p \in 1 .. 4
      <4>1. CASE p > r BY <1>8, <2>2, <4>1
      <4>2. CASE ~(p > r)
        <5>1. p # r + 1 BY <1>6, <4>2
        <5> QED BY <1>9, <5>1
      <4> QED BY <4>1, <4>2
    <3>3. /\ Padding!Or(block[v], mark) \in PWord
          /\ \A p \in 1 .. 4 :
               /\ block[v][p] = 0 => Padding!Or(block[v], mark)[p] = mark[p]
               /\ mark[p] = 0 => Padding!Or(block[v], mark)[p] = block[v][p]
      BY <1>9, <3>1, <3>2, OrBytes
    <3>4. \A p \in 1 .. 4 : p <= r => mark[p] = 0 BY <1>6, <1>9
    <3> QED BY <1>8, <2>2, <3>1, <3>3, <3>4
  <2> QED BY <2>1, <2>2
<1> HIDE DEF o
<1>11. \A w \in 0 .. 63 : block'[w] = IF w = v THEN o ELSE block[w] BY <1>2, <1>5
<1>12. Padding!TypeOK'
  <2>1. block' \in [0 .. 63 -> PWord] BY <1>2, <1>5, <1>10
  <2>2. i' \in 0 .. 255
    <3>1. l \in 0 .. 255 /\ r \in 0 .. 255 BY <1>4, <1>6
    <3> QED BY <1>1, <3>1
  <2>3. /\ fn' \in {"Padding_Mem", "Padding"} /\ l' \in Lengths
        /\ number' \in {-1, 1, 2, 3} /\ place' \in {"pack", "fill", "length", "done"}
    BY <1>1, <1>3, PaddingTyped
  <2>4. msg' \in [0 .. l' - 1 -> 0 .. 255] BY <1>1, <1>3, PaddingTyped
  <2> QED BY <2>1, <2>2, <2>3, <2>4 DEF Padding!TypeOK, PWord, Padding!Byte, Padding!Words
<1>13. Packed(l)'
  <2>1. ASSUME NEW k \in 0 .. l - 1
        PROVE  block'[k \div 4][(k % 4) + 1] = block[k \div 4][(k % 4) + 1]
    <3>1. k \in 0 .. 255 /\ k < l BY <1>4
    <3>2. k \div 4 \in 0 .. 63 /\ (k % 4) + 1 \in 1 .. 4 /\ k = 4 * (k \div 4) + (k % 4) BY <3>1
    <3>3. CASE k \div 4 = v
      <4>1. (k % 4) + 1 <= r /\ r # 0 BY <1>6, <3>1, <3>2, <3>3
      <4>2. o[(k % 4) + 1] = block[v][(k % 4) + 1] BY <1>10, <3>2, <4>1
      <4> QED BY <1>6, <1>11, <3>3, <4>2
    <3>4. CASE k \div 4 # v BY <1>11, <3>2, <3>4
    <3> QED BY <3>3, <3>4
  <2>2. Packed(l) BY <1>1 DEF PaddingInv
  <2> QED BY <1>1, <1>4, <2>1, <2>2, StillPacked
<1>14. Marked'
  <2>1. block'[v] = o BY <1>6, <1>11
  <2>2. o[r + 1] = 128 BY <1>6, <1>7, <1>9, <1>10
  <2>3. ASSUME NEW p \in 1 .. 4, p > r + 1 PROVE o[p] = 0
    <3>1. p > r /\ p # r + 1 BY <1>6, <2>3
    <3> QED BY <1>9, <1>10, <3>1
  <2> QED BY <1>1, <2>1, <2>2, <2>3 DEF Marked, Behind, v, r
<1>15. fn' = "Padding_Mem" => \A k \in 0 .. l' - 1 : msg'[k] = 1 + ((7 * k) % 255)
  BY <1>1 DEF PaddingInv
<1> QED BY <1>1, <1>12, <1>13, <1>14, <1>15 DEF PaddingInv

\* The blocks told hold the message, its mark and its length.
LEMMA Branches ==
  ASSUME l \in 0 .. 255
  PROVE  /\ Padding!Branch \in 0 .. 3
         /\ Padding!Branch # 0 => l <= 64 * Padding!Branch - 9 /\ l >= 64 * Padding!Branch - 72
         /\ Padding!Branch # 0 => l \div 4 < 16 * Padding!Branch - 2 
BY DEF Padding!Branch

LEMMA FillStep == ASSUME PaddingInv, Padding!Fill PROVE PaddingInv'
<1> DEFINE n == Padding!Branch
<1>1. place = "fill" /\ place' = "length" /\ UNCHANGED <<fn, l, msg>> BY DEF Padding!Fill
<1>2. Padding!TypeOK BY DEF PaddingInv
<1>3. l \in 0 .. 255 BY <1>2, PaddingTyped
<1>4. block \in [0 .. 63 -> PWord] BY <1>2, PaddingTyped
<1>5. n' = n BY <1>1 DEF Padding!Branch
<1>6. Packed(l) /\ Marked BY <1>1 DEF PaddingInv
<1>7. n \in 0 .. 3 /\ (n # 0 => l <= 64 * n - 9 /\ l \div 4 < 16 * n - 2) BY <1>3, Branches
<1>8. CASE n = 0
  <2>1. UNCHANGED <<block, i, number>> BY <1>8 DEF Padding!Fill
  <2>2. Padding!TypeOK'
    <3>1. place' \in {"pack", "fill", "length", "done"} BY <1>1
    <3> QED BY <1>1, <1>2, <2>1, <3>1 DEF Padding!TypeOK
  <2>3. fn' = "Padding_Mem" => \A k \in 0 .. l' - 1 : msg'[k] = 1 + ((7 * k) % 255)
    BY <1>1 DEF PaddingInv
  <2> QED BY <1>1, <1>5, <1>8, <2>2, <2>3 DEF PaddingInv
<1>9. CASE n # 0
  <2>1. /\ block' = [w \in 0 .. 63 |-> IF w \in l \div 4 + 1 .. 16 * n - 1 - 1 THEN Padding!Zero
                                       ELSE block[w]]
        /\ i' = 16 * n - 1 /\ number' = n
    BY <1>9 DEF Padding!Fill, Padding!Words
  <2> HIDE DEF n
  <2>2. n \in {1, 2, 3} /\ l \div 4 \in 0 .. 63 /\ l \div 4 < 16 * n - 2 BY <1>3, <1>7, <1>9
  <2>3. \A w \in 0 .. l \div 4 : block'[w] = block[w]
    <3> TAKE w \in 0 .. l \div 4
    <3>1. w \in 0 .. 63 /\ w \notin l \div 4 + 1 .. 16 * n - 1 - 1 BY <2>2
    <3> QED BY <2>1, <3>1
  <2>4. Padding!TypeOK'
    <3>1. block' \in [0 .. 63 -> PWord]
      <4>1. \A w \in 0 .. 63 : block[w] \in PWord BY <1>4
      <4> QED BY <2>1, <4>1, ZeroIs
    <3>2. i' \in 0 .. 255 /\ number' \in {-1, 1, 2, 3} BY <2>1, <2>2
    <3>3. /\ fn' \in {"Padding_Mem", "Padding"} /\ l' \in Lengths
          /\ place' \in {"pack", "fill", "length", "done"}
      BY <1>1, <1>2, PaddingTyped
    <3>4. msg' \in [0 .. l' - 1 -> 0 .. 255] BY <1>1, <1>2, PaddingTyped
    <3> QED BY <3>1, <3>2, <3>3, <3>4, Zenon DEF Padding!TypeOK, PWord, Padding!Byte, Padding!Words
  <2>5. Packed(l)'
    <3>1. ASSUME NEW k \in 0 .. l - 1
          PROVE  block'[k \div 4][(k % 4) + 1] = block[k \div 4][(k % 4) + 1]
      <4>1. k \div 4 \in 0 .. l \div 4 BY <1>3
      <4> QED BY <2>3, <4>1
    <3> QED BY <1>1, <1>3, <1>6, <3>1, StillPacked
  <2>6. Marked'
    <3>1. block'[l \div 4] = block[l \div 4]
      <4>1. l \div 4 \in 0 .. l \div 4 BY <2>2
      <4> QED BY <2>3, <4>1
    <3> QED BY <1>1, <1>6, <3>1 DEF Marked, Behind
  <2>7. Blank(l \div 4 + 1, 16 * n - 2)'
    <3>1. ASSUME NEW w \in l \div 4 + 1 .. 16 * n - 2 PROVE block'[w] = Padding!Zero
      <4>1. w \in 0 .. 63 /\ w \in l \div 4 + 1 .. 16 * n - 1 - 1 BY <2>2
      <4> QED BY <2>1, <4>1
    <3> QED BY <1>1, <1>5, <3>1 DEF Blank
  <2>8. fn' = "Padding_Mem" => \A k \in 0 .. l' - 1 : msg'[k] = 1 + ((7 * k) % 255)
    BY <1>1 DEF PaddingInv
  <2> QED BY <1>1, <1>5, <2>1, <2>4, <2>5, <2>6, <2>7, <2>8 DEF PaddingInv, n
<1> QED BY <1>8, <1>9

LEMMA LengthStep == ASSUME PaddingInv, Padding!Length PROVE PaddingInv'
<1> DEFINE n == Padding!Branch
           size == <<0, 0, (8 * l) \div 256, (8 * l) % 256>>
<1>1. /\ place = "length" /\ place' = "done" /\ UNCHANGED <<fn, l, msg, i, number>>
      /\ block' = [w \in 0 .. 63 |-> IF w = i THEN size ELSE IF w > i THEN Padding!Zero ELSE block[w]]
  BY DEF Padding!Length, Padding!Words
<1>2. Padding!TypeOK BY DEF PaddingInv
<1>3. l \in 0 .. 255 BY <1>2, PaddingTyped
<1>4. block \in [0 .. 63 -> PWord] BY <1>2, PaddingTyped
<1>5. n' = n BY <1>1 DEF Padding!Branch
<1>6. size \in PWord
  <2>1. 0 \in OneByte /\ (8 * l) \div 256 \in OneByte /\ (8 * l) % 256 \in OneByte
    BY <1>3 DEF OneByte
  <2> QED BY <2>1, WordBytes
<1> HIDE DEF size
<1>7. Padding!TypeOK'
  <2>1. block' \in [0 .. 63 -> PWord]
    <3>1. \A w \in 0 .. 63 : block[w] \in PWord BY <1>4
    <3> QED BY <1>1, <1>6, <3>1, ZeroIs
  <2>2. /\ fn' \in {"Padding_Mem", "Padding"} /\ l' \in Lengths /\ i' \in 0 .. 255
        /\ number' \in {-1, 1, 2, 3} /\ place' \in {"pack", "fill", "length", "done"}
    BY <1>1, <1>2, PaddingTyped
  <2>3. msg' \in [0 .. l' - 1 -> 0 .. 255] BY <1>1, <1>2, PaddingTyped
  <2> QED BY <2>1, <2>2, <2>3, Zenon DEF Padding!TypeOK, PWord, Padding!Byte, Padding!Words
<1>8. fn' = "Padding_Mem" => \A k \in 0 .. l' - 1 : msg'[k] = 1 + ((7 * k) % 255)
  BY <1>1 DEF PaddingInv
<1>9. CASE n = 0 BY <1>1, <1>5, <1>7, <1>8, <1>9 DEF PaddingInv
<1>10. CASE n # 0
  <2>1. /\ Packed(l) /\ Marked /\ Blank(l \div 4 + 1, 16 * n - 2) /\ number = n /\ i = 16 * n - 1
    BY <1>1, <1>10 DEF PaddingInv
  <2>2. n \in {1, 2, 3} /\ l \div 4 \in 0 .. 63 /\ l \div 4 < 16 * n - 2 BY <1>3, <1>10, Branches
  <2> HIDE DEF n
  <2>3. \A w \in 0 .. 16 * n - 2 : block'[w] = block[w] BY <1>1, <2>1, <2>2
  <2>4. Packed(l)'
    <3>1. ASSUME NEW k \in 0 .. l - 1
          PROVE  block'[k \div 4][(k % 4) + 1] = block[k \div 4][(k % 4) + 1]
      <4>1. k \div 4 \in 0 .. 16 * n - 2 BY <1>3, <2>2
      <4> QED BY <2>3, <4>1
    <3> QED BY <1>1, <1>3, <2>1, <3>1, StillPacked
  <2>5. Marked'
    <3>1. block'[l \div 4] = block[l \div 4]
      <4>1. l \div 4 \in 0 .. 16 * n - 2 BY <2>2
      <4> QED BY <2>3, <4>1
    <3> QED BY <1>1, <2>1, <3>1 DEF Marked, Behind
  <2>6. Blank(l \div 4 + 1, 16 * n - 2)'
    <3>1. ASSUME NEW w \in l \div 4 + 1 .. 16 * n - 2 PROVE block'[w] = Padding!Zero
      <4>1. w \in 0 .. 16 * n - 2 BY <2>2
      <4>2. block[w] = Padding!Zero BY <2>1 DEF Blank
      <4> QED BY <2>3, <4>1, <4>2
    <3> QED BY <1>1, <1>5, <3>1 DEF Blank
  <2>7. block'[16 * n - 1] = size BY <1>1, <2>1, <2>2
  <2>8. Blank(16 * n, 63)'
    <3>1. ASSUME NEW w \in 16 * n .. 63 PROVE block'[w] = Padding!Zero BY <1>1, <2>1, <2>2
    <3> QED BY <1>5, <3>1 DEF Blank
  <2> QED BY <1>1, <1>5, <1>7, <1>8, <2>1, <2>4, <2>5, <2>6, <2>7, <2>8 DEF PaddingInv, n, size
<1> QED BY <1>9, <1>10

LEMMA PaddingKept == PaddingInv /\ (Padding!Next \/ UNCHANGED paddingVars) => PaddingInv'
<1> SUFFICES ASSUME PaddingInv, Padding!Next \/ UNCHANGED paddingVars PROVE PaddingInv' OBVIOUS
<1>1. CASE UNCHANGED paddingVars
  <2>1. Padding!TypeOK' BY <1>1 DEF PaddingInv, Padding!TypeOK, paddingVars
  <2>2. Padding!Branch' = Padding!Branch BY <1>1 DEF Padding!Branch, paddingVars
  <2> QED BY <1>1, <2>1, <2>2 DEF PaddingInv, Packed, Clean, Marked, Behind, Blank, paddingVars
<1> QED BY <1>1, PackStep, MarkStep, FillStep, LengthStep DEF Padding!Next

\* What the function leaves behind is the standard's padding.
LEMMA PaddedRight ==
  ASSUME PaddingInv, place = "done", Padding!Handled
  PROVE  /\ number = (l + 8) \div 64 + 1 /\ number \in 1 .. 3
         /\ \A w \in 0 .. 16 * number - 1, p \in 1 .. 4 :
              block[w][p] = Padding!Standard(4 * w + p - 1, number)
<1> DEFINE n == Padding!Branch
<1>1. Padding!TypeOK BY DEF PaddingInv
<1>2. l \in 0 .. 255 /\ fn \in {"Padding_Mem", "Padding"} BY <1>1, PaddingTyped
<1>3. n \in {1, 2, 3} /\ n = (l + 8) \div 64 + 1
  <2>1. CASE fn = "Padding" BY <1>2, <2>1 DEF Padding!Branch, Padding!Handled
  <2>2. CASE fn # "Padding"
    <3>1. l \in 0 .. 183 BY <1>2, <2>2 DEF Padding!Handled
    <3>2. n = IF l <= 55 THEN 1 ELSE IF l <= 119 THEN 2 ELSE 3 BY <2>2, <3>1 DEF Padding!Branch
    <3> HIDE DEF n
    <3> QED BY <3>1, <3>2
  <2> QED BY <2>1, <2>2
<1>4. n # 0 BY <1>3
<1>5. /\ Packed(l) /\ Marked /\ Blank(l \div 4 + 1, 16 * n - 2) /\ number = n
      /\ block[16 * n - 1] = <<0, 0, (8 * l) \div 256, (8 * l) % 256>>
  BY <1>4 DEF PaddingInv
<1>6. Clean BY <1>2 DEF Padding!Handled, Clean
<1>7. l \div 4 < 16 * n - 2 /\ l <= 64 * n - 9 BY <1>2, <1>4, Branches
<1> HIDE DEF n
<1>8. ASSUME NEW w \in 0 .. 16 * n - 1, NEW p \in 1 .. 4
      PROVE  block[w][p] = Padding!Standard(4 * w + p - 1, n)
  <2> DEFINE k == 4 * w + p - 1
  <2>1. k \in 0 .. 64 * n - 1 /\ k \div 4 = w /\ (k % 4) + 1 = p BY <1>3
  <2>2. CASE k < l
    <3>1. k \in 0 .. l - 1 BY <1>2, <2>1, <2>2
    <3>2. block[k \div 4][(k % 4) + 1] = msg[k] BY <1>5, <1>6, <3>1 DEF Packed
    <3>3. Padding!Standard(k, n) = msg[k]
      <4>1. k # l /\ ~(k > l) BY <1>2, <2>1, <2>2
      <4> QED BY <2>2, <4>1 DEF Padding!Standard
    <3> HIDE DEF k
    <3>4. block[w][p] = msg[k] BY <2>1, <3>2
    <3> QED BY <3>3, <3>4 DEF k
  <2>3. CASE k = l
    <3>1. w = l \div 4 /\ p = (l % 4) + 1 BY <2>1, <2>3
    <3>2. Padding!Standard(k, n) = 128 BY <1>2, <2>3 DEF Padding!Standard
    <3> QED BY <1>5, <3>1, <3>2 DEF Marked
  <2>4. CASE k > l /\ k < 64 * n - 8
    <3>1. Padding!Standard(k, n) = 0 BY <1>2, <1>3, <2>1, <2>4 DEF Padding!Standard
    <3>2. CASE w = l \div 4
      <4>1. p > (l % 4) + 1 BY <1>2, <2>4, <3>2
      <4> QED BY <1>5, <3>1, <3>2, <4>1 DEF Marked, Behind
    <3>3. CASE w # l \div 4
      <4>1. w \in l \div 4 + 1 .. 16 * n - 2 BY <1>2, <1>3, <2>4, <3>3
      <4>2. block[w] = Padding!Zero BY <1>5, <4>1 DEF Blank
      <4> QED BY <3>1, <4>2, ZeroIs
    <3> QED BY <3>2, <3>3
  <2>5. CASE k >= 64 * n - 8
    <3>1. Padding!Standard(k, n) = IF k = 64 * n - 2 THEN ((8 * l) \div 256) % 256
                                   ELSE IF k = 64 * n - 1 THEN (8 * l) % 256 ELSE 0
      <4>1. ~(k < l) /\ k # l /\ ~(k > l /\ k < 64 * n - 8) BY <1>2, <1>3, <1>7, <2>1, <2>5
      <4> QED BY <4>1 DEF Padding!Standard
    <3>2. CASE w = 16 * n - 2
      <4>1. k < 64 * n - 4 BY <1>3, <3>2
      <4>2. Padding!Standard(k, n) = 0 BY <1>3, <2>1, <3>1, <4>1
      <4>3. w \in l \div 4 + 1 .. 16 * n - 2 BY <1>2, <1>3, <1>7, <3>2
      <4>4. block[w] = Padding!Zero BY <1>5, <4>3 DEF Blank
      <4> QED BY <4>2, <4>4, ZeroIs
    <3>3. CASE w = 16 * n - 1
      <4>1. k = 64 * n - 5 + p BY <1>3, <3>3
      <4>2. ((8 * l) \div 256) % 256 = (8 * l) \div 256 BY <1>2
      <4>3. CASE p = 1 BY <1>3, <1>5, <3>1, <3>3, <4>1, <4>3
      <4>4. CASE p = 2 BY <1>3, <1>5, <3>1, <3>3, <4>1, <4>4
      <4>5. CASE p = 3 BY <1>3, <1>5, <3>1, <3>3, <4>1, <4>2, <4>5
      <4>6. CASE p = 4 BY <1>3, <1>5, <3>1, <3>3, <4>1, <4>6
      <4> QED BY <4>3, <4>4, <4>5, <4>6
    <3> QED BY <1>3, <2>5, <3>2, <3>3
  <2> QED BY <1>2, <1>3, <2>1, <2>2, <2>3, <2>4, <2>5
<1> QED BY <1>3, <1>5, <1>8

LEMMA AllCleared ==
  ASSUME PaddingInv, place = "done", Padding!Handled, NEW w \in 0 .. 63
  PROVE  block[w] # Padding!Old
<1> DEFINE n == Padding!Branch
<1>1. Padding!TypeOK BY DEF PaddingInv
<1>2. l \in 0 .. 255 /\ fn \in {"Padding_Mem", "Padding"} BY <1>1, PaddingTyped
<1>3. Padding!Branch # 0 BY <1>2 DEF Padding!Branch, Padding!Handled
<1>4. n \in {1, 2, 3} /\ l \div 4 < 16 * n - 2 BY <1>2, <1>3, Branches
<1>5. /\ Packed(l) /\ Marked /\ Blank(l \div 4 + 1, 16 * n - 2)
      /\ block[16 * n - 1] = <<0, 0, (8 * l) \div 256, (8 * l) % 256>> /\ Blank(16 * n, 63)
  BY <1>3 DEF PaddingInv
<1>6. Clean BY <1>2 DEF Padding!Handled, Clean
<1> HIDE DEF n
<1>7. CASE w < l \div 4
  <2>1. 4 * w \in 0 .. l - 1 /\ 4 * w + 1 \in 0 .. l - 1 BY <1>2, <1>7
  <2>2. /\ (4 * w) \div 4 = w /\ ((4 * w) % 4) + 1 = 1
        /\ (4 * w + 1) \div 4 = w /\ ((4 * w + 1) % 4) + 1 = 2
    OBVIOUS
  <2>3. block[w][1] = msg[4 * w] /\ block[w][2] = msg[4 * w + 1]
    BY <1>5, <1>6, <2>1, <2>2 DEF Packed
  <2>4. CASE fn = "Padding_Mem"
    <3>1. msg[4 * w] = 1 + ((7 * (4 * w)) % 255) /\ msg[4 * w + 1] = 1 + ((7 * (4 * w + 1)) % 255)
      BY <2>1, <2>4 DEF PaddingInv
    <3>2. ~(1 + ((7 * (4 * w)) % 255) = 222 /\ 1 + ((7 * (4 * w + 1)) % 255) = 173) OBVIOUS
    <3> QED BY <2>3, <3>1, <3>2, ZeroIs
  <2>5. CASE fn = "Padding"
    <3>1. msg[4 * w] < 128 BY <2>1, <2>5 DEF Padding!Handled
    <3>2. msg[4 * w] # 222 BY <3>1
    <3> QED BY <2>3, <3>2, ZeroIs
  <2> QED BY <1>2, <2>4, <2>5
<1>8. CASE w = l \div 4
  <2>1. (l % 4) + 1 \in 1 .. 4 BY <1>2
  <2> QED BY <1>5, <1>8, <2>1, ZeroIs DEF Marked
<1>9. CASE w \in l \div 4 + 1 .. 16 * n - 2 \/ w \in 16 * n .. 63
  <2>1. block[w] = Padding!Zero BY <1>5, <1>9 DEF Blank
  <2>2. 1 \in 1 .. 4 /\ 0 # 222 OBVIOUS
  <2> QED BY <2>1, <2>2, ZeroIs
<1>10. CASE w = 16 * n - 1
  <2>1. block[w][1] = 0 BY <1>5, <1>10
  <2> QED BY <2>1, ZeroIs
<1> QED BY <1>2, <1>4, <1>7, <1>8, <1>9, <1>10

LEMMA PaddingSound ==
  PaddingInv => Padding!TypeOK /\ Padding!PadsLikeTheStandard /\ Padding!ClearsAll
<1> SUFFICES ASSUME PaddingInv
             PROVE  Padding!TypeOK /\ Padding!PadsLikeTheStandard /\ Padding!ClearsAll
  OBVIOUS
<1>1. Padding!TypeOK BY DEF PaddingInv
<1>2. Padding!PadsLikeTheStandard BY PaddedRight DEF Padding!PadsLikeTheStandard
<1>3. Padding!ClearsAll BY AllCleared DEF Padding!ClearsAll, Padding!Words
<1> QED BY <1>1, <1>2, <1>3

LEMMA BlockSteps ==
  ASSUME [MCNext]_mcVars
  PROVE  /\ unit' = unit
         /\ unit = "layout" => Layout!Next \/ UNCHANGED layoutVars
         /\ unit = "padding" => Padding!Next \/ UNCHANGED paddingVars
<1>1. ASSUME NEW c \in Core, SearchNext(c) PROVE unit = "search" /\ unit' = unit
  BY <1>1 DEF SearchNext
<1>2. CASE LayoutNext BY <1>2 DEF LayoutNext
<1>3. CASE PaddingNext BY <1>3 DEF PaddingNext
<1>4. CASE TargetNext BY <1>4 DEF TargetNext
<1>5. CASE PcNext BY <1>5 DEF PcNext
<1>6. CASE BusNext(Bus!Next) BY <1>6 DEF BusNext
<1>7. CASE UNCHANGED mcVars BY <1>7 DEF mcVars
<1> QED BY <1>1, <1>2, <1>3, <1>4, <1>5, <1>6, <1>7 DEF MCNext

\* Every block a core is fed is the one the double hash of its own header with its
\* own nounce calls for, whichever cores are started, however many headers they are
\* given and however the handlers interleave, the target staying as main() stored
\* it; and a message of any length the functions handle is padded as FIPS 180-4
\* wants it, in the fewest blocks.
THEOREM FedAsTheStandardWants == MCSpec => []BlocksAreStandard
<1> DEFINE LInv == unit = "layout" => LayoutInv
           PInv == unit = "padding" => PaddingInv
<1>1. MCInit => LInv /\ PInv BY LayoutStarts, PaddingStarts DEF MCInit
<1>2. LInv /\ PInv /\ [MCNext]_mcVars => LInv' /\ PInv'
  BY BlockSteps, LayoutKept, PaddingKept
<1>3. LInv /\ PInv => BlocksAreStandard
  BY PaddingSound DEF LayoutInv, BlocksAreStandard
<1> QED BY <1>1, <1>2, <1>3, PTL DEF MCSpec

-----------------------------------------------------------------------------
\* The target and the verdict, computed twice (Target).
LEMMA Ordered ==
  \A a, b \in 0 .. 255 : (a > b <=> b < a) /\ (a < b => ~(b < a)) /\ (a < b \/ b < a \/ a = b)
OBVIOUS

\* The firmware's and the file's target, byte by byte.
TargetHeld ==
  IF fw = "target" THEN stray = {}
  ELSE /\ \A k \in 0 .. 31 : target[k] = IF (34 - bits[4]) - k \in 0 .. 2 THEN bits[1 + (34 - bits[4] - k)] ELSE 0
       /\ stray = {Target!Place(j) : j \in 0 .. 2} \ (0 .. 31)

MemoryHolds ==
  fw \in {"hash", "reverse", "compare", "done"} =>
    \A w \in 0 .. 7, p \in 1 .. 4 : words[w][p] = target[4 * w + p - 1]

DigestHeld ==
  /\ fw = "reverse" => \A w \in 0 .. 7, p \in 1 .. 4 : digest[w][p] = hash[4 * w + p - 1]
  /\ fw \in {"compare", "done"} => \A w \in 0 .. 7, p \in 1 .. 4 : digest[w][p] = hash[4 * w + 4 - p]

FileHeld ==
  /\ tool = "aborted" => bits[4] - 3 \notin 0 .. 32
  /\ tool \in {"compare", "done"} =>
       \A k \in 0 .. 31 :
         file[k] = IF (k + bits[4] - 3) % 32 < 29 THEN 0 ELSE bits[32 - ((k + bits[4] - 3) % 32)]

\* The first k bytes of the hash, the last one first, are those of a target.
SameUpTo(t, k) == \A m \in 0 .. k - 1 : hash[31 - m] = t[m]

VerdictSound(verdict, t) == verdict # "none" => (verdict = "below" <=> Target!Below(t))

TargetInv ==
  /\ Target!TypeOK /\ TargetHeld /\ MemoryHolds /\ DigestHeld /\ FileHeld
  /\ fw # "done" => fwVerdict = "none"
  /\ fw \in {"target", "store", "hash", "reverse"} => index = 0
  /\ fw = "compare" => SameUpTo(target, 4 * index)
  /\ tool # "done" => pcVerdict = "none"
  /\ tool = "done" => fw \in {"compare", "done"}
  /\ VerdictSound(fwVerdict, target) /\ VerdictSound(pcVerdict, file)

LEMMA TargetTyped ==
  ASSUME Target!TypeOK
  PROVE  /\ bits \in [1 .. 4 -> 0 .. 255] /\ hash \in [0 .. 31 -> 0 .. 255]
         /\ file \in [0 .. 31 -> 0 .. 255] /\ target \in [0 .. 31 -> 0 .. 255]
         /\ words \in [0 .. 8 -> [1 .. 4 -> 0 .. 255]] /\ digest \in [0 .. 7 -> [1 .. 4 -> 0 .. 255]]
         /\ tool \in {"bits", "compare", "aborted", "done"}
         /\ fw \in {"target", "store", "hash", "reverse", "compare", "done"} /\ index \in 0 .. 7
         /\ pcVerdict \in {"none", "below", "not below"} /\ fwVerdict \in {"none", "below", "not below"}
BY DEF Target!TypeOK, Target!Byte32

\* A difference decides, the bytes before it being equal.
LEMMA SmallerHere ==
  ASSUME NEW t, NEW k \in 0 .. 31, SameUpTo(t, k), hash[31 - k] < t[k]
  PROVE  Target!Below(t)
<1>1. 31 - k \in 0 .. 31 /\ 31 - (31 - k) = k OBVIOUS
<1>2. ASSUME NEW r \in (31 - k) + 1 .. 31 PROVE hash[r] = t[31 - r]
  <2>1. 31 - r \in 0 .. k - 1 /\ 31 - (31 - r) = r OBVIOUS
  <2> QED BY <2>1 DEF SameUpTo
<1> QED BY <1>1, <1>2 DEF Target!Below

LEMMA NotSmallerHere ==
  ASSUME NEW t, t \in [0 .. 31 -> 0 .. 255], hash \in [0 .. 31 -> 0 .. 255],
         NEW k \in 0 .. 31, SameUpTo(t, k), hash[31 - k] > t[k]
  PROVE  ~Target!Below(t)
<1>0. SUFFICES ASSUME NEW s \in 0 .. 31, hash[s] < t[31 - s],
                      \A r \in s + 1 .. 31 : hash[r] = t[31 - r]
               PROVE  FALSE
  BY DEF Target!Below
<1>1. 31 - k \in 0 .. 31 /\ 31 - (31 - k) = k /\ 31 - s \in 0 .. 31 /\ 31 - (31 - s) = s OBVIOUS
<1>2. hash[s] \in 0 .. 255 /\ t[31 - s] \in 0 .. 255 /\ hash[31 - k] \in 0 .. 255 /\ t[k] \in 0 .. 255
  BY <1>1
<1>3. CASE 31 - s < k
  <2>1. 31 - s \in 0 .. k - 1 BY <1>3
  <2>2. hash[31 - (31 - s)] = t[31 - s] BY <2>1 DEF SameUpTo
  <2>3. hash[s] = t[31 - s] BY <1>1, <2>2
  <2>4. ~(hash[s] < t[31 - s])
    <3>1. \A x \in 0 .. 255 : ~(x < x) OBVIOUS
    <3> QED BY <1>2, <2>3, <3>1
  <2> QED BY <1>0, <2>4
<1>4. CASE 31 - s = k
  <2>1. s = 31 - k BY <1>4
  <2>2. hash[31 - k] < t[k] BY <1>0, <1>4, <2>1
  <2>3. ~(hash[31 - k] < t[k]) BY <1>2, Ordered
  <2> QED BY <2>2, <2>3
<1>5. CASE 31 - s > k
  <2>1. 31 - k \in s + 1 .. 31 BY <1>5
  <2>2. hash[31 - k] = t[31 - (31 - k)] BY <1>0, <2>1
  <2>3. hash[31 - k] = t[k] BY <1>1, <2>2
  <2> QED BY <1>2, <2>3
<1> QED BY <1>3, <1>4, <1>5

LEMMA AllSame ==
  ASSUME NEW t, t \in [0 .. 31 -> 0 .. 255], SameUpTo(t, 32) PROVE ~Target!Below(t)
<1> SUFFICES ASSUME NEW s \in 0 .. 31, hash[s] < t[31 - s] PROVE FALSE BY DEF Target!Below
<1>1. 31 - s \in 0 .. 32 - 1 /\ 31 - (31 - s) = s /\ 31 - s \in 0 .. 31 OBVIOUS
<1>2. hash[31 - (31 - s)] = t[31 - s] BY <1>1 DEF SameUpTo
<1>3. t[31 - s] \in 0 .. 255 BY <1>1
<1> QED BY <1>1, <1>2, <1>3

\* memcmp's answer is the order of the two numbers.
LEMMA MemcmpIsOrder ==
  ASSUME hash \in [0 .. 31 -> 0 .. 255], NEW t, t \in [0 .. 31 -> 0 .. 255]
  PROVE  Target!MemLess(Target!ReverseByte(hash), t) <=> Target!Below(t)
<1> DEFINE h == Target!ReverseByte(hash)
<1>1. DOMAIN h = 0 .. 31 /\ \A k \in 0 .. 31 : h[k] = hash[31 - k] BY DEF Target!ReverseByte
<1> HIDE DEF h
<1>2. ASSUME NEW k \in 0 .. 31, h[k] < t[k], \A j \in 0 .. 31 : j < k => h[j] = t[j]
      PROVE  Target!Below(t)
  <2>1. SameUpTo(t, k)
    <3>1. ASSUME NEW m \in 0 .. k - 1 PROVE hash[31 - m] = t[m]
      <4>1. m \in 0 .. 31 /\ m < k OBVIOUS
      <4> QED BY <1>1, <1>2, <4>1
    <3> QED BY <3>1 DEF SameUpTo
  <2> QED BY <1>1, <1>2, <2>1, SmallerHere
<1>3. ASSUME NEW s \in 0 .. 31, hash[s] < t[31 - s], \A r \in s + 1 .. 31 : hash[r] = t[31 - r]
      PROVE  \E k \in 0 .. 31 : h[k] < t[k] /\ \A j \in 0 .. 31 : j < k => h[j] = t[j]
  <2>1. 31 - s \in 0 .. 31 /\ 31 - (31 - s) = s OBVIOUS
  <2>2. h[31 - s] < t[31 - s] BY <1>1, <1>3, <2>1
  <2>3. ASSUME NEW j \in 0 .. 31, j < 31 - s PROVE h[j] = t[j]
    <3>1. 31 - j \in s + 1 .. 31 /\ 31 - (31 - j) = j BY <2>3
    <3>2. hash[31 - j] = t[31 - (31 - j)] BY <1>3, <3>1
    <3> QED BY <1>1, <3>1, <3>2
  <2> QED BY <2>1, <2>2, <2>3
<1>4. Target!MemLess(h, t) <=> \E k \in 0 .. 31 : h[k] < t[k] /\ \A j \in 0 .. 31 : j < k => h[j] = t[j]
  BY <1>1 DEF Target!MemLess
<1>5. Target!Below(t) <=>
        \E s \in 0 .. 31 : hash[s] < t[31 - s] /\ \A r \in s + 1 .. 31 : hash[r] = t[31 - r]
  BY DEF Target!Below
<1>6. Target!MemLess(h, t) => Target!Below(t) BY <1>2, <1>4
<1>7. Target!Below(t) => Target!MemLess(h, t) BY <1>3, <1>4, <1>5
<1> QED BY <1>6, <1>7 DEF h

LEMMA TargetStarts == Target!Init => TargetInv
<1> SUFFICES ASSUME Target!Init PROVE TargetInv OBVIOUS
<1> USE DEF Target!Init
<1>1. bits \in [1 .. 4 -> 0 .. 255]
  <2>1. PICK e \in Exponents, m \in Mantissas : bits = <<m[1], m[2], m[3], e>> OBVIOUS
  <2>2. Exponents \subseteq 0 .. 255 /\ Mantissas \subseteq [1 .. 3 -> 0 .. 255]
    BY InstancesAssumption DEF Target!BitsAssumption
  <2>3. e \in OneByte /\ m[1] \in OneByte /\ m[2] \in OneByte /\ m[3] \in OneByte BY <2>2 DEF OneByte
  <2>4. <<m[1], m[2], m[3], e>> \in PWord BY <2>3, WordBytes
  <2> QED BY <2>1, <2>4 DEF PWord
<1>2. /\ hash = [k \in 0 .. 31 |-> 0] /\ file = [k \in 0 .. 31 |-> 0] /\ target = [k \in 0 .. 31 |-> 0]
      /\ tool = "bits" /\ pcVerdict = "none" /\ fw = "target" /\ index = 0 /\ fwVerdict = "none"
      /\ words = [w \in 0 .. 8 |-> <<1, 2, 3, 4>>] /\ digest = [w \in 0 .. 7 |-> <<0, 0, 0, 0>>]
  BY DEF Target!Zeros, Target!Zero
<1>3. <<1, 2, 3, 4>> \in PWord /\ <<0, 0, 0, 0>> \in PWord
  <2>1. 0 \in OneByte /\ 1 \in OneByte /\ 2 \in OneByte /\ 3 \in OneByte /\ 4 \in OneByte
    BY DEF OneByte
  <2>2. <<1, 2, 3, 4>> \in PWord BY <2>1, WordBytes
  <2>3. <<0, 0, 0, 0>> \in PWord BY <2>1, WordBytes
  <2> QED BY <2>2, <2>3
<1>4. words \in [0 .. 8 -> PWord] /\ digest \in [0 .. 7 -> PWord] BY <1>2, <1>3
<1>5. hash \in Target!Byte32 /\ file \in Target!Byte32 /\ target \in Target!Byte32
  BY <1>2 DEF Target!Byte32
<1>6. Target!TypeOK
  <2> HIDE DEF Target!Init
  <2>1. /\ tool \in {"bits", "compare", "aborted", "done"} /\ index \in 0 .. 7
        /\ fw \in {"target", "store", "hash", "reverse", "compare", "done"}
        /\ {pcVerdict, fwVerdict} \subseteq {"none", "below", "not below"}
    BY <1>2
  <2> QED BY <1>1, <1>4, <1>5, <2>1 DEF Target!TypeOK, PWord
<1> HIDE DEF Target!Init
<1>7. stray = {} BY DEF Target!Init
<1>8. TargetHeld /\ MemoryHolds /\ DigestHeld /\ FileHeld
  BY <1>2, <1>7 DEF TargetHeld, MemoryHolds, DigestHeld, FileHeld
<1>9. VerdictSound(fwVerdict, target) /\ VerdictSound(pcVerdict, file) BY <1>2 DEF VerdictSound
<1> QED BY <1>2, <1>6, <1>8, <1>9 DEF TargetInv

\* The steps that touch only one side.
LEMMA CalculateStep == ASSUME TargetInv, Target!Calculate PROVE TargetInv'
<1>1. /\ fw = "target" /\ fw' = "store"
      /\ UNCHANGED <<bits, hash, file, tool, pcVerdict, words, digest, index, fwVerdict>>
      /\ target' = [k \in 0 .. 31 |-> IF \E j \in 0 .. 2 : Target!Place(j) = k
                                      THEN bits[1 + (34 - bits[4] - k)] ELSE 0]
      /\ stray' = {Target!Place(j) : j \in 0 .. 2} \ (0 .. 31)
  BY DEF Target!Calculate, Target!tools, Target!exponent
<1>2. Target!TypeOK BY DEF TargetInv
<1>3. bits \in [1 .. 4 -> 0 .. 255] BY <1>2, TargetTyped
<1>4. bits[4] \in 0 .. 255 BY <1>3
<1>5. ASSUME NEW k \in 0 .. 31
      PROVE  (\E j \in 0 .. 2 : Target!Place(j) = k) <=> (34 - bits[4]) - k \in 0 .. 2
  <2>1. \A j \in 0 .. 2 : Target!Place(j) = 34 - bits[4] - j BY DEF Target!Place, Target!exponent
  <2>2. (34 - bits[4]) - k \in 0 .. 2 => Target!Place((34 - bits[4]) - k) = k BY <1>4, <2>1
  <2>3. ASSUME NEW j \in 0 .. 2, Target!Place(j) = k PROVE (34 - bits[4]) - k \in 0 .. 2
    BY <1>4, <2>1, <2>3
  <2> QED BY <2>2, <2>3
<1>6. \A k \in 0 .. 31 : target'[k] = IF (34 - bits[4]) - k \in 0 .. 2 THEN bits[1 + (34 - bits[4] - k)] ELSE 0
  BY <1>1, <1>5
<1>7. target' \in [0 .. 31 -> 0 .. 255]
  <2>1. ASSUME NEW k \in 0 .. 31 PROVE target'[k] \in 0 .. 255
    <3>1. CASE (34 - bits[4]) - k \in 0 .. 2
      <4>1. 1 + (34 - bits[4] - k) \in 1 .. 4 BY <1>4, <3>1
      <4>2. bits[1 + (34 - bits[4] - k)] \in 0 .. 255 BY <1>3, <4>1
      <4> QED BY <1>6, <3>1, <4>2
    <3>2. CASE (34 - bits[4]) - k \notin 0 .. 2 BY <1>6, <3>2
    <3> QED BY <3>1, <3>2
  <2> QED BY <1>1, <2>1
<1>8. Target!TypeOK' BY <1>1, <1>2, <1>7 DEF Target!TypeOK, Target!Byte32
<1>9. TargetHeld'
  <2>1. stray' = {Target!Place(j)' : j \in 0 .. 2} \ (0 .. 31)
    BY <1>1 DEF Target!Place, Target!exponent
  <2> QED BY <1>1, <1>6, <2>1 DEF TargetHeld
<1>10. MemoryHolds' /\ DigestHeld' BY <1>1 DEF MemoryHolds, DigestHeld
<1>11. FileHeld' /\ VerdictSound(pcVerdict, file)' /\ fwVerdict' = "none" /\ tool # "done"
  BY <1>1 DEF TargetInv, FileHeld, VerdictSound, Target!Below
<1>12. VerdictSound(fwVerdict, target)' BY <1>11 DEF VerdictSound
<1> QED BY <1>1, <1>8, <1>9, <1>10, <1>11, <1>12 DEF TargetInv

LEMMA StoreTargetWordsStep == ASSUME TargetInv, Target!StoreTarget PROVE TargetInv'
<1>1. /\ fw = "store" /\ fw' = "hash"
      /\ UNCHANGED <<bits, hash, file, tool, pcVerdict, target, stray, digest, index, fwVerdict>>
      /\ words' = [w \in 0 .. 8 |-> IF w = 8 THEN <<0, 0, 0, 0>>
                                    ELSE [p \in 1 .. 4 |-> target[4 * w + p - 1]]]
  BY DEF Target!StoreTarget, Target!tools, Target!Zero
<1>2. Target!TypeOK BY DEF TargetInv
<1>3. target \in [0 .. 31 -> 0 .. 255] BY <1>2, TargetTyped
<1>4. words' \in [0 .. 8 -> PWord]
  <2>1. ASSUME NEW w \in 0 .. 7 PROVE [p \in 1 .. 4 |-> target[4 * w + p - 1]] \in PWord
    <3>1. \A p \in 1 .. 4 : 4 * w + p - 1 \in 0 .. 31 OBVIOUS
    <3> QED BY <1>3, <3>1 DEF PWord
  <2>2. <<0, 0, 0, 0>> \in PWord
    <3>1. 0 \in OneByte BY DEF OneByte
    <3> QED BY <3>1, WordBytes
  <2> QED BY <1>1, <2>1, <2>2
<1>5. Target!TypeOK' BY <1>1, <1>2, <1>4 DEF Target!TypeOK, PWord
<1>6. MemoryHolds'
  <2>1. ASSUME NEW w \in 0 .. 7, NEW p \in 1 .. 4 PROVE words'[w][p] = target[4 * w + p - 1]
    BY <1>1
  <2> QED BY <1>1, <2>1 DEF MemoryHolds
<1>7. TargetHeld' BY <1>1 DEF TargetInv, TargetHeld, Target!Place, Target!exponent
<1>8. DigestHeld' BY <1>1 DEF DigestHeld
<1>9. FileHeld' /\ VerdictSound(pcVerdict, file)' /\ fwVerdict' = "none" /\ tool # "done"
  BY <1>1 DEF TargetInv, FileHeld, VerdictSound, Target!Below
<1>10. VerdictSound(fwVerdict, target)' BY <1>9 DEF VerdictSound
<1> QED BY <1>1, <1>5, <1>6, <1>7, <1>8, <1>9, <1>10 DEF TargetInv

LEMMA ReadDigestStep == ASSUME TargetInv, Target!ReadDigest PROVE TargetInv'
<1>1. /\ fw = "hash" /\ fw' = "reverse"
      /\ UNCHANGED <<bits, file, tool, pcVerdict, target, stray, words, index, fwVerdict>>
  BY DEF Target!ReadDigest, Target!tools
<1>2. Target!TypeOK BY DEF TargetInv
<1>3. target \in [0 .. 31 -> 0 .. 255] BY <1>2, TargetTyped
<1>4. PICK k \in Places, j \in Places, v \in Values, u \in Values :
        /\ hash' = Target!ReverseByte([target EXCEPT ![k] = v, ![j] = u])
        /\ digest' = [w \in 0 .. 7 |-> [p \in 1 .. 4 |-> hash'[4 * w + p - 1]]]
  BY DEF Target!ReadDigest
<1>5. k \in 0 .. 31 /\ j \in 0 .. 31 /\ v \in 0 .. 255 /\ u \in 0 .. 255
  BY InstancesAssumption DEF Target!BitsAssumption
<1>6. hash' \in [0 .. 31 -> 0 .. 255]
  <2> DEFINE t == [target EXCEPT ![k] = v, ![j] = u]
  <2>1. t \in [0 .. 31 -> 0 .. 255] BY <1>3, <1>5
  <2> HIDE DEF t
  <2>2. \A n \in 0 .. 31 : t[31 - n] \in 0 .. 255 BY <2>1
  <2>3. hash' = [n \in 0 .. 31 |-> t[31 - n]] BY <1>4 DEF t, Target!ReverseByte
  <2> QED BY <2>2, <2>3
<1>7. digest' \in [0 .. 7 -> PWord]
  <2>1. ASSUME NEW w \in 0 .. 7 PROVE [p \in 1 .. 4 |-> hash'[4 * w + p - 1]] \in PWord
    <3>1. \A p \in 1 .. 4 : 4 * w + p - 1 \in 0 .. 31 OBVIOUS
    <3> QED BY <1>6, <3>1 DEF PWord
  <2> QED BY <1>4, <2>1
<1>8. Target!TypeOK' BY <1>1, <1>2, <1>6, <1>7 DEF Target!TypeOK, Target!Byte32, PWord
<1>9. DigestHeld'
  <2>1. ASSUME NEW w \in 0 .. 7, NEW p \in 1 .. 4 PROVE digest'[w][p] = hash'[4 * w + p - 1]
    BY <1>4
  <2> QED BY <1>1, <2>1 DEF DigestHeld
<1>10. TargetHeld' BY <1>1 DEF TargetInv, TargetHeld, Target!Place, Target!exponent
<1>11. MemoryHolds' BY <1>1 DEF TargetInv, MemoryHolds
<1>12. FileHeld' /\ pcVerdict' = "none" /\ fwVerdict' = "none" /\ tool' # "done"
  BY <1>1 DEF TargetInv, FileHeld
<1>13. VerdictSound(fwVerdict, target)' /\ VerdictSound(pcVerdict, file)' BY <1>12 DEF VerdictSound
<1> QED BY <1>1, <1>8, <1>9, <1>10, <1>11, <1>12, <1>13 DEF TargetInv

LEMMA ReverseBytesStep == ASSUME TargetInv, Target!ReverseBytes PROVE TargetInv'
<1>1. /\ fw = "reverse" /\ fw' = "compare"
      /\ UNCHANGED <<bits, hash, file, tool, pcVerdict, target, stray, words, index, fwVerdict>>
      /\ digest' = [w \in 0 .. 7 |-> [p \in 1 .. 4 |-> digest[w][5 - p]]]
  BY DEF Target!ReverseBytes, Target!tools
<1>2. Target!TypeOK BY DEF TargetInv
<1>3. digest \in [0 .. 7 -> PWord] BY <1>2, TargetTyped DEF PWord
<1>4. digest' \in [0 .. 7 -> PWord]
  <2>1. ASSUME NEW w \in 0 .. 7 PROVE [p \in 1 .. 4 |-> digest[w][5 - p]] \in PWord
    <3>1. digest[w] \in PWord BY <1>3
    <3>2. \A p \in 1 .. 4 : 5 - p \in 1 .. 4 OBVIOUS
    <3> QED BY <3>1, <3>2 DEF PWord
  <2> QED BY <1>1, <2>1
<1>5. Target!TypeOK' BY <1>1, <1>2, <1>4 DEF Target!TypeOK, PWord
<1>6. DigestHeld'
  <2>1. ASSUME NEW w \in 0 .. 7, NEW p \in 1 .. 4 PROVE digest'[w][p] = hash[4 * w + 4 - p]
    <3>1. 5 - p \in 1 .. 4 /\ 4 * w + (5 - p) - 1 = 4 * w + 4 - p OBVIOUS
    <3>2. digest[w][5 - p] = hash[4 * w + (5 - p) - 1] BY <1>1, <3>1 DEF TargetInv, DigestHeld
    <3> QED BY <1>1, <3>1, <3>2
  <2> QED BY <1>1, <2>1 DEF DigestHeld
<1>7. TargetHeld' BY <1>1 DEF TargetInv, TargetHeld, Target!Place, Target!exponent
<1>8. MemoryHolds' BY <1>1 DEF TargetInv, MemoryHolds
<1>9. FileHeld' BY <1>1 DEF TargetInv, FileHeld
<1>10. pcVerdict' = "none" /\ fwVerdict' = "none" /\ tool' # "done" BY <1>1 DEF TargetInv
<1>11. VerdictSound(fwVerdict, target)' /\ VerdictSound(pcVerdict, file)' BY <1>10 DEF VerdictSound
<1>12. index' = 0 /\ SameUpTo(target, 4 * index)'
  <2>1. index = 0 BY <1>1 DEF TargetInv
  <2>2. 0 .. 4 * 0 - 1 = {} OBVIOUS
  <2> QED BY <1>1, <2>1, <2>2 DEF SameUpTo
<1> QED BY <1>1, <1>5, <1>6, <1>7, <1>8, <1>9, <1>10, <1>11, <1>12 DEF TargetInv

LEMMA CalculateTargetHexStep == ASSUME TargetInv, Target!CalculateTargetHex PROVE TargetInv'
<1>1. /\ tool = "bits"
      /\ UNCHANGED <<bits, hash, pcVerdict, target, stray, words, digest, fw, index, fwVerdict>>
  BY DEF Target!CalculateTargetHex, Target!firmware
<1>2. Target!TypeOK BY DEF TargetInv
<1>3. bits \in [1 .. 4 -> 0 .. 255] /\ file \in [0 .. 31 -> 0 .. 255] BY <1>2, TargetTyped
<1>4. bits[4] \in 0 .. 255 BY <1>3
<1>5. tool' \in {"compare", "aborted"} /\ file' \in [0 .. 31 -> 0 .. 255] /\ FileHeld'
  <2>1. CASE bits[4] - 3 \in 0 .. 32
    <3>1. /\ tool' = "compare"
          /\ file' = [k \in 0 .. 31 |-> LET d == (k + bits[4] - 3) % 32
                                        IN  IF d < 29 THEN 0 ELSE bits[32 - d]]
      BY <2>1 DEF Target!CalculateTargetHex, Target!exponent
    <3>2. ASSUME NEW k \in 0 .. 31
          PROVE  /\ file'[k] = IF (k + bits[4] - 3) % 32 < 29 THEN 0 ELSE bits[32 - ((k + bits[4] - 3) % 32)]
                 /\ file'[k] \in 0 .. 255
      <4> DEFINE d == (k + bits[4] - 3) % 32
      <4>1. d \in 0 .. 31 BY <1>4
      <4>2. file'[k] = IF d < 29 THEN 0 ELSE bits[32 - d] BY <3>1
      <4> HIDE DEF d
      <4>3. ~(d < 29) => bits[32 - d] \in 0 .. 255
        <5>1. ~(d < 29) => 32 - d \in 1 .. 4 BY <4>1
        <5> QED BY <1>3, <5>1
      <4>4. file'[k] \in 0 .. 255 BY <4>1, <4>2, <4>3
      <4> QED BY <4>2, <4>4 DEF d
    <3>3. file' \in [0 .. 31 -> 0 .. 255]
      <4>1. DOMAIN file' = 0 .. 31 /\ file' = [k \in 0 .. 31 |-> file'[k]] BY <3>1
      <4> QED BY <3>2, <4>1
    <3> QED BY <1>1, <3>1, <3>2, <3>3 DEF FileHeld
  <2>2. CASE bits[4] - 3 \notin 0 .. 32
    <3>1. tool' = "aborted" /\ file' = file
      BY <2>2 DEF Target!CalculateTargetHex, Target!exponent
    <3> QED BY <1>1, <1>3, <2>2, <3>1 DEF FileHeld
  <2> QED BY <2>1, <2>2
<1>6. Target!TypeOK' BY <1>1, <1>2, <1>5 DEF Target!TypeOK, Target!Byte32
<1>7. TargetHeld' BY <1>1 DEF TargetInv, TargetHeld, Target!Place, Target!exponent
<1>8. MemoryHolds' /\ DigestHeld' BY <1>1 DEF TargetInv, MemoryHolds, DigestHeld
<1>9. pcVerdict' = "none" /\ tool' # "done" BY <1>1, <1>5 DEF TargetInv
<1>10. VerdictSound(pcVerdict, file)' BY <1>9 DEF VerdictSound
<1>11. VerdictSound(fwVerdict, target)' BY <1>1 DEF TargetInv, VerdictSound, Target!Below
<1>12. fw' = "compare" => SameUpTo(target, 4 * index)' BY <1>1 DEF TargetInv, SameUpTo
<1>13. fw' # "done" => fwVerdict' = "none" BY <1>1 DEF TargetInv
<1>14. fw' \in {"target", "store", "hash", "reverse"} => index' = 0 BY <1>1 DEF TargetInv
<1> QED BY <1>5, <1>6, <1>7, <1>8, <1>9, <1>10, <1>11, <1>12, <1>13, <1>14 DEF TargetInv

LEMMA MemcmpStep == ASSUME TargetInv, Target!Memcmp PROVE TargetInv'
<1>1. /\ tool = "compare" /\ tool' = "done" /\ fw \in {"compare", "done"}
      /\ pcVerdict' = IF Target!MemLess(Target!ReverseByte(hash), file) THEN "below" ELSE "not below"
      /\ UNCHANGED <<bits, hash, file, target, stray, words, digest, fw, index, fwVerdict>>
  BY DEF Target!Memcmp, Target!firmware
<1>2. Target!TypeOK BY DEF TargetInv
<1>3. hash \in [0 .. 31 -> 0 .. 255] /\ file \in [0 .. 31 -> 0 .. 255] BY <1>2, TargetTyped
<1>4. pcVerdict' \in {"below", "not below"} BY <1>1
<1>5. Target!TypeOK' BY <1>1, <1>2, <1>4 DEF Target!TypeOK
<1>6. VerdictSound(pcVerdict, file)'
  <2>1. pcVerdict' = "below" <=> Target!Below(file) BY <1>1, <1>3, MemcmpIsOrder
  <2>2. Target!Below(file)' <=> Target!Below(file) BY <1>1 DEF Target!Below
  <2> QED BY <2>1, <2>2 DEF VerdictSound
<1>7. TargetHeld' BY <1>1 DEF TargetInv, TargetHeld, Target!Place, Target!exponent
<1>8. MemoryHolds' /\ DigestHeld' BY <1>1 DEF TargetInv, MemoryHolds, DigestHeld
<1>9. FileHeld' BY <1>1 DEF TargetInv, FileHeld
<1>10. VerdictSound(fwVerdict, target)' BY <1>1 DEF TargetInv, VerdictSound, Target!Below
<1>11. fw' = "compare" => SameUpTo(target, 4 * index)' BY <1>1 DEF TargetInv, SameUpTo
<1>12. fw' # "done" => fwVerdict' = "none" BY <1>1 DEF TargetInv
<1>13. fw' \in {"target", "store", "hash", "reverse"} => index' = 0 BY <1>1 DEF TargetInv
<1> QED BY <1>1, <1>5, <1>6, <1>7, <1>8, <1>9, <1>10, <1>11, <1>12, <1>13 DEF TargetInv

\* The word compared, from its highest byte on.
LEMMA WordsCompared ==
  ASSUME TargetInv, fw = "compare", NEW p \in 1 .. 4
  PROVE  /\ 4 * index + p - 1 \in 0 .. 31
         /\ digest[7 - index][p] = hash[31 - (4 * index + p - 1)]
         /\ words[index][p] = target[4 * index + p - 1]
         /\ digest[7 - index][p] \in 0 .. 255 /\ words[index][p] \in 0 .. 255
<1>1. index \in 0 .. 7 BY TargetTyped DEF TargetInv
<1>2. 7 - index \in 0 .. 7 /\ 4 * (7 - index) + 4 - p = 31 - (4 * index + p - 1)
      /\ 4 * index + p - 1 \in 0 .. 31 /\ 31 - (4 * index + p - 1) \in 0 .. 31
  BY <1>1
<1>3. digest[7 - index][p] = hash[4 * (7 - index) + 4 - p] BY <1>2 DEF TargetInv, DigestHeld
<1>4. words[index][p] = target[4 * index + p - 1] BY <1>1 DEF TargetInv, MemoryHolds
<1>5. hash \in [0 .. 31 -> 0 .. 255] /\ target \in [0 .. 31 -> 0 .. 255]
  BY TargetTyped DEF TargetInv
<1>6. hash[31 - (4 * index + p - 1)] \in 0 .. 255 /\ target[4 * index + p - 1] \in 0 .. 255
  BY <1>2, <1>5
<1> QED BY <1>2, <1>3, <1>4, <1>6

\* Equal bytes so far, and equal in this word before byte p.
LEMMA StillSame ==
  ASSUME TargetInv, fw = "compare", NEW p \in 1 .. 5,
         \A q \in 1 .. 4 : q < p => digest[7 - index][q] = words[index][q]
  PROVE  SameUpTo(target, 4 * index + p - 1)
<1>1. index \in 0 .. 7 BY TargetTyped DEF TargetInv
<1>2. ASSUME NEW m \in 0 .. (4 * index + p - 1) - 1 PROVE hash[31 - m] = target[m]
  <2>1. CASE m < 4 * index
    <3>1. m \in 0 .. 4 * index - 1 BY <1>1, <2>1
    <3>2. SameUpTo(target, 4 * index) BY DEF TargetInv
    <3> QED BY <3>1, <3>2 DEF SameUpTo
  <2>2. CASE m >= 4 * index
    <3> DEFINE q == m - 4 * index + 1
    <3>1. q \in 1 .. 4 /\ q < p /\ 4 * index + q - 1 = m BY <1>1, <2>2
    <3> HIDE DEF q
    <3>2. digest[7 - index][q] = words[index][q] BY <3>1
    <3>3. digest[7 - index][q] = hash[31 - (4 * index + q - 1)] /\ words[index][q] = target[4 * index + q - 1]
      BY <3>1, WordsCompared
    <3> QED BY <3>1, <3>2, <3>3
  <2> QED BY <1>1, <2>1, <2>2
<1> QED BY <1>2 DEF SameUpTo

LEMMA CompareWordStep == ASSUME TargetInv, Target!CompareWord PROVE TargetInv'
<1> DEFINE first == digest[7 - index]
           last  == words[index]
<1>1. /\ fw = "compare"
      /\ UNCHANGED <<bits, hash, file, tool, pcVerdict, target, stray, words, digest>>
      /\ IF Target!MemLess(first, last) THEN fwVerdict' = "below" /\ fw' = "done" /\ UNCHANGED index
         ELSE IF Target!MemLess(last, first) \/ index = 7
              THEN fwVerdict' = "not below" /\ fw' = "done" /\ UNCHANGED index
              ELSE index' = index + 1 /\ UNCHANGED <<fw, fwVerdict>>
  BY DEF Target!CompareWord, Target!Compare, Target!tools
<1>2. Target!TypeOK BY DEF TargetInv
<1>3. /\ index \in 0 .. 7 /\ 7 - index \in 0 .. 7 /\ index \in 0 .. 8
      /\ words \in [0 .. 8 -> [1 .. 4 -> 0 .. 255]] /\ digest \in [0 .. 7 -> [1 .. 4 -> 0 .. 255]]
      /\ target \in [0 .. 31 -> 0 .. 255] /\ hash \in [0 .. 31 -> 0 .. 255]
  <2>1. index \in 0 .. 7 BY <1>2, TargetTyped
  <2>2. 7 - index \in 0 .. 7 /\ index \in 0 .. 8 BY <2>1
  <2>3. words \in [0 .. 8 -> [1 .. 4 -> 0 .. 255]] /\ digest \in [0 .. 7 -> [1 .. 4 -> 0 .. 255]]
    BY <1>2, TargetTyped
  <2>4. target \in [0 .. 31 -> 0 .. 255] /\ hash \in [0 .. 31 -> 0 .. 255] BY <1>2, TargetTyped
  <2> QED BY <2>1, <2>2, <2>3, <2>4
<1>4. DOMAIN first = 1 .. 4 /\ DOMAIN last = 1 .. 4 BY <1>3
<1>5. \A p \in 1 .. 4 : /\ first[p] \in 0 .. 255 /\ last[p] \in 0 .. 255
                        /\ first[p] = hash[31 - (4 * index + p - 1)] /\ last[p] = target[4 * index + p - 1]
                        /\ 4 * index + p - 1 \in 0 .. 31
  BY <1>1, WordsCompared
<1>6. ASSUME NEW p \in 1 .. 5, \A q \in 1 .. 4 : q < p => first[q] = last[q]
      PROVE  SameUpTo(target, 4 * index + p - 1)
  BY <1>1, <1>6, StillSame
<1> HIDE DEF first, last
<1>7. Target!MemLess(first, last) => Target!Below(target)
  <2>1. ASSUME NEW p \in 1 .. 4, first[p] < last[p], \A q \in 1 .. 4 : q < p => first[q] = last[q]
        PROVE  Target!Below(target)
    <3>1. SameUpTo(target, 4 * index + p - 1) BY <1>6, <2>1
    <3>2. hash[31 - (4 * index + p - 1)] < target[4 * index + p - 1] BY <1>5, <2>1
    <3>3. 4 * index + p - 1 \in 0 .. 31 BY <1>5
    <3> QED BY <3>1, <3>2, <3>3, SmallerHere
  <2> QED BY <1>4, <2>1 DEF Target!MemLess
<1>8. Target!MemLess(last, first) => ~Target!Below(target)
  <2>1. ASSUME NEW p \in 1 .. 4, last[p] < first[p], \A q \in 1 .. 4 : q < p => last[q] = first[q]
        PROVE  ~Target!Below(target)
    <3>1. SameUpTo(target, 4 * index + p - 1)
      <4>1. \A q \in 1 .. 4 : q < p => first[q] = last[q] BY <2>1
      <4> QED BY <1>6, <4>1
    <3>2. hash[31 - (4 * index + p - 1)] > target[4 * index + p - 1] BY <1>5, <2>1
    <3>3. 4 * index + p - 1 \in 0 .. 31 BY <1>5
    <3> QED BY <1>3, <3>1, <3>2, <3>3, NotSmallerHere
  <2> QED BY <1>4, <2>1 DEF Target!MemLess
<1>9. ~Target!MemLess(first, last) /\ ~Target!MemLess(last, first) => SameUpTo(target, 4 * index + 4)
  <2> SUFFICES ASSUME ~Target!MemLess(first, last), ~Target!MemLess(last, first)
               PROVE  SameUpTo(target, 4 * index + 4)
    OBVIOUS
  <2>1. ASSUME NEW p \in 1 .. 4, \A q \in 1 .. 4 : q < p => first[q] = last[q] PROVE first[p] = last[p]
    <3>1. ~(first[p] < last[p]) BY <1>4, <2>1 DEF Target!MemLess
    <3>2. \A q \in 1 .. 4 : q < p => last[q] = first[q] BY <2>1
    <3>3. ~(last[p] < first[p]) BY <1>4, <3>2 DEF Target!MemLess
    <3>4. first[p] \in 0 .. 255 /\ last[p] \in 0 .. 255 BY <1>5
    <3> QED BY <3>1, <3>3, <3>4, Ordered
  <2>2. first[1] = last[1]
    <3>1. 1 \in 1 .. 4 /\ \A q \in 1 .. 4 : ~(q < 1) OBVIOUS
    <3> QED BY <2>1, <3>1
  <2>3. first[2] = last[2]
    <3>1. 2 \in 1 .. 4 /\ \A q \in 1 .. 4 : q < 2 => q = 1 OBVIOUS
    <3> QED BY <2>1, <2>2, <3>1
  <2>4. first[3] = last[3]
    <3>1. 3 \in 1 .. 4 /\ \A q \in 1 .. 4 : q < 3 => q = 1 \/ q = 2 OBVIOUS
    <3> QED BY <2>1, <2>2, <2>3, <3>1
  <2>5. first[4] = last[4]
    <3>1. 4 \in 1 .. 4 /\ \A q \in 1 .. 4 : q < 4 => q = 1 \/ q = 2 \/ q = 3 OBVIOUS
    <3> QED BY <2>1, <2>2, <2>3, <2>4, <3>1
  <2>6. \A q \in 1 .. 4 : q < 5 => first[q] = last[q]
    <3>1. \A q \in 1 .. 4 : q = 1 \/ q = 2 \/ q = 3 \/ q = 4 OBVIOUS
    <3> QED BY <2>2, <2>3, <2>4, <2>5, <3>1
  <2>7. 5 \in 1 .. 5 /\ 4 * index + 5 - 1 = 4 * index + 4 BY <1>3
  <2> QED BY <1>6, <2>6, <2>7
<1>10. /\ fw' \in {"compare", "done"} /\ index' \in 0 .. 7
       /\ fwVerdict' \in {"none", "below", "not below"}
       /\ fw' # "done" => fwVerdict' = "none"
  <2>1. fwVerdict = "none" BY <1>1 DEF TargetInv
  <2>2. index # 7 => index + 1 \in 0 .. 7 BY <1>3
  <2>3. CASE fwVerdict' \in {"below", "not below"} /\ fw' = "done" /\ index' = index BY <1>3, <2>3
  <2>4. CASE index # 7 /\ index' = index + 1 /\ fw' = fw /\ fwVerdict' = fwVerdict
    BY <1>1, <2>1, <2>2, <2>4
  <2> QED BY <1>1, <2>3, <2>4
<1>11. VerdictSound(fwVerdict, target)'
  <2>1. Target!Below(target)' <=> Target!Below(target) BY <1>1 DEF Target!Below
  <2>2. fwVerdict' # "none" => (fwVerdict' = "below" <=> Target!Below(target))
    <3>1. CASE Target!MemLess(first, last) BY <1>1, <1>7, <3>1
    <3>2. CASE ~Target!MemLess(first, last) /\ Target!MemLess(last, first) BY <1>1, <1>8, <3>2
    <3>3. CASE ~Target!MemLess(first, last) /\ ~Target!MemLess(last, first) /\ index = 7
      <4>1. SameUpTo(target, 32)
        <5>1. 4 * 7 + 4 = 32 OBVIOUS
        <5> QED BY <1>9, <3>3, <5>1
      <4>2. ~Target!Below(target) BY <1>3, <4>1, AllSame
      <4> QED BY <1>1, <3>3, <4>2
    <3>4. CASE ~Target!MemLess(first, last) /\ ~Target!MemLess(last, first) /\ index # 7
      <4>1. fwVerdict = "none" BY <1>1 DEF TargetInv
      <4> QED BY <1>1, <3>4, <4>1
    <3> QED BY <3>1, <3>2, <3>3, <3>4
  <2> QED BY <2>1, <2>2 DEF VerdictSound
<1>12. fw' = "compare" => SameUpTo(target, 4 * index)'
  <2> SUFFICES ASSUME fw' = "compare" PROVE SameUpTo(target, 4 * index)' OBVIOUS
  <2>1. ~Target!MemLess(first, last) /\ ~Target!MemLess(last, first) /\ index' = index + 1 BY <1>1
  <2>2. 4 * (index + 1) = 4 * index + 4 BY <1>3
  <2>3. SameUpTo(target, 4 * index') BY <1>9, <2>1, <2>2
  <2> QED BY <1>1, <2>3 DEF SameUpTo
<1>13. Target!TypeOK' BY <1>1, <1>2, <1>10 DEF Target!TypeOK
<1>14. TargetHeld' BY <1>1, <1>10 DEF TargetInv, TargetHeld, Target!Place, Target!exponent
<1>15. MemoryHolds' /\ DigestHeld' BY <1>1, <1>10 DEF TargetInv, MemoryHolds, DigestHeld
<1>16. FileHeld' BY <1>1 DEF TargetInv, FileHeld
<1>17. VerdictSound(pcVerdict, file)' BY <1>1 DEF TargetInv, VerdictSound, Target!Below
<1>18. tool' # "done" => pcVerdict' = "none" BY <1>1 DEF TargetInv
<1> QED BY <1>10, <1>11, <1>12, <1>13, <1>14, <1>15, <1>16, <1>17, <1>18 DEF TargetInv

LEMMA TargetKept == TargetInv /\ (Target!Next \/ UNCHANGED targetVars) => TargetInv'
<1> SUFFICES ASSUME TargetInv, Target!Next \/ UNCHANGED targetVars PROVE TargetInv' OBVIOUS
<1>1. CASE UNCHANGED targetVars
  <2>1. UNCHANGED <<bits, hash, file, tool, pcVerdict, target, stray, words, digest, fw, index, fwVerdict>>
    BY <1>1 DEF targetVars
  <2>2. Target!TypeOK' BY <2>1 DEF TargetInv, Target!TypeOK
  <2>3. TargetHeld' /\ MemoryHolds' BY <2>1 DEF TargetInv, TargetHeld, MemoryHolds, Target!Place, Target!exponent
  <2>4. DigestHeld' /\ FileHeld' BY <2>1 DEF TargetInv, DigestHeld, FileHeld
  <2>5. VerdictSound(fwVerdict, target)' /\ VerdictSound(pcVerdict, file)'
    BY <2>1 DEF TargetInv, VerdictSound, Target!Below
  <2>6. fw = "compare" => SameUpTo(target, 4 * index)' BY <2>1 DEF TargetInv, SameUpTo
  <2>7. /\ fw # "done" => fwVerdict = "none"
        /\ fw \in {"target", "store", "hash", "reverse"} => index = 0
        /\ tool # "done" => pcVerdict = "none"
        /\ tool = "done" => fw \in {"compare", "done"}
    BY DEF TargetInv
  <2> QED BY <2>1, <2>2, <2>3, <2>4, <2>5, <2>6, <2>7 DEF TargetInv
<1> QED
  BY <1>1, CalculateTargetHexStep, MemcmpStep, CalculateStep, StoreTargetWordsStep, ReadDigestStep,
     ReverseBytesStep, CompareWordStep
  DEF Target!Next

\* Byte 31 - s of a target as the firmware and the file hold it.
LEMMA FirmwareByte ==
  ASSUME TargetInv, fw # "target", NEW s \in 0 .. 31 PROVE target[31 - s] = Target!TargetByte(s)
<1>1. bits[4] \in 0 .. 255
  <2>1. bits \in [1 .. 4 -> 0 .. 255] BY TargetTyped DEF TargetInv
  <2> QED BY <2>1
<1>2. 31 - s \in 0 .. 31 /\ (34 - bits[4]) - (31 - s) = s - (bits[4] - 3)
      /\ 1 + (34 - bits[4] - (31 - s)) = 1 + s - (bits[4] - 3)
  BY <1>1
<1>3. target[31 - s] = IF (34 - bits[4]) - (31 - s) \in 0 .. 2 THEN bits[1 + (34 - bits[4] - (31 - s))] ELSE 0
  BY <1>2 DEF TargetInv, TargetHeld
<1> QED BY <1>2, <1>3 DEF Target!TargetByte, Target!exponent

LEMMA FileByte ==
  ASSUME TargetInv, tool \in {"compare", "done"}, bits[4] \in 3 .. 32, NEW s \in 0 .. 31
  PROVE  file[31 - s] = Target!TargetByte(s)
<1> DEFINE d == ((31 - s) + bits[4] - 3) % 32
           m == s - (bits[4] - 3)
<1>1. m \in Int /\ (31 - s) + bits[4] - 3 = 31 - m /\ m >= -29 /\ m <= 31 OBVIOUS
<1>2. d = IF m >= 0 THEN 31 - m ELSE -1 - m
  <2>1. d = (31 - m) % 32 BY <1>1
  <2> HIDE DEF d, m
  <2>2. CASE m >= 0
    <3>1. (31 - m) % 32 = 31 - m BY <1>1, <2>2
    <3> QED BY <2>1, <2>2, <3>1
  <2>3. CASE m < 0
    <3>1. 31 - m = 32 * 1 + (-1 - m) /\ -1 - m \in 0 .. 31 BY <1>1, <2>3
    <3>2. (32 * 1 + (-1 - m)) % 32 = -1 - m BY <3>1, Remainder32
    <3>3. ~(m >= 0) BY <1>1, <2>3
    <3> QED BY <2>1, <3>1, <3>2, <3>3
  <2> QED BY <1>1, <2>2, <2>3
<1>3. 31 - s \in 0 .. 31 OBVIOUS
<1>4. file[31 - s] = IF d < 29 THEN 0 ELSE bits[32 - d] BY <1>3 DEF TargetInv, FileHeld
<1>5. Target!TargetByte(s) = IF m \in 0 .. 2 THEN bits[1 + s - (bits[4] - 3)] ELSE 0
  BY DEF Target!TargetByte, Target!exponent
<1>6. 1 + s - (bits[4] - 3) = 1 + m OBVIOUS
<1> HIDE DEF d, m
<1>7. CASE m \in 0 .. 2
  <2>1. ~(d < 29) /\ 32 - d = 1 + m BY <1>2, <1>7
  <2> QED BY <1>4, <1>5, <1>6, <1>7, <2>1
<1>8. CASE m \notin 0 .. 2
  <2>1. d < 29 BY <1>1, <1>2, <1>8
  <2> QED BY <1>4, <1>5, <1>8, <2>1
<1> QED BY <1>7, <1>8

LEMMA TargetSound == TargetInv => Target!TypeOK /\ Target!TargetIsBits /\ Target!VerdictIsOrder
<1> SUFFICES ASSUME TargetInv PROVE Target!TypeOK /\ Target!TargetIsBits /\ Target!VerdictIsOrder
  OBVIOUS
<1>1. Target!TypeOK BY DEF TargetInv
<1>2. bits[4] \in 0 .. 255
  <2>1. bits \in [1 .. 4 -> 0 .. 255] BY <1>1, TargetTyped
  <2> QED BY <2>1
<1>3. Target!TargetIsBits
  <2> SUFFICES ASSUME bits[4] \in 3 .. 32
               PROVE  /\ stray = {} /\ tool # "aborted"
                      /\ tool \in {"compare", "done"} =>
                           \A s \in 0 .. 31 : file[31 - s] = Target!TargetByte(s)
                      /\ fw \in {"compare", "done"} =>
                           \A s \in 0 .. 31 : words[(31 - s) \div 4][1 + ((31 - s) % 4)] = Target!TargetByte(s)
    BY DEF Target!TargetIsBits, Target!exponent
  <2>1. stray = {}
    <3>1. \A j \in 0 .. 2 : Target!Place(j) \in 0 .. 31 BY DEF Target!Place, Target!exponent
    <3> QED BY <3>1 DEF TargetInv, TargetHeld
  <2>2. tool # "aborted" BY DEF TargetInv, FileHeld
  <2>3. ASSUME fw \in {"compare", "done"}, NEW s \in 0 .. 31
        PROVE  words[(31 - s) \div 4][1 + ((31 - s) % 4)] = Target!TargetByte(s)
    <3> DEFINE w == (31 - s) \div 4
               p == 1 + ((31 - s) % 4)
    <3>1. w \in 0 .. 7 /\ p \in 1 .. 4 /\ 4 * w + p - 1 = 31 - s OBVIOUS
    <3> HIDE DEF w, p
    <3>2. words[w][p] = target[4 * w + p - 1] BY <2>3, <3>1 DEF TargetInv, MemoryHolds
    <3>3. fw # "target" BY <2>3
    <3>4. words[w][p] = Target!TargetByte(s) BY <3>1, <3>2, <3>3, FirmwareByte
    <3> QED BY <3>4 DEF w, p
  <2> QED BY <2>1, <2>2, <2>3, FileByte
<1>4. Target!VerdictIsOrder
  <2>1. /\ fwVerdict # "none" => (fwVerdict = "below") = Target!Below(target)
        /\ pcVerdict # "none" => (pcVerdict = "below") = Target!Below(file)
    <3>1. Target!Below(target) \in BOOLEAN /\ Target!Below(file) \in BOOLEAN BY DEF Target!Below
    <3> QED BY <3>1 DEF TargetInv, VerdictSound
  <2>2. ASSUME fwVerdict # "none", pcVerdict # "none", bits[4] \in 3 .. 32 PROVE fwVerdict = pcVerdict
    <3>1. fw # "target" /\ tool \in {"compare", "done"} BY <2>2 DEF TargetInv
    <3>2. \A s \in 0 .. 31 : target[31 - s] = file[31 - s]
      BY <2>2, <3>1, FirmwareByte, FileByte
    <3>3. Target!Below(target) <=> Target!Below(file)
      <4>1. \A s \in 0 .. 31 : \A r \in s + 1 .. 31 : r \in 0 .. 31 OBVIOUS
      <4> QED BY <3>2, <4>1 DEF Target!Below
    <3>4. (fwVerdict = "below") <=> (pcVerdict = "below") BY <2>2, <3>3 DEF TargetInv, VerdictSound
    <3>5. {pcVerdict, fwVerdict} \subseteq {"none", "below", "not below"} BY <1>1 DEF Target!TypeOK
    <3> QED BY <2>2, <3>4, <3>5
  <2> QED BY <2>1, <2>2 DEF Target!VerdictIsOrder, Target!exponent
<1> QED BY <1>1, <1>3, <1>4

-----------------------------------------------------------------------------
\* The search on the PC (PcMiner).
LEMMA MulMono ==
  ASSUME NEW d \in Nat, NEW a \in Int, NEW b \in Int, a <= b PROVE d * a <= d * b
<1>1. PICK c \in Nat : b = a + c
  <2>1. b - a \in Nat /\ b = a + (b - a) OBVIOUS
  <2> QED BY <2>1
<1>2. d * (a + c) = d * a + d * c /\ d * c \in Nat /\ d * a \in Int OBVIOUS
<1> QED BY <1>1, <1>2

\* A quotient is the only one.
LEMMA QuotientIs ==
  ASSUME NEW d \in Nat, d > 0, NEW q \in Nat, NEW r \in Nat, r < d
  PROVE  (d * q + r) \div d = q /\ (d * q + r) % d = r
<1> DEFINE a == d * q + r
           p == a \div d
           s == (a % d)
<1>1. a \in Nat OBVIOUS
<1>2. p \in Int /\ s \in Int /\ a = d * p + s /\ 0 <= s /\ s < d
  <2> HIDE DEF a
  <2> QED BY <1>1
<1> HIDE DEF p, s
<1>3. CASE p < q
  <2>1. d * (p + 1) <= d * q BY <1>2, <1>3, MulMono
  <2>2. d * (p + 1) = d * p + d /\ d * p \in Int /\ d * q \in Int BY <1>2
  <2> QED BY <1>2, <2>1, <2>2
<1>4. CASE p > q
  <2>1. d * (q + 1) <= d * p BY <1>2, <1>4, MulMono
  <2>2. d * (q + 1) = d * q + d /\ d * p \in Int /\ d * q \in Int BY <1>2
  <2> QED BY <1>2, <2>1, <2>2
<1>5. CASE p = q
  <2>1. d * p \in Int BY <1>2
  <2>2. s = r BY <1>2, <1>5, <2>1
  <2> QED BY <1>5, <2>2 DEF p, s
<1> QED BY <1>2, <1>3, <1>4, <1>5

LEMMA Split ==
  ASSUME NEW d \in Nat, d > 0, NEW a \in Nat
  PROVE  a \div d \in Nat /\ (a % d) \in 0 .. d - 1 /\ a = d * (a \div d) + (a % d)
<1> DEFINE p == a \div d
           s == (a % d)
<1>1. p \in Int /\ s \in Int /\ a = d * p + s /\ 0 <= s /\ s < d OBVIOUS
<1> HIDE DEF p, s
<1>2. p >= 0
  <2>1. SUFFICES ASSUME p <= -1 PROVE FALSE BY <1>1
  <2>2. d * p <= d * (-1) BY <1>1, <2>1, MulMono
  <2>3. d * p \in Int /\ d * (-1) = -d BY <1>1
  <2> QED BY <1>1, <2>2, <2>3
<1>3. s \in 0 .. d - 1 BY <1>1
<1>4. p \in Nat BY <1>1, <1>2
<1> QED BY <1>1, <1>3, <1>4, Zenon DEF p, s

LEMMA Swap == \A a, b \in Int : a + b = b + a
OBVIOUS

LEMMA TooLarge ==
  ASSUME NEW n \in Int, NEW x \in Int, NEW y \in Int, NEW r \in Nat,
         n <= x - 1, x <= y, n = y + r
  PROVE  FALSE
OBVIOUS

LEMMA DivDiv ==
  ASSUME NEW a \in Nat, NEW b \in Nat, b > 0, NEW c \in Nat, c > 0
  PROVE  a \div (b * c) = (a \div b) \div c
<1> DEFINE p == a \div b
           r == a % b
           q == p \div c
           s == p % c
<1>1. p \in Nat /\ r \in 0 .. b - 1 /\ a = b * p + r BY Split
<1> HIDE DEF p, r
<1>2. q \in Nat /\ s \in 0 .. c - 1 /\ p = c * q + s BY <1>1, Split
<1> HIDE DEF q, s
<1>3. b * s + r \in Nat /\ b * s + r < b * c
  <2>1. b * s <= b * (c - 1) BY <1>2, MulMono
  <2>2. b * (c - 1) = b * c - b /\ b * s \in Nat /\ b * c \in Nat BY <1>2
  <2> QED BY <1>1, <2>1, <2>2
<1>4. a = (b * c) * q + (b * s + r)
  <2>1. b * (c * q + s) = b * (c * q) + b * s /\ b * (c * q) = (b * c) * q BY <1>2
  <2>2. (b * c) * q \in Nat /\ b * s \in Nat BY <1>2
  <2> QED BY <1>1, <1>2, <2>1, <2>2
<1>5. b * c \in Nat /\ b * c > 0
  <2>1. b * 1 <= b * c BY MulMono
  <2> QED BY <2>1
<1>6. ((b * c) * q + (b * s + r)) \div (b * c) = q
  <2> DEFINE d == b * c
             e == b * s + r
  <2>1. d \in Nat /\ d > 0 /\ e \in Nat /\ e < d BY <1>3, <1>5
  <2> HIDE DEF d, e
  <2>2. (d * q + e) \div d = q BY <1>2, <2>1, QuotientIs
  <2> QED BY <2>2 DEF d, e
<1> QED BY <1>4, <1>6 DEF q, p

Digit == 0 .. Radix - 1
Digits4 == [1 .. 4 -> Digit]

LEMMA FourDigits ==
  ASSUME NEW a \in Digit, NEW b \in Digit, NEW c \in Digit, NEW d \in Digit
  PROVE  <<a, b, c, d>> \in Digits4
BY DEF Digits4

LEMMA RadixIs == /\ Radix \in Nat /\ Radix > 1 /\ Filed \subseteq Pc!Nounces
                 /\ Solutions \subseteq SUBSET Pc!Nounces
BY InstancesAssumption DEF Pc!RadixAssumption

LEMMA LastIs == Pc!Last \in Nat /\ Pc!Last > 0
<1>1. Radix \in Nat /\ Radix > 1 BY RadixIs
<1>2. Radix * 1 <= Radix * Radix BY <1>1, MulMono
<1>3. Radix * Radix \in Nat /\ Radix * Radix > 1 BY <1>1, <1>2
<1> DEFINE S == Radix * Radix
<1> HIDE DEF S
<1>4. S \in Nat /\ S > 1 BY <1>3 DEF S
<1>5. S * 1 <= S * Radix BY <1>1, <1>4, MulMono
<1>6. S * Radix \in Nat /\ S * Radix > 1 BY <1>1, <1>4, <1>5
<1> DEFINE C == S * Radix
<1> HIDE DEF C
<1>7. C \in Nat /\ C > 1 BY <1>6 DEF C
<1>8. C * 1 <= C * Radix BY <1>1, <1>7, MulMono
<1>9. C * Radix \in Nat /\ C * Radix > 1 BY <1>1, <1>7, <1>8
<1>10. Pc!Last = C * Radix - 1 BY DEF Pc!Last, C, S
<1> QED BY <1>9, <1>10

\* The bytes of a counter stand for it.
LEMMA BytesStandFor ==
  ASSUME NEW n \in Pc!Nounces
  PROVE  Pc!NounceByte(n) \in Digits4 /\ Pc!Number(Pc!NounceByte(n)) = n
<1>1. Radix \in Nat /\ Radix > 1 /\ Radix > 0 BY RadixIs
<1>2. n \in Nat /\ n <= Pc!Last BY LastIs DEF Pc!Nounces
<1> DEFINE q1 == n \div Radix
           q2 == q1 \div Radix
           q3 == q2 \div Radix
           S  == Radix * Radix
           C  == S * Radix
<1>3. q1 \in Nat /\ (n % Radix) \in Digit /\ n = Radix * q1 + (n % Radix) BY <1>1, <1>2, Split DEF Digit
<1> HIDE DEF q1
<1>4. q2 \in Nat /\ (q1 % Radix) \in Digit /\ q1 = Radix * q2 + (q1 % Radix) BY <1>1, <1>3, Split DEF Digit
<1> HIDE DEF q2
<1>5. q3 \in Nat /\ (q2 % Radix) \in Digit /\ q2 = Radix * q3 + (q2 % Radix) BY <1>1, <1>4, Split DEF Digit
<1> HIDE DEF q3
<1>6. S \in Nat /\ S > 0
  <2>1. Radix * 1 <= Radix * Radix BY <1>1, MulMono
  <2> QED BY <1>1, <2>1
<1>7. n \div S = q2 BY <1>1, <1>2, DivDiv DEF q1, q2
<1> HIDE DEF S
<1>8. C \in Nat /\ C > 0
  <2>1. S * 1 <= S * Radix BY <1>1, <1>6, MulMono
  <2> QED BY <1>1, <1>6, <2>1
<1>9. n \div C = q3 BY <1>1, <1>2, <1>6, <1>7, DivDiv DEF q3
<1> HIDE DEF C
<1>10. q3 \in Digit
  <2>1. SUFFICES ASSUME q3 >= Radix PROVE FALSE BY <1>1, <1>5 DEF Digit
  <2>2. C * Radix <= C * q3 BY <1>1, <1>5, <1>8, <2>1, MulMono
  <2>3. (n % C) \in Nat /\ n = C * q3 + (n % C)
    <3>1. (n % C) \in 0 .. C - 1 /\ n = C * (n \div C) + (n % C) BY <1>2, <1>8, Split
    <3> QED BY <1>8, <1>9, <3>1
  <2>4. C * q3 \in Nat /\ C * Radix \in Nat BY <1>1, <1>5, <1>8
  <2>5. Pc!Last = C * Radix - 1 BY DEF Pc!Last, C, S
  <2>6. n <= C * Radix - 1 BY <1>2, <2>5
  <2>7. C * q3 \in Int /\ C * Radix \in Int /\ n \in Int BY <1>2, <2>4
  <2> QED BY <2>2, <2>3, <2>6, <2>7, TooLarge, Zenon
<1>11. Pc!NounceByte(n) = <<(n % Radix), (q1 % Radix), (q2 % Radix), q3>>
  BY <1>7, <1>9 DEF Pc!NounceByte, q1, S, C
<1>12. Pc!NounceByte(n) \in Digits4
  BY <1>3, <1>4, <1>5, <1>10, <1>11, FourDigits
<1>13. Pc!Number(Pc!NounceByte(n)) = (n % Radix) + Radix * ((q1 % Radix) + Radix * ((q2 % Radix) + Radix * q3))
  BY <1>11 DEF Pc!Number
<1>14. (q2 % Radix) + Radix * q3 = q2
  <2>1. Radix * q3 \in Nat /\ (q2 % Radix) \in Int BY <1>1, <1>5 DEF Digit
  <2>2. (q2 % Radix) + Radix * q3 = Radix * q3 + (q2 % Radix) BY <2>1, Swap
  <2> QED BY <1>5, <2>2
<1>15. (q1 % Radix) + Radix * q2 = q1
  <2>1. Radix * q2 \in Nat /\ (q1 % Radix) \in Int BY <1>1, <1>4 DEF Digit
  <2>2. (q1 % Radix) + Radix * q2 = Radix * q2 + (q1 % Radix) BY <2>1, Swap
  <2> QED BY <1>4, <2>2
<1>16. (n % Radix) + Radix * q1 = n
  <2>1. Radix * q1 \in Nat /\ (n % Radix) \in Int BY <1>1, <1>3 DEF Digit
  <2>2. (n % Radix) + Radix * q1 = Radix * q1 + (n % Radix) BY <2>1, Swap
  <2> QED BY <1>3, <2>2
<1> QED BY <1>12, <1>13, <1>14, <1>15, <1>16

LEMMA FiledIs == ASSUME NEW n \in Filed PROVE n \in Pc!Nounces BY RadixIs

\* What the program holds, whether the returned array stays intact or not.
PcTypes ==
  /\ winners \subseteq Pc!Nounces /\ counter \in Pc!Nounces /\ tried \subseteq Pc!Nounces
  /\ bytes \in Digits4 /\ hashed \in {<<>>} \cup Digits4
  /\ step \in {"open", "loop", "compare", "exit", "end"} /\ printed \in Pc!Nounces \cup {-1}

HeaderInv ==
  /\ PcTypes /\ Pc!HeaderFollows
  /\ counter = 0 => Pc!Number(bytes) \in Filed
  /\ step = "compare" => counter < Pc!Last
  /\ step \in {"open", "exit"} => counter = 0

\* While the array is intact: what has been tried, and that none of it won.
SearchInv ==
  /\ tried \subseteq (Pc!Nounces \ {Pc!Last}) \cup Filed
  /\ step \in {"open", "loop", "compare"} =>
       printed = -1 /\ tried \cap winners = {} /\ 1 .. counter - 1 \subseteq tried
  /\ step = "compare" => hashed = bytes
  /\ step = "end" =>
       /\ (1 .. counter) \ {Pc!Last} \subseteq tried
       /\ \A n \in tried : n \in winners => n = Pc!Number(bytes) /\ printed = counter
       /\ printed = -1 => winners \cap (1 .. Pc!Last - 1) = {}

LEMMA NumberKnown == HeaderInv => Pc!Number(bytes) \in Pc!Nounces
<1> SUFFICES ASSUME HeaderInv PROVE Pc!Number(bytes) \in Pc!Nounces OBVIOUS
<1>1. counter = 0 \/ counter > 0 BY LastIs DEF HeaderInv, PcTypes, Pc!Nounces
<1>2. CASE counter = 0 BY <1>2, FiledIs DEF HeaderInv
<1>3. CASE counter > 0 BY <1>3 DEF HeaderInv, PcTypes, Pc!HeaderFollows
<1> QED BY <1>1, <1>2, <1>3

LEMMA TuplesApart == \A b \in Digits4 : b # <<>>
<1> SUFFICES ASSUME NEW b \in Digits4, b = <<>> PROVE FALSE OBVIOUS
<1>1. DOMAIN b = 1 .. 4 BY DEF Digits4
<1>2. Len(<<>>) = 0 /\ b \in Seq(Digit) /\ Len(b) = 4 BY DEF Digits4
<1> QED BY <1>2

LEMMA PcStarts == Pc!Init \/ PcStack!Init => HeaderInv /\ SearchInv
<1> SUFFICES ASSUME Pc!Init \/ PcStack!Init PROVE HeaderInv /\ SearchInv OBVIOUS
<1>1. PICK n \in Filed :
        /\ bytes = Pc!NounceByte(n) /\ winners \in Solutions
        /\ counter = 0 /\ hashed = <<>> /\ tried = {} /\ step = "open" /\ printed = -1
  BY DEF Pc!Init, PcStack!Init, Pc!NounceByte, PcStack!NounceByte
<1>2. bytes \in Digits4 /\ Pc!Number(bytes) = n BY <1>1, FiledIs, BytesStandFor
<1>3. winners \subseteq Pc!Nounces /\ 0 \in Pc!Nounces BY <1>1, RadixIs, LastIs DEF Pc!Nounces
<1>4. PcTypes BY <1>1, <1>2, <1>3 DEF PcTypes
<1>5. HeaderInv BY <1>1, <1>2, <1>4, LastIs DEF HeaderInv, Pc!HeaderFollows
<1>6. 1 .. 0 - 1 = {} OBVIOUS
<1>7. SearchInv BY <1>1, <1>6 DEF SearchInv
<1> QED BY <1>5, <1>7

\* What either program does in a step, but for the record of what was tried.
Opens   == /\ step = "open" /\ step' \in {"loop", "exit"} /\ tried' = tried
           /\ UNCHANGED <<winners, counter, bytes, hashed, printed>>
Hashes  == /\ step = "loop" /\ counter < Pc!Last /\ hashed' = bytes /\ step' = "compare" /\ tried' = tried
           /\ UNCHANGED <<winners, counter, bytes, printed>>
Loses   == /\ step = "compare" /\ hashed' = <<>> /\ tried' = tried
           /\ UNCHANGED <<winners, counter, bytes, step, printed>>
Finds   == /\ step = "compare" /\ printed' = counter /\ step' = "end"
           /\ UNCHANGED <<winners, counter, bytes, hashed>>
Goes    == /\ step = "compare" /\ step' = "loop"
           /\ counter' = Pc!Incremented /\ bytes' = Pc!NounceByte(Pc!Incremented)
           /\ UNCHANGED <<winners, hashed, printed>>
GivesUp == /\ step = "loop" /\ ~(counter < Pc!Last) /\ step' = "end" /\ tried' = tried
           /\ UNCHANGED <<winners, counter, bytes, hashed, printed>>

LEMMA PcSteps ==
  ASSUME Pc!Next
  PROVE  \/ Opens \/ Hashes \/ GivesUp
         \/ Finds /\ Pc!IsBelow(TRUE) /\ tried' = tried \cup {Pc!Number(hashed)}
         \/ Goes /\ Pc!IsBelow(FALSE) /\ tried' = tried \cup {Pc!Number(hashed)}
BY DEF Pc!Next, Pc!ReadDataFromFile, Pc!BlockHeaderHashByte, Pc!Overwrite, Pc!Success, Pc!Invalid, Pc!Fails,
       Pc!Loop, Pc!Compared, Opens, Hashes, GivesUp, Finds, Goes

LEMMA StackSteps ==
  ASSUME PcStack!Next
  PROVE  Opens \/ Hashes \/ GivesUp \/ Loses \/ (Finds /\ tried' = tried) \/ (Goes /\ tried' = tried)
<1>1. PcStack!Last = Pc!Last BY DEF PcStack!Last, Pc!Last
<1>2. PcStack!Incremented = Pc!Incremented BY <1>1 DEF PcStack!Incremented, Pc!Incremented
<1>3. PcStack!NounceByte(PcStack!Incremented) = Pc!NounceByte(Pc!Incremented)
  BY <1>2 DEF PcStack!NounceByte, Pc!NounceByte
<1> QED
  BY <1>1, <1>2, <1>3
  DEF PcStack!Next, PcStack!ReadDataFromFile, PcStack!BlockHeaderHashByte, PcStack!Overwrite, PcStack!Success,
      PcStack!Invalid, PcStack!Fails, PcStack!Loop, PcStack!Compared,
      Opens, Hashes, GivesUp, Loses, Finds, Goes

LEMMA NextCounter ==
  ASSUME HeaderInv, step = "compare"
  PROVE  Pc!Incremented = counter + 1 /\ counter + 1 \in Pc!Nounces /\ counter \in Nat
<1>1. counter \in 0 .. Pc!Last /\ counter < Pc!Last BY DEF HeaderInv, PcTypes, Pc!Nounces
<1>2. Pc!Last \in Nat BY LastIs
<1>3. counter + 1 < Pc!Last + 1 /\ counter + 1 \in Nat /\ Pc!Last + 1 \in Nat /\ Pc!Last + 1 > 0 BY <1>1, <1>2
<1>4. (counter + 1) % (Pc!Last + 1) = counter + 1
  <2> DEFINE d == Pc!Last + 1
             r == counter + 1
  <2>1. d \in Nat /\ d > 0 /\ r \in Nat /\ r < d BY <1>3
  <2> HIDE DEF d, r
  <2>2. (d * 0 + r) % d = r BY <2>1, QuotientIs
  <2>3. d * 0 + r = r BY <2>1
  <2>4. r % d = r BY <2>2, <2>3
  <2> QED BY <2>4 DEF d, r
<1> QED BY <1>1, <1>2, <1>4 DEF Pc!Incremented, Pc!Nounces

LEMMA HeaderStep ==
  ASSUME HeaderInv, tried' \subseteq Pc!Nounces, Opens \/ Hashes \/ GivesUp \/ Loses \/ Finds \/ Goes
  PROVE  HeaderInv'
<1>0. PcTypes /\ Pc!Number(bytes)' = Pc!Number(bytes') BY DEF HeaderInv, Pc!Number
<1>1. CASE Opens
  <2> USE <1>1 DEF Opens
  <2>1. PcTypes' BY <1>0 DEF PcTypes
  <2>2. Pc!HeaderFollows' BY DEF HeaderInv, Pc!HeaderFollows, Pc!Number
  <2>3. (counter = 0 => Pc!Number(bytes) \in Filed)' BY DEF HeaderInv, Pc!Number
  <2> QED BY <2>1, <2>2, <2>3 DEF HeaderInv
<1>2. CASE Hashes \/ GivesUp \/ Loses \/ Finds
  <2> USE <1>2 DEF Hashes, GivesUp, Loses, Finds
  <2>1. PcTypes' BY <1>0 DEF PcTypes
  <2>2. Pc!HeaderFollows' BY DEF HeaderInv, Pc!HeaderFollows, Pc!Number
  <2>3. (counter = 0 => Pc!Number(bytes) \in Filed)' BY DEF HeaderInv, Pc!Number
  <2>4. (step = "compare" => counter < Pc!Last)' /\ step' \notin {"open", "exit"} BY DEF HeaderInv
  <2> QED BY <2>1, <2>2, <2>3, <2>4 DEF HeaderInv
<1>3. CASE Goes
  <2>1. /\ counter' = counter + 1 /\ counter + 1 \in Pc!Nounces /\ counter \in Nat
        /\ bytes' = Pc!NounceByte(counter + 1)
    BY <1>3, NextCounter DEF Goes
  <2>2. bytes' \in Digits4 /\ Pc!Number(bytes') = counter' BY <2>1, BytesStandFor
  <2>3. PcTypes' BY <1>0, <1>3, <2>1, <2>2 DEF PcTypes, Goes
  <2>4. Pc!HeaderFollows' BY <1>0, <2>2 DEF Pc!HeaderFollows
  <2>5. counter' # 0 /\ step' = "loop" BY <1>3, <2>1 DEF Goes
  <2> QED BY <2>3, <2>4, <2>5 DEF HeaderInv
<1> QED BY <1>1, <1>2, <1>3

LEMMA SearchStep == ASSUME HeaderInv, SearchInv, Pc!Next PROVE SearchInv' /\ tried' \subseteq Pc!Nounces
<1>0. PcTypes BY DEF HeaderInv
<1>1. CASE Opens
  BY <1>0, <1>1 DEF Opens, SearchInv, Pc!Number, PcTypes
<1>2. CASE Hashes
  BY <1>0, <1>2 DEF Hashes, SearchInv, Pc!Number, PcTypes
<1>3. CASE GivesUp
  <2>1. counter = Pc!Last BY <1>0, <1>3, LastIs DEF GivesUp, PcTypes, Pc!Nounces
  <2>2. (1 .. counter) \ {Pc!Last} \subseteq 1 .. counter - 1 BY <2>1, LastIs
  <2>3. 1 .. counter - 1 \subseteq tried /\ tried \cap winners = {} /\ printed = -1
    BY <1>3 DEF GivesUp, SearchInv
  <2>4. winners \cap (1 .. Pc!Last - 1) = {} BY <2>1, <2>3
  <2> QED BY <1>0, <1>3, <2>2, <2>3, <2>4 DEF GivesUp, SearchInv, PcTypes
<1>4. ASSUME step = "compare", tried' = tried \cup {Pc!Number(hashed)}
      PROVE  /\ hashed = bytes /\ hashed # <<>> /\ tried' = tried \cup {Pc!Number(bytes)}
             /\ Pc!Number(bytes) \in (Pc!Nounces \ {Pc!Last}) \cup Filed
             /\ tried' \subseteq Pc!Nounces
             /\ tried' \subseteq (Pc!Nounces \ {Pc!Last}) \cup Filed
             /\ 1 .. counter \subseteq tried' /\ counter < Pc!Last
  <2>1. hashed = bytes /\ tried \subseteq (Pc!Nounces \ {Pc!Last}) \cup Filed /\ 1 .. counter - 1 \subseteq tried
    BY <1>4 DEF SearchInv
  <2>2. hashed # <<>> BY <1>0, <2>1, TuplesApart DEF PcTypes
  <2>3. Pc!Number(bytes) \in Pc!Nounces BY NumberKnown
  <2>4. counter \in Nat /\ counter < Pc!Last /\ Pc!Last \in Nat
    BY <1>0, <1>4, LastIs DEF HeaderInv, PcTypes, Pc!Nounces
  <2>5. counter > 0 => Pc!Number(bytes) = counter BY <1>4 DEF HeaderInv, Pc!HeaderFollows
  <2>6. counter = 0 => Pc!Number(bytes) \in Filed BY DEF HeaderInv
  <2>7. Pc!Number(bytes) \in (Pc!Nounces \ {Pc!Last}) \cup Filed BY <2>3, <2>4, <2>5, <2>6
  <2>8. 1 .. counter \subseteq tried'
    <3>1. ASSUME NEW k \in 1 .. counter PROVE k \in tried'
      <4>1. k = counter \/ k \in 1 .. counter - 1 BY <2>4
      <4>2. counter > 0 BY <2>4
      <4> QED BY <1>4, <2>1, <2>5, <4>1, <4>2
    <3> QED BY <3>1
  <2>9. tried' = tried \cup {Pc!Number(bytes)} BY <1>4, <2>1
  <2>10. tried' \subseteq Pc!Nounces BY <1>0, <2>3, <2>9 DEF PcTypes
  <2> QED BY <2>1, <2>2, <2>4, <2>7, <2>8, <2>9, <2>10
<1>5. CASE Finds /\ Pc!IsBelow(TRUE) /\ tried' = tried \cup {Pc!Number(hashed)}
  <2>1. step = "compare" /\ step' = "end" /\ printed' = counter /\ counter' = counter /\ bytes' = bytes
        /\ winners' = winners
    BY <1>5 DEF Finds
  <2>2. tried \cap winners = {} BY <2>1 DEF SearchInv
  <2>3. counter \in Nat BY <1>0, LastIs DEF PcTypes, Pc!Nounces
  <2>4. \A n \in tried' : n \in winners => n = Pc!Number(bytes) BY <1>4, <1>5, <2>1, <2>2
  <2>5. (1 .. counter) \ {Pc!Last} \subseteq tried' BY <1>4, <1>5, <2>1
  <2>6. printed' # -1 BY <2>1, <2>3
  <2>7. Pc!Number(bytes)' = Pc!Number(bytes) BY <2>1 DEF Pc!Number
  <2>8. tried' \subseteq (Pc!Nounces \ {Pc!Last}) \cup Filed /\ tried' \subseteq Pc!Nounces
    BY <1>4, <1>5, <2>1
  <2>9. SearchInv' BY <2>1, <2>4, <2>5, <2>6, <2>7, <2>8 DEF SearchInv
  <2> QED BY <2>8, <2>9
<1>6. CASE Goes /\ Pc!IsBelow(FALSE) /\ tried' = tried \cup {Pc!Number(hashed)}
  <2>1. step = "compare" /\ step' = "loop" /\ printed' = printed /\ winners' = winners
    BY <1>6 DEF Goes
  <2>2. tried \cap winners = {} /\ printed = -1 BY <2>1 DEF SearchInv
  <2>3. counter' = counter + 1 /\ counter \in Nat BY <1>6, <2>1, NextCounter DEF Goes
  <2>4. Pc!Number(bytes) \notin winners BY <1>4, <1>6, <2>1 DEF Pc!IsBelow
  <2>5. tried' \cap winners' = {} BY <1>4, <1>6, <2>1, <2>2, <2>4
  <2>6. 1 .. counter' - 1 \subseteq tried'
    <3>1. (counter + 1) - 1 = counter BY <2>3
    <3> QED BY <1>4, <1>6, <2>1, <2>3, <3>1
  <2>8. tried' \subseteq (Pc!Nounces \ {Pc!Last}) \cup Filed /\ tried' \subseteq Pc!Nounces
    BY <1>4, <1>6, <2>1
  <2>9. SearchInv' BY <2>1, <2>2, <2>5, <2>6, <2>8 DEF SearchInv
  <2> QED BY <2>8, <2>9
<1> QED BY <1>1, <1>2, <1>3, <1>5, <1>6, PcSteps

LEMMA PcKept ==
  ASSUME HeaderInv, SearchInv, Pc!Next \/ UNCHANGED pcVars PROVE HeaderInv' /\ SearchInv'
<1>1. CASE UNCHANGED pcVars
  BY <1>1 DEF pcVars, HeaderInv, PcTypes, SearchInv, Pc!HeaderFollows, Pc!Number
<1>2. CASE Pc!Next
  <2>1. SearchInv' /\ tried' \subseteq Pc!Nounces BY <1>2, SearchStep
  <2>2. Opens \/ Hashes \/ GivesUp \/ Finds \/ Goes BY <1>2, PcSteps
  <2> QED BY <2>1, <2>2, HeaderStep
<1> QED BY <1>1, <1>2

LEMMA StackKept ==
  ASSUME HeaderInv, PcStack!Next \/ UNCHANGED pcVars PROVE HeaderInv'
<1>1. CASE UNCHANGED pcVars
  BY <1>1 DEF pcVars, HeaderInv, PcTypes, Pc!HeaderFollows, Pc!Number
<1>2. CASE PcStack!Next
  <2>1. tried' = tried /\ (Opens \/ Hashes \/ GivesUp \/ Loses \/ Finds \/ Goes)
    BY <1>2, StackSteps DEF Opens, Hashes, GivesUp, Loses
  <2>2. tried' \subseteq Pc!Nounces BY <2>1 DEF HeaderInv, PcTypes
  <2> QED BY <2>1, <2>2, HeaderStep
<1> QED BY <1>1, <1>2

LEMMA PcSound ==
  /\ HeaderInv /\ SearchInv => Pc!TypeOK /\ Pc!SearchesInOrder /\ Pc!HeaderFollows
  /\ HeaderInv => PcStack!TypeOK /\ PcStack!HeaderFollows
<1>1. HeaderInv => Pc!TypeOK /\ Pc!HeaderFollows
  BY DEF HeaderInv, PcTypes, Pc!TypeOK, Digits4, Digit
<1>2. HeaderInv /\ SearchInv => Pc!SearchesInOrder BY DEF SearchInv, Pc!SearchesInOrder
<1>3. PcStack!Nounces = Pc!Nounces BY DEF PcStack!Nounces, Pc!Nounces, PcStack!Last, Pc!Last
<1>4. HeaderInv => PcStack!TypeOK BY <1>3 DEF HeaderInv, PcTypes, PcStack!TypeOK, Digits4, Digit
<1>5. HeaderInv => PcStack!HeaderFollows
  BY DEF HeaderInv, Pc!HeaderFollows, PcStack!HeaderFollows, Pc!Number, PcStack!Number
<1> QED BY <1>1, <1>2, <1>4, <1>5

LEMMA ToolSteps ==
  ASSUME [MCNext]_mcVars
  PROVE  /\ unit' = unit
         /\ unit = "target" => Target!Next \/ UNCHANGED targetVars
         /\ unit = "pc" => Pc!Next \/ UNCHANGED pcVars
         /\ unit = "pcStack" => PcStack!Next \/ UNCHANGED pcVars
<1>1. ASSUME NEW c \in Core, SearchNext(c) PROVE unit = "search" /\ unit' = unit
  BY <1>1 DEF SearchNext
<1>2. CASE LayoutNext BY <1>2 DEF LayoutNext
<1>3. CASE PaddingNext BY <1>3 DEF PaddingNext
<1>4. CASE TargetNext BY <1>4 DEF TargetNext
<1>5. CASE PcNext BY <1>5 DEF PcNext
<1>6. CASE BusNext(Bus!Next) BY <1>6 DEF BusNext
<1>7. CASE UNCHANGED mcVars BY <1>7 DEF mcVars
<1> QED BY <1>1, <1>2, <1>3, <1>4, <1>5, <1>6, <1>7 DEF MCNext

\* For all bits of a header the firmware and the PC tools hold the target they stand
\* for, and answer whether the hash is the smaller number, so that one accepts
\* exactly what the other accepts (the hashes the model reads differ from the target
\* in two bytes, any two and in any way; the proof does not use that).  For every
\* number of values a byte may have, every nonce in the file and every set of
\* winners, the search on the PC tries the nonces in order, the header holding the
\* one it counts, and stops at the first winner it comes to.
THEOREM ToolsAgree == MCSpec => []PcToolsAgree
<1> DEFINE TInv == unit = "target" => TargetInv
           PInv == unit = "pc" => HeaderInv /\ SearchInv
           SInv == unit = "pcStack" => HeaderInv
<1>1. MCInit => TInv /\ PInv /\ SInv BY TargetStarts, PcStarts DEF MCInit
<1>2. TInv /\ PInv /\ SInv /\ [MCNext]_mcVars => TInv' /\ PInv' /\ SInv'
  BY ToolSteps, TargetKept, PcKept, StackKept
<1>3. TInv /\ PInv /\ SInv => PcToolsAgree BY TargetSound, PcSound DEF PcToolsAgree
<1> QED BY <1>1, <1>2, <1>3, PTL DEF MCSpec
=============================================================================
