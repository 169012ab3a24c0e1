----------------------------- MODULE Layout -----------------------------
(***************************************************************************)
(* The words of ONCHIP_MEMORY2_1 the firmware works in: a region of        *)
(* STORAGE_SIZE words for each core, its header in the first 32 and its    *)
(* digest from the 32nd, and the target in the region after next.  main()  *)
(* writes everything once, each header over the first words of the next    *)
(* region; then main() and the handlers change single words while the      *)
(* cores are fed from them.  A word is the tuple of its bytes.             *)
(***************************************************************************)
EXTENDS Integers, Sequences

CONSTANTS Started,    \* the cores that are started
          MaxTries    \* bound on the headers a core is given

StartedAssumption == Started \subseteq 0 .. 9 /\ MaxTries \in Nat \ {0}

Cores == 0 .. 9

SHA_BLOCK_SIZE    == 16
BLOCK_HEADER_SIZE == 32
STORAGE_SIZE      == 48
Region(c) == STORAGE_SIZE * c

\* Right behind the last core's region.
BugTARGET == STORAGE_SIZE * 10

TARGET == STORAGE_SIZE * 12
Memory    == 0 .. TARGET + 8

Zero == <<0, 0, 0, 0>>
Mark == <<128, 0, 0, 0>>

\* nounce0 .. nounce9, highest byte first.
StartNounce ==
  [c \in Cores |->
     << <<0, 0, 0, 0>>,         <<25, 153, 153, 153>>, <<51, 51, 51, 51>>,
        <<76, 204, 204, 204>>,  <<102, 102, 102, 102>>, <<127, 255, 255, 255>>,
        <<147, 51, 51, 51>>,    <<179, 51, 51, 51>>,   <<204, 204, 204, 204>>,
        <<230, 102, 102, 102>> >>[c + 1]]

\* nounce++ on 32 bits.
Succ(n) ==
  LET carry(p) == \A q \in p + 1 .. 4 : n[q] = 255
  IN  [p \in 1 .. 4 |-> IF carry(p) THEN (n[p] + 1) % 256 ELSE n[p]]

VARIABLES
  mem,       \* the words of the memory
  header,    \* block_header, bytes 0 .. 79
  nounce,    \* nounce0 .. nounce9
  pc, next,  \* main()'s place while it sets things up, and its core
  stage,     \* what each core was fed last: 0 nothing, 1 and 2 the halves of
             \* the header, 3 the first hash, 4 nothing more: the final digest is in
  fed,       \* the 16 words a core was fed last
  tries

vars == <<mem, header, nounce, pc, next, stage, fed, tries>>

\* Bytes 0 .. 75 are the block's; each byte here has a value of its own.
Init ==
  /\ mem = [a \in Memory |-> <<222, 173, 190, 239>>]
  /\ header = [k \in 0 .. 79 |-> k + 1]
  /\ nounce = StartNounce /\ pc = "target" /\ next = 0
  /\ stage = [c \in Started |-> 0] /\ fed = [c \in Started |-> <<>>]
  /\ tries = [c \in Started |-> 1]

TargetWord(w) == <<200 + w, 0, 0, 1>>

StoreTarget ==
  /\ pc = "target" /\ pc' = "nounce"
  /\ mem' = [a \in Memory |-> IF a \in TARGET .. TARGET + 7 THEN TargetWord(a - TARGET)
                              ELSE IF a = TARGET + 8 THEN Zero ELSE mem[a]]
  /\ UNCHANGED <<header, nounce, next, stage, fed, tries>>

(***************************************************************************)
(* The headers.  index is unsigned and the shift far above 31: undefined   *)
(* in C; the processor takes the distance's low five bits.                 *)
(***************************************************************************)
Shift(index) == ((3 - index - 76) * 8) % 32

\* nounce >> Shift(index) & 0xFF.
NounceByte(n, index) == n[4 - (Shift(index) \div 8)]

StoreNounceBytes ==
  /\ pc = "nounce" /\ pc' = "pad"
  /\ header' = [k \in 0 .. 79 |-> IF k >= 76 THEN NounceByte(nounce[next], k) ELSE header[k]]
  /\ UNCHANGED <<mem, nounce, next, stage, fed, tries>>

\* Padding_Mem of 80 bytes writes 64 words: the header in 20, the mark, the
\* length in the 31st, zeros in all others.
PaddingMem(base) ==
  [a \in Memory |->
    LET w == a - base IN
      IF w \notin 0 .. 63 THEN mem[a]
      ELSE IF w < 20 THEN [p \in 1 .. 4 |-> header[4 * w + p - 1]]
      ELSE IF w = 20 THEN Mark ELSE IF w = 31 THEN <<0, 0, 2, 128>> ELSE Zero]

InitBlockHeader ==
  /\ pc = "pad"
  /\ mem' = PaddingMem(Region(next))
  /\ IF next = 9 THEN pc' = "run" /\ UNCHANGED next ELSE pc' = "nounce" /\ next' = next + 1
  /\ UNCHANGED <<header, nounce, stage, fed, tries>>

(***************************************************************************)
(* The cores at work, each fed by main() or its handler.                   *)
(***************************************************************************)
Block(m, base) == [k \in 0 .. 15 |-> m[base + k]]

\* What the core answers: words no other computation yields.
Digest(c, round) == [w \in 0 .. 7 |-> <<100 + round, c, nounce[c][4], w>>]

Write(base, words) ==
  [a \in Memory |-> IF a - base \in DOMAIN words THEN words[a - base] ELSE mem[a]]

StartCore(c) ==
  /\ pc = "run" /\ stage[c] = 0
  /\ fed' = [fed EXCEPT ![c] = Block(mem, Region(c))]
  /\ stage' = [stage EXCEPT ![c] = 1]
  /\ UNCHANGED <<mem, header, nounce, pc, next, tries>>

FirstInterrupt(c) ==
  /\ stage[c] = 1
  /\ fed' = [fed EXCEPT ![c] = Block(mem, Region(c) + SHA_BLOCK_SIZE)]
  /\ stage' = [stage EXCEPT ![c] = 2]
  /\ UNCHANGED <<mem, header, nounce, pc, next, tries>>

FirstHashPadding ==
  [w \in 8 .. 15 |-> IF w = 8 THEN Mark ELSE IF w = 15 THEN <<0, 0, 1, 0>> ELSE Zero]

\* read_digest, padding_for_first_hash, SHA_Init.
SecondInterrupt(c) ==
  /\ stage[c] = 2
  /\ LET base == Region(c) + BLOCK_HEADER_SIZE
         words == [w \in 0 .. 15 |-> IF w < 8 THEN Digest(c, 1)[w] ELSE FirstHashPadding[w]]
     IN  /\ mem' = Write(base, words)
         /\ fed' = [fed EXCEPT ![c] = Block(mem', base)]
  /\ stage' = [stage EXCEPT ![c] = 3]
  /\ UNCHANGED <<header, nounce, pc, next, tries>>

\* main() reads the final digest, reverses its words and compares them.
TakeDigest(c) ==
  /\ stage[c] = 3
  /\ mem' = Write(Region(c) + BLOCK_HEADER_SIZE,
                  [w \in 0 .. 7 |-> [p \in 1 .. 4 |-> Digest(c, 2)[w][5 - p]]])
  /\ stage' = [stage EXCEPT ![c] = 4]
  /\ UNCHANGED <<header, nounce, pc, next, fed, tries>>

\* The next nounce goes into the 19th word, and the core is fed again.
NextNounce(c) ==
  /\ stage[c] = 4 /\ tries[c] < MaxTries
  /\ nounce' = [nounce EXCEPT ![c] = Succ(@)]
  /\ mem' = [mem EXCEPT ![Region(c) + 19] = nounce'[c]]
  /\ fed' = [fed EXCEPT ![c] = Block(mem', Region(c))]
  /\ stage' = [stage EXCEPT ![c] = 1] /\ tries' = [tries EXCEPT ![c] = @ + 1]
  /\ UNCHANGED <<header, pc, next>>

Next ==
  \/ StoreTarget \/ StoreNounceBytes \/ InitBlockHeader
  \/ \E c \in Started :
       StartCore(c) \/ FirstInterrupt(c) \/ SecondInterrupt(c) \/ TakeDigest(c) \/ NextNounce(c)

Spec == Init /\ [][Next]_vars

--------------------------------------------------------------------------
Word == [1 .. 4 -> 0 .. 255]

\* The type invariant.
TypeOK ==
  /\ mem \in [Memory -> Word] /\ header \in [0 .. 79 -> 0 .. 255]
  /\ nounce \in [Cores -> Word] /\ pc \in {"target", "nounce", "pad", "run"} /\ next \in Cores
  /\ stage \in [Started -> 0 .. 4] /\ tries \in [Started -> 1 .. MaxTries]
  /\ \A c \in Started : fed[c] \in [0 .. 15 -> Word] \/ (fed[c] = <<>> /\ stage[c] = 0)

\* The padded header of 80 bytes with the core's nounce, highest byte first,
\* and the padded first hash, as FIPS 180-4 wants them.
HeaderWord(c, w) ==
  IF w < 19 THEN [p \in 1 .. 4 |-> 4 * w + p]
  ELSE CASE w = 19 -> nounce[c] [] w = 20 -> Mark [] w = 31 -> <<0, 0, 2, 128>> [] OTHER -> Zero

\* Every block a core is fed is the one the double hash of its own header
\* with its own nounce calls for, with ten headers written over each other's
\* ends, the digests of two rounds in one place and the handlers of all
\* cores between any two steps.
BlocksAreStandard ==
  \A c \in Started :
    /\ stage[c] = 1 => \A k \in 0 .. 15 : fed[c][k] = HeaderWord(c, k)
    /\ stage[c] = 2 => \A k \in 0 .. 15 : fed[c][k] = HeaderWord(c, 16 + k)
    /\ stage[c] = 3 => /\ \A k \in 0 .. 7 : fed[c][k] = <<101, c, nounce[c][4], k>>
                       /\ \A k \in 8 .. 15 :
                            fed[c][k] = CASE k = 8  -> Mark
                                          [] k = 15 -> <<0, 0, 1, 0>>
                                          [] OTHER  -> Zero

\* Once stored the target stays as it is, below the headers of all cores and
\* whatever the handlers write.
TargetKept == pc # "target" => \A w \in 0 .. 7 : mem[TARGET + w] = TargetWord(w)
=============================================================================
