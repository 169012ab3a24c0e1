---------------------------- MODULE Padding ----------------------------
(***************************************************************************)
(* Padding_Mem and Padding of the SHA driver: a message of bytes is packed *)
(* into words, the first byte highest, and padded to whole blocks.  A word *)
(* is the tuple of its bytes.  One function runs on one message, into an   *)
(* array that holds something else before.                                 *)
(***************************************************************************)
EXTENDS Integers, Sequences

CONSTANTS Lengths,   \* of the messages
          Chars      \* the bytes a char message is made of

Byte == 0 .. 255

LengthsAssumption == Lengths \subseteq 0 .. 255 /\ Chars \subseteq Byte

Zero == <<0, 0, 0, 0>>
Old  == <<222, 173, 190, 239>>   \* what the array holds
Words == 0 .. 63

VARIABLES fn, l, msg,            \* the function, length and message
          block, i, number, pc   \* Block or mem, i, NumberBlock

vars == <<fn, l, msg, block, i, number, pc>>

\* The message is made of unsigned words that hold a byte each, or of chars,
\* which are signed.  NumberBlock is not initialised.
Init ==
  /\ \/ fn = "Padding_Mem" /\ l \in Lengths /\ msg = [k \in 0 .. l - 1 |-> 1 + ((7 * k) % 255)]
     \/ fn = "Padding" /\ l \in Lengths /\ \E c \in Chars : msg = [k \in 0 .. l - 1 |-> c]
  /\ block = [w \in Words |-> Old] /\ i = 0 /\ number = -1 /\ pc = "pack"

\* temp << (3 - count) * 8, the sign of a char above it.
Shifted(c, place) ==
  [p \in 1 .. 4 |-> IF p = place + 1 THEN c
                    ELSE IF p <= place /\ fn = "Padding" /\ c >= 128 THEN 255 ELSE 0]

Or(a, b) == [p \in 1 .. 4 |-> IF a[p] = 255 \/ b[p] = 255 THEN 255 ELSE a[p] + b[p]]

\* After every fourth byte the next word is cleared.
Pack ==
  /\ pc = "pack" /\ i < l
  /\ LET w == i \div 4  packed == Or(IF i = 0 THEN Zero ELSE block[w], Shifted(msg[i], i % 4)) IN
       block' = [block EXCEPT ![w] = packed, ![w + 1] = IF i % 4 = 3 THEN Zero ELSE @]
  /\ i' = i + 1
  /\ UNCHANGED <<fn, l, msg, number, pc>>

\* 0x80 << (3 - i) * 8, unsigned, after the last byte.
Mark ==
  /\ pc = "pack" /\ i = l
  /\ LET mark == [p \in 1 .. 4 |-> IF p = (l % 4) + 1 THEN 128 ELSE 0] IN
       block' = [block EXCEPT ![l \div 4] = IF l % 4 = 0 THEN mark ELSE Or(@, mark)]
  /\ i' = IF l % 4 = 0 THEN l ELSE l % 4
  /\ pc' = "fill"
  /\ UNCHANGED <<fn, l, msg, number>>

\* The blocks a message of this length needs, 0 where there is no branch.
Branch == IF l <= 55 THEN 1
          ELSE IF fn = "Padding" THEN 0
          ELSE IF l <= 119 THEN 2 ELSE IF l <= 183 THEN 3 ELSE 0

Fill ==
  /\ pc = "fill"
  /\ LET end == 16 * Branch - 1 IN
       IF Branch = 0 THEN UNCHANGED <<block, i, number>>
       ELSE /\ block' = [w \in Words |-> IF w \in l \div 4 + 1 .. end - 1 THEN Zero ELSE block[w]]
            /\ i' = end /\ number' = Branch
  /\ pc' = "length"
  /\ UNCHANGED <<fn, l, msg>>

Length ==
  /\ pc = "length"
  /\ block' = [w \in Words |-> IF w = i THEN <<0, 0, (8 * l) \div 256, (8 * l) % 256>>
                               ELSE IF w > i THEN Zero ELSE block[w]]
  /\ pc' = "done"
  /\ UNCHANGED <<fn, l, msg, i, number>>

Next == Pack \/ Mark \/ Fill \/ Length

Spec == Init /\ [][Next]_vars

--------------------------------------------------------------------------
\* The type invariant.
TypeOK ==
  /\ fn \in {"Padding_Mem", "Padding"} /\ l \in Lengths
  /\ msg \in [0 .. l - 1 -> Byte] /\ block \in [Words -> [1 .. 4 -> Byte]]
  /\ i \in 0 .. 255 /\ number \in {-1, 1, 2, 3}
  /\ pc \in {"pack", "fill", "length", "done"}

\* The padding of FIPS 180-4: byte k of a message padded to n blocks.
Standard(k, n) ==
  CASE k < l  -> msg[k]
    [] k = l  -> 128
    [] k > l /\ k < 64 * n - 8 -> 0
    [] OTHER  -> IF k = 64 * n - 2 THEN ((8 * l) \div 256) % 256
                 ELSE IF k = 64 * n - 1 THEN (8 * l) % 256 ELSE 0

Handled == IF fn = "Padding" THEN l <= 55 /\ \A k \in 0 .. l - 1 : msg[k] < 128 ELSE l <= 183

\* For the lengths the functions have a branch for, the fewest blocks that
\* hold the message, its mark and its length are told, and what the core is
\* fed is the message padded as the standard wants it, at every length around
\* the ends of words and blocks.
PadsLikeTheStandard ==
  pc = "done" /\ Handled =>
    /\ number = (l + 8) \div 64 + 1
    /\ \A w \in 0 .. 16 * number - 1, p \in 1 .. 4 :
         block[w][p] = Standard(4 * w + p - 1, number)

\* All 64 words are written, however short the message: the 16 words above a
\* region of 48 are cleared with it.
ClearsAll == pc = "done" /\ Handled => \A w \in Words : block[w] # Old
=============================================================================
