----------------------------- MODULE Target -----------------------------
(***************************************************************************)
(* The target of a header and the test of a hash against it, computed      *)
(* twice in the repository: by the PC tools (BlockHeader, which writes the *)
(* target into a file, and CreateHashBlockHeader, which reads it) and by   *)
(* the firmware (main(), storeTargetIntoMemory, reverse_byte_in_memory,    *)
(* compareWithTarget).  Both get the same bits and the same hash.  A word  *)
(* is the tuple of its bytes, highest first.                               *)
(***************************************************************************)
EXTENDS Integers, Sequences, Functions

CONSTANTS Exponents, Mantissas,  \* of the header's bits
          Places, Values         \* where the hash differs from the target, and how

BitsAssumption ==
  /\ Exponents \subseteq 0 .. 255 /\ Mantissas \subseteq [1 .. 3 -> 0 .. 255]
  /\ Places \subseteq 0 .. 31 /\ Values \subseteq 0 .. 255

Byte32 == [0 .. 31 -> 0 .. 255]
Zeros  == [k \in 0 .. 31 |-> 0]
Zero   == <<0, 0, 0, 0>>

VARIABLES
  bits,                \* bytes 72 .. 75 of the header
  hash,                \* the 32 bytes of the hash, as the core yields them
  file,                \* the target BlockHeader wrote
  pc, pcVerdict,       \* the PC tools' place, and their answer
  target, stray,       \* the firmware's target[], and places written outside it
  mem, digest,         \* its words in memory, and the digest's
  fw, index, fwVerdict \* the firmware's place

vars == <<bits, hash, file, pc, pcVerdict, target, stray, mem, digest, fw, index, fwVerdict>>

tools    == <<file, pc, pcVerdict>>
firmware == <<target, stray, mem, digest, fw, index, fwVerdict>>

Init ==
  /\ \E e \in Exponents, m \in Mantissas : bits = <<m[1], m[2], m[3], e>>
  /\ hash = Zeros
  /\ file = Zeros /\ pc = "bits" /\ pcVerdict = "none"
  /\ target = Zeros /\ stray = {}
  /\ mem = [w \in 0 .. 8 |-> <<1, 2, 3, 4>>] /\ digest = [w \in 0 .. 7 |-> Zero]
  /\ fw = "target" /\ index = 0 /\ fwVerdict = "none"

exponent == bits[4]

(***************************************************************************)
(* BlockHeader: the mantissa printed in 64 digits, rotated to the left.    *)
(***************************************************************************)
\* byteShiftNum has 16 bits: below 3 it is large, and substr throws.
CalculateTargetHex ==
  /\ pc = "bits"
  /\ IF exponent - 3 \in 0 .. 32
     THEN /\ file' = [k \in 0 .. 31 |->
                       LET d == (k + exponent - 3) % 32 IN IF d < 29 THEN 0 ELSE bits[32 - d]]
          /\ pc' = "compare"
     ELSE pc' = "aborted" /\ UNCHANGED file
  /\ UNCHANGED <<bits, hash, pcVerdict, firmware>>

(***************************************************************************)
(* CreateHashBlockHeader: ReverseByte and memcmp.                          *)
(***************************************************************************)
ReverseByte(b) == [k \in 0 .. 31 |-> b[31 - k]]

\* The first byte that differs decides.
MemLess(a, b) ==
  \E k \in DOMAIN a : a[k] < b[k] /\ \A j \in DOMAIN a : j < k => a[j] = b[j]

Memcmp ==
  /\ pc = "compare" /\ fw \in {"compare", "done"}
  /\ pcVerdict' = IF MemLess(ReverseByte(hash), file) THEN "below" ELSE "not below"
  /\ pc' = "done"
  /\ UNCHANGED <<bits, hash, file, firmware>>

(***************************************************************************)
(* The firmware.                                                           *)
(***************************************************************************)
\* 32 - shiftNum - 1 - i, unsigned: a negative one is far above 31.
Place(j) == 34 - exponent - j

\* mantissa[2 - i] is the header's byte 72 + i.
Calculate ==
  /\ fw = "target"
  /\ target' = [k \in 0 .. 31 |-> IF \E j \in 0 .. 2 : Place(j) = k
                                  THEN bits[1 + (34 - exponent - k)] ELSE 0]
  /\ stray' = {Place(j) : j \in 0 .. 2} \ (0 .. 31)
  /\ fw' = "store"
  /\ UNCHANGED <<bits, hash, tools, mem, digest, index, fwVerdict>>

StoreTarget ==
  /\ fw = "store"
  /\ mem' = [w \in 0 .. 8 |-> IF w = 8 THEN Zero ELSE [p \in 1 .. 4 |-> target[4 * w + p - 1]]]
  /\ fw' = "hash"
  /\ UNCHANGED <<bits, hash, tools, target, stray, digest, index, fwVerdict>>

\* A hash near the target, which is read as a number lowest byte first.
ReadDigest ==
  /\ fw = "hash"
  /\ \E k, j \in Places, v, u \in Values :
       LET h == ReverseByte([target EXCEPT ![k] = v, ![j] = u]) IN
         /\ hash' = h
         /\ digest' = [w \in 0 .. 7 |-> [p \in 1 .. 4 |-> h[4 * w + p - 1]]]
  /\ fw' = "reverse"
  /\ UNCHANGED <<bits, tools, target, stray, mem, index, fwVerdict>>

ReverseBytes ==
  /\ fw = "reverse"
  /\ digest' = [w \in 0 .. 7 |-> [p \in 1 .. 4 |-> digest[w][5 - p]]]
  /\ fw' = "compare"
  /\ UNCHANGED <<bits, hash, tools, target, stray, mem, index, fwVerdict>>

\* One word of compareWithTarget; equality of all words is not below.
Compare(first, last) ==
  /\ fw = "compare"
  /\ IF MemLess(first, last) THEN fwVerdict' = "below" /\ fw' = "done" /\ UNCHANGED index
     ELSE IF MemLess(last, first) \/ index = 7
          THEN fwVerdict' = "not below" /\ fw' = "done" /\ UNCHANGED index
          ELSE index' = index + 1 /\ UNCHANGED <<fw, fwVerdict>>
  /\ UNCHANGED <<bits, hash, tools, target, stray, mem, digest>>

\* The words are compared in the order they are stored.
BugCompareWord == Compare(digest[index], mem[index])

CompareWord == Compare(digest[7 - index], mem[index])

Next ==
  \/ CalculateTargetHex \/ Memcmp
  \/ Calculate \/ StoreTarget \/ ReadDigest \/ ReverseBytes \/ CompareWord

Spec == Init /\ [][Next]_vars

--------------------------------------------------------------------------
\* The type invariant.
TypeOK ==
  /\ bits \in [1 .. 4 -> 0 .. 255] /\ hash \in Byte32 /\ file \in Byte32
  /\ pc \in {"bits", "compare", "aborted", "done"}
  /\ target \in Byte32 /\ mem \in [0 .. 8 -> [1 .. 4 -> 0 .. 255]]
  /\ digest \in [0 .. 7 -> [1 .. 4 -> 0 .. 255]]
  /\ fw \in {"target", "store", "hash", "reverse", "compare", "done"} /\ index \in 0 .. 7
  /\ {pcVerdict, fwVerdict} \subseteq {"none", "below", "not below"}

\* The byte of mantissa * 256 ^ (exponent - 3) that weighs 256 ^ s.
TargetByte(s) == IF s - (exponent - 3) \in 0 .. 2 THEN bits[1 + s - (exponent - 3)] ELSE 0

\* For every exponent from 3 to 32, in the firmware's memory and in the file
\* of the PC tools alike, the target is the number the bits stand for, its
\* highest byte first, and no byte is written outside target[].
TargetIsBits ==
  exponent \in 3 .. 32 =>
    /\ stray = {} /\ pc # "aborted"
    /\ pc \in {"compare", "done"} => \A s \in 0 .. 31 : file[31 - s] = TargetByte(s)
    /\ fw \in {"compare", "done"} =>
         \A s \in 0 .. 31 : mem[(31 - s) \div 4][1 + ((31 - s) % 4)] = TargetByte(s)

\* The hash, read lowest byte first, is a smaller number than the target.
Below(t) ==
  \E s \in 0 .. 31 : hash[s] < t[31 - s] /\ \A r \in s + 1 .. 31 : hash[r] = t[31 - r]

\* Whatever place the hash and the target differ at, each side answers
\* whether the hash is the smaller 256-bit number, equality excluded: the
\* FPGA accepts exactly the headers the PC accepts.
VerdictIsOrder ==
  /\ fwVerdict # "none" => (fwVerdict = "below") = Below(target)
  /\ pcVerdict # "none" => (pcVerdict = "below") = Below(file)
  /\ (fwVerdict # "none" /\ pcVerdict # "none" /\ exponent \in 3 .. 32) => fwVerdict = pcVerdict
=============================================================================
