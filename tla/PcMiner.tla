---------------------------- MODULE PcMiner ----------------------------
(***************************************************************************)
(* CreateHashBlockHeader, the search on the PC: the header and the target  *)
(* come from a file, every pass of the loop hashes the header, compares    *)
(* and stores the next nounce into it, lowest byte first.                  *)
(* blockHeaderHashByte returns the address of its own local array: what    *)
(* main() finds there is the hash as long as nothing has been put on the   *)
(* stack since, or anything.                                               *)
(***************************************************************************)
EXTENDS Integers, Sequences

CONSTANTS Radix,    \* values of a byte of the nounce
          Filed,    \* nonces the header in the file may have
          Winners,  \* sets of nonces whose hash is below the target
          Intact    \* TRUE: nothing overwrites the returned array

Last    == Radix * Radix * Radix * Radix - 1   \* 0xffffffff
Nounces == 0 .. Last

RadixAssumption ==
  Radix \in Nat \ {0, 1} /\ Filed \subseteq Nounces /\ Winners \subseteq SUBSET Nounces

VARIABLES
  winners,   \* the nonces whose hash is below the target
  nounce,    \* the counter
  bytes,     \* block_header_bytes[76 .. 79]
  hashed,    \* the bytes the array was computed from, <<>> once overwritten
  tried,     \* the nonces whose hash was compared, kept where Intact
  pc,        \* where main() is
  printed    \* the nounce reported as valid, -1 for none

vars == <<winners, nounce, bytes, hashed, tried, pc, printed>>

\* data.nounceByte of data.n, little-endian.
NounceByte(n) ==
  <<n % Radix, (n \div Radix) % Radix, (n \div (Radix * Radix)) % Radix,
    n \div (Radix * Radix * Radix)>>

\* The number its bytes in a header stand for.
Number(b) == b[1] + Radix * (b[2] + Radix * (b[3] + Radix * b[4]))

Init ==
  /\ winners \in Winners
  /\ \E n \in Filed : bytes = NounceByte(n)
  /\ nounce = 0 /\ hashed = <<>> /\ tried = {} /\ pc = "open" /\ printed = -1

\* A file that cannot be read ends the program.
ReadDataFromFile ==
  /\ pc = "open" /\ pc' \in {"loop", "exit"}
  /\ UNCHANGED <<winners, nounce, bytes, hashed, tried, printed>>

Loop == nounce < Last

BlockHeaderHashByte ==
  /\ pc = "loop" /\ Loop
  /\ hashed' = bytes /\ pc' = "compare"
  /\ UNCHANGED <<winners, nounce, bytes, tried, printed>>

\* time() and the division use the stack the array was on.
Overwrite ==
  /\ pc = "compare" /\ ~Intact /\ hashed # <<>>
  /\ hashed' = <<>>
  /\ UNCHANGED <<winners, nounce, bytes, tried, pc, printed>>

IsBelow(answer) ==
  IF hashed = <<>> THEN answer \in BOOLEAN ELSE answer = (Number(hashed) \in winners)

Compared == IF Intact THEN tried \cup {Number(hashed)} ELSE tried

Success ==
  /\ pc = "compare" /\ IsBelow(TRUE)
  /\ tried' = Compared /\ printed' = nounce /\ pc' = "end"
  /\ UNCHANGED <<winners, nounce, bytes, hashed>>

\* nounce++ on a uint32_t.
Incremented == (nounce + 1) % (Last + 1)

Invalid ==
  /\ pc = "compare" /\ IsBelow(FALSE)
  /\ tried' = Compared
  /\ nounce' = Incremented /\ bytes' = NounceByte(Incremented)
  /\ pc' = "loop"
  /\ UNCHANGED <<winners, hashed, printed>>

Fails ==
  /\ pc = "loop" /\ ~Loop
  /\ pc' = "end"
  /\ UNCHANGED <<winners, nounce, bytes, hashed, tried, printed>>

Next ==
  \/ ReadDataFromFile \/ BlockHeaderHashByte \/ Overwrite \/ Success \/ Invalid \/ Fails

Spec == Init /\ [][Next]_vars /\ WF_vars(Next)

--------------------------------------------------------------------------
\* The type invariant.
TypeOK ==
  /\ winners \subseteq Nounces /\ nounce \in Nounces /\ tried \subseteq Nounces
  /\ bytes \in [1 .. 4 -> 0 .. Radix - 1] /\ hashed \in {<<>>} \cup [1 .. 4 -> 0 .. Radix - 1]
  /\ pc \in {"open", "loop", "compare", "exit", "end"} /\ printed \in Nounces \cup {-1}

\* While nothing is overwritten, the search ends at the first winner it comes
\* to, having tried every nonce before: the header's own in place of 0, and
\* never the last one, 0xffffffff, which the loop's condition leaves out.
SearchesInOrder ==
  pc = "end" /\ Intact =>
    /\ tried \subseteq (Nounces \ {Last}) \cup Filed
    /\ (1 .. nounce) \ {Last} \subseteq tried
    /\ \A n \in tried : n \in winners => n = Number(bytes) /\ printed = nounce
    /\ printed = -1 => winners \cap (1 .. Last - 1) = {}

\* From the second header on, the nonce in the header, read lowest byte
\* first, is the counter that is printed.
HeaderFollows == nounce > 0 /\ pc # "exit" => Number(bytes) = nounce

\* The program ends, whatever it finds.
Ends == <>(pc \in {"exit", "end"})

\* "Nounce = ... is valid!" (CreateHashBlockHeader.cpp:161): the header with
\* that nonce hashes below the target.
PrintsValid == printed # -1 => printed \in winners
=============================================================================
