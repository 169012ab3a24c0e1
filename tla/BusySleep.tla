---------------------------- MODULE BusySleep ----------------------------
(***************************************************************************)
(* alt_busy_sleep and usleep (alt_busy_sleep.c, alt_usleep.c): a delay by  *)
(* counting a register down to zero, in pieces that fit a register.  The   *)
(* model counts the turns of the assembly loops.                           *)
(***************************************************************************)
EXTENDS Integers

CONSTANTS
  IntMax,    \* INT_MAX
  PerUs,     \* turns of a loop in a microsecond: ALT_CPU_FREQ / 3000000
  Asked      \* the delays asked for, in microseconds

SizesAssumption == IntMax \in Nat /\ PerUs \in 1 .. IntMax
AskedAssumption == Asked \subseteq 0 .. 2 * IntMax + 1

VARIABLES reloaded, \* TRUE: the compiler loads INT_MAX into the register before
                    \* every piece.  FALSE: once; the assembly counts the register
                    \* down and does not tell the compiler.
          asked,    \* the argument
          us,       \* what is left of it
          big,      \* big_loops still to do
          reg,      \* the register of the loop over INT_MAX
          turns,    \* turns done
          at        \* start, pieces, short, last or done

vars == <<reloaded, asked, us, big, reg, turns, at>>

\* Microseconds in a piece of INT_MAX turns.
Piece == IntMax \div PerUs

Word == 2 * (IntMax + 1)

\* addi -1 and bne: from zero the register goes all the way round.
BneTurns(r) == IF r = 0 THEN Word ELSE r

\* addi -1 and bgt.
BgtTurns(r) == IF r > 0 THEN r ELSE 1

Init ==
  /\ reloaded \in BOOLEAN /\ asked \in Asked /\ us = asked
  /\ big = 0 /\ reg = IntMax /\ turns = 0 /\ at = "start"

Begin ==
  /\ at = "start"
  /\ big' = us \div Piece
  /\ at' = IF big' > 0 THEN "pieces" ELSE "short"
  /\ UNCHANGED <<reloaded, asked, us, reg, turns>>

BigPiece ==
  /\ at = "pieces"
  /\ turns' = turns + BneTurns(reg)
  /\ reg' = IF reloaded THEN IntMax ELSE 0
  /\ us' = us - Piece
  /\ big' = big - 1
  /\ at' = IF big = 1 THEN "last" ELSE "pieces"
  /\ UNCHANGED <<reloaded, asked>>

LastPiece ==
  /\ at = "last"
  /\ turns' = turns + BneTurns((us * PerUs) % Word)
  /\ at' = "done"
  /\ UNCHANGED <<reloaded, asked, us, big, reg>>

Short ==
  /\ at = "short"
  /\ turns' = turns + BgtTurns(us * PerUs)
  /\ at' = "done"
  /\ UNCHANGED <<reloaded, asked, us, big, reg>>

Next == Begin \/ BigPiece \/ LastPiece \/ Short

Spec == Init /\ [][Next]_vars

-----------------------------------------------------------------------------
TypeOK ==
  /\ reloaded \in BOOLEAN /\ us \in 0 .. 2 * IntMax + 1 /\ big \in Nat /\ turns \in Nat
  /\ at \in {"start", "pieces", "last", "short", "done"}
  /\ at = "short" => us * PerUs <= IntMax

\* The loops that start at zero and take the register all the way round: what is
\* left of a whole number of pieces, and every piece after the first if the
\* register is not loaded again.
Rounds ==
  LET pieces == asked \div Piece IN
  (IF pieces > 0 /\ asked % Piece = 0 THEN 1 ELSE 0)
    + (IF pieces > 0 /\ ~reloaded THEN pieces - 1 ELSE 0)

\* "Equivalent to for (i=0;i<us*(ALT_CPU_FREQ/3);i++)": no sleep is shorter
\* than asked for, and none is longer than by the turns each piece rounds away
\* and the rounds of the register.
SleepsAsAsked ==
  at = "done" =>
    /\ turns >= asked * PerUs
    /\ turns <= asked * PerUs + (asked \div Piece) * (IntMax - Piece * PerUs) + 1 + Rounds * Word

\* The same sentence without the rounds.
NoRounds == at = "done" => Rounds = 0
=============================================================================
