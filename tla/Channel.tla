---------------------------- MODULE Channel ----------------------------
(***************************************************************************)
(* What each direction of the JTAG UART driver promises: a lossless,       *)
(* ordered channel.  The characters are numbered in the order they are     *)
(* handed over, modulo Span, so a lost, repeated, overtaken or overwritten *)
(* character is one with the wrong number.                                 *)
(***************************************************************************)
EXTENDS Integers, Sequences

CONSTANTS Span,  \* character numbers are taken modulo Span
          Batch  \* the most characters one step hands over or takes

VARIABLES queue, \* characters accepted and not yet taken, oldest first
          next   \* number of the character handed over next

Char == 0 .. Span - 1

Consecutive(first, len) == [i \in 1 .. len |-> (first + i - 1) % Span]

Init == queue = << >> /\ next = 0

Put == \E n \in 1 .. Batch :
  /\ queue' = queue \o Consecutive(next, n)
  /\ next' = (next + n) % Span

Get == \E n \in 1 .. Batch :
  /\ n <= Len(queue)
  /\ queue' = SubSeq(queue, n + 1, Len(queue))
  /\ UNCHANGED next

Spec == Init /\ [][Put \/ Get]_<<queue, next>>
=============================================================================
