--------------------------- MODULE NonceSearch ---------------------------
(***************************************************************************)
(* What the miner promises, with no hardware, interrupt or memory in it:   *)
(* every core owns a cursor into the nonce space; a step examines the      *)
(* nonce under one cursor; a nonce whose double hash is below the target   *)
(* is reported and ends the search, any other moves the cursor on by one.  *)
(***************************************************************************)
EXTENDS Integers

CONSTANTS
  NCores,     \* number of SHA cores, 10 on the board
  NonceSpan,  \* size of the nonce space, 2^32 in the firmware
  Start,      \* the first nonce of each core (nounce0 .. nounce9)
  Winners     \* the nonces whose double hash is below the target

Core  == 0 .. NCores - 1
Nonce == 0 .. NonceSpan - 1

ASSUME CoresAssumption   == NCores \in Nat \ {0}
ASSUME SpanAssumption    == NonceSpan \in Nat \ {0}
ASSUME StartAssumption   == Start \in [Core -> Nonce]
ASSUME WinnersAssumption == Winners \subseteq Nonce

VARIABLES
  cursor,   \* the nonce each core examines next
  result    \* "none", or the core and the nonce that ended the search

searchVars == <<cursor, result>>

\* A slip: a nonce is skipped.
BugSuccByTwo(n)     == (n + 2) % NonceSpan

\* An unsigned 32-bit increment: it wraps.
Succ(n) == (n + 1) % NonceSpan

NoResult == [core |-> 0, nonce |-> -1]

TypeOK ==
  /\ cursor \in [Core -> Nonce]
  /\ result \in [core : Core, nonce : Nonce] \cup {NoResult}

Init ==
  /\ cursor = Start
  /\ result = NoResult

Accept(c) ==
  /\ result = NoResult
  /\ cursor[c] \in Winners
  /\ result' = [core |-> c, nonce |-> cursor[c]]
  /\ UNCHANGED cursor

Reject(c) ==
  /\ result = NoResult
  /\ cursor[c] \notin Winners
  /\ cursor' = [cursor EXCEPT ![c] = Succ(@)]
  /\ UNCHANGED result

Examine(c) == Accept(c) \/ Reject(c)

Next == \E c \in Core : Examine(c)

Safety == Init /\ [][Next]_searchVars

\* No core is passed over for ever while the search goes on.
Fairness == \A c \in Core : WF_searchVars(Examine(c))

Spec == Safety /\ Fairness

-----------------------------------------------------------------------------
(***************************************************************************)
(* What follows from the search being done this way.                       *)
(***************************************************************************)
\* The nonces core c has moved past, seen from its first one.
Passed(c) ==
  {n \in Nonce : (n - Start[c]) % NonceSpan < (cursor[c] - Start[c]) % NonceSpan}

\* No core moves past a nonce that is below the target, wherever its interval
\* begins and although intervals wrap and run into each other: nounce<c>++ takes
\* the place of a list of nonces still to do.
NothingSkipped == \A c \in Core : Passed(c) \cap Winners = {}

\* Intervals have no end: whatever the first nonces are, a nonce below the target
\* is found if there is one, even below every core's first nonce.
FindsWinner == Winners # {} => <>(result # NoResult /\ result.nonce \in Winners)
=============================================================================
