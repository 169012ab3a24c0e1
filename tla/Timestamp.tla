---------------------------- MODULE Timestamp ----------------------------
(***************************************************************************)
(* The timestamp driver (altera_avalon_timer_ts.c) and the timer it reads: *)
(* a counter that runs down once from full scale.  A reader latches it and *)
(* reads the halves of the latch one after the other while it runs on.     *)
(***************************************************************************)
EXTENDS Integers

CONSTANTS Half  \* size of the range of one half of the counter: 2^16

HalfAssumption == Half \in Nat \ {0, 1}

VARIABLES
  freq,            \* altera_avalon_timer_ts_freq: 0 without a timestamp timer
  counter,         \* the timer's counter
  run,             \* it runs
  snap,            \* the snapshot register
  at, lower,       \* where alt_timestamp is, and its first half
  stamp,           \* what it returned, or None
  elapsed, latched \* ticks since the last start, and when it latched

vars == <<freq, counter, run, snap, at, lower, stamp, elapsed, latched>>

None == -1
Full == Half * Half - 1

Init ==
  /\ freq \in {0, 1}
  /\ counter = Full /\ run = FALSE /\ snap = 0
  /\ at = "idle" /\ lower = 0 /\ stamp = None
  /\ elapsed = 0 /\ latched = 0

\* alt_timestamp_start: stop, period to full scale (which loads the counter),
\* start, not in continuous mode.
Start ==
  /\ at = "idle" /\ freq # 0
  /\ counter' = Full /\ run' = TRUE
  /\ elapsed' = 0 /\ stamp' = None /\ latched' = 0
  /\ UNCHANGED <<freq, snap, at, lower>>

\* At zero the timer takes its period again and stops.
Count ==
  /\ run
  /\ IF counter = 0 THEN counter' = Full /\ run' = FALSE
                    ELSE counter' = counter - 1 /\ UNCHANGED run
  /\ elapsed' = elapsed + 1
  /\ UNCHANGED <<freq, snap, at, lower, stamp, latched>>

\* alt_timestamp: a write to the snapshot register latches the counter.
Latch ==
  /\ at = "idle" /\ freq # 0
  /\ snap' = counter
  /\ latched' = elapsed
  /\ at' = "lower"
  /\ UNCHANGED <<freq, counter, run, lower, stamp, elapsed>>

ReadLower ==
  /\ at = "lower"
  /\ lower' = snap % Half
  /\ at' = "upper"
  /\ UNCHANGED <<freq, counter, run, snap, stamp, elapsed, latched>>

ReadUpper ==
  /\ at = "upper"
  /\ stamp' = Full - ((snap \div Half) * Half + lower)
  /\ at' = "idle"
  /\ UNCHANGED <<freq, counter, run, snap, lower, elapsed, latched>>

\* Without a timestamp timer: -1, all ones.
NoTimer ==
  /\ freq = 0 /\ at = "idle"
  /\ stamp' = Full
  /\ UNCHANGED <<freq, counter, run, snap, at, lower, elapsed, latched>>

Next == Start \/ Count \/ Latch \/ ReadLower \/ ReadUpper \/ NoTimer

Spec == Init /\ [][Next]_vars

-----------------------------------------------------------------------------
TypeOK ==
  /\ counter \in 0 .. Full /\ snap \in 0 .. Full /\ lower \in 0 .. Half - 1
  /\ stamp \in (0 .. Full) \cup {None}
  /\ elapsed \in 0 .. Full + 1 /\ latched \in 0 .. Full + 1

Done == at = "idle" /\ stamp # None /\ freq # 0

\* "The returned timestamp counts up from the last time the period register
\* was reset": what is put together from two reads is the time of one moment,
\* that of the latch, although the counter borrows between the halves.
StampIsOneMoment == Done /\ latched <= Full => stamp = latched

\* "In the event that the timer has run full period [...] this function
\* return -1."
FullPeriodIsMinusOne == Done /\ latched > Full => stamp = Full
=============================================================================
