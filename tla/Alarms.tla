----------------------------- MODULE Alarms -----------------------------
(***************************************************************************)
(* The system clock's tick and the alarms (alt_tick.c, alt_alarm_start.c,  *)
(* alt_llist.h, altera_avalon_timer_sc.c).                                 *)
(*                                                                         *)
(* The registered alarms are a linked list of the HAL's own.  alt_tick     *)
(* walks it in the timer's interrupt, one element a step, and calls back   *)
(* what is due; the application, and a callback, may start and stop        *)
(* alarms.  Times are tick counts of a fixed width, so they roll over.     *)
(***************************************************************************)
EXTENDS Integers

CONSTANTS
  Alarm,       \* the alarm structures
  Head,        \* alt_alarm_list
  Nowhere,     \* alt_tick is not running
  Wrap,        \* size of the tick counter's range: 2^32
  Rates,       \* the frequencies the timer driver may be initialised with
  StartWaits,  \* the values of nticks given to alt_alarm_start
  Periods,     \* the values callbacks return, other than 0
  StopsNext    \* TRUE: a callback may stop the very alarm alt_tick has read as the next

ASSUME NamesAssumption   == Head \notin Alarm /\ Nowhere \notin Alarm \cup {Head}
ASSUME WrapAssumption    == Wrap \in Nat \ {0, 1}
ASSUME RatesAssumption   == Rates \subseteq Nat \ {0}
ASSUME WaitsAssumption   == StartWaits \subseteq 0 .. Wrap - 1
ASSUME PeriodsAssumption == Periods \subseteq 1 .. Wrap - 1
ASSUME StopsAssumption   == StopsNext \in BOOLEAN

VARIABLES
  rate,            \* _alt_tick_rate: 0 until the timer driver sets it
  nticks,          \* _alt_nticks
  next, previous,  \* the links of the list
  known,           \* the alarms alt_alarm_start has filled in
  time, rollover,  \* of each alarm
  cursor,          \* alarm of alt_tick, or Nowhere
  following,       \* next of alt_tick, read before the callback
  calling          \* the callback of the alarm at the cursor runs

listVars == <<next, previous>>
tickVars == <<cursor, following, calling>>
vars == <<rate, nticks, listVars, known, time, rollover, tickVars>>

Node == Alarm \cup {Head}

Init ==
  /\ rate = 0 /\ nticks = 0
  /\ next = [x \in Node |-> x] /\ previous = [x \in Node |-> x]
  /\ known = {}
  /\ time = [a \in Alarm |-> 0] /\ rollover = [a \in Alarm |-> FALSE]
  /\ cursor = Nowhere /\ following = Nowhere /\ calling = FALSE

Listed(a) == next[a] # a

-----------------------------------------------------------------------------
\* alt_llist_insert: as the first element.
Insert(a) ==
  /\ next' = [next EXCEPT ![a] = next[Head], ![Head] = a]
  /\ previous' = [previous EXCEPT ![next[Head]] = a, ![a] = Head]

\* The entry keeps its links.
BugRemove(a) ==
  /\ next' = [next EXCEPT ![previous[a]] = next[a]]
  /\ previous' = [previous EXCEPT ![next[a]] = previous[a]]

\* alt_llist_remove: the element then points to itself, so that removing it
\* again does no harm.
Remove(a) ==
  /\ next' = [next EXCEPT ![previous[a]] = next[a], ![a] = a]
  /\ previous' = [previous EXCEPT ![next[a]] = previous[a], ![a] = a]

\* Without a clock alt_alarm_start fails; alt_sysclk_init sets it once.
SysclkInit ==
  /\ rate = 0
  /\ rate' \in Rates
  /\ UNCHANGED <<nticks, listVars, known, time, rollover, tickVars>>

\* The application runs between ticks, a callback within one.
Caller == cursor = Nowhere \/ calling

\* alt_alarm_start, for an alarm that is not registered; a callback sets its
\* own alarm again by what it returns.
Start(a, n) ==
  /\ Caller /\ rate # 0 /\ ~Listed(a) /\ a # cursor
  /\ time' = [time EXCEPT ![a] = (n + nticks + 1) % Wrap]
  /\ rollover' = [rollover EXCEPT ![a] = time'[a] < nticks]
  /\ known' = known \cup {a}
  /\ Insert(a)
  /\ UNCHANGED <<rate, nticks, tickVars>>

\* alt_alarm_stop, possibly of an alarm that has stopped already; a callback
\* stops its own alarm or another.
Stop(a) ==
  /\ Caller /\ a \in known
  /\ calling => (a # following \/ StopsNext)
  /\ Remove(a)
  /\ UNCHANGED <<rate, nticks, known, time, rollover, tickVars>>

-----------------------------------------------------------------------------
\* The timer's interrupt enters alt_tick.
Tick ==
  /\ rate # 0 /\ cursor = Nowhere
  /\ nticks' = (nticks + 1) % Wrap
  /\ cursor' = next[Head]
  /\ UNCHANGED <<rate, listVars, known, time, rollover, following, calling>>

\* The roll-over flag is cleared only after the comparison.
BugVisit ==
  /\ cursor \in Alarm /\ ~calling
  /\ following' = next[cursor]
  /\ rollover' = [rollover EXCEPT ![cursor] = @ /\ nticks # 0]
  /\ IF time[cursor] <= nticks /\ ~rollover[cursor]
       THEN calling' = TRUE /\ UNCHANGED cursor
       ELSE cursor' = following' /\ UNCHANGED calling
  /\ UNCHANGED <<rate, nticks, listVars, known, time>>

\* One alarm of the list: clear its roll-over flag when the counter rolls
\* over, then call it if it is due.
Visit ==
  /\ cursor \in Alarm /\ ~calling
  /\ following' = next[cursor]
  /\ rollover' = [rollover EXCEPT ![cursor] = @ /\ nticks # 0]
  /\ IF time[cursor] <= nticks /\ ~rollover'[cursor]
       THEN calling' = TRUE /\ UNCHANGED cursor
       ELSE cursor' = following' /\ UNCHANGED calling
  /\ UNCHANGED <<rate, nticks, listVars, known, time>>

\* The callback returns the ticks to its next call.
Again(n) ==
  /\ calling
  /\ time' = [time EXCEPT ![cursor] = (@ + n) % Wrap]
  /\ rollover' = [rollover EXCEPT ![cursor] = @ \/ time'[cursor] < nticks]
  /\ calling' = FALSE /\ cursor' = following
  /\ UNCHANGED <<rate, nticks, listVars, known, following>>

\* The callback returns 0.
LastCall ==
  /\ calling
  /\ Remove(cursor)
  /\ calling' = FALSE /\ cursor' = following
  /\ UNCHANGED <<rate, nticks, known, time, rollover, following>>

TickEnd ==
  /\ cursor = Head
  /\ cursor' = Nowhere /\ following' = Nowhere
  /\ UNCHANGED <<rate, nticks, listVars, known, time, rollover, calling>>

Walk == Visit \/ LastCall \/ TickEnd \/ \E n \in Periods : Again(n)

Next ==
  \/ SysclkInit \/ Tick \/ Walk
  \/ \E a \in Alarm : Stop(a) \/ \E n \in StartWaits : Start(a, n)

Spec == Init /\ [][Next]_vars

\* alt_tick and the callbacks run, and callbacks return.
FairSpec == /\ Spec
            /\ WF_vars(Visit \/ TickEnd)
            /\ SF_vars(LastCall \/ \E n \in Periods : Again(n))

-----------------------------------------------------------------------------
TypeOK ==
  /\ rate \in Rates \cup {0} /\ nticks \in 0 .. Wrap - 1
  /\ next \in [Node -> Node] /\ previous \in [Node -> Node]
  /\ known \subseteq Alarm
  /\ time \in [Alarm -> 0 .. Wrap - 1] /\ rollover \in [Alarm -> BOOLEAN]
  /\ cursor \in Node \cup {Nowhere} /\ following \in Node \cup {Nowhere}
  /\ calling \in BOOLEAN /\ (calling => cursor \in Alarm)

\* The list stays a list: next and previous undo each other at every node,
\* registered or not, through inserts and removals in the middle of a walk.
ListIsSound == \A x \in Node : previous[next[x]] = x /\ next[previous[x]] = x

\* At 0 a flag still set is from before the counter rolled over.
Left(a) ==
  IF ~Listed(a) THEN -1
  ELSE IF rollover[a] /\ nticks # 0 THEN Wrap + time[a] - nticks
  ELSE time[a] - nticks

\* Through start, roll-over and repetition the fixed-width times stand for
\* the ticks that remain: no alarm is called early, late, or left out.
Clock == INSTANCE AlarmClock WITH
  Most <- Wrap - 1, left <- [a \in Alarm |-> Left(a)]
IsClock == Clock!Spec

\* alt_tick leaves the interrupt: the walk reaches the end of the list.
TickEnds == (cursor # Nowhere) ~> (cursor = Nowhere)
=============================================================================
