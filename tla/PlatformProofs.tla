--------------------------- MODULE PlatformProofs ---------------------------
(***************************************************************************)
(* The platform's services, proved.                                        *)
(*                                                                         *)
(* The list of alarms, for every set of alarms, every width of the tick    *)
(* counter and callbacks that may stop each other: its two links undo each *)
(* other at every node.  Types and links are inductive together; what an   *)
(* insert needs is that the new alarm points to itself, which is what      *)
(* alt_llist_remove sees to and Start asks for.                            *)
(*                                                                         *)
(* The alarm clock: the walk of alt_tick meets every alarm that is due.    *)
(* That an element lies ahead of the walk is said without induction: it is *)
(* in every set that holds the walk's place and that the links lead out of *)
(* only through the head (Closed, Reached, Ahead).                         *)
(*                                                                         *)
(* The exception entry, for programs of any length: how far the            *)
(* instruction that was left has come, at each place of the entry.         *)
(*                                                                         *)
(* The cache calls, for every size of memory, lines and caches: whatever   *)
(* copy the processor would read is the last one (Coherence), a flush has  *)
(* done the lines before its address (Swept), and what it has done stays   *)
(* done while the region is used (Reach).                                  *)
(***************************************************************************)
EXTENDS MCPlatform, TLAPS

Inv == TypeOK /\ ListIsSound

LEMMA InitInv == Init => Inv
<1>. SUFFICES ASSUME Init PROVE Inv
  OBVIOUS
<1>1. /\ 0 \in 0 .. Wrap - 1 /\ rate \in Rates \cup {0} /\ nticks \in 0 .. Wrap - 1
  BY WrapAssumption DEF Init
<1>2. time \in [Alarm -> 0 .. Wrap - 1] /\ rollover \in [Alarm -> BOOLEAN]
  BY <1>1 DEF Init
<1>3. next \in [Node -> Node] /\ previous \in [Node -> Node] /\ ListIsSound
  BY DEF Init, ListIsSound
<1>. QED BY <1>1, <1>2, <1>3, Zenon DEF Init, Inv, TypeOK

\* alt_llist_insert in front of the list, of an alarm linked to nothing.
LEMMA InsertKeepsLinks ==
  ASSUME next \in [Node -> Node], previous \in [Node -> Node], ListIsSound,
         NEW a \in Alarm, ~Listed(a), Insert(a)
  PROVE  next' \in [Node -> Node] /\ previous' \in [Node -> Node] /\ ListIsSound'
<1>. DEFINE f == next[Head]
<1>1. /\ a \in Node /\ Head \in Node /\ a # Head /\ f \in Node
      /\ next[a] = a /\ previous[a] = a /\ previous[f] = Head
  BY NamesAssumption DEF Node, Listed, ListIsSound
<1>2. f # a
  BY <1>1
<1>3. /\ next' \in [Node -> Node] /\ previous' \in [Node -> Node]
      /\ \A x \in Node :
           /\ next'[x] = IF x = Head THEN a ELSE IF x = a THEN f ELSE next[x]
           /\ previous'[x] = IF x = a THEN Head ELSE IF x = f THEN a ELSE previous[x]
  BY <1>1 DEF Insert
<1>. HIDE DEF f
<1>4. ASSUME NEW x \in Node PROVE previous'[next'[x]] = x /\ next'[previous'[x]] = x
  <2>1. next[x] \in Node /\ previous[x] \in Node
    OBVIOUS
  <2>2. previous[next[x]] = x /\ next[previous[x]] = x
    BY DEF ListIsSound
  <2>3. previous'[next'[x]] = x
    <3>1. CASE x = Head BY <1>1, <1>3, <3>1
    <3>2. CASE x = a BY <1>1, <1>2, <1>3, <3>2
    <3>3. CASE x # Head /\ x # a
      BY <1>1, <1>3, <2>1, <2>2, <3>3
    <3>. QED BY <3>1, <3>2, <3>3
  <2>4. next'[previous'[x]] = x
    <3>1. CASE x = a BY <1>1, <1>3, <3>1
    <3>2. CASE x = f BY <1>1, <1>2, <1>3, <3>2
    <3>3. CASE x # a /\ x # f
      <4>1. previous[x] # Head /\ previous[x] # a
        BY <1>1, <2>2, <3>3 DEF f
      <4>. QED BY <1>3, <2>1, <2>2, <3>3, <4>1
    <3>. QED BY <3>1, <3>2, <3>3
  <2>. QED BY <2>3, <2>4
<1>. QED BY <1>3, <1>4 DEF ListIsSound

\* alt_llist_remove, of an element in the list or removed already.
LEMMA RemoveKeepsLinks ==
  ASSUME next \in [Node -> Node], previous \in [Node -> Node], ListIsSound,
         NEW a \in Node, Remove(a)
  PROVE  next' \in [Node -> Node] /\ previous' \in [Node -> Node] /\ ListIsSound'
<1>. DEFINE p == previous[a]
            n == next[a]
<1>1. /\ p \in Node /\ n \in Node /\ next[p] = a /\ previous[n] = a
  BY DEF ListIsSound
<1>2. /\ next' \in [Node -> Node] /\ previous' \in [Node -> Node]
      /\ \A x \in Node :
           /\ next'[x] = IF x = a THEN a ELSE IF x = p THEN n ELSE next[x]
           /\ previous'[x] = IF x = a THEN a ELSE IF x = n THEN p ELSE previous[x]
  BY <1>1 DEF Remove
<1>3. ASSUME NEW x \in Node PROVE previous'[next'[x]] = x /\ next'[previous'[x]] = x
  <2>1. next[x] \in Node /\ previous[x] \in Node
    OBVIOUS
  <2>2. previous[next[x]] = x /\ next[previous[x]] = x
    BY DEF ListIsSound
  <2>3. CASE x = a
    BY <1>2, <2>3
  <2>4. CASE x # a
    <3>1. previous'[next'[x]] = x
      <4>1. CASE x = p
        <5>1. next'[x] = n /\ n # a
          BY <1>1, <1>2, <2>2, <2>4, <4>1
        <5>. QED BY <1>1, <1>2, <4>1, <5>1
      <4>2. CASE x # p
        <5>1. next'[x] = next[x] /\ next[x] # a /\ next[x] # n
          BY <1>1, <1>2, <2>2, <2>4, <4>2
        <5>. QED BY <1>2, <2>1, <2>2, <5>1
      <4>. QED BY <4>1, <4>2
    <3>2. next'[previous'[x]] = x
      <4>1. CASE x = n
        <5>1. previous'[x] = p /\ p # a
          BY <1>1, <1>2, <2>2, <2>4, <4>1
        <5>. QED BY <1>1, <1>2, <4>1, <5>1
      <4>2. CASE x # n
        <5>1. previous'[x] = previous[x] /\ previous[x] # a /\ previous[x] # p
          BY <1>1, <1>2, <2>2, <2>4, <4>2
        <5>. QED BY <1>2, <2>1, <2>2, <5>1
      <4>. QED BY <4>1, <4>2
    <3>. QED BY <3>1, <3>2
  <2>. QED BY <2>3, <2>4
<1>. QED BY <1>2, <1>3 DEF ListIsSound

-----------------------------------------------------------------------------
(***************************************************************************)
(* The steps.                                                              *)
(***************************************************************************)
\* A sum of tick counts stays a tick count.
LEMMA WrappedSum ==
  ASSUME NEW k \in Int
  PROVE  k % Wrap \in 0 .. Wrap - 1
BY WrapAssumption

LEMMA StartInv == ASSUME Inv, NEW a \in Alarm, NEW n \in StartWaits, Start(a, n) PROVE Inv'
<1>1. (n + nticks + 1) % Wrap \in 0 .. Wrap - 1
  BY WaitsAssumption, WrapAssumption, WrappedSum DEF Inv, TypeOK
<1>2. time' \in [Alarm -> 0 .. Wrap - 1] /\ rollover' \in [Alarm -> BOOLEAN]
  BY <1>1, WrapAssumption DEF Start, Inv, TypeOK
<1>3. next' \in [Node -> Node] /\ previous' \in [Node -> Node] /\ ListIsSound'
  BY InsertKeepsLinks DEF Start, Inv, TypeOK
<1>4. /\ known' \subseteq Alarm /\ rate' = rate /\ nticks' = nticks
      /\ UNCHANGED <<cursor, following, calling>>
  BY DEF Start, Inv, TypeOK, tickVars
<1>. QED BY <1>2, <1>3, <1>4 DEF Inv, TypeOK

LEMMA StopInv == ASSUME Inv, NEW a \in Alarm, Stop(a) PROVE Inv'
<1>1. next' \in [Node -> Node] /\ previous' \in [Node -> Node] /\ ListIsSound'
  BY RemoveKeepsLinks DEF Stop, Inv, TypeOK, Node
<1>. QED BY <1>1 DEF Stop, Inv, TypeOK, tickVars

LEMMA VisitInv == Inv /\ Visit => Inv'
<1>. SUFFICES ASSUME Inv, Visit PROVE Inv'
  OBVIOUS
<1>1. /\ cursor \in Alarm /\ cursor \in Node
      /\ UNCHANGED <<rate, nticks, next, previous, known, time>>
      /\ following' = next[cursor] /\ following' \in Node
  BY DEF Visit, listVars, Inv, TypeOK, Node
<1>2. rollover' \in [Alarm -> BOOLEAN]
  BY DEF Visit, Inv, TypeOK
<1>3. calling' \in BOOLEAN /\ (calling' => cursor' \in Alarm) /\ cursor' \in Node \cup {Nowhere}
  BY <1>1 DEF Visit, Inv, TypeOK
<1>. QED BY <1>1, <1>2, <1>3 DEF Inv, TypeOK, ListIsSound

LEMMA AgainInv == ASSUME Inv, NEW n \in Periods, Again(n) PROVE Inv'
<1>1. /\ cursor \in Alarm /\ n \in Int
      /\ UNCHANGED <<rate, nticks, next, previous, known, following>>
      /\ ~calling' /\ cursor' = following
  BY PeriodsAssumption, WrapAssumption DEF Again, listVars, Inv, TypeOK
<1>2. calling' = FALSE
  BY DEF Again
<1>3. (time[cursor] + n) % Wrap \in 0 .. Wrap - 1
  BY <1>1, WrapAssumption, WrappedSum DEF Inv, TypeOK
<1>4. time' \in [Alarm -> 0 .. Wrap - 1]
  BY <1>1, <1>3 DEF Again, Inv, TypeOK
<1>5. rollover' \in [Alarm -> BOOLEAN]
  BY <1>1 DEF Again, Inv, TypeOK
<1>. QED BY <1>1, <1>2, <1>4, <1>5 DEF Inv, TypeOK, ListIsSound

LEMMA LastCallInv == Inv /\ LastCall => Inv'
<1>. SUFFICES ASSUME Inv, LastCall PROVE Inv'
  OBVIOUS
<1>1. next' \in [Node -> Node] /\ previous' \in [Node -> Node] /\ ListIsSound'
  BY RemoveKeepsLinks DEF LastCall, Inv, TypeOK, Node
<1>. QED BY <1>1 DEF LastCall, Inv, TypeOK

LEMMA NextInv == Inv /\ [Next]_vars => Inv'
<1>. SUFFICES ASSUME Inv, [Next]_vars PROVE Inv'
  OBVIOUS
<1>1. CASE UNCHANGED vars
  BY <1>1 DEF vars, listVars, tickVars, Inv, TypeOK, ListIsSound
<1>2. CASE SysclkInit
  BY <1>2 DEF SysclkInit, listVars, tickVars, Inv, TypeOK, ListIsSound
<1>3. CASE Tick
  <2>1. nticks' \in 0 .. Wrap - 1
    BY <1>3, WrapAssumption, WrappedSum DEF Tick, Inv, TypeOK
  <2>2. cursor' \in Node /\ ~calling
    BY <1>3, NamesAssumption DEF Tick, Inv, TypeOK, Node
  <2>. QED BY <1>3, <2>1, <2>2 DEF Tick, listVars, Inv, TypeOK, ListIsSound
<1>4. CASE TickEnd
  <2>1. ~calling
    BY <1>4, NamesAssumption DEF TickEnd, Inv, TypeOK
  <2>. QED BY <1>4, <2>1 DEF TickEnd, listVars, Inv, TypeOK, ListIsSound
<1>5. ASSUME NEW a \in Alarm, NEW n \in StartWaits, Start(a, n) PROVE Inv'
  BY <1>5, StartInv
<1>6. ASSUME NEW a \in Alarm, Stop(a) PROVE Inv'
  BY <1>6, StopInv
<1>7. ASSUME NEW n \in Periods, Again(n) PROVE Inv'
  BY <1>7, AgainInv
<1>. QED BY <1>1, <1>2, <1>3, <1>4, <1>5, <1>6, <1>7, VisitInv, LastCallInv DEF Next, Walk

THEOREM AlarmInvariant == Spec => []Inv
BY InitInv, NextInv, PTL DEF Spec

\* Every variable keeps its type; the tick count and the times stay in range.
THEOREM AlarmsTypeCorrect == Spec => []TypeOK
<1>1. Inv => TypeOK BY DEF Inv
<1>. QED BY <1>1, AlarmInvariant, PTL

\* The list stays a list, whatever the application and the callbacks start and
\* stop while alt_tick walks it.
THEOREM ListStaysSound == Spec => []ListIsSound
<1>1. Inv => ListIsSound BY DEF Inv
<1>. QED BY <1>1, AlarmInvariant, PTL

-----------------------------------------------------------------------------
(***************************************************************************)
(* The alarm clock, for callbacks that stop any alarm but the one alt_tick *)
(* comes to next, and no wait of the counter's whole range.                *)
(***************************************************************************)
\* A set of nodes the walk cannot leave but through the head of the list.
Closed(S) == \A x \in S : x # Head => next[x] \in S

\* The list holds what is registered.
Reached == \A S \in SUBSET Node :
  Closed(S) /\ next[Head] \in S => \A a \in Alarm : Listed(a) => a \in S

\* An alarm of this tick that alt_tick still has to see: it is due, or its flag
\* is to be cleared.
Waits(a) ==
  Listed(a) /\ IF rollover[a] THEN nticks = 0 ELSE time[a] = nticks

\* Where the walk goes on.
Onward == IF calling THEN following ELSE cursor

Ahead ==
  /\ cursor = Nowhere => \A a \in Alarm : ~Waits(a)
  /\ cursor # Nowhere =>
       \A S \in SUBSET Node : Closed(S) /\ Onward \in S =>
         \A a \in Alarm : Waits(a) => a \in S \/ (calling /\ a = cursor)

\* Where the walk is, the list has not been cut.
OnTheList ==
  /\ cursor \in Alarm /\ ~calling => Listed(cursor)
  /\ calling => /\ following \in Node /\ following # cursor
                /\ following \in Alarm => Listed(following)
                /\ Listed(cursor) => /\ next[cursor] = following
                                     /\ time[cursor] = nticks /\ ~rollover[cursor]

\* What a time and its flag stand for lies ahead.
Timed == \A a \in Alarm : Listed(a) =>
           IF rollover[a] /\ nticks # 0 THEN time[a] < nticks ELSE time[a] >= nticks

ClockInv == Inv /\ Reached /\ Ahead /\ OnTheList /\ Timed

-----------------------------------------------------------------------------
Links == next \in [Node -> Node] /\ previous \in [Node -> Node] /\ ListIsSound

LEMMA InvLinks == Inv => Links
BY DEF Inv, TypeOK, Links

\* What follows an element of the list, or its head, is listed or the head.
LEMMA NextIsListed ==
  ASSUME Links, NEW x \in Node, x = Head \/ next[x] # x, NEW a \in Alarm, next[x] = a
  PROVE  Listed(a)
<1>1. previous[a] = x /\ a \in Node /\ Head \in Node /\ a # Head
  BY NamesAssumption DEF Links, ListIsSound, Node
<1>2. next[a] = a => previous[a] = a
  BY <1>1 DEF Links, ListIsSound
<1>. QED BY <1>1, <1>2 DEF Listed

LEMMA InsertLists ==
  ASSUME Links, NEW a \in Alarm, ~Listed(a), Insert(a)
  PROVE  /\ \A x \in Node : next'[x] = IF x = Head THEN a ELSE IF x = a THEN next[Head] ELSE next[x]
         /\ \A b \in Alarm : Listed(b)' <=> (b = a \/ Listed(b))
<1>1. a \in Node /\ Head \in Node /\ a # Head /\ next[a] = a /\ previous[a] = a
  BY NamesAssumption DEF Node, Listed, Links, ListIsSound
<1>2. next[Head] # a
  BY <1>1 DEF Links, ListIsSound
<1>3. \A x \in Node : next'[x] = IF x = Head THEN a ELSE IF x = a THEN next[Head] ELSE next[x]
  BY <1>1 DEF Insert, Links
<1>4. \A b \in Alarm : b \in Node /\ b # Head
  BY NamesAssumption DEF Node
<1>. QED BY <1>2, <1>3, <1>4 DEF Listed

\* Two alarms alone never form a list: it leads to its head.
LEMMA NoPair ==
  ASSUME Links, Reached, NEW a \in Alarm, NEW b \in Alarm, a # b, next[a] = b
  PROVE  next[b] # a
<1>. SUFFICES ASSUME next[b] = a PROVE FALSE
  OBVIOUS
<1>. DEFINE S == Node \ {a, b}
<1>1. a \in Node /\ b \in Node /\ Head \in S /\ previous[a] = b /\ previous[b] = a
  BY NamesAssumption DEF Node, Links, ListIsSound
<1>2. \A x \in S : next[x] \in S
  BY <1>1 DEF Links, ListIsSound
<1>3. Closed(S) /\ next[Head] \in S
  BY <1>1, <1>2 DEF Closed
<1>. QED BY <1>3 DEF Reached, Listed

LEMMA RemoveLists ==
  ASSUME Links, Reached, NEW a \in Alarm, Remove(a)
  PROVE  /\ \A x \in Node : next'[x] = IF x = a THEN a
                                       ELSE IF x = previous[a] THEN next[a] ELSE next[x]
         /\ \A b \in Alarm : Listed(b)' <=> (b # a /\ Listed(b))
<1>1. a \in Node /\ previous[a] \in Node /\ next[previous[a]] = a
  BY DEF Node, Links, ListIsSound
<1>2. \A x \in Node : next'[x] = IF x = a THEN a
                                 ELSE IF x = previous[a] THEN next[a] ELSE next[x]
  BY <1>1 DEF Remove, Links
<1>3. ASSUME NEW b \in Alarm, b # a PROVE Listed(b)' <=> Listed(b)
  <2>1. CASE b = previous[a]
    <3>1. next[b] = a /\ next[a] # b
      BY <1>1, <1>3, <2>1, NoPair DEF Links, ListIsSound
    <3>. QED BY <1>2, <1>3, <2>1, <3>1 DEF Listed, Node
  <2>2. CASE b # previous[a]
    BY <1>2, <1>3, <2>2 DEF Listed, Node
  <2>. QED BY <2>1, <2>2
<1>. QED BY <1>2, <1>3 DEF Listed, Node

\* Inserted in front, the alarm is found and nothing behind it is lost.
LEMMA InsertReached ==
  ASSUME Links, Reached, NEW a \in Alarm, ~Listed(a), Insert(a)
  PROVE  /\ Reached'
         /\ \A S \in SUBSET Node : Closed(S)' => Closed(S)
<1>1. /\ \A x \in Node : next'[x] = IF x = Head THEN a ELSE IF x = a THEN next[Head] ELSE next[x]
      /\ \A b \in Alarm : Listed(b)' <=> (b = a \/ Listed(b))
      /\ next[a] = a /\ a # Head /\ a \in Node /\ Head \in Node
  BY InsertLists, NamesAssumption DEF Listed, Node
<1>2. ASSUME NEW S \in SUBSET Node, Closed(S)' PROVE Closed(S)
  BY <1>1, <1>2 DEF Closed
<1>3. ASSUME NEW S \in SUBSET Node, Closed(S)', next'[Head] \in S, NEW b \in Alarm, Listed(b)'
      PROVE  b \in S
  <2>1. a \in S /\ next[Head] \in S
    BY <1>1, <1>3 DEF Closed
  <2>. QED BY <1>1, <1>2, <1>3, <2>1 DEF Reached
<1>. QED BY <1>2, <1>3 DEF Reached

\* Cut out, the alarm takes nothing with it.
LEMMA RemoveReached ==
  ASSUME Links, Reached, NEW a \in Alarm, Remove(a)
  PROVE  /\ Reached'
         /\ \A S \in SUBSET Node : Closed(S)' /\ next[a] \in S \cup {a} => Closed(S \cup {a})
         /\ \A S \in SUBSET Node :
              Closed(S)' /\ (previous[a] = Head \/ previous[a] \notin S) => Closed(S \ {a})
<1>. DEFINE p == previous[a]
<1>1. /\ \A x \in Node : next'[x] = IF x = a THEN a ELSE IF x = p THEN next[a] ELSE next[x]
      /\ \A b \in Alarm : Listed(b)' <=> (b # a /\ Listed(b))
      /\ a \in Node /\ Head \in Node /\ p \in Node /\ next[p] = a /\ a # Head
      /\ \A x \in Node : next[x] = a => x = p
  BY RemoveLists, NamesAssumption DEF Node, Links, ListIsSound
<1>. HIDE DEF p
<1>2. ASSUME NEW S \in SUBSET Node, Closed(S)', next[a] \in S \cup {a} PROVE Closed(S \cup {a})
  BY <1>1, <1>2 DEF Closed
<1>3. ASSUME NEW S \in SUBSET Node, Closed(S)', next'[Head] \in S, NEW b \in Alarm, Listed(b)'
      PROVE  b \in S
  <2>1. CASE p = Head \/ p \in S
    <3>1. next[a] \in S \cup {a}
      BY <1>1, <1>3, <2>1 DEF Closed
    <3>2. next[Head] \in S \cup {a}
      BY <1>1, <1>3
    <3>. QED BY <1>1, <1>2, <1>3, <3>1, <3>2 DEF Reached
  <2>2. CASE p # Head /\ p \notin S
    <3>. DEFINE R == S \ {a}
    <3>1. Closed(R)
      BY <1>1, <1>3, <2>2 DEF Closed
    <3>2. next[Head] \in R
      BY <1>1, <1>3, <2>2
    <3>. QED BY <1>1, <1>3, <3>1, <3>2 DEF Reached
  <2>. QED BY <2>1, <2>2
<1>4. ASSUME NEW S \in SUBSET Node, Closed(S)', p = Head \/ p \notin S PROVE Closed(S \ {a})
  BY <1>1, <1>4 DEF Closed
<1>. QED BY <1>2, <1>3, <1>4 DEF Reached, p

-----------------------------------------------------------------------------
\* Callbacks do not stop the alarm alt_tick comes to next; nobody waits for the
\* counter's range.
Sane == ~StopsNext /\ \A n \in StartWaits : n <= Wrap - 2

LEMMA Ranges ==
  ASSUME Inv
  PROVE  /\ Wrap \in Nat /\ Wrap > 1 /\ nticks \in Nat /\ nticks < Wrap
         /\ \A a \in Alarm : time[a] \in Nat /\ time[a] < Wrap /\ rollover[a] \in BOOLEAN
BY WrapAssumption DEF Inv, TypeOK

LEMMA Sum ==
  ASSUME NEW w \in Nat \ {0}, NEW s \in Nat, s < 2 * w
  PROVE  s % w = IF s < w THEN s ELSE s - w
<1>1. s < w => s % w = s
  OBVIOUS
<1>2. s >= w => s % w = s - w
  OBVIOUS
<1>. QED BY <1>1, <1>2

\* The ticks left of what is registered.
LEMMA LeftOf ==
  ASSUME Inv, NEW a \in Alarm
  PROVE  Left(a) = IF ~Listed(a) THEN -1
                   ELSE IF rollover[a] /\ nticks # 0 THEN Wrap + time[a] - nticks
                   ELSE time[a] - nticks
BY DEF Left

LEMMA ClockInit == Init => ClockInv
<1>. SUFFICES ASSUME Init PROVE ClockInv
  OBVIOUS
<1>1. Inv /\ cursor = Nowhere /\ calling = FALSE /\ Nowhere \notin Alarm
  BY InitInv, NamesAssumption DEF Init
<1>2. \A a \in Alarm : ~Listed(a)
  BY DEF Init, Listed, Node
<1>. QED BY <1>1, <1>2 DEF ClockInv, Reached, Ahead, Waits, OnTheList, Timed

\* alt_alarm_start sets the ticks asked for, and the walk is not disturbed.
LEMMA StartClock ==
  ASSUME Sane, ClockInv, NEW a \in Alarm, NEW n \in StartWaits, Start(a, n)
  PROVE  /\ Reached' /\ Ahead' /\ OnTheList' /\ Timed'
         /\ Left(a)' = n + 1
         /\ \A b \in Alarm : b # a => Left(b)' = Left(b)
<1>1. /\ Caller /\ rate # 0 /\ ~Listed(a) /\ a # cursor /\ Insert(a)
      /\ UNCHANGED <<rate, nticks, cursor, following, calling>>
      /\ time' = [time EXCEPT ![a] = (n + nticks + 1) % Wrap]
      /\ rollover' = [rollover EXCEPT ![a] = time'[a] < nticks]
  BY DEF Start, tickVars
<1>2. /\ Inv /\ Links /\ Reached /\ Ahead /\ OnTheList /\ Timed
      /\ Wrap \in Nat /\ Wrap > 1 /\ nticks \in Nat /\ nticks < Wrap
      /\ \A b \in Alarm : time[b] \in Nat /\ time[b] < Wrap /\ rollover[b] \in BOOLEAN
  BY Ranges, InvLinks DEF ClockInv
<1>3. /\ \A x \in Node : next'[x] = IF x = Head THEN a ELSE IF x = a THEN next[Head] ELSE next[x]
      /\ \A b \in Alarm : Listed(b)' <=> (b = a \/ Listed(b))
      /\ Reached'
      /\ \A S \in SUBSET Node : Closed(S)' => Closed(S)
  BY <1>1, <1>2, InsertLists, InsertReached
<1>4. n \in Nat /\ n <= Wrap - 2
  BY WaitsAssumption, <1>2 DEF Sane
<1>5. time'[a] = IF n + nticks + 1 < Wrap THEN n + nticks + 1 ELSE n + nticks + 1 - Wrap
  <2>1. (n + nticks + 1) % Wrap = IF n + nticks + 1 < Wrap THEN n + nticks + 1
                                  ELSE n + nticks + 1 - Wrap
    <3>1. PICK s \in Nat : s = n + nticks + 1 /\ s < 2 * Wrap
      BY <1>2, <1>4
    <3>2. s % Wrap = IF s < Wrap THEN s ELSE s - Wrap
      BY <1>2, <3>1, Sum
    <3>. QED BY <1>2, <1>4, <3>1, <3>2
  <2>2. time'[a] = (n + nticks + 1) % Wrap
    BY <1>1, <1>2 DEF Inv, TypeOK
  <2>. QED BY <2>1, <2>2
<1>6. rollover'[a] \in BOOLEAN /\ (rollover'[a] <=> n + nticks + 1 >= Wrap)
  <2>1. rollover'[a] = (time'[a] < nticks) /\ time'[a] \in Int
    BY <1>1, <1>2, <1>4, <1>5 DEF Inv, TypeOK
  <2>2. rollover'[a] \in BOOLEAN
    BY <1>2, <2>1
  <2>3. rollover'[a] <=> time'[a] < nticks
    BY <1>2, <2>1
  <2>. QED BY <1>2, <1>4, <1>5, <2>2, <2>3
<1>7. \A b \in Alarm : b # a => time'[b] = time[b] /\ rollover'[b] = rollover[b]
  BY <1>1 DEF Inv, TypeOK
<1>8. ~Waits(a)' /\ \A b \in Alarm : b # a => (Waits(b)' <=> Waits(b))
  BY <1>1, <1>2, <1>3, <1>4, <1>5, <1>6, <1>7 DEF Waits
<1>9. Ahead'
  BY <1>1, <1>2, <1>3, <1>8 DEF Ahead, Onward
<1>10. OnTheList'
  <2>1. cursor = Nowhere \/ (calling /\ cursor \in Alarm)
    BY <1>1, <1>2 DEF Inv, TypeOK, Caller
  <2>2. calling /\ cursor \in Alarm => cursor # Head /\ cursor \in Node
    BY NamesAssumption DEF Node
  <2>3. calling /\ cursor \in Alarm => /\ next'[cursor] = next[cursor]
                                        /\ time'[cursor] = time[cursor]
                                        /\ rollover'[cursor] = rollover[cursor]
                                        /\ Listed(cursor)' <=> Listed(cursor)
    BY <1>1, <1>3, <1>7, <2>2 DEF Listed
  <2>4. CASE cursor = Nowhere
    <3>1. ~calling /\ cursor \notin Alarm
      BY <1>2, <2>4, NamesAssumption DEF Inv, TypeOK
    <3>. QED BY <1>1, <3>1 DEF OnTheList
  <2>5. CASE calling /\ cursor \in Alarm
    BY <1>1, <1>2, <1>3, <2>3, <2>5 DEF OnTheList
  <2>. QED BY <2>1, <2>4, <2>5
<1>11. Timed'
  BY <1>1, <1>2, <1>3, <1>4, <1>5, <1>6, <1>7 DEF Timed
<1>12. Left(a)' = n + 1
  BY <1>1, <1>2, <1>3, <1>4, <1>5, <1>6 DEF Left
<1>13. \A b \in Alarm : b # a => Left(b)' = Left(b)
  BY <1>1, <1>3, <1>7 DEF Left
<1>. QED BY <1>3, <1>9, <1>10, <1>11, <1>12, <1>13

\* An alarm leaves the list: between ticks any, within one the walk's own.
LEMMA RemoveClock ==
  ASSUME ClockInv, NEW a \in Alarm, Remove(a), UNCHANGED <<nticks, time, rollover, following>>,
         \/ cursor = Nowhere /\ ~calling /\ UNCHANGED <<cursor, calling>>
         \/ calling /\ following # a /\ UNCHANGED <<cursor, calling>>
         \/ calling /\ cursor = a /\ ~calling' /\ cursor' = following
  PROVE  /\ Reached' /\ Ahead' /\ OnTheList' /\ Timed'
         /\ Left(a)' = -1
         /\ \A b \in Alarm : b # a => Left(b)' = Left(b)
<1>1. /\ Inv /\ Links /\ Reached /\ Ahead /\ OnTheList /\ Timed
      /\ cursor \in Node \cup {Nowhere} /\ (calling => cursor \in Alarm)
      /\ Nowhere \notin Alarm /\ Nowhere \notin Node
  BY InvLinks, NamesAssumption DEF ClockInv, Inv, TypeOK, Node
<1>2. /\ \A x \in Node : next'[x] = IF x = a THEN a
                                    ELSE IF x = previous[a] THEN next[a] ELSE next[x]
      /\ \A b \in Alarm : Listed(b)' <=> (b # a /\ Listed(b))
      /\ Reached'
      /\ \A S \in SUBSET Node : Closed(S)' /\ next[a] \in S \cup {a} => Closed(S \cup {a})
      /\ \A S \in SUBSET Node :
           Closed(S)' /\ (previous[a] = Head \/ previous[a] \notin S) => Closed(S \ {a})
  BY <1>1, RemoveLists, RemoveReached
<1>3. ~Waits(a)' /\ \A b \in Alarm : b # a => (Waits(b)' <=> Waits(b))
  BY <1>2 DEF Waits
<1>4. CASE cursor = Nowhere
  <2>1. Ahead' /\ OnTheList'
    BY <1>1, <1>3, <1>4 DEF Ahead, OnTheList
  <2>. QED BY <1>1, <1>2, <2>1 DEF Timed, Left
<1>5. CASE cursor # Nowhere /\ ~calling'
  <2>1. /\ calling /\ cursor = a /\ Onward = following /\ Onward' = following
        /\ following \in Node /\ following # a /\ cursor' # Nowhere
        /\ following \in Alarm => Listed(following)
        /\ Listed(a) => next[a] = following
    BY <1>1, <1>5 DEF OnTheList, Onward
  <2>2. ASSUME NEW S \in SUBSET Node, Closed(S)', following \in S, NEW b \in Alarm, Waits(b)'
        PROVE  b \in S
    <3>1. next[a] \in S \cup {a}
      BY <2>1, <2>2 DEF Listed
    <3>2. Closed(S \cup {a}) /\ S \cup {a} \in SUBSET Node
      BY <1>2, <2>2, <3>1 DEF Node
    <3>. QED BY <1>1, <1>3, <1>5, <2>1, <2>2, <3>2 DEF Ahead
  <2>3. Ahead'
    BY <2>1, <2>2 DEF Ahead
  <2>4. OnTheList'
    BY <1>1, <1>2, <2>1 DEF OnTheList
  <2>. QED BY <1>1, <1>2, <2>3, <2>4 DEF Timed, Left
<1>6. CASE calling /\ calling'
  <2>1. /\ cursor' = cursor /\ Onward = following /\ Onward' = following /\ cursor # Nowhere
        /\ following \in Node /\ following # a /\ following # cursor
        /\ following \in Alarm => Listed(following)
        /\ Listed(cursor) => /\ next[cursor] = following
                             /\ time[cursor] = nticks /\ ~rollover[cursor]
    BY <1>1, <1>6 DEF OnTheList, Onward
  <2>2. ASSUME NEW S \in SUBSET Node, Closed(S)', following \in S, NEW b \in Alarm, Waits(b)'
        PROVE  b \in S \/ b = cursor
    <3>1. CASE previous[a] # Head /\ previous[a] \in S
      <4>1. next'[previous[a]] \in S
        BY <2>2, <3>1 DEF Closed
      <4>2. previous[a] \in Node
        BY <1>1 DEF Links, Node
      <4>3. next[a] \in S \cup {a}
        <5>1. CASE previous[a] = a
          BY <1>1, <5>1 DEF Links, ListIsSound, Node
        <5>2. CASE previous[a] # a
          BY <1>2, <4>1, <4>2, <5>2
        <5>. QED BY <5>1, <5>2
      <4>4. Closed(S \cup {a}) /\ S \cup {a} \in SUBSET Node
        BY <1>2, <2>2, <4>3 DEF Node
      <4>. QED BY <1>1, <1>3, <1>6, <2>1, <2>2, <4>4 DEF Ahead
    <3>2. CASE previous[a] = Head \/ previous[a] \notin S
      <4>1. Closed(S \ {a}) /\ S \ {a} \in SUBSET Node /\ following \in S \ {a}
        BY <1>2, <2>1, <2>2, <3>2
      <4>. QED BY <1>1, <1>3, <1>6, <2>1, <2>2, <4>1 DEF Ahead
    <3>. QED BY <3>1, <3>2
  <2>3. Ahead'
    BY <1>6, <2>1, <2>2 DEF Ahead
  <2>4. Listed(cursor)' => next'[cursor] = following
    <3>1. SUFFICES ASSUME Listed(cursor)' PROVE next'[cursor] = following
      OBVIOUS
    <3>2. cursor \in Alarm /\ cursor # a /\ Listed(cursor)
      BY <1>1, <1>2, <1>6, <3>1
    <3>3. cursor # previous[a]
      BY <1>1, <2>1, <3>2 DEF Links, ListIsSound, Node
    <3>. QED BY <1>2, <2>1, <3>2, <3>3 DEF Node
  <2>5. OnTheList'
    BY <1>1, <1>2, <1>6, <2>1, <2>4 DEF OnTheList
  <2>. QED BY <1>1, <1>2, <2>3, <2>5 DEF Timed, Left
<1>. QED BY <1>4, <1>5, <1>6, NamesAssumption DEF ClockInv, Inv, TypeOK

\* alt_tick looks at one alarm: one that is due is called, and any flag of
\* before the roll-over is cleared.
LEMMA VisitClock ==
  ASSUME ClockInv, Visit
  PROVE  /\ Reached' /\ Ahead' /\ OnTheList' /\ Timed'
         /\ \A b \in Alarm : Left(b)' = Left(b)
<1>1. /\ Inv /\ Links /\ Reached /\ Ahead /\ OnTheList /\ Timed
      /\ Wrap \in Nat /\ nticks \in Nat /\ nticks < Wrap
      /\ \A b \in Alarm : time[b] \in Nat /\ time[b] < Wrap /\ rollover[b] \in BOOLEAN
  BY Ranges, InvLinks DEF ClockInv
<1>2. /\ cursor \in Alarm /\ cursor \in Node /\ ~calling /\ following' = next[cursor]
      /\ rollover' = [rollover EXCEPT ![cursor] = @ /\ nticks # 0]
      /\ UNCHANGED <<nticks, next, previous, time>>
      /\ Listed(cursor) /\ Onward = cursor /\ cursor # Nowhere /\ cursor # Head
      /\ calling' \in BOOLEAN /\ next[cursor] \in Node /\ next[cursor] # cursor
  BY <1>1, NamesAssumption, VisitInv DEF Visit, listVars, OnTheList, Onward, Node, Inv, TypeOK, Listed
<1>3. /\ rollover'[cursor] \in BOOLEAN /\ (rollover'[cursor] <=> rollover[cursor] /\ nticks # 0)
      /\ \A b \in Alarm : b # cursor => rollover'[b] = rollover[b]
  BY <1>1, <1>2 DEF Inv, TypeOK
<1>4. \A b \in Alarm : Listed(b)' <=> Listed(b)
  BY <1>2 DEF Listed
<1>5. Reached'
  BY <1>1, <1>2, <1>4 DEF Reached, Closed
<1>6. Timed' /\ \A b \in Alarm : Left(b)' = Left(b)
  BY <1>1, <1>2, <1>3, <1>4 DEF Timed, Left
<1>7. \A b \in Alarm : b # cursor => (Waits(b)' <=> Waits(b))
  BY <1>2, <1>3, <1>4 DEF Waits
<1>8. next[cursor] \in Alarm => Listed(next[cursor])
  BY <1>1, <1>2, NextIsListed
<1>9. ASSUME NEW S \in SUBSET Node, Closed(S)', next[cursor] \in S, NEW b \in Alarm, Waits(b)',
             b # cursor
      PROVE  b \in S
  <2>1. Closed(S \cup {cursor}) /\ S \cup {cursor} \in SUBSET Node
    BY <1>2, <1>9 DEF Closed
  <2>. QED BY <1>1, <1>2, <1>7, <1>9, <2>1 DEF Ahead
<1>10. CASE time[cursor] <= nticks /\ ~rollover'[cursor]
  <2>1. calling' /\ cursor' = cursor
    BY <1>2, <1>10 DEF Visit
  <2>2. time[cursor] = nticks
    BY <1>1, <1>2, <1>3, <1>10 DEF Timed
  <2>3. OnTheList'
    BY <1>2, <1>4, <1>8, <1>10, <2>1, <2>2 DEF OnTheList
  <2>4. Ahead'
    BY <1>2, <1>9, <2>1 DEF Ahead, Onward
  <2>. QED BY <1>5, <1>6, <2>3, <2>4
<1>11. CASE ~(time[cursor] <= nticks /\ ~rollover'[cursor])
  <2>1. ~calling' /\ cursor' = next[cursor] /\ cursor' # Nowhere
    BY <1>2, <1>11, NamesAssumption DEF Visit, Node
  <2>2. \A b \in Alarm : b = cursor => ~Waits(b)'
    BY <1>1, <1>2, <1>3, <1>11 DEF Waits
  <2>3. OnTheList'
    BY <1>2, <1>4, <1>8, <2>1 DEF OnTheList
  <2>4. \A b \in Alarm : Waits(b)' => b # cursor
    BY <2>2
  <2>5. Ahead'
    BY <1>2, <1>9, <2>1, <2>4 DEF Ahead, Onward
  <2>. QED BY <1>5, <1>6, <2>3, <2>5
<1>. QED BY <1>10, <1>11

\* The callback asks for another call.
LEMMA AgainClock ==
  ASSUME ClockInv, NEW n \in Periods, Again(n)
  PROVE  /\ Reached' /\ Ahead' /\ OnTheList' /\ Timed'
         /\ \A b \in Alarm : b = cursor /\ Listed(b) => Left(b) = 0 /\ Left(b)' = n
         /\ \A b \in Alarm : b # cursor \/ ~Listed(b) => Left(b)' = Left(b)
<1>1. /\ Inv /\ Links /\ Reached /\ Ahead /\ OnTheList /\ Timed
      /\ Wrap \in Nat \ {0} /\ nticks \in Nat /\ nticks < Wrap
      /\ \A b \in Alarm : time[b] \in Nat /\ time[b] < Wrap /\ rollover[b] \in BOOLEAN
  BY Ranges, InvLinks DEF ClockInv
<1>2. /\ calling /\ cursor \in Alarm /\ ~calling' /\ cursor' = following
      /\ time' = [time EXCEPT ![cursor] = (@ + n) % Wrap]
      /\ rollover' = [rollover EXCEPT ![cursor] = @ \/ time'[cursor] < nticks]
      /\ UNCHANGED <<nticks, next, previous, following>>
      /\ following \in Node /\ following # cursor /\ following # Nowhere /\ cursor # Nowhere
      /\ following \in Alarm => Listed(following)
  BY <1>1, NamesAssumption DEF Again, listVars, OnTheList, Inv, TypeOK, Node
<1>3. n \in Nat /\ n >= 1 /\ n < Wrap
  BY PeriodsAssumption, <1>1
<1>4. \A b \in Alarm : Listed(b)' <=> Listed(b)
  BY <1>2 DEF Listed
<1>5. \A b \in Alarm : b # cursor => time'[b] = time[b] /\ rollover'[b] = rollover[b]
  BY <1>2 DEF Inv, TypeOK
<1>6. ASSUME Listed(cursor)
      PROVE  /\ time[cursor] = nticks /\ ~rollover[cursor]
             /\ time'[cursor] = IF nticks + n < Wrap THEN nticks + n ELSE nticks + n - Wrap
             /\ rollover'[cursor] \in BOOLEAN /\ (rollover'[cursor] <=> nticks + n >= Wrap)
  <2>1. time[cursor] = nticks /\ ~rollover[cursor]
    BY <1>1, <1>2, <1>6 DEF OnTheList
  <2>2. time'[cursor] = (nticks + n) % Wrap
    BY <1>1, <1>2, <2>1 DEF Inv, TypeOK
  <2>3. PICK s \in Nat : s = nticks + n /\ s < 2 * Wrap
    BY <1>1, <1>3
  <2>4. s % Wrap = IF s < Wrap THEN s ELSE s - Wrap
    BY <1>1, <2>3, Sum
  <2>5. time'[cursor] = IF nticks + n < Wrap THEN nticks + n ELSE nticks + n - Wrap
    BY <1>1, <1>3, <2>2, <2>3, <2>4
  <2>6. rollover'[cursor] = (rollover[cursor] \/ time'[cursor] < nticks)
    BY <1>1, <1>2 DEF Inv, TypeOK
  <2>7. rollover'[cursor] \in BOOLEAN
    BY <1>1, <1>3, <2>1, <2>5, <2>6
  <2>8. rollover'[cursor] <=> time'[cursor] < nticks
    BY <1>1, <1>3, <2>1, <2>5, <2>6
  <2>. QED BY <1>1, <1>3, <2>1, <2>5, <2>7, <2>8
<1>7. Reached'
  BY <1>1, <1>2, <1>4 DEF Reached, Closed
<1>8. Timed'
  BY <1>1, <1>2, <1>3, <1>4, <1>5, <1>6 DEF Timed
<1>9. \A b \in Alarm : IF b = cursor THEN ~Waits(b)' ELSE (Waits(b)' <=> Waits(b))
  BY <1>1, <1>2, <1>3, <1>4, <1>5, <1>6 DEF Waits
<1>10. Ahead'
  BY <1>1, <1>2, <1>9 DEF Ahead, Onward, Closed
<1>11. OnTheList'
  BY <1>2, <1>4 DEF OnTheList
<1>12. \A b \in Alarm : b = cursor /\ Listed(b) => Left(b) = 0 /\ Left(b)' = n
  BY <1>1, <1>2, <1>3, <1>4, <1>6 DEF Left
<1>13. \A b \in Alarm : b # cursor \/ ~Listed(b) => Left(b)' = Left(b)
  BY <1>2, <1>4, <1>5 DEF Left
<1>. QED BY <1>7, <1>8, <1>10, <1>11, <1>12, <1>13

\* A tick comes when nothing of the last one is left, and counts every alarm down.
LEMMA TickClock ==
  ASSUME ClockInv, Tick
  PROVE  /\ Reached' /\ Ahead' /\ OnTheList' /\ Timed'
         /\ \A b \in Alarm : /\ Left(b) # 0
                             /\ Left(b)' = IF Left(b) = -1 THEN -1 ELSE Left(b) - 1
<1>1. /\ Inv /\ Links /\ Reached /\ Ahead /\ Timed
      /\ Wrap \in Nat /\ Wrap > 1 /\ nticks \in Nat /\ nticks < Wrap
      /\ \A b \in Alarm : time[b] \in Nat /\ time[b] < Wrap /\ rollover[b] \in BOOLEAN
  BY Ranges, InvLinks DEF ClockInv
<1>2. /\ cursor = Nowhere /\ nticks' = (nticks + 1) % Wrap /\ cursor' = next[Head]
      /\ UNCHANGED <<next, previous, time, rollover, calling>>
      /\ ~calling /\ Head \in Node /\ next[Head] \in Node /\ next[Head] # Nowhere
  BY <1>1, NamesAssumption DEF Tick, listVars, Inv, TypeOK, Node
<1>3. nticks' = IF nticks + 1 = Wrap THEN 0 ELSE nticks + 1
  <2>1. nticks + 1 < Wrap => (nticks + 1) % Wrap = nticks + 1
    BY <1>1
  <2>2. nticks + 1 = Wrap => (nticks + 1) % Wrap = 0
    BY <1>1
  <2>. QED BY <1>1, <1>2, <2>1, <2>2
<1>4. \A b \in Alarm : (Listed(b)' <=> Listed(b)) /\ ~Waits(b)
  BY <1>1, <1>2 DEF Listed, Ahead
<1>5. ASSUME NEW b \in Alarm, Listed(b)
      PROVE  /\ Left(b) >= 1 /\ Left(b)' = Left(b) - 1
             /\ IF rollover[b] /\ nticks' # 0 THEN time[b] < nticks' ELSE time[b] >= nticks'
  BY <1>1, <1>2, <1>3, <1>4, <1>5 DEF Left, Waits, Timed
<1>6. ASSUME NEW b \in Alarm, ~Listed(b) PROVE Left(b) = -1 /\ Left(b)' = -1
  BY <1>4, <1>6 DEF Left
<1>7. Timed'
  BY <1>2, <1>4, <1>5 DEF Timed
<1>8. Reached'
  BY <1>1, <1>2, <1>4 DEF Reached, Closed
<1>9. Ahead'
  BY <1>2, <1>4, <1>8 DEF Ahead, Onward, Reached, Waits
<1>10. OnTheList'
  <2>1. next[Head] \in Alarm => Listed(next[Head])
    BY <1>1, <1>2, NextIsListed
  <2>. QED BY <1>2, <1>4, <2>1 DEF OnTheList
<1>. QED BY <1>5, <1>6, <1>7, <1>8, <1>9, <1>10

\* At the head of the list nothing is left to see.
LEMMA TickEndClock ==
  ASSUME ClockInv, TickEnd
  PROVE  /\ Reached' /\ Ahead' /\ OnTheList' /\ Timed'
         /\ \A b \in Alarm : Left(b)' = Left(b)
<1>1. /\ cursor = Head /\ cursor' = Nowhere /\ ~calling /\ Head \notin Alarm /\ Head # Nowhere
      /\ UNCHANGED <<nticks, next, previous, time, rollover, calling>> /\ Nowhere \notin Alarm
      /\ Head \in Node
  BY NamesAssumption DEF TickEnd, listVars, ClockInv, Inv, TypeOK, Node
<1>2. \A b \in Alarm : ~Waits(b)
  <2>1. Closed({Head}) /\ Onward = Head /\ {Head} \in SUBSET Node
    BY <1>1 DEF Closed, Onward
  <2>. QED BY <1>1, <2>1 DEF ClockInv, Ahead
<1>3. Ahead'
  BY <1>1, <1>2 DEF Ahead, Waits, Listed
<1>4. OnTheList'
  BY <1>1 DEF OnTheList
<1>. QED BY <1>1, <1>3, <1>4 DEF ClockInv, Reached, Closed, Timed, Left, Listed

-----------------------------------------------------------------------------
\* Every step keeps the invariant and is one of the abstract clock's, or none.
LEMMA ClockStep ==
  ASSUME Sane, ClockInv, [Next]_vars
  PROVE  ClockInv' /\ [Clock!Next]_([a \in Alarm |-> Left(a)])
<1>. DEFINE Parts == Reached' /\ Ahead' /\ OnTheList' /\ Timed'
            Same  == \A b \in Alarm : Left(b)' = Left(b)
            Step  == [Clock!Next]_([a \in Alarm |-> Left(a)])
<1>1. Inv' /\ Inv
  BY NextInv DEF ClockInv
<1>. SUFFICES Parts /\ Step
  BY <1>1 DEF ClockInv
<1>2. Same => Step
  OBVIOUS
<1>3. CASE UNCHANGED vars \/ SysclkInit
  <2>1. UNCHANGED <<nticks, next, previous, time, rollover, cursor, following, calling>>
    BY <1>3 DEF vars, listVars, tickVars, SysclkInit
  <2>2. Parts /\ Same
    BY <2>1 DEF ClockInv, Reached, Closed, Ahead, Onward, Waits, OnTheList, Timed, Left, Listed
  <2>. QED BY <1>2, <2>2
<1>4. CASE Tick
  <2>1. /\ Parts
        /\ \A b \in Alarm : /\ Left(b) # 0
                            /\ Left(b)' = IF Left(b) = -1 THEN -1 ELSE Left(b) - 1
    BY <1>4, TickClock
  <2>2. Clock!Tick
    BY <2>1 DEF Clock!Tick, Clock!Off
  <2>. QED BY <2>1, <2>2 DEF Clock!Next
<1>5. CASE Visit \/ TickEnd
  <2>1. Parts /\ Same
    BY <1>5, VisitClock, TickEndClock
  <2>. QED BY <1>2, <2>1
<1>6. CASE LastCall
  <2>1. /\ cursor \in Alarm /\ calling /\ ~calling' /\ cursor' = following /\ Remove(cursor)
        /\ UNCHANGED <<nticks, time, rollover, following>>
    BY <1>1, <1>6 DEF LastCall, Inv, TypeOK
  <2>2. PICK a \in Alarm : a = cursor
    BY <2>1
  <2>3. Parts /\ Left(a)' = -1 /\ \A b \in Alarm : b # a => Left(b)' = Left(b)
    BY <2>1, <2>2, RemoveClock
  <2>4. Clock!Stop(a)
    BY <2>3 DEF Clock!Stop, Clock!Off
  <2>. QED BY <2>3, <2>4 DEF Clock!Next
<1>7. ASSUME NEW n \in Periods, Again(n) PROVE Parts /\ Step
  <2>1. PICK a \in Alarm : a = cursor
    BY <1>1, <1>7 DEF Again, Inv, TypeOK
  <2>2. Parts /\ (Listed(a) => Left(a) = 0 /\ Left(a)' = n)
        /\ \A b \in Alarm : b # a \/ ~Listed(b) => Left(b)' = Left(b)
    BY <1>7, <2>1, AgainClock
  <2>3. CASE Listed(a)
    <3>1. n \in 1 .. Wrap - 1
      BY PeriodsAssumption
    <3>2. Clock!Called(a)
      BY <2>2, <2>3, <3>1 DEF Clock!Called
    <3>. QED BY <2>2, <3>2 DEF Clock!Next
  <2>4. CASE ~Listed(a)
    <3>1. Same
      BY <2>2, <2>4
    <3>. QED BY <1>2, <2>2, <3>1
  <2>. QED BY <2>3, <2>4
<1>8. ASSUME NEW a \in Alarm, NEW n \in StartWaits, Start(a, n) PROVE Parts /\ Step
  <2>1. Parts /\ Left(a)' = n + 1 /\ \A b \in Alarm : b # a => Left(b)' = Left(b)
    BY <1>8, StartClock
  <2>2. n \in 0 .. Wrap - 1
    BY WaitsAssumption
  <2>3. Clock!Start(a)
    BY <2>1, <2>2 DEF Clock!Start
  <2>. QED BY <2>1, <2>3 DEF Clock!Next
<1>9. ASSUME NEW a \in Alarm, Stop(a) PROVE Parts /\ Step
  <2>1. /\ Remove(a) /\ UNCHANGED <<nticks, time, rollover, following, cursor, calling>>
        /\ cursor = Nowhere \/ (calling /\ a # following)
        /\ calling \in BOOLEAN /\ (calling => cursor \in Alarm)
    BY <1>1, <1>9 DEF Stop, tickVars, Caller, Sane, Inv, TypeOK
  <2>2. cursor = Nowhere => ~calling
    BY <2>1, NamesAssumption
  <2>3. Parts /\ Left(a)' = -1 /\ \A b \in Alarm : b # a => Left(b)' = Left(b)
    <3>1. CASE cursor = Nowhere
      BY <2>1, <2>2, <3>1, RemoveClock
    <3>2. CASE calling /\ a # following
      BY <2>1, <3>2, RemoveClock
    <3>. QED BY <2>1, <3>1, <3>2
  <2>4. Clock!Stop(a)
    BY <2>3 DEF Clock!Stop, Clock!Off
  <2>. QED BY <2>3, <2>4 DEF Clock!Next
<1>. QED BY <1>3, <1>4, <1>5, <1>6, <1>7, <1>8, <1>9 DEF Next, Walk

\* The run's property: alarms over a counter that rolls over implement the
\* abstract alarm clock; none is called early, late, or left out.
THEOREM AlarmsAreAClock == ASSUME Sane PROVE MCSpec => IsClock
<1>1. MCInit => Clock!Init
  <2>1. Init => \A a \in Alarm : Left(a) = -1
    BY DEF Init, Left, Listed, Node
  <2>. QED BY <2>1 DEF MCInit, Clock!Init, Clock!Off
<1>2. MCInit => ClockInv
  BY ClockInit DEF MCInit
<1>3. [MCNext]_mcVars => [Next]_vars
  BY DEF MCNext, mcVars, AlarmStep, WallStep, StampStep, SleepStep, ExcStep, CacheStep
<1>4. ClockInv /\ [MCNext]_mcVars => ClockInv' /\ [Clock!Next]_([a \in Alarm |-> Left(a)])
  BY <1>3, ClockStep
<1>. QED BY <1>1, <1>2, <1>4, PTL DEF MCSpec, IsClock, Clock!Spec

-----------------------------------------------------------------------------
(***************************************************************************)
(* The exception entry, for programs of any length and with or without a   *)
(* cause from the processor.                                               *)
(***************************************************************************)
\* Everything before place k took effect once, or was skipped as illegal.
Done(k) == \A j \in 1 .. Length : done[j] = IF j < k /\ program[j] # "illegal" THEN 1 ELSE 0

\* What an exception saved, and how far its instruction has come.
Saved ==
  /\ eAt # "run" => pc \in 1 .. Length /\ ea = pc + 1
  /\ eAt # "run" /\ cause = Entry!ILLEGAL_INST => program[pc] = "illegal"
  /\ eAt \in {"test", "irq", "notirq"} => return = pc
  /\ eAt \in {"entry", "user", "answered"} => return = pc + 1
  /\ eAt = "answered" /\ result = Entry!SKIP_INST => program[pc] = "illegal"

Progress ==
  /\ eAt \in {"run", "test", "irq", "notirq", "entry", "user", "answered"} => Done(pc)
  /\ eAt = "exit" => \/ return = pc /\ Done(pc)
                     \/ return = pc + 1 /\ Done(pc + 1) /\ program[pc] \in {"mul", "illegal"}

\* The handler for ECC errors whose registration lies behind is in memory.
Registered == \A j \in 1 .. Length : j < pc /\ program[j] = "installEcc" => eccMemory

EntryInv == Entry!TypeOK /\ Entry!MaskRespected /\ Saved /\ Progress /\ Registered

LEMMA EntryConstants ==
  /\ Length \in Nat \ {0} /\ Raises \in Nat /\ Entry!Place = 1 .. Length
  /\ Entry!ILLEGAL_INST = 5 /\ Entry!SKIP_INST = 1 /\ Entry!REISSUE_INST = 0
  /\ Entry!NOT_PRESENT = -1 /\ Entry!INTERRUPT = 2 /\ Entry!ECC_REGISTER_FILE_ERR = 20
BY ServicesAssumption
   DEF Entry!ExceptionsAssumption, Entry!Place, Entry!ILLEGAL_INST, Entry!SKIP_INST,
       Entry!REISSUE_INST, Entry!NOT_PRESENT, Entry!INTERRUPT, Entry!ECC_REGISTER_FILE_ERR

\* The cause of a fault is that of the instruction at its place.
LEMMA Causes ==
  ASSUME NEW k \in {"mul", "trap", "illegal", "misaligned"}
  PROVE  Entry!CauseOf(k) \in 3 .. 6 /\ (Entry!CauseOf(k) = 5 => k = "illegal")
BY DEF Entry!CauseOf, Entry!UNIMPLEMENTED_INST, Entry!TRAP_INST, Entry!ILLEGAL_INST,
       Entry!MISALIGNED_DATA_ADDR

LEMMA EntryInit == Entry!Init => EntryInv
<1>. USE EntryConstants
<1>. SUFFICES ASSUME Entry!Init PROVE EntryInv
  OBVIOUS
<1>1. Entry!TypeOK
  <2>1. pc = 1 /\ ea = 1 /\ return = 1 /\ cause = 0 /\ result = 0 /\ raises = 0
        /\ done \in [1 .. Length -> 0 .. 1]
    BY DEF Entry!Init
  <2>2. 1 \in 1 .. Length + 1 /\ 0 \in -1 .. 22 /\ 0 \in 0 .. Raises
    OBVIOUS
  <2>. QED BY <2>1, <2>2, Zenon DEF Entry!Init, Entry!TypeOK
<1>2. Done(pc) /\ Registered
  BY DEF Entry!Init, Done, Registered
<1>. QED BY <1>1, <1>2 DEF Entry!Init, EntryInv, Entry!MaskRespected, Saved, Progress

\* An instruction of the program takes effect and the next one is reached.
LEMMA CompletesInv ==
  ASSUME EntryInv, eAt = "run", pc \in 1 .. Length, program[pc] # "illegal",
         pc' = pc + 1, done' = [done EXCEPT ![pc] = @ + 1],
         program[pc] = "installEcc" => eccMemory', eccMemory => eccMemory', eccMemory' \in BOOLEAN,
         pie' \in BOOLEAN, handler' \in BOOLEAN,
         UNCHANGED <<extraInfo, program, repaired, ipending, raises, eAt, ea, estatus, return,
                     cause, result, eccCached, eccOver>>
  PROVE  EntryInv'
<1>. USE EntryConstants
<1>1. Done(pc) /\ Entry!TypeOK /\ Registered
  BY DEF EntryInv, Progress
<1>2. done[pc] = 0 /\ done \in [1 .. Length -> 0 .. 1]
  BY <1>1 DEF Done, Entry!TypeOK
<1>3. done' \in [1 .. Length -> 0 .. 1] /\ Done(pc)'
  BY <1>1, <1>2 DEF Done
<1>4. Entry!TypeOK'
  BY <1>1, <1>3 DEF Entry!TypeOK, Entry!Kinds
<1>5. Registered'
  BY <1>1, <1>2 DEF Registered
<1>. QED BY <1>3, <1>4, <1>5 DEF EntryInv, Entry!MaskRespected, Saved, Progress

\* The CPU leaves the program for the entry.
LEMMA SavesInv ==
  ASSUME EntryInv, eAt = "run", pc \in 1 .. Length, NEW why \in -1 .. 22, Entry!Saves(why),
         why = 5 => program[pc] = "illegal", eAt' \in {"test", "fatal"}, eccOver' \in BOOLEAN,
         UNCHANGED <<extraInfo, program, pc, done, repaired, ipending, raises, result, handler,
                     eccCached, eccMemory>>
  PROVE  EntryInv'
<1>. USE EntryConstants
<1>1. /\ ea' = pc + 1 /\ estatus' = pie /\ pie' = FALSE /\ return' = pc /\ cause' = why
      /\ Done(pc) /\ Entry!TypeOK /\ Registered
  BY DEF EntryInv, Progress, Entry!Saves
<1>2. Entry!TypeOK'
  <2>1. ea' \in 1 .. Length + 1 /\ return' \in 1 .. Length + 1
    BY <1>1
  <2>2. estatus' \in BOOLEAN /\ pie' \in BOOLEAN
    BY <1>1, Zenon DEF Entry!TypeOK
  <2>. QED BY <1>1, <2>1, <2>2, Zenon DEF Entry!TypeOK, Entry!Kinds
<1>3. Done(pc)' /\ Registered'
  BY <1>1 DEF Done, Registered
<1>. QED BY <1>1, <1>2, <1>3 DEF EntryInv, Entry!MaskRespected, Saved, Progress

LEMMA ProgramInv ==
  ASSUME EntryInv, Entry!Program \/ Entry!Accept \/ Entry!EccFatal
  PROVE  EntryInv'
<1>. USE EntryConstants
<1>1. Entry!TypeOK
  BY DEF EntryInv
<1>2. CASE Entry!Plain
  <2>1. pie' \in BOOLEAN
    BY <1>1, <1>2, Zenon DEF Entry!Plain, Entry!TypeOK
  <2>. QED BY <1>1, <1>2, <2>1, CompletesInv
           DEF Entry!Plain, Entry!Running, Entry!Here, Entry!Completes, Entry!build, Entry!frame,
               Entry!ecc, Entry!TypeOK
<1>3. CASE Entry!alt_instruction_exception_register \/ Entry!EccFlush
  BY <1>1, <1>3, CompletesInv
     DEF Entry!alt_instruction_exception_register, Entry!EccFlush, Entry!Running, Entry!Here,
         Entry!Completes, Entry!build, Entry!irq, Entry!frame, Entry!ecc, Entry!TypeOK
<1>4. CASE Entry!EccStore
  <2>1. UNCHANGED <<extraInfo, program, pc, done, repaired, pie, ipending, raises, eAt, ea, estatus,
                    return, cause, result, handler, eccMemory, eccOver>> /\ eccCached' = TRUE
    BY <1>4 DEF Entry!EccStore, Entry!code, Entry!build, Entry!irq, Entry!frame
  <2>2. Entry!TypeOK'
    BY <1>1, <2>1 DEF Entry!TypeOK, Entry!Kinds
  <2>. QED BY <2>1, <2>2
           DEF EntryInv, Entry!MaskRespected, Saved, Progress, Done, Registered
<1>5. CASE Entry!Faults
  <2>1. /\ eAt = "run" /\ pc \in 1 .. Length
        /\ program[pc] \in {"mul", "trap", "illegal", "misaligned"}
        /\ Entry!Excepts(Entry!CauseOf(program[pc]))
    BY <1>5 DEF Entry!Faults, Entry!Running, Entry!Here
  <2>2. PICK why \in -1 .. 22 :
          why = Entry!CauseOf(program[pc]) /\ (why = 5 => program[pc] = "illegal")
    BY <2>1, Causes, SMTT(20)
  <2>. QED BY <1>1, <2>1, <2>2, SavesInv
           DEF Entry!Excepts, Entry!code, Entry!build, Entry!ecc, Entry!TypeOK
<1>6. CASE Entry!Accept
  <2>1. 2 \in -1 .. 22
    OBVIOUS
  <2>. QED BY <1>1, <1>6, <2>1, SavesInv
           DEF Entry!Accept, Entry!Excepts, Entry!Running, Entry!code, Entry!build, Entry!ecc,
               Entry!TypeOK
<1>7. CASE Entry!EccFatal
  <2>1. 20 \in -1 .. 22
    OBVIOUS
  <2>. QED BY <1>1, <1>7, <2>1, SavesInv
           DEF Entry!EccFatal, Entry!Running, Entry!code, Entry!build, Entry!TypeOK
<1>. QED BY <1>2, <1>3, <1>4, <1>5, <1>6, <1>7 DEF Entry!Program

\* The interrupt test, the multiply emulation and the trap test.
LEMMA TestsInv ==
  ASSUME EntryInv, Entry!IrqTest \/ Entry!IrqHandler \/ Entry!NotIrq
  PROVE  EntryInv'
<1>. USE EntryConstants
<1>1. Entry!TypeOK /\ Saved /\ Progress /\ Registered
  BY DEF EntryInv
<1>2. CASE Entry!IrqTest \/ Entry!IrqHandler
  <2>1. /\ UNCHANGED <<extraInfo, program, pc, done, repaired, pie, raises, ea, estatus,
                       return, cause, result, handler, eccCached, eccMemory, eccOver>>
        /\ ipending' \in BOOLEAN
        /\ \/ eAt = "test" /\ eAt' \in {"irq", "notirq"} /\ (eAt' = "irq" => estatus)
           \/ eAt = "irq" /\ eAt' = "exit"
    BY <1>1, <1>2 DEF Entry!IrqTest, Entry!IrqHandler, Entry!code, Entry!build, Entry!irq,
       Entry!frame, Entry!ecc, Entry!TypeOK
  <2>2. Entry!TypeOK'
    BY <1>1, <2>1 DEF Entry!TypeOK, Entry!Kinds
  <2>. QED BY <1>1, <2>1, <2>2
           DEF EntryInv, Entry!MaskRespected, Saved, Progress, Done, Registered
<1>3. CASE Entry!NotIrq
  <2>1. /\ eAt = "notirq" /\ return' = ea /\ ea = pc + 1 /\ pc \in 1 .. Length /\ Done(pc)
        /\ UNCHANGED <<extraInfo, program, pc, repaired, pie, ipending, raises, ea, estatus,
                       cause, result, handler, eccCached, eccMemory, eccOver>>
    BY <1>1, <1>3 DEF Entry!NotIrq, Entry!build, Entry!irq, Entry!ecc, Saved, Progress
  <2>2. CASE program[pc] = "mul"
    <3>1. eAt' = "exit" /\ done' = [done EXCEPT ![pc] = @ + 1]
      BY <1>3, <2>2 DEF Entry!NotIrq, Entry!Here
    <3>2. done[pc] = 0 /\ done \in [1 .. Length -> 0 .. 1]
      BY <1>1, <2>1 DEF Done, Entry!TypeOK
    <3>3. /\ done' \in [1 .. Length -> 0 .. 1]
          /\ \A j \in 1 .. Length :
               done'[j] = IF j < pc + 1 /\ program[j] # "illegal" THEN 1 ELSE 0
      BY <2>1, <2>2, <3>1, <3>2 DEF Done
    <3>4. Entry!TypeOK'
      BY <1>1, <2>1, <3>1, <3>3 DEF Entry!TypeOK, Entry!Kinds
    <3>5. Progress'
      BY <2>1, <2>2, <3>1, <3>3 DEF Progress, Done
    <3>. QED BY <1>1, <2>1, <3>1, <3>4, <3>5
             DEF EntryInv, Entry!MaskRespected, Saved, Registered
  <2>3. CASE program[pc] # "mul"
    <3>1. done' = done /\ eAt' \in {"broken", "entry"}
      BY <1>3, <2>3 DEF Entry!NotIrq, Entry!Here
    <3>2. Entry!TypeOK'
      BY <1>1, <2>1, <3>1 DEF Entry!TypeOK, Entry!Kinds
    <3>. QED BY <1>1, <2>1, <3>1, <3>2
             DEF EntryInv, Entry!MaskRespected, Saved, Progress, Done, Registered
  <2>. QED BY <2>2, <2>3
<1>. QED BY <1>2, <1>3

\* The instruction-related exception API and the registered handler.
LEMMA ApiInv ==
  ASSUME EntryInv, Entry!alt_instruction_exception_entry \/ Entry!UserHandler \/ Entry!Answered
  PROVE  EntryInv'
<1>. USE EntryConstants
<1>1. Entry!TypeOK /\ Saved /\ Progress /\ Registered
  BY DEF EntryInv
<1>2. CASE Entry!alt_instruction_exception_entry
  <2>1. /\ UNCHANGED <<extraInfo, program, pc, done, repaired, pie, ipending, raises, ea, estatus,
                       return, result, handler, eccCached, eccMemory, eccOver>>
        /\ eAt = "entry" /\ eAt' \in {"user", "hangs"} /\ cause' \in {cause, -1}
    BY <1>2 DEF Entry!alt_instruction_exception_entry, Entry!code, Entry!build, Entry!irq, Entry!ecc
  <2>2. Entry!TypeOK'
    BY <1>1, <2>1 DEF Entry!TypeOK, Entry!Kinds
  <2>. QED BY <1>1, <2>1, <2>2
           DEF EntryInv, Entry!MaskRespected, Saved, Progress, Done, Registered
<1>3. CASE Entry!UserHandler
  <2>1. /\ UNCHANGED <<extraInfo, program, pc, done, pie, ipending, raises, ea, estatus,
                       return, cause, handler, eccCached, eccMemory, eccOver>>
        /\ eAt = "user" /\ eAt' = "answered" /\ ea = pc + 1 /\ pc \in 1 .. Length
    BY <1>1, <1>3 DEF Entry!UserHandler, Entry!build, Entry!irq, Entry!frame, Entry!ecc, Saved
  <2>2. Entry!exception_pc = pc
    BY <2>1 DEF Entry!exception_pc
  <2>3. repaired' \subseteq 1 .. Length
    BY <1>1, <1>3, <2>1, <2>2 DEF Entry!UserHandler, Entry!TypeOK
  <2>4. result' \in {0, 1} /\ (result' = 1 => program[pc] = "illegal")
    BY <1>1, <1>3, <2>1, <2>2 DEF Entry!UserHandler, Saved
  <2>5. Entry!TypeOK'
    BY <1>1, <2>1, <2>3, <2>4 DEF Entry!TypeOK, Entry!Kinds
  <2>. QED BY <1>1, <2>1, <2>4, <2>5
           DEF EntryInv, Entry!MaskRespected, Saved, Progress, Done, Registered
<1>4. CASE Entry!Answered
  <2>1. /\ UNCHANGED <<extraInfo, program, pc, done, repaired, pie, ipending, raises, ea, estatus,
                       cause, result, handler, eccCached, eccMemory, eccOver>>
        /\ eAt = "answered" /\ eAt' = "exit" /\ ea = pc + 1 /\ pc \in 1 .. Length
        /\ return = pc + 1 /\ Done(pc) /\ result \in {0, 1}
        /\ return' = IF result # 0 THEN pc + 1 ELSE pc
        /\ result = 1 => program[pc] = "illegal"
    BY <1>1, <1>4 DEF Entry!Answered, Entry!code, Entry!build, Entry!irq, Entry!ecc, Saved,
       Progress, Entry!TypeOK
  <2>2. Entry!TypeOK'
    BY <1>1, <2>1 DEF Entry!TypeOK, Entry!Kinds
  <2>3. result = 1 => Done(pc + 1)
    BY <2>1 DEF Done
  <2>4. Progress'
    BY <2>1, <2>3 DEF Progress, Done
  <2>. QED BY <1>1, <2>1, <2>2, <2>4
           DEF EntryInv, Entry!MaskRespected, Saved, Registered
<1>. QED BY <1>2, <1>3, <1>4

LEMMA ExitInv == ASSUME EntryInv, Entry!Exit PROVE EntryInv'
<1>. USE EntryConstants
<1>1. Entry!TypeOK /\ Saved /\ Progress /\ Registered
  BY DEF EntryInv
<1>2. /\ UNCHANGED <<extraInfo, program, done, repaired, ipending, raises, ea, estatus, return,
                     cause, result, handler, eccCached, eccMemory, eccOver>>
      /\ eAt = "exit" /\ eAt' = "run" /\ pc' = return /\ pie' = estatus /\ pc \in 1 .. Length
  BY <1>1 DEF Entry!Exit, Entry!build, Entry!frame, Entry!ecc, Saved
<1>3. /\ return = pc \/ (return = pc + 1 /\ program[pc] \in {"mul", "illegal"})
      /\ Done(return)
  BY <1>1, <1>2 DEF Progress
<1>4. Entry!TypeOK'
  BY <1>1, <1>2 DEF Entry!TypeOK, Entry!Kinds
<1>5. Progress'
  BY <1>2, <1>3 DEF Progress, Done
<1>6. Registered'
  BY <1>1, <1>2, <1>3 DEF Registered
<1>. QED BY <1>2, <1>4, <1>5, <1>6 DEF EntryInv, Entry!MaskRespected, Saved

LEMMA EntryNext == EntryInv /\ [Entry!Next]_(Entry!vars) => EntryInv'
<1>. USE EntryConstants
<1>. SUFFICES ASSUME EntryInv, [Entry!Next]_(Entry!vars) PROVE EntryInv'
  OBVIOUS
<1>1. CASE Entry!Raise \/ Entry!Withdraw \/ UNCHANGED Entry!vars
  <2>1. /\ UNCHANGED <<extraInfo, program, pc, done, repaired, pie, eAt, ea, estatus, return,
                       cause, result, handler, eccCached, eccMemory, eccOver>>
        /\ ipending' \in BOOLEAN /\ raises' \in 0 .. Raises
    <3>1. CASE Entry!Raise
      BY <3>1 DEF Entry!Raise, Entry!code, Entry!build, Entry!frame, Entry!ecc, EntryInv,
         Entry!TypeOK
    <3>2. CASE Entry!Withdraw
      BY <3>2 DEF Entry!Withdraw, Entry!code, Entry!build, Entry!frame, Entry!ecc, EntryInv,
         Entry!TypeOK
    <3>3. CASE UNCHANGED Entry!vars
      BY <3>3 DEF Entry!vars, Entry!code, Entry!build, Entry!irq, Entry!frame, Entry!ecc,
         EntryInv, Entry!TypeOK
    <3>. QED BY <1>1, <3>1, <3>2, <3>3
  <2>2. Entry!TypeOK'
    BY <2>1 DEF EntryInv, Entry!TypeOK, Entry!Kinds
  <2>. QED BY <2>1, <2>2
           DEF EntryInv, Entry!MaskRespected, Saved, Progress, Done, Registered
<1>2. CASE Entry!Program \/ Entry!Accept \/ Entry!EccFatal
  BY <1>2, ProgramInv
<1>3. CASE Entry!Entry
  BY <1>3, TestsInv, ApiInv, ExitInv DEF Entry!Entry
<1>. QED BY <1>1, <1>2, <1>3 DEF Entry!Next

LEMMA EntryPromises == EntryInv => Entry!TypeOK /\ Entry!EachOnce /\ Entry!MaskRespected
BY EntryConstants DEF EntryInv, Progress, Done, Entry!EachOnce

-----------------------------------------------------------------------------
EntrySafe == unit = "entry" => EntryInv

LEMMA EntryUnit ==
  /\ MCInit => EntrySafe
  /\ EntrySafe /\ [MCNext]_mcVars => EntrySafe'
<1>1. MCInit => EntrySafe
  BY EntryInit DEF MCInit, EntrySafe
<1>2. ASSUME EntrySafe, [MCNext]_mcVars, unit' = "entry" PROVE EntryInv'
  <2>1. unit = "entry" /\ [Entry!Next]_(Entry!vars)
    BY <1>2 DEF MCNext, mcVars, excVars, AlarmStep, WallStep, StampStep, SleepStep, ExcStep,
       CacheStep, Entry!vars, Entry!code, Entry!build, Entry!irq, Entry!frame, Entry!ecc
  <2>. QED BY <1>2, <2>1, EntryNext DEF EntrySafe
<1>. QED BY <1>1, <1>2 DEF EntrySafe

\* The run's property: whatever falls between an instruction and the exception
\* entry, each instruction takes effect once, and no handler runs masked.
THEOREM EachInstructionOnce == MCSpec => []ExceptionsHandled
<1>1. EntrySafe => ExceptionsHandled
  BY EntryPromises DEF EntrySafe, ExceptionsHandled
<1>. QED BY <1>1, EntryUnit, PTL DEF MCSpec

\* Once a handler for fatal ECC errors was registered, an error reaches it.
THEOREM EccReachesHandler == Entry!Spec => Entry!FatalReachesHandler
<1>. USE EntryConstants
<1>1. EntryInv /\ [Entry!Next]_(Entry!vars) => [Entry!ErrorIsHandled]_(Entry!vars)
  <2>. SUFFICES ASSUME EntryInv, Entry!Next, eccOver' # eccOver,
                       \E j \in 1 .. pc - 1 : program[j] = "installEcc"
                PROVE  eAt' = "fatal"
    BY DEF Entry!ErrorIsHandled
  <2>1. Entry!EccFatal
    BY DEF Entry!Next, Entry!Program, Entry!Entry, Entry!Plain, Entry!Faults, Entry!Excepts,
       Entry!alt_instruction_exception_register, Entry!EccStore, Entry!EccFlush, Entry!Raise,
       Entry!Withdraw, Entry!Accept, Entry!IrqTest, Entry!IrqHandler, Entry!NotIrq,
       Entry!alt_instruction_exception_entry, Entry!UserHandler, Entry!Answered, Entry!Exit,
       Entry!ecc
  <2>2. eccMemory
    BY DEF EntryInv, Registered, Entry!TypeOK
  <2>. QED BY <2>1, <2>2 DEF Entry!EccFatal
<1>. QED BY <1>1, EntryInit, EntryNext, PTL DEF Entry!Spec, Entry!FatalReachesHandler

-----------------------------------------------------------------------------
(***************************************************************************)
(* Addresses and lines.                                                    *)
(***************************************************************************)
Splits(a, n, q, r) == q \in Int /\ r \in 0 .. n - 1 /\ a = q * n + r

LEMMA Division ==
  ASSUME NEW n \in Int, n > 0, NEW a \in Int
  PROVE  Splits(a, n, a \div n, a % n)
<1>1. a = n * (a \div n) + (a % n)
  OBVIOUS
<1>2. a \div n \in Int /\ a % n \in 0 .. n - 1
  OBVIOUS
<1>3. ASSUME NEW q \in Int, NEW r \in Int, a = n * q + r PROVE a = q * n + r
  BY <1>3
<1>4. a = (a \div n) * n + (a % n)
  BY <1>1, <1>2, <1>3
<1>. QED BY <1>2, <1>4 DEF Splits

LEMMA Quotient ==
  ASSUME NEW n \in Int, n > 0, NEW a \in Int, NEW q, NEW r, Splits(a, n, q, r)
  PROVE  a \div n = q /\ a % n = r
BY DEF Splits

LEMMA Product ==
  ASSUME NEW n \in Int, n > 0, NEW p \in Int, NEW q \in Int
  PROVE  /\ p < q => p * n + n <= q * n
         /\ p <= q => p * n <= q * n
         /\ p * n < q * n => p < q
OBVIOUS

LEMMA Monotone ==
  ASSUME NEW n \in Int, n > 0, NEW a \in Int, NEW b \in Int, a <= b
  PROVE  a \div n <= b \div n
<1>. DEFINE p == a \div n  q == b \div n
<1>1. p \in Int /\ q \in Int /\ p * n <= a /\ b < q * n + n
  BY Division DEF Splits
<1>2. q < p => q * n + n <= p * n
  BY <1>1, Product
<1>. QED BY <1>1, <1>2

LEMMA NextLine ==
  ASSUME NEW n \in Int, n > 0, NEW a \in Int
  PROVE  (a + n) \div n = a \div n + 1 /\ (a + n) % n = a % n
<1>1. ASSUME NEW q, NEW r, Splits(a, n, q, r) PROVE Splits(a + n, n, q + 1, r)
  BY <1>1 DEF Splits
<1>2. Splits(a + n, n, a \div n + 1, a % n)
  BY <1>1, Division
<1>. QED BY <1>2, Quotient

LEMMA PastEnd ==
  ASSUME NEW n \in Int, n > 0, NEW a \in Int, NEW b \in Int, a < b, b % n = 0
  PROVE  a \div n < b \div n
<1>. DEFINE p == a \div n  q == b \div n
<1>1. p \in Int /\ q \in Int /\ p * n <= a /\ b = q * n
  BY Division DEF Splits
<1>. QED BY <1>1, Product

\* A whole number of lines, and one more.
LEMMA Whole ==
  ASSUME NEW n \in Int, n > 0, NEW q \in Int
  PROVE  (q * n) \div n = q /\ (q * n) % n = 0
<1>1. Splits(q * n, n, q, 0)
  BY DEF Splits
<1>. QED BY <1>1, Quotient

\* AlignedSize rounds up to whole lines.
LEMMA Rounding ==
  ASSUME NEW n \in Int, n > 0, NEW a \in Nat
  PROVE  LET m == ((a + n - 1) \div n) * n
         IN  m \in Nat /\ m % n = 0 /\ a <= m /\ m < a + n
<1>. DEFINE q == (a + n - 1) \div n  m == q * n
<1>1. q \in Int /\ m <= a + n - 1 /\ a + n - 1 < m + n
  BY Division DEF Splits
<1>2. q >= 0
  <2>1. q < 0 => q * n + n <= 0 * n
    BY <1>1, Product
  <2>. QED BY <1>1, <2>1
<1>3. m % n = 0
  BY <1>1, Whole
<1>. QED BY <1>1, <1>2, <1>3

\* n consecutive numbers have every remainder.
LEMMA Covers ==
  ASSUME NEW n \in Int, n > 0, NEW b \in Int, NEW x \in Int
  PROVE  \E l \in b .. b + n - 1 : l % n = x % n
<1>1. PICK q, r : Splits(x - b, n, q, r)
  BY Division
<1>2. b + r \in Int
  BY <1>1 DEF Splits
<1>3. PICK p, s : Splits(b + r, n, p, s)
  BY <1>2, Division
<1>4. Splits(x, n, p + q, s)
  BY <1>1, <1>3 DEF Splits
<1>5. x % n = s /\ (b + r) % n = s
  BY <1>2, <1>3, <1>4, Quotient
<1>. QED BY <1>1, <1>5 DEF Splits

-----------------------------------------------------------------------------
(***************************************************************************)
(* The cache calls.                                                        *)
(***************************************************************************)
LEMMA CacheConstants ==
  /\ NLines \in Nat /\ DLines \in Nat
  /\ LineSize \in Int /\ LineSize > 0 /\ ILines \in Int /\ ILines > 0
  /\ Starts \subseteq Nat /\ Lens \subseteq Nat
BY ServicesAssumption DEF Flush!CacheAssumption

LEMMA Room ==
  /\ NLines * LineSize \in Nat /\ (NLines + DLines + 1) * LineSize \in Nat
  /\ NLines * LineSize <= (NLines + DLines + 1) * LineSize
  /\ DLines * LineSize + LineSize <= (NLines + DLines + 1) * LineSize
  /\ DLines > 0 => NLines * LineSize + 2 * LineSize <= (NLines + DLines + 1) * LineSize
<1>. DEFINE N == NLines * LineSize  D == DLines * LineSize
<1>1. N \in Int /\ D \in Int /\ 0 * LineSize <= N /\ 0 * LineSize <= D
  BY CacheConstants, Product
<1>2. DLines > 0 => 0 * LineSize + LineSize <= D
  BY CacheConstants, Product
<1>3. (NLines + DLines + 1) * LineSize = N + D + LineSize
  BY CacheConstants
<1>. QED BY <1>1, <1>2, <1>3, CacheConstants

LEMMA LineFacts ==
  /\ \A a \in Nat : /\ Flush!LineOf(a) \in Nat
                    /\ Flush!LineOf(a + LineSize) = Flush!LineOf(a) + 1
                    /\ (a + LineSize) % LineSize = a % LineSize
  /\ \A a, b \in Nat : /\ a <= b => Flush!LineOf(a) <= Flush!LineOf(b)
                       /\ a < b /\ b % LineSize = 0 => Flush!LineOf(a) < Flush!LineOf(b)
  /\ \A a \in Flush!Cells : a \in Nat /\ Flush!LineOf(a) \in Flush!Lines
<1>1. ASSUME NEW a \in Nat PROVE Flush!LineOf(a) \in Nat
  <2>1. 0 \div LineSize = 0
    BY CacheConstants, Quotient DEF Splits
  <2>2. a \div LineSize \in Int
    BY CacheConstants, Division DEF Splits
  <2>3. 0 \div LineSize <= a \div LineSize
    BY CacheConstants, Monotone
  <2>. QED BY <2>1, <2>2, <2>3 DEF Flush!LineOf
<1>2. ASSUME NEW a \in Nat, NEW b \in Nat
      PROVE  /\ a <= b => Flush!LineOf(a) <= Flush!LineOf(b)
             /\ a < b /\ b % LineSize = 0 => Flush!LineOf(a) < Flush!LineOf(b)
  BY CacheConstants, Monotone, PastEnd DEF Flush!LineOf
<1>3. ASSUME NEW a \in Nat
      PROVE  /\ Flush!LineOf(a + LineSize) = Flush!LineOf(a) + 1
             /\ (a + LineSize) % LineSize = a % LineSize
  BY CacheConstants, NextLine DEF Flush!LineOf
<1>4. ASSUME NEW a \in Flush!Cells PROVE a \in Nat /\ Flush!LineOf(a) \in Flush!Lines
  <2>1. a \in Nat /\ a < NLines * LineSize
    BY Room DEF Flush!Cells
  <2>2. (NLines * LineSize) % LineSize = 0 /\ (NLines * LineSize) \div LineSize = NLines
    BY CacheConstants, Whole
  <2>3. a \div LineSize < (NLines * LineSize) \div LineSize
    BY <2>1, <2>2, CacheConstants, Room, PastEnd
  <2>. QED BY <1>1, <2>1, <2>2, <2>3, CacheConstants DEF Flush!LineOf, Flush!Lines
<1>. QED BY <1>1, <1>2, <1>3, <1>4

\* The copy of a byte that the processor would read is the last one.
Coherent(a) == IF Flush!LineOf(a) \in dcache THEN a \in dFresh ELSE a \in mFresh

\* A region of whole lines shares none of them.
Apart == use \in {"collect", "uncached"}

CacheTypes ==
  /\ Flush!TypeOK
  /\ DLines = 0 => dcache = {}
  /\ phase \in {"flush", "device"} => use # "none"
  /\ phase = "discard" => use = "collect"
  /\ phase = "flush" => use # "collect"
  /\ phase = "device" => use \in {"collect", "publish"}
  /\ phase = "uncached" => use = "uncached"
  /\ phase \in {"flush_all", "iflush", "runs"} => use = "code"
  /\ Apart /\ phase # "idle" => start % LineSize = 0 /\ len % LineSize = 0

Coherence ==
  /\ \A a \in Flush!Cells :
       Coherent(a) \/ (phase \in {"discard", "device"} /\ use = "collect" /\ a \in Flush!Block)
  /\ \A a \in dFresh : Flush!LineOf(a) \notin dirty => a \in mFresh

\* A flush has done the lines before the address it has come to.
Swept ==
  /\ phase \in {"flush", "discard"} =>
       /\ start <= i /\ i % LineSize = start % LineSize
       /\ \A a \in Flush!Block : Flush!LineOf(a) < Flush!LineOf(i) =>
            /\ phase = "flush" => a \in mFresh
            /\ Apart => Flush!LineOf(a) \notin dcache
  /\ phase = "flush_all" =>
       /\ start = 0 /\ len = NLines * LineSize /\ i % LineSize = 0
       /\ \A k \in dcache : Flush!LineOf(i) <= k % DLines

\* What the calls have reached, for as long as the region is used.
Reach ==
  /\ phase \in {"iflush", "runs"} \/ (phase \in {"device", "uncached"} /\ use # "collect")
       => Flush!Block \subseteq mFresh
  /\ phase \in {"device", "uncached"} /\ Apart
       => \A a \in Flush!Block : Flush!LineOf(a) \notin dcache
  /\ phase = "runs" => \A a \in Flush!Block : Flush!LineOf(a) \in icache => a \in iFresh

CacheInv == CacheTypes /\ Coherence /\ Swept /\ Reach

LEMMA CacheInit == Flush!Init => CacheInv
<1>. SUFFICES ASSUME Flush!Init PROVE CacheInv
  OBVIOUS
<1>. USE CacheConstants, Room DEF Flush!Init
<1>1. CacheTypes
  BY DEF CacheTypes, Flush!TypeOK, Flush!Bytes, Apart
<1>. QED BY <1>1 DEF CacheInv, Coherence, Coherent, Swept, Reach

LEMMA BlockApart ==
  ASSUME CacheTypes, Apart, phase # "idle", NEW a \in Flush!Block, NEW b \in Flush!Cells,
         Flush!LineOf(a) = Flush!LineOf(b)
  PROVE  b \in Flush!Block
<1>. DEFINE end == start + len
<1>1. /\ start % LineSize = 0 /\ len % LineSize = 0 /\ start \in Nat /\ len \in Nat
      /\ a \in Nat /\ b \in Nat /\ start <= a /\ a < end
  BY LineFacts DEF CacheTypes, Flush!TypeOK, Flush!Block
<1>2. end % LineSize = 0
  <2>1. \A c \in Nat : Splits(c, LineSize, c \div LineSize, c % LineSize)
    BY CacheConstants, Division
  <2>2. PICK p, q : Splits(start, LineSize, p, 0) /\ Splits(len, LineSize, q, 0)
    BY <1>1, <2>1
  <2>3. Splits(end, LineSize, p + q, 0)
    BY <2>2, CacheConstants DEF Splits
  <2>. QED BY <1>1, <2>3, CacheConstants, Quotient
<1>3. ~(b < start)
  <2>1. b < start => Flush!LineOf(b) < Flush!LineOf(start)
    BY <1>1, LineFacts
  <2>2. Flush!LineOf(start) <= Flush!LineOf(a)
    BY <1>1, LineFacts
  <2>. QED BY <1>1, <2>1, <2>2, LineFacts
<1>4. ~(end <= b)
  <2>1. Flush!LineOf(a) < Flush!LineOf(end)
    BY <1>1, <1>2, LineFacts
  <2>2. end <= b => Flush!LineOf(end) <= Flush!LineOf(b)
    BY <1>1, LineFacts
  <2>. QED BY <1>1, <2>1, <2>2, LineFacts
<1>. QED BY <1>1, <1>3, <1>4 DEF Flush!Block

\* Lines that are written back take no byte of the program's with them.
LEMMA Writing ==
  ASSUME CacheTypes, Coherence, NEW L \in SUBSET dcache, NEW c \in Flush!Cells
  PROVE  LET m == Flush!Written(L \cap dirty)
         IN  /\ m \subseteq Flush!Cells
             /\ Coherent(c) /\ c \in mFresh => c \in m
             /\ Coherent(c) /\ Flush!LineOf(c) \in L => c \in m
             /\ Flush!LineOf(c) \notin L => (c \in m <=> c \in mFresh)
BY DEF CacheTypes, Coherence, Coherent, Flush!TypeOK, Flush!Written, Flush!Bytes

LEMMA LoadInv ==
  ASSUME CacheInv, NEW a \in Flush!Cells, Flush!Load(a) PROVE CacheInv'
<1>. DEFINE l == Flush!LineOf(a)  out == Flush!Victims(dcache, DLines, l)
            m == Flush!Written(out \cap dirty)
<1>1. /\ CacheTypes /\ Coherence /\ Swept /\ Reach
      /\ DLines > 0 /\ a \in Flush!Others /\ l \notin dcache /\ l \in Flush!Lines
      /\ out \in SUBSET dcache /\ \A k \in dcache : k % DLines = l % DLines => k \in out
      /\ UNCHANGED <<icache, iFresh, phase, use, start, len, i>>
  BY LineFacts DEF CacheInv, Flush!Load, Flush!Victims
<1>2. /\ dcache' = (dcache \ out) \cup {l} /\ dirty' = dirty \ out
      /\ mFresh' = m /\ dFresh' = (dFresh \ Flush!Bytes(out)) \cup (m \cap Flush!Bytes({l}))
  BY DEF Flush!Load
<1>3. m \subseteq Flush!Cells
  BY <1>1, Writing
<1>4. ASSUME NEW c \in Flush!Cells
      PROVE  /\ Coherent(c) /\ c \in mFresh => c \in m
             /\ Coherent(c) /\ Flush!LineOf(c) \in out => c \in m
             /\ Flush!LineOf(c) \notin out => (c \in m <=> c \in mFresh)
  BY <1>1, Writing
<1>. HIDE DEF out, m
<1>5. CacheTypes'
  BY <1>1, <1>2, <1>3 DEF CacheTypes, Flush!TypeOK, Apart, Flush!Bytes
<1>6. ASSUME NEW c \in Flush!Cells, Coherent(c) PROVE Coherent(c)'
  BY <1>1, <1>2, <1>4, <1>6 DEF Coherent, Flush!Bytes
<1>7. Coherence'
  <2>1. ASSUME NEW c \in dFresh', Flush!LineOf(c) \notin dirty' PROVE c \in mFresh'
    BY <1>1, <1>2, <1>3, <1>4, <2>1 DEF Coherence, Coherent, Flush!Bytes, CacheTypes, Flush!TypeOK
  <2>. QED BY <1>1, <1>6, <2>1 DEF Coherence, Flush!Block
<1>8. ASSUME phase # "idle", Apart, NEW b \in Flush!Block PROVE Flush!LineOf(b) # l
  BY <1>1, <1>8, BlockApart DEF Flush!Others
<1>9. ASSUME NEW b \in Flush!Block, b \in mFresh, use # "collect" PROVE b \in mFresh'
  BY <1>1, <1>2, <1>4, <1>9 DEF Coherence, Flush!Block
<1>10. phase # "flush_all"
  BY <1>1, Room DEF Swept, Flush!Others, Flush!Block, Flush!Cells
<1>11. Swept'
  BY <1>1, <1>2, <1>8, <1>9, <1>10 DEF Swept, Apart, Flush!Block, CacheTypes
<1>12. Reach'
  BY <1>1, <1>2, <1>8, <1>9 DEF Reach, Apart, Flush!Block, CacheTypes
<1>. QED BY <1>5, <1>7, <1>11, <1>12 DEF CacheInv

LEMMA StoreInv ==
  ASSUME CacheInv, NEW a \in Flush!Cells, Flush!Store(a) PROVE CacheInv'
<1>. DEFINE l == Flush!LineOf(a)
<1>1. /\ CacheTypes /\ Coherence /\ Swept /\ Reach
      /\ a \in Flush!Others /\ (DLines = 0 \/ l \in dcache)
      /\ iFresh' = iFresh \ {a}
      /\ UNCHANGED <<dcache, icache, phase, use, start, len, i>>
  BY DEF CacheInv, Flush!Store
<1>2. \/ DLines = 0 /\ mFresh' = mFresh \cup {a} /\ UNCHANGED <<dFresh, dirty>>
      \/ /\ l \in dcache /\ dirty' = dirty \cup {l}
         /\ dFresh' = dFresh \cup {a} /\ mFresh' = mFresh \ {a}
  BY <1>1 DEF Flush!Store
<1>3. CacheTypes'
  BY <1>1, <1>2 DEF CacheTypes, Flush!TypeOK, Apart, Flush!Bytes
<1>4. Coherence'
  BY <1>1, <1>2 DEF Coherence, Coherent, Flush!Block, CacheTypes, Flush!TypeOK, Flush!Bytes
<1>5. phase # "idle" => a \notin Flush!Block
  BY <1>1 DEF Flush!Others
<1>6. Swept'
  BY <1>1, <1>2, <1>5 DEF Swept, Apart, Flush!Block
<1>7. Reach'
  BY <1>1, <1>2, <1>5 DEF Reach, Apart, Flush!Block
<1>. QED BY <1>3, <1>4, <1>6, <1>7 DEF CacheInv

LEMMA FetchInv ==
  ASSUME CacheInv, NEW a \in Flush!Cells, Flush!Fetch(a) PROVE CacheInv'
<1>. DEFINE l == Flush!LineOf(a)  out == Flush!Victims(icache, ILines, l)
<1>1. /\ CacheTypes /\ Coherence /\ Swept /\ Reach /\ l \in Flush!Lines
      /\ icache' = (icache \ out) \cup {l} /\ l \notin icache
      /\ iFresh' = (iFresh \ Flush!Bytes(out)) \cup (mFresh \cap Flush!Bytes({l}))
      /\ UNCHANGED <<dcache, dirty, dFresh, mFresh, phase, use, start, len, i>>
  BY LineFacts DEF CacheInv, Flush!Fetch
<1>. HIDE DEF out
<1>2. CacheTypes'
  BY <1>1 DEF CacheTypes, Flush!TypeOK, Apart, Flush!Bytes
<1>3. Coherence' /\ Swept'
  BY <1>1 DEF Coherence, Coherent, Swept, Flush!Block, Apart
<1>4. Reach'
  BY <1>1 DEF Reach, Apart, Flush!Block, Flush!Bytes
<1>. QED BY <1>2, <1>3, <1>4 DEF CacheInv

LEMMA BypassInv ==
  ASSUME CacheInv, NEW a \in Flush!Cells, Flush!Bypass(a) PROVE CacheInv'
<1>1. /\ CacheTypes /\ Coherence /\ Swept /\ Reach
      /\ phase = "uncached" /\ a \in Flush!Block
      /\ mFresh' = mFresh \cup {a} /\ dFresh' = dFresh \ {a} /\ iFresh' = iFresh \ {a}
      /\ UNCHANGED <<dcache, dirty, icache, phase, use, start, len, i>>
  BY DEF CacheInv, Flush!Bypass
<1>2. Flush!LineOf(a) \notin dcache
  BY <1>1 DEF Reach, CacheTypes, Apart
<1>3. CacheTypes'
  BY <1>1 DEF CacheTypes, Flush!TypeOK, Apart, Flush!Bytes, Flush!Block
<1>4. Coherence' /\ Swept' /\ Reach'
  BY <1>1, <1>2 DEF Coherence, Coherent, Swept, Reach, Flush!Block, Apart
<1>. QED BY <1>3, <1>4 DEF CacheInv

LEMMA FillsInv == ASSUME CacheInv, Flush!DeviceFills PROVE CacheInv'
<1>1. /\ CacheTypes /\ Coherence /\ Swept /\ Reach
      /\ phase = "device" /\ use = "collect" /\ phase' = "idle"
      /\ mFresh' = mFresh \cup Flush!Block /\ dFresh' = dFresh \ Flush!Block
      /\ iFresh' = iFresh \ Flush!Block
      /\ UNCHANGED <<dcache, dirty, icache, use, start, len, i>>
  BY DEF CacheInv, Flush!DeviceFills
<1>2. \A b \in Flush!Block : Flush!LineOf(b) \notin dcache
  BY <1>1 DEF Reach, Apart
<1>3. CacheTypes'
  BY <1>1 DEF CacheTypes, Flush!TypeOK, Apart, Flush!Bytes, Flush!Block
<1>4. Coherence'
  BY <1>1, <1>2 DEF Coherence, Coherent, Flush!Block
<1>. QED BY <1>1, <1>3, <1>4 DEF CacheInv, Swept, Reach

LEMMA FinishedInv == ASSUME CacheInv, Flush!Finished PROVE CacheInv'
<1>1. /\ CacheTypes /\ Coherence /\ Swept /\ Reach
      /\ phase \in {"device", "uncached", "runs"} /\ use # "collect" /\ phase' = "idle"
      /\ UNCHANGED <<Flush!caches, use, start, len, i>>
  BY DEF CacheInv, Flush!Finished
<1>. QED BY <1>1 DEF CacheInv, CacheTypes, Flush!TypeOK, Coherence, Coherent, Swept, Reach,
           Flush!Block, Apart, Flush!caches, Flush!Bytes

\* A call begins at the first address of a region that lies in memory.
LEMMA CallInv ==
  ASSUME CacheInv, NEW p, NEW u, NEW s \in Nat, NEW n \in Nat, Flush!Call(p, u, s, n),
         s + n <= NLines * LineSize,
         \/ p = "flush" /\ u \in {"publish", "code"}
         \/ p = "flush" /\ u = "uncached" /\ s % LineSize = 0 /\ n % LineSize = 0
         \/ p = "discard" /\ u = "collect" /\ s % LineSize = 0 /\ n % LineSize = 0
         \/ p = "flush_all" /\ u = "code" /\ s = 0 /\ n = NLines * LineSize
  PROVE  CacheInv'
<1>1. /\ CacheTypes /\ Coherence /\ phase = "idle"
      /\ phase' = p /\ use' = u /\ start' = s /\ len' = n /\ i' = s
      /\ UNCHANGED <<dcache, dirty, icache, dFresh, iFresh, mFresh>>
  BY DEF CacheInv, Flush!Call, Flush!caches
<1>2. s \in 0 .. (NLines + DLines + 1) * LineSize
  BY Room
<1>3. CacheTypes'
  BY <1>1, <1>2 DEF CacheTypes, Flush!TypeOK, Apart, Flush!Bytes
<1>4. Coherence'
  BY <1>1 DEF Coherence, Coherent
<1>5. \A b \in Flush!Block' : ~(Flush!LineOf(b) < Flush!LineOf(s))
  <2>. SUFFICES ASSUME NEW b \in Flush!Block' PROVE Flush!LineOf(s) <= Flush!LineOf(b)
    BY LineFacts DEF Flush!Block
  <2>. QED BY <1>1, LineFacts DEF Flush!Block
<1>6. p = "flush_all" => s % LineSize = 0 /\ \A k \in dcache : Flush!LineOf(s) <= k % DLines
  <2>1. 0 % LineSize = 0 /\ 0 \div LineSize = 0
    BY CacheConstants, Quotient DEF Splits
  <2>2. \A k \in dcache : k \in Int /\ DLines \in Int /\ DLines > 0
    BY <1>1, CacheConstants DEF CacheTypes, Flush!TypeOK, Flush!Lines
  <2>3. \A k \in dcache : 0 <= k % DLines
    BY <2>2, Division DEF Splits
  <2>. QED BY <2>1, <2>3 DEF Flush!LineOf
<1>7. Swept'
  BY <1>1, <1>5, <1>6 DEF Swept
<1>8. Reach'
  BY <1>1 DEF Reach
<1>. QED BY <1>3, <1>4, <1>7, <1>8 DEF CacheInv

LEMMA CallsInv ==
  ASSUME WholeLines, CacheInv, NEW r \in Flush!Asks,
         \/ Flush!Publish(r[1], r[2]) \/ Flush!Program(r[1], r[2])
         \/ Flush!UncachedMalloc(r[1], r[2])
         \/ /\ WholeLines => r[1] % LineSize = 0 /\ r[2] % LineSize = 0
            /\ Flush!Collect(r[1], r[2])
  PROVE  CacheInv'
<1>1. PICK s, n : s = r[1] /\ n = r[2]
  OBVIOUS
<1>2. s \in Nat /\ n \in Nat /\ s + n <= NLines * LineSize
  BY <1>1, CacheConstants DEF Flush!Asks
<1>3. CASE Flush!UncachedMalloc(s, n)
  <2>1. PICK m : m = Flush!AlignedSize(n)
    OBVIOUS
  <2>2. m \in Nat /\ m % LineSize = 0 /\ m < n + LineSize
    BY <1>2, <2>1, CacheConstants, Rounding DEF Flush!AlignedSize
  <2>3. s % LineSize = 0 /\ Flush!Call("flush", "uncached", s, m)
    BY <1>3, <2>1 DEF Flush!UncachedMalloc
  <2>4. s + m <= NLines * LineSize
    <3>1. \A c \in Nat : Splits(c, LineSize, c \div LineSize, c % LineSize)
      BY CacheConstants, Division
    <3>2. PICK p, q : Splits(s, LineSize, p, 0) /\ Splits(m, LineSize, q, 0)
      BY <1>2, <2>2, <2>3, <3>1
    <3>3. p \in Int /\ q \in Int /\ s + m = (p + q) * LineSize
      BY <3>2, CacheConstants DEF Splits
    <3>4. NLines < p + q => NLines * LineSize + LineSize <= (p + q) * LineSize
      BY <3>3, CacheConstants, Product
    <3>5. p + q <= NLines => (p + q) * LineSize <= NLines * LineSize
      BY <3>3, CacheConstants, Product
    <3>. QED BY <1>2, <2>2, <3>3, <3>4, <3>5, CacheConstants, Room
  <2>. QED BY <1>2, <2>2, <2>3, <2>4, CallInv
<1>4. CASE Flush!Publish(s, n)
  BY <1>2, <1>4, CallInv DEF Flush!Publish
<1>5. CASE Flush!Program(s, n)
  BY <1>2, <1>5, CallInv DEF Flush!Program
<1>6. CASE s % LineSize = 0 /\ n % LineSize = 0 /\ Flush!Collect(s, n)
  BY <1>2, <1>6, CallInv DEF Flush!Collect
<1>. QED BY <1>1, <1>3, <1>4, <1>5, <1>6

LEMMA LoadCodeInv == ASSUME CacheInv, Flush!LoadCode PROVE CacheInv'
BY Room, CallInv DEF Flush!LoadCode

\* A line more of a flush.
LEMMA FlushLineInv ==
  ASSUME CacheInv, phase \in {"flush", "discard"}, DLines > 0,
         Flush!Left(LineSize, start + len) \/ i < start + len,
         IF phase = "flush" THEN Flush!WriteBack({Flush!LineOf(i)} \cap dcache)
                            ELSE Flush!Discard({Flush!LineOf(i)} \cap dcache),
         i' = i + LineSize, UNCHANGED <<phase, icache, iFresh, use, start, len>>
  PROVE  CacheInv'
<1>. DEFINE l == Flush!LineOf(i)  L == {l} \cap dcache  m == Flush!Written(L \cap dirty)
<1>1. /\ CacheTypes /\ Coherence /\ Swept /\ Reach /\ L \in SUBSET dcache
      /\ i \in Nat /\ start \in Nat /\ len \in Nat /\ l \in Nat
      /\ dcache' = dcache \ L /\ dirty' = dirty \ L /\ dFresh' = dFresh \ Flush!Bytes(L)
      /\ phase = "flush" => mFresh' = m
      /\ phase = "discard" => mFresh' = mFresh
      /\ start <= i /\ i % LineSize = start % LineSize
      /\ phase = "discard" => use = "collect"
      /\ phase = "flush" => use # "collect"
      /\ \A k : k \in L <=> k = l /\ k \in dcache
  <2>1. /\ CacheTypes /\ Coherence /\ Swept /\ Reach
        /\ i \in Nat /\ start \in Nat /\ len \in Nat
        /\ start <= i /\ i % LineSize = start % LineSize
    BY Room DEF CacheInv, CacheTypes, Flush!TypeOK, Swept
  <2>2. l \in Nat
    BY <2>1, LineFacts
  <2>. QED BY <2>1, <2>2 DEF CacheTypes, Flush!WriteBack, Flush!Discard, Flush!Leave
<1>. HIDE DEF L
<1>2. m \subseteq Flush!Cells
  BY <1>1 DEF CacheTypes, Flush!TypeOK, Flush!Written, Flush!Bytes
<1>3. ASSUME NEW c \in Flush!Cells
      PROVE  /\ Coherent(c) /\ c \in mFresh => c \in m
             /\ Coherent(c) /\ Flush!LineOf(c) \in L => c \in m
             /\ Flush!LineOf(c) \notin L => (c \in m <=> c \in mFresh)
  BY <1>1, Writing
<1>. HIDE DEF m
<1>4. i' \in 0 .. (NLines + DLines + 1) * LineSize
  <2>1. i < start + len + LineSize
    BY <1>1, CacheConstants DEF Flush!Left
  <2>2. start + len <= NLines * LineSize
    BY <1>1 DEF CacheTypes, Flush!TypeOK
  <2>. QED BY <1>1, <2>1, <2>2, CacheConstants, Room
<1>5. CacheTypes'
  BY <1>1, <1>2, <1>4 DEF CacheTypes, Flush!TypeOK, Apart, Flush!Bytes
<1>6. Flush!LineOf(i') = l + 1 /\ i' % LineSize = start % LineSize /\ start <= i'
  <2>1. Flush!LineOf(i + LineSize) = l + 1 /\ (i + LineSize) % LineSize = i % LineSize
    BY <1>1, LineFacts
  <2>. QED BY <1>1, <2>1, CacheConstants
<1>7. \A b \in Flush!Block : Flush!LineOf(b) \in Nat /\ b \in Flush!Cells
  BY LineFacts DEF Flush!Block
<1>8. CASE phase = "flush"
  <2>1. \A c \in Flush!Cells : Coherent(c) /\ Coherent(c)'
    BY <1>1, <1>3, <1>8 DEF Coherence, Coherent, Flush!Bytes
  <2>2. Coherence'
    BY <1>1, <1>3, <1>8, <2>1 DEF Coherence, Coherent, Flush!Bytes, CacheTypes, Flush!TypeOK
  <2>3. ASSUME NEW b \in Flush!Block, Flush!LineOf(b) < l + 1
        PROVE b \in mFresh' /\ (Apart => Flush!LineOf(b) \notin dcache')
    <3>1. CASE Flush!LineOf(b) = l
      <4>1. l \notin dcache'
        BY <1>1
      <4>. QED BY <1>7, <2>1, <3>1, <4>1 DEF Coherent
    <3>2. CASE Flush!LineOf(b) < l
      BY <1>1, <1>3, <1>7, <1>8, <2>1, <3>2 DEF Swept
    <3>. QED BY <1>1, <1>7, <2>3, <3>1, <3>2
  <2>4. Swept'
    BY <1>1, <1>6, <1>8, <2>3 DEF Swept, Flush!Block, Apart
  <2>. QED BY <1>5, <1>8, <2>2, <2>4 DEF CacheInv, Reach
<1>9. CASE phase = "discard"
  <2>1. \A c \in Flush!Cells \ Flush!Block : Coherent(c)
    BY <1>1, <1>9 DEF Coherence
  <2>2. ASSUME NEW c \in Flush!Cells \ Flush!Block PROVE Flush!LineOf(c) \notin L
    <3>1. i < start + len
      <4>1. start % LineSize = 0
        BY <1>1, <1>9 DEF CacheTypes, Apart
      <4>. QED BY <4>1 DEF Flush!Left
    <3>2. start + len <= NLines * LineSize
      BY <1>1 DEF CacheTypes, Flush!TypeOK
    <3>3. i \in Flush!Block
      BY <1>1, <3>1, <3>2, Room DEF Flush!Block, Flush!Cells
    <3>. QED BY <1>1, <1>9, <3>3, BlockApart DEF Apart
  <2>3. Coherence'
    BY <1>1, <1>9, <2>1, <2>2 DEF Coherence, Coherent, Flush!Bytes, Flush!Block, CacheTypes, Flush!TypeOK
  <2>4. ASSUME NEW b \in Flush!Block, Flush!LineOf(b) < l + 1 PROVE Flush!LineOf(b) \notin dcache'
    <3>1. CASE Flush!LineOf(b) = l
      BY <1>1, <3>1
    <3>2. CASE Flush!LineOf(b) < l
      BY <1>1, <1>9, <3>2 DEF Swept, Apart
    <3>. QED BY <1>1, <1>7, <2>4, <3>1, <3>2
  <2>5. Swept'
    BY <1>1, <1>6, <1>9, <2>4 DEF Swept, Flush!Block, Apart
  <2>. QED BY <1>5, <1>9, <2>3, <2>5 DEF CacheInv, Reach
<1>. QED BY <1>8, <1>9

\* Once nothing is left every byte of the region lies in a line done.
LEMMA NothingLeft ==
  ASSUME CacheInv, phase \in {"flush", "discard"},
         ~(i < start + len), ~Flush!Left(LineSize, start + len), NEW b \in Flush!Block
  PROVE  Flush!LineOf(b) < Flush!LineOf(i)
<1>1. /\ start \in Nat /\ len \in Nat /\ i \in Nat /\ b \in Nat
      /\ start <= b /\ b < start + len /\ start + len <= i
      /\ i % LineSize = start % LineSize
  BY LineFacts DEF CacheInv, CacheTypes, Flush!TypeOK, Swept, Flush!Block
<1>2. CASE start % LineSize = 0
  BY <1>1, <1>2, LineFacts
<1>3. CASE start + len <= i - LineSize
  <2>1. PICK j \in Nat : j + LineSize = i
    BY <1>1, <1>3, CacheConstants
  <2>2. Flush!LineOf(b) <= Flush!LineOf(j)
    <3>1. b <= j
      BY <1>1, <1>3, <2>1, CacheConstants
    <3>. QED BY <1>1, <2>1, <3>1, LineFacts
  <2>3. Flush!LineOf(j + LineSize) = Flush!LineOf(j) + 1
    BY <2>1, LineFacts
  <2>. QED BY <1>1, <2>1, <2>2, <2>3, LineFacts
<1>. QED BY <1>1, <1>2, <1>3, CacheConstants DEF Flush!Left

LEMMA FlushInv == ASSUME CacheInv, Flush!Flush PROVE CacheInv'
<1>1. CASE DLines > 0 /\ Flush!Left(LineSize, start + len)
  <2>1. /\ phase = "flush" /\ Flush!WriteBack({Flush!LineOf(i)} \cap dcache)
        /\ i' = i + LineSize /\ UNCHANGED <<phase, icache, iFresh, use, start, len>>
    BY <1>1, CacheConstants DEF Flush!Flush, Flush!Step
  <2>. QED BY <1>1, <2>1, FlushLineInv
<1>2. CASE ~(DLines > 0 /\ Flush!Left(LineSize, start + len))
  <2>1. /\ phase = "flush" /\ phase' = Flush!After(use)
        /\ UNCHANGED <<dcache, dirty, dFresh, mFresh, i, icache, iFresh, use, start, len>>
    BY <1>2, CacheConstants DEF Flush!Flush, Flush!Step, Flush!Returns
  <2>2. CacheTypes /\ Coherence /\ Swept /\ Reach /\ use # "collect"
    BY <2>1 DEF CacheInv, CacheTypes
  <2>3. use \in {"publish", "code", "uncached"}
    BY <2>1, <2>2 DEF CacheTypes, Flush!TypeOK
  <2>4. /\ use = "code" => phase' = "iflush"
        /\ use = "uncached" => phase' = "uncached"
        /\ use = "publish" => phase' = "device"
    BY <2>1 DEF Flush!After
  <2>5. ASSUME NEW b \in Flush!Block
        PROVE  b \in mFresh /\ (Apart => Flush!LineOf(b) \notin dcache)
    <3>1. CASE DLines > 0
      <4>1. Flush!LineOf(b) < Flush!LineOf(i)
        BY <1>2, <2>1, <3>1, NothingLeft DEF Flush!Left
      <4>. QED BY <2>1, <2>2, <4>1 DEF Swept
    <3>2. CASE DLines = 0
      BY <2>1, <2>2, <3>2 DEF CacheTypes, Coherence, Coherent, Flush!Block
    <3>. QED BY <3>1, <3>2, CacheConstants
  <2>6. CacheTypes'
    BY <2>1, <2>2, <2>3, <2>4 DEF CacheTypes, Flush!TypeOK, Apart, Flush!Bytes
  <2>7. Coherence' /\ Swept'
    BY <2>1, <2>2, <2>3, <2>4 DEF Coherence, Coherent, Swept
  <2>8. Reach'
    BY <2>1, <2>3, <2>4, <2>5 DEF Reach, Flush!Block, Apart
  <2>. QED BY <2>6, <2>7, <2>8 DEF CacheInv
<1>. QED BY <1>1, <1>2

LEMMA NoWritebackInv == ASSUME CacheInv, Flush!NoWriteback PROVE CacheInv'
<1>. DEFINE More == i < start + len \/ (Flush!Step > 0 /\ Flush!Left(Flush!Step, start + len))
<1>1. phase = "discard" /\ CacheTypes /\ Coherence /\ Swept /\ Reach /\ use = "collect"
  BY DEF CacheInv, CacheTypes, Flush!NoWriteback
<1>2. CASE More /\ DLines > 0
  <2>1. Flush!Step = LineSize
    BY <1>2 DEF Flush!Step
  <2>2. /\ Flush!Discard({Flush!LineOf(i)} \cap dcache) /\ i' = i + LineSize
        /\ UNCHANGED <<phase, icache, iFresh, use, start, len>>
    BY <1>2, <2>1 DEF Flush!NoWriteback
  <2>. QED BY <1>1, <1>2, <2>1, <2>2, FlushLineInv
<1>3. CASE More /\ DLines = 0
  <2>1. dcache = {} /\ dirty = {} /\ dFresh = {} /\ i \in Nat
    BY <1>1, <1>3, Room DEF CacheTypes, Flush!TypeOK, Flush!Bytes
  <2>2. UNCHANGED <<dcache, dirty, icache, dFresh, iFresh, mFresh, phase, use, start, len, i>>
    BY <1>3, <2>1 DEF Flush!NoWriteback, Flush!Step, Flush!Discard, Flush!Leave
  <2>. QED BY <2>2 DEF CacheInv, CacheTypes, Flush!TypeOK, Coherence, Coherent, Swept, Reach,
             Apart, Flush!Block, Flush!Bytes
<1>4. CASE ~More
  <2>1. /\ phase' = "device"
        /\ UNCHANGED <<dcache, dirty, dFresh, mFresh, i, icache, iFresh, use, start, len>>
    BY <1>4 DEF Flush!NoWriteback, Flush!Returns
  <2>2. ASSUME NEW b \in Flush!Block PROVE Flush!LineOf(b) \notin dcache
    <3>1. CASE DLines > 0
      <4>1. Flush!LineOf(b) < Flush!LineOf(i)
        BY <1>1, <1>4, <3>1, CacheConstants, NothingLeft DEF Flush!Step
      <4>. QED BY <1>1, <4>1 DEF Swept, Apart
    <3>2. CASE DLines = 0
      BY <1>1, <3>2 DEF CacheTypes
    <3>. QED BY <3>1, <3>2, CacheConstants
  <2>3. CacheTypes'
    BY <1>1, <2>1 DEF CacheTypes, Flush!TypeOK, Apart, Flush!Bytes
  <2>4. Coherence' /\ Swept'
    BY <1>1, <2>1 DEF Coherence, Coherent, Swept, Flush!Block
  <2>5. Reach'
    BY <1>1, <2>1, <2>2 DEF Reach, Flush!Block, Apart
  <2>. QED BY <2>3, <2>4, <2>5 DEF CacheInv
<1>. QED BY <1>2, <1>3, <1>4, CacheConstants

\* Index by index, the whole cache is written back.
LEMMA FlushAllInv == ASSUME CacheInv, Flush!FlushAll PROVE CacheInv'
<1>1. /\ CacheTypes /\ Coherence /\ Swept /\ Reach /\ phase = "flush_all" /\ use = "code"
      /\ i \in Nat /\ i % LineSize = 0 /\ \A k \in dcache : Flush!LineOf(i) <= k % DLines
      /\ UNCHANGED <<icache, iFresh, use, start, len>>
  BY Room DEF CacheInv, CacheTypes, Flush!TypeOK, Swept, Flush!FlushAll
<1>2. \A c \in Flush!Cells : Coherent(c)
  BY <1>1 DEF Coherence
<1>3. CASE i < DLines * LineSize
  <2>. DEFINE L == {k \in dcache : k % DLines = Flush!LineOf(i)}  m == Flush!Written(L \cap dirty)
  <2>1. /\ L \in SUBSET dcache
        /\ dcache' = dcache \ L /\ dirty' = dirty \ L /\ dFresh' = dFresh \ Flush!Bytes(L)
        /\ mFresh' = m /\ i' = i + LineSize /\ UNCHANGED phase
    BY <1>3 DEF Flush!FlushAll, Flush!WriteBack, Flush!Leave
  <2>2. \A k \in dcache' : k % DLines # Flush!LineOf(i) /\ k \in dcache
    BY <2>1
  <2>. HIDE DEF L
  <2>3. m \subseteq Flush!Cells
    BY <1>1, <2>1 DEF CacheTypes, Flush!TypeOK, Flush!Written, Flush!Bytes
  <2>4. ASSUME NEW c \in Flush!Cells
        PROVE  /\ c \in mFresh => c \in m
               /\ Flush!LineOf(c) \in L => c \in m
               /\ Flush!LineOf(c) \notin L => (c \in m <=> c \in mFresh)
    BY <1>1, <1>2, <2>1, Writing
  <2>. HIDE DEF m
  <2>5. i' \in 0 .. (NLines + DLines + 1) * LineSize
    BY <1>1, <1>3, <2>1, CacheConstants, Room
  <2>6. CacheTypes'
    BY <1>1, <2>1, <2>3, <2>5 DEF CacheTypes, Flush!TypeOK, Apart, Flush!Bytes
  <2>7. Coherence'
    <3>1. \A c \in Flush!Cells : Coherent(c)'
      BY <1>1, <1>2, <2>1, <2>4 DEF Coherent, Flush!Bytes
    <3>. QED BY <1>1, <2>1, <2>4, <3>1 DEF Coherence, Flush!Bytes, CacheTypes, Flush!TypeOK
  <2>8. Swept'
    <3>1. Flush!LineOf(i + LineSize) = Flush!LineOf(i) + 1 /\ (i + LineSize) % LineSize = 0
      BY <1>1, LineFacts
    <3>2. \A k \in dcache : k % DLines \in Int
      <4>1. \A k \in dcache : k \in Int /\ DLines \in Int /\ DLines > 0
        BY <1>1, CacheConstants DEF CacheTypes, Flush!TypeOK, Flush!Lines
      <4>. QED BY <4>1, Division DEF Splits
    <3>3. Flush!LineOf(i) \in Nat
      BY <1>1, LineFacts
    <3>4. \A k \in dcache' : Flush!LineOf(i) + 1 <= k % DLines
      BY <1>1, <2>2, <3>2, <3>3
    <3>. QED BY <1>1, <2>1, <3>1, <3>4 DEF Swept
  <2>. QED BY <1>1, <2>1, <2>6, <2>7, <2>8 DEF CacheInv, Reach
<1>4. CASE ~(i < DLines * LineSize)
  <2>1. /\ phase' = "iflush"
        /\ UNCHANGED <<dcache, dirty, dFresh, mFresh, i>>
    BY <1>4 DEF Flush!FlushAll, Flush!Returns
  <2>2. dcache = {}
    <3>. SUFFICES ASSUME NEW k \in dcache PROVE FALSE
      OBVIOUS
    <3>1. k \in Int /\ DLines \in Int /\ DLines > 0
      BY <1>1, CacheConstants DEF CacheTypes, Flush!TypeOK, Flush!Lines
    <3>2. k % DLines \in Int /\ k % DLines < DLines
      BY <3>1, Division DEF Splits
    <3>3. (DLines * LineSize) \div LineSize = DLines
      BY <3>1, CacheConstants, Whole
    <3>4. (DLines * LineSize) \div LineSize <= Flush!LineOf(i)
      <4>1. DLines * LineSize \in Int
        BY <3>1, CacheConstants
      <4>. QED BY <1>1, <1>4, <4>1, CacheConstants, Monotone DEF Flush!LineOf
    <3>5. DLines <= Flush!LineOf(i) /\ Flush!LineOf(i) \in Nat
      BY <1>1, <3>3, <3>4, LineFacts
    <3>. QED BY <1>1, <3>1, <3>2, <3>5
  <2>3. Flush!Cells \subseteq mFresh
    BY <1>2, <2>2 DEF Coherent
  <2>4. CacheTypes'
    BY <1>1, <2>1 DEF CacheTypes, Flush!TypeOK, Apart, Flush!Bytes
  <2>. QED BY <1>1, <2>1, <2>3, <2>4
           DEF CacheInv, Coherence, Coherent, Swept, Reach, Flush!Block
<1>. QED BY <1>3, <1>4

\* Lines further on.
LEMMA LinesOn ==
  ASSUME NEW a \in Nat, NEW m \in Nat
  PROVE  a + m * LineSize \in Nat /\ Flush!LineOf(a + m * LineSize) = Flush!LineOf(a) + m
<1>1. PICK q, r : Splits(a, LineSize, q, r) /\ q = Flush!LineOf(a)
  BY CacheConstants, Division DEF Flush!LineOf
<1>2. PICK c : c = m * LineSize
  OBVIOUS
<1>3. c \in Nat
  <2>1. 0 * LineSize <= m * LineSize
    BY CacheConstants, Product
  <2>. QED BY <1>2, <2>1, CacheConstants
<1>4. Splits(a + c, LineSize, q + m, r)
  BY <1>1, <1>2, <1>3, CacheConstants DEF Splits
<1>5. (a + c) \div LineSize = q + m
  BY <1>3, <1>4, CacheConstants, Quotient
<1>. QED BY <1>1, <1>2, <1>3, <1>5 DEF Flush!LineOf

\* Every line of the region leaves the instruction cache: they are all among
\* the lines that are asked for, or those have every index there is.
LEMMA RegionFlushed ==
  ASSUME start \in Nat, len \in Nat, NEW b \in Nat, start <= b, b < start + len,
         NEW K, K = Flush!Capped(len), NEW lines, lines = (K + LineSize - 1) \div LineSize,
         NEW last, last = start + (IF start % LineSize = 0 THEN lines - 1 ELSE lines) * LineSize
  PROVE  \E l \in Flush!LineOf(start) .. Flush!LineOf(last) :
           Flush!LineOf(b) % ILines = l % ILines
<1>1. PICK I \in Nat : I = ILines * LineSize /\ I > 0
  <2>1. 0 * LineSize + LineSize <= ILines * LineSize
    BY CacheConstants, Product
  <2>. QED BY <2>1, CacheConstants
<1>2. K \in Nat /\ K > 0 /\ ((K = len /\ len <= I) \/ K = I)
  BY <1>1 DEF Flush!Capped
<1>3. PICK c \in Int : c = lines * LineSize /\ lines \in Int /\ K <= c
  <2>1. Splits(K + LineSize - 1, LineSize, lines, (K + LineSize - 1) % LineSize)
    BY <1>2, CacheConstants, Division
  <2>. QED BY <1>2, <2>1, CacheConstants DEF Splits
<1>4. lines >= 1
  <2>1. lines <= 0 => lines * LineSize <= 0 * LineSize
    BY <1>3, CacheConstants, Product
  <2>. QED BY <1>2, <1>3, <2>1, CacheConstants
<1>5. PICK m \in Nat : m = IF start % LineSize = 0 THEN lines - 1 ELSE lines
  BY <1>3, <1>4
<1>6. Flush!LineOf(last) = Flush!LineOf(start) + m /\ Flush!LineOf(start) \in Nat
  BY <1>5, LinesOn, LineFacts
<1>7. CASE K = I
  <2>1. lines = ILines
    <3>1. Splits(K + LineSize - 1, LineSize, ILines, LineSize - 1)
      BY <1>1, <1>7, CacheConstants DEF Splits
    <3>. QED BY <1>2, <3>1, CacheConstants, Quotient
  <2>2. \E l \in Flush!LineOf(start) .. Flush!LineOf(start) + ILines - 1 :
          l % ILines = Flush!LineOf(b) % ILines
    <3>1. PICK s \in Int, x \in Int : s = Flush!LineOf(start) /\ x = Flush!LineOf(b)
      BY LineFacts
    <3>2. \E l \in s .. s + ILines - 1 : l % ILines = x % ILines
      BY CacheConstants, Covers
    <3>. QED BY <3>1, <3>2
  <2>. QED BY <1>5, <1>6, <2>1, <2>2, CacheConstants
<1>8. CASE K = len
  <2>1. Flush!LineOf(start) <= Flush!LineOf(b) /\ Flush!LineOf(b) \in Nat
    BY LineFacts
  <2>2. start + c \in Nat /\ Flush!LineOf(start + c) = Flush!LineOf(start) + lines
    <3>1. lines \in Nat
      BY <1>3, <1>4
    <3>2. /\ start + lines * LineSize \in Nat
          /\ Flush!LineOf(start + lines * LineSize) = Flush!LineOf(start) + lines
      BY <3>1, LinesOn
    <3>. QED BY <1>3, <3>2
  <2>3. b < start + c
    BY <1>3, <1>8
  <2>4. CASE start % LineSize = 0
    <3>1. (start + c) % LineSize = 0
      <4>1. PICK q : Splits(start, LineSize, q, 0)
        BY <2>4, CacheConstants, Division
      <4>2. Splits(start + c, LineSize, q + lines, 0)
        BY <1>3, <4>1, CacheConstants DEF Splits
      <4>. QED BY <2>2, <4>2, CacheConstants, Quotient
    <3>2. Flush!LineOf(b) < Flush!LineOf(start + c)
      BY <2>2, <2>3, <3>1, LineFacts
    <3>. QED BY <1>3, <1>5, <1>6, <2>1, <2>2, <2>4, <3>2
  <2>5. CASE start % LineSize # 0
    <3>1. Flush!LineOf(b) <= Flush!LineOf(start + c)
      BY <2>2, <2>3, LineFacts
    <3>. QED BY <1>3, <1>5, <1>6, <2>1, <2>2, <2>5, <3>1
  <2>. QED BY <2>4, <2>5
<1>. QED BY <1>2, <1>7, <1>8

LEMMA IFlushInv == ASSUME CacheInv, Flush!IFlush PROVE CacheInv'
<1>1. PICK out \in SUBSET icache :
        /\ icache' = icache \ out /\ iFresh' = iFresh \ Flush!Bytes(out)
        /\ \A b \in Flush!Block : Flush!LineOf(b) \in icache => Flush!LineOf(b) \in out
  <2>. DEFINE end   == start + Flush!Capped(len)
              lines == (end - start + LineSize - 1) \div LineSize
              last  == start + (IF start % LineSize = 0 THEN lines - 1 ELSE lines) * LineSize
              out   == {k \in icache : \E l \in Flush!LineOf(start) .. Flush!LineOf(last) :
                                         k % ILines = l % ILines}
  <2>1. start \in Nat /\ len \in Nat
    BY DEF CacheInv, CacheTypes, Flush!TypeOK
  <2>2. Flush!Capped(len) \in Int
    BY <2>1, CacheConstants DEF Flush!Capped
  <2>3. end - start = Flush!Capped(len)
    BY <2>1, <2>2
  <2>4. icache' = icache \ out /\ iFresh' = iFresh \ Flush!Bytes(out)
    BY DEF Flush!IFlush
  <2>5. ASSUME NEW b \in Flush!Block, Flush!LineOf(b) \in icache PROVE Flush!LineOf(b) \in out
    <3>1. b \in Nat /\ start <= b /\ b < start + len
      BY LineFacts DEF Flush!Block
    <3>2. PICK K : K = Flush!Capped(len)
      OBVIOUS
    <3>3. PICK n : n = (K + LineSize - 1) \div LineSize
      OBVIOUS
    <3>4. lines = n
      BY <2>3, <3>2, <3>3
    <3>. HIDE DEF lines
    <3>5. \E l \in Flush!LineOf(start) .. Flush!LineOf(last) :
            Flush!LineOf(b) % ILines = l % ILines
      BY <2>1, <3>1, <3>2, <3>3, <3>4, RegionFlushed
    <3>. QED BY <2>5, <3>5
  <2>. QED BY <2>4, <2>5
<1>2. /\ CacheTypes /\ Coherence /\ Reach /\ phase = "iflush" /\ phase' = "runs"
      /\ UNCHANGED <<dcache, dirty, dFresh, mFresh, use, start, len, i>>
  BY DEF CacheInv, Flush!IFlush
<1>3. CacheTypes'
  BY <1>1, <1>2 DEF CacheTypes, Flush!TypeOK, Apart, Flush!Bytes
<1>4. Coherence' /\ Swept'
  BY <1>2 DEF Coherence, Coherent, Swept
<1>5. Reach'
  BY <1>1, <1>2 DEF Reach, Flush!Block
<1>. QED BY <1>3, <1>4, <1>5 DEF CacheInv

LEMMA CacheNext ==
  ASSUME WholeLines, CacheInv, [Flush!Next]_(Flush!vars) PROVE CacheInv'
<1>1. CASE UNCHANGED Flush!vars
  BY <1>1 DEF Flush!vars, Flush!caches, CacheInv, CacheTypes, Flush!TypeOK, Coherence, Coherent,
     Swept, Reach, Apart, Flush!Block, Flush!Bytes
<1>2. ASSUME NEW a \in Flush!Cells,
             Flush!Load(a) \/ Flush!Store(a) \/ Flush!Fetch(a) \/ Flush!Bypass(a)
      PROVE  CacheInv'
  BY <1>2, LoadInv, StoreInv, FetchInv, BypassInv
<1>3. CASE \E r \in Flush!Asks :
             \/ Flush!Publish(r[1], r[2]) \/ Flush!Program(r[1], r[2])
             \/ Flush!UncachedMalloc(r[1], r[2])
             \/ /\ WholeLines => r[1] % LineSize = 0 /\ r[2] % LineSize = 0
                /\ Flush!Collect(r[1], r[2])
  BY <1>3, CallsInv
<1>4. CASE \/ Flush!LoadCode \/ Flush!Flush \/ Flush!NoWriteback \/ Flush!FlushAll \/ Flush!IFlush
           \/ Flush!DeviceFills \/ Flush!Finished
  BY <1>4, LoadCodeInv, FlushInv, NoWritebackInv, FlushAllInv, IFlushInv, FillsInv, FinishedInv
<1>. QED BY <1>1, <1>2, <1>3, <1>4 DEF Flush!Next

LEMMA CachePromises ==
  CacheInv => Flush!TypeOK /\ Flush!MemoryIsFresh /\ Flush!ReadsFresh /\ Flush!RunsFresh
<1>. SUFFICES ASSUME CacheInv
              PROVE  Flush!MemoryIsFresh /\ Flush!ReadsFresh /\ Flush!RunsFresh
  BY DEF CacheInv, CacheTypes
<1>1. Flush!MemoryIsFresh
  BY DEF CacheInv, Reach, Flush!MemoryIsFresh
<1>2. Flush!ReadsFresh
  BY DEF CacheInv, Coherence, Coherent, Flush!ReadsFresh, Flush!Others
<1>3. Flush!RunsFresh
  BY DEF CacheInv, Reach, Flush!RunsFresh
<1>. QED BY <1>1, <1>2, <1>3

\* The run's property: after a cache call the program, the device and the
\* fetches see what was written last, for every size of memory, lines and caches
\* and every region, if what a device fills is whole lines.
THEOREM CallsKeepFresh == ASSUME WholeLines PROVE MCSpec => []CacheFresh
<1>. DEFINE I == unit = "cache" => CacheInv
<1>1. MCInit => I
  BY CacheInit DEF MCInit
<1>2. I /\ [MCNext]_mcVars => I'
  <2>. SUFFICES ASSUME I, [MCNext]_mcVars, unit' = "cache" PROVE CacheInv'
    OBVIOUS
  <2>1. unit = "cache" /\ [Flush!Next]_(Flush!vars)
    BY DEF MCNext, mcVars, cacheVars, AlarmStep, WallStep, StampStep, SleepStep, ExcStep,
       CacheStep, Flush!vars, Flush!caches
  <2>. QED BY <2>1, CacheNext
<1>3. I => CacheFresh
  BY CachePromises DEF CacheFresh
<1>. QED BY <1>1, <1>2, <1>3, PTL DEF MCSpec
=============================================================================
