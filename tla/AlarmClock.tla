--------------------------- MODULE AlarmClock ---------------------------
(***************************************************************************)
(* What the alarm service promises: an alarm started for n ticks is called *)
(* at the first tick after n whole ones, never before and never later, and *)
(* again after as many ticks as its callback returns.                      *)
(***************************************************************************)
EXTENDS Integers

CONSTANTS Alarm,  \* the alarms
          Most    \* the longest wait asked for

VARIABLE left     \* ticks until the alarm is called; Off when it is not set

Off == -1

Init == left = [a \in Alarm |-> Off]

Start(a) == \E n \in 0 .. Most : left' = [left EXCEPT ![a] = n + 1]

Stop(a) == left' = [left EXCEPT ![a] = Off]

\* A tick comes only when every alarm of the tick before has been called.
Tick ==
  /\ \A a \in Alarm : left[a] # 0
  /\ left' = [a \in Alarm |-> IF left[a] = Off THEN Off ELSE left[a] - 1]

Called(a) ==
  /\ left[a] = 0
  /\ \E n \in 1 .. Most : left' = [left EXCEPT ![a] = n]

Next == Tick \/ \E a \in Alarm : Start(a) \/ Stop(a) \/ Called(a)

Spec == Init /\ [][Next]_left
=============================================================================
