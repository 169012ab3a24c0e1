---------------------------- MODULE WallClock ----------------------------
(***************************************************************************)
(* gettimeofday, settimeofday and times (alt_gettod.c, alt_settod.c,       *)
(* alt_times.c): the wall clock is the 32-bit tick counter plus the values *)
(* the last settimeofday left.                                             *)
(***************************************************************************)
EXTENDS Integers

CONSTANTS
  US,        \* ALT_US: microseconds in a second
  Rates,     \* _alt_tick_rate, ticks in a second; 0 without a system clock
  Wrap,      \* size of the range of an alt_u32
  MaxTicks,  \* bound: the model stops at this tick
  SetTimes   \* the times given to settimeofday

UnitsAssumption == US \in Nat \ {0} /\ Rates \subseteq 0 .. US
WrapAssumption  == Wrap \in Nat \ {0} /\ MaxTicks \in Nat
TimesAssumption == SetTimes \subseteq [sec : Nat, usec : 0 .. US - 1]

VARIABLES
  rate,       \* _alt_tick_rate
  nticks,     \* _alt_nticks
  resettime,  \* alt_resettime
  over,       \* 32 bits have overflowed: the tick count since the time was set, or
              \* the microseconds it was set by
  ticked,     \* ticks of the model, for the bound
  ret         \* what the last call returned

vars == <<rate, nticks, resettime, over, ticked, ret>>

Init ==
  /\ rate \in Rates
  /\ nticks = 0
  /\ resettime = [sec |-> 0, usec |-> 0]
  /\ over = FALSE /\ ticked = 0
  /\ ret = "none"

Tick ==
  /\ rate # 0 /\ ticked < MaxTicks
  /\ nticks' = (nticks + 1) % Wrap
  /\ over' = (over \/ nticks' = 0)
  /\ ticked' = ticked + 1
  /\ UNCHANGED <<rate, resettime, ret>>

\* The microseconds past the whole seconds: a 64-bit product in gettimeofday,
\* a 32-bit one in settimeofday.
MicrosLong  == (nticks * (US \div rate)) % US
MicrosShort == ((nticks * (US \div rate)) % Wrap) % US

\* ALT_SETTIMEOFDAY
Settod(t) ==
  /\ rate # 0
  /\ resettime' = [sec |-> t.sec - nticks \div rate, usec |-> t.usec - MicrosShort]
  /\ over' = (nticks * (US \div rate) >= Wrap)
  /\ ret' = "ok"
  /\ UNCHANGED <<rate, nticks, ticked>>

\* The seconds are carried, but not borrowed.
BugNormal(s, u) ==
  IF u < 0 THEN [sec |-> s, usec |-> u + US]
  ELSE [sec |-> s + u \div US, usec |-> u % US]

\* Borrow a second, or give up below zero; carry.
Normal(s, u) ==
  IF u < 0 THEN IF s <= 0 THEN [sec |-> 0, usec |-> 0]
                          ELSE [sec |-> s - 1, usec |-> u + US]
  ELSE [sec |-> s + u \div US, usec |-> u % US]

\* ALT_GETTIMEOFDAY
Gettod == Normal(resettime.sec + nticks \div rate, resettime.usec + MicrosLong)

\* settimeofday and times fail with ENOSYS, gettimeofday with ENOTSUP.
NoClock ==
  /\ rate = 0
  /\ ret' \in {"ENOSYS", "ENOTSUP"}
  /\ UNCHANGED <<rate, nticks, resettime, over, ticked>>

\* ALT_TIMES
Times ==
  /\ rate # 0
  /\ ret' = "ticks"
  /\ UNCHANGED <<rate, nticks, resettime, over, ticked>>

Next == Tick \/ NoClock \/ Times \/ \E t \in SetTimes : Settod(t)

Spec == Init /\ [][Next]_vars

-----------------------------------------------------------------------------
TypeOK ==
  /\ rate \in Rates /\ nticks \in 0 .. Wrap - 1 /\ ticked \in 0 .. MaxTicks
  /\ resettime.sec \in Int /\ resettime.usec \in 1 - US .. US - 1 /\ over \in BOOLEAN

\* "an immediate call to gettimeofday() would return the value specified by
\* t", at every tick count whose microseconds fit the 32 bits they are
\* multiplied in, before the count has rolled over and after.
SetThenGet ==
  [][\A t \in SetTimes :
       rate # 0 /\ nticks * (US \div rate) < Wrap /\ Settod(t) => Gettod' = t]_vars

Micros(t) == t.sec * US + t.usec

\* Set at such a count and until it rolls over, the wall clock advances at every
\* tick by one tick's time, if that is a whole number of microseconds: the
\* carries and borrows lose nothing.
KeepsPace ==
  [][/\ rate # 0 /\ US % rate = 0
     /\ UNCHANGED resettime /\ nticks' # nticks /\ ~over'
     => Micros(Gettod') - Micros(Gettod) = US \div rate]_vars

\* The "current 'wall clock' time" (alt_gettod.c:57), at any tick and any rate,
\* does not go back by itself.
NeverBack ==
  [][rate # 0 /\ UNCHANGED resettime => Micros(Gettod') >= Micros(Gettod)]_vars
=============================================================================
