----------------------------- MODULE MCPlatform -----------------------------
(***************************************************************************)
(* The HAL's services under the firmware: alarms (Alarms), the wall clock  *)
(* (WallClock), timestamps (Timestamp), busy sleeps (BusySleep), the       *)
(* exception entry with and without a cause register (Exceptions) and the  *)
(* cache calls (Cache).  A behaviour is one of one service; the variables  *)
(* of the others stay as they are.                                         *)
(***************************************************************************)
EXTENDS Alarms

CONSTANTS Length, Raises,                                    \* Exceptions'
          NLines, LineSize, DLines, ILines, Starts, Lens, WholeLines  \* Cache's

VARIABLES
  unit,                                                    \* what runs
  wRate, wTicks, resettime, over, ticked, ret,           \* WallClock's
  freq, counter, run, snap, tAt, lower, stamp, elapsed, latched, \* Timestamp's
  reloaded, asked, us, big, reg, turns, sAt,               \* BusySleep's
  extraInfo, program, pc, done, repaired, pie, ipending, raises, eAt, ea, estatus, return,
  cause, result, handler, eccCached, eccMemory, eccOver,   \* Exceptions'
  dcache, dirty, icache, dFresh, iFresh, mFresh, phase, use, start, len, i \* Cache's

wallVars  == <<wRate, wTicks, resettime, over, ticked, ret>>
stampVars == <<freq, counter, run, snap, tAt, lower, stamp, elapsed, latched>>
sleepVars == <<reloaded, asked, us, big, reg, turns, sAt>>
excVars   == <<extraInfo, program, pc, done, repaired, pie, ipending, raises, eAt, ea, estatus, return,
               cause, result, handler, eccCached, eccMemory, eccOver>>
cacheVars == <<dcache, dirty, icache, dFresh, iFresh, mFresh, phase, use, start, len, i>>
mcVars    == <<vars, unit, wallVars, stampVars, sleepVars, excVars, cacheVars>>

Wall  == INSTANCE WallClock WITH rate <- wRate, nticks <- wTicks,
           US <- 10, Rates <- {0, 2, 3, 5, 10}, Wrap <- 32, MaxTicks <- 40,
           SetTimes <- {[sec |-> 0, usec |-> 3], [sec |-> 1, usec |-> 0], [sec |-> 4, usec |-> 9]}
Stamp == INSTANCE Timestamp WITH at <- tAt, Half <- 4
\* INT_MAX of a 7-bit word.
Sleep == INSTANCE BusySleep WITH at <- sAt, IntMax <- 63, PerUs <- 5, Asked <- 0 .. 127
Entry == INSTANCE Exceptions WITH at <- eAt
Flush == INSTANCE Cache

ASSUME ServicesAssumption ==
  /\ Wall!UnitsAssumption /\ Wall!WrapAssumption /\ Wall!TimesAssumption
  /\ Stamp!HalfAssumption
  /\ Sleep!SizesAssumption /\ Sleep!AskedAssumption
  /\ Entry!ExceptionsAssumption /\ Flush!CacheAssumption

NoWall  == /\ wRate = 0 /\ wTicks = 0 /\ resettime = [sec |-> 0, usec |-> 0] /\ over = FALSE
           /\ ticked = 0 /\ ret = "none"
NoStamp == /\ freq = 0 /\ counter = 0 /\ run = FALSE /\ snap = 0 /\ tAt = "off" /\ lower = 0
           /\ stamp = 0 /\ elapsed = 0 /\ latched = 0
NoSleep == /\ reloaded = FALSE /\ asked = 0 /\ us = 0 /\ big = 0 /\ reg = 0 /\ turns = 0
           /\ sAt = "off"
NoExc   == /\ extraInfo = 0 /\ program = 0 /\ pc = 0 /\ done = 0 /\ repaired = 0 /\ pie = 0 /\ ipending = 0
           /\ raises = 0 /\ eAt = "off" /\ ea = 0 /\ estatus = 0 /\ return = 0 /\ cause = 0
           /\ result = 0 /\ handler = 0 /\ eccCached = 0 /\ eccMemory = 0 /\ eccOver = 0
NoCache == /\ dcache = 0 /\ dirty = 0 /\ icache = 0 /\ dFresh = 0 /\ iFresh = 0 /\ mFresh = 0
           /\ phase = "off" /\ use = 0 /\ start = 0 /\ len = 0 /\ i = 0

MCInit ==
  /\ Init
  /\ \/ unit = "alarms" /\ NoWall /\ NoStamp /\ NoSleep /\ NoExc /\ NoCache
     \/ unit = "wall"   /\ Wall!Init /\ NoStamp /\ NoSleep /\ NoExc /\ NoCache
     \/ unit = "stamp"  /\ NoWall /\ Stamp!Init /\ NoSleep /\ NoExc /\ NoCache
     \/ unit = "sleep"  /\ NoWall /\ NoStamp /\ Sleep!Init /\ NoExc /\ NoCache
     \/ unit = "entry"  /\ NoWall /\ NoStamp /\ NoSleep /\ Entry!Init /\ NoCache
     \/ unit = "cache"  /\ NoWall /\ NoStamp /\ NoSleep /\ NoExc /\ Flush!Init

AlarmStep == unit = "alarms" /\ UNCHANGED <<unit, wallVars, stampVars, sleepVars, excVars, cacheVars>>
WallStep  == unit = "wall"  /\ UNCHANGED <<unit, vars, stampVars, sleepVars, excVars, cacheVars>>
StampStep == unit = "stamp" /\ UNCHANGED <<unit, vars, wallVars, sleepVars, excVars, cacheVars>>
SleepStep == unit = "sleep" /\ UNCHANGED <<unit, vars, wallVars, stampVars, excVars, cacheVars>>
ExcStep   == unit = "entry" /\ UNCHANGED <<unit, vars, wallVars, stampVars, sleepVars, cacheVars>>
CacheStep == unit = "cache" /\ UNCHANGED <<unit, vars, wallVars, stampVars, sleepVars, excVars>>

MCNext ==
  \/ AlarmStep /\ Next
  \/ WallStep /\ Wall!Next
  \/ StampStep /\ Stamp!Next
  \/ SleepStep /\ Sleep!Next
  \/ ExcStep /\ Entry!Next
  \/ CacheStep /\ Flush!Next

\* alt_tick and the callbacks run and return; the CPU executes; a flush goes on
\* whenever no handler runs.
MCSpec ==
  /\ MCInit /\ [][MCNext]_mcVars
  /\ WF_mcVars(AlarmStep /\ (Visit \/ TickEnd))
  /\ SF_mcVars(AlarmStep /\ (LastCall \/ \E n \in Periods : Again(n)))
  /\ WF_mcVars(ExcStep /\ (Entry!Program \/ Entry!Entry \/ Entry!Accept))
  /\ WF_mcVars(CacheStep /\ (Flush!Flush \/ Flush!NoWriteback \/ Flush!FlushAll \/ Flush!IFlush))

-----------------------------------------------------------------------------
\* A timestamp put together from two reads is that of one moment; a busy sleep
\* cut in pieces is never shorter than asked for, and longer only by what the
\* pieces round away and the rounds of a register that starts at zero.
ClocksRight ==
  /\ unit = "wall" => Wall!TypeOK
  /\ unit = "stamp" => Stamp!TypeOK /\ Stamp!StampIsOneMoment
  /\ unit = "sleep" => Sleep!TypeOK /\ Sleep!SleepsAsAsked

\* Whatever falls between an instruction and the exception entry, each
\* instruction of the program takes effect once and no interrupt handler runs
\* while interrupts are disabled, whether or not the processor tells the cause.
ExceptionsHandled ==
  unit = "entry" => Entry!TypeOK /\ Entry!EachOnce /\ Entry!MaskRespected

\* After a cache call the program, the device and the fetches of instructions
\* see the bytes written last, whatever the handlers did in between.
CacheFresh ==
  unit = "cache" => Flush!TypeOK /\ Flush!MemoryIsFresh /\ Flush!ReadsFresh /\ Flush!RunsFresh

\* Timestamps and sleeps are as ClocksRight says.  The clock reads what it was
\* set to, at any tick whose microseconds fit 32 bits, and then keeps the ticks'
\* pace, at a rate that divides a second, until the tick count rolls over.  A
\* fatal ECC error goes to the handler registered for it.  alt_tick comes to its
\* end unless a callback stops the very alarm it has read as the next, and so
\* does a flush, and a program unless an exception stops the CPU.
ServicesKeepTime ==
  /\ []ClocksRight
  /\ Wall!SetThenGet /\ Wall!KeepsPace /\ Entry!FatalReachesHandler
  /\ TickEnds
  /\ unit = "entry" => <>(pc > Length \/ eAt \in {"hangs", "broken", "fatal"})
  /\ phase \in {"flush", "discard"} ~> phase \notin {"flush", "discard"}
=============================================================================
