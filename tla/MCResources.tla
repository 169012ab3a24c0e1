---------------------------- MODULE MCResources ----------------------------
(***************************************************************************)
(* What the HAL hands out and records: the heap, on main()'s stack and     *)
(* beside a stack of the exceptions' own (Heap), descriptors and device    *)
(* locks (Files), the profile (Gmon), printed numbers (Printf) and logged  *)
(* messages (LogPort).  A behaviour is one of them; the variables          *)
(* of the others stay as they are.                                         *)
(***************************************************************************)
EXTENDS Heap

CONSTANTS Threads, MainThread, MaxFd, Null, None, Devices, FileSystems, NameOf, Caps, Names, Uses
          \* the callers and what they open, as in Files
CONSTANTS Funcs, MaxCalls, SlabUnits, HeapUnits, Buckets, TextBytes  \* Gmon's
CONSTANTS Values, MaxWidth                                           \* Printf's, words of 8 bits
CONSTANTS Levels, Depth, MsgLen, Interval, Ticks                     \* LogPort's

VARIABLES
  unit,                                                       \* what runs
  use, boot, devList, fsList, dev, flags, maxFd, fAt, idx, want, pos, held,
  users, last,                                                \* Files'
  entries, gRunning, gPc, self, from, fn, arc, old, needInit, armed, timer, brk,
  slab, wild, calls, torn,                                    \* Gmon's
  state, fmtLeadingZero, fmtBase, fmtSigned, fmtCase, fmtBeforeDecimal, afterDot,
  inFormat, out, altOut, did, arg, common,                    \* Printf's
  level, stage, lRunning, lAt, left, todo, fifo, lost, filled, sysClkCount, alarm,
  since, late                                                    \* LogPort's

fileVars  == <<use, boot, devList, fsList, dev, flags, maxFd, fAt, idx, want, pos, held,
               users, last>>
gmonVars  == <<entries, gRunning, gPc, self, from, fn, arc, old, needInit, armed, timer, brk,
               slab, wild, calls, torn>>
printVars == <<state, fmtLeadingZero, fmtBase, fmtSigned, fmtCase, fmtBeforeDecimal, afterDot,
               inFormat, out, altOut, did, arg, common>>
logVars   == <<level, stage, lRunning, lAt, left, todo, fifo, lost, filled, sysClkCount, alarm,
               since, late>>
mcVars    == <<vars, unit, fileVars, gmonVars, printVars, logVars>>

-----------------------------------------------------------------------------
\* A UART, a nameless device, a file system and one mounted below it.
Registered == [null |-> <<"dev", "null">>, uart |-> <<"dev", "uart">>,
               lcd |-> <<"dev", "lcd">>, rw |-> <<"mnt">>]
Provided   == [null |-> {"write"}, uart |-> {"open", "close", "read", "write", "ioctl"},
               lcd |-> {"write", "fstat"},
               rw |-> {"open", "close", "read", "write", "lseek", "fstat"}]
Asked      == {<<"dev", "uart">>, <<"mnt", "log">>, <<"tmp">>}

Streams(source, sink) == [s \in 0 .. 2 |-> IF s = 0 THEN source ELSE sink]

\* Two threads that lock what they open, from boot on; the same with a descriptor
\* above all others kept; one caller that makes every call; and a build with
\* direct drivers.
Two    == [direct |-> FALSE, threads |-> {"t1", "t2"}, args |-> {{"RDWR", "EXCL"}},
           streams |-> Streams(<<"dev", "lcd">>, <<"dev", "lcd">>), calls |-> {},
           most |-> 6, pinned |-> FALSE, closesStd |-> FALSE]
Pin    == [Two EXCEPT !.pinned = TRUE]
One    == [Two EXCEPT !.threads = {"t1"}, !.args = {{}, {"WRONLY"}},
                      !.streams = Streams(<<"dev", "uart">>, <<"dev", "lcd">>),
                      !.calls = {"setfl", "read", "write", "lseek", "ioctl", "fstat", "isatty"},
                      !.most = 4]
Direct == [One EXCEPT !.direct = TRUE]

Exercised == {Two, Pin, One, Direct}

Desc == INSTANCE Files WITH at <- fAt

Profile == INSTANCE Gmon WITH running <- gRunning, pc <- gPc
Printer == INSTANCE Printf WITH W <- 8
Port    == INSTANCE LogPort WITH running <- lRunning, at <- lAt

ASSUME ResourcesAssumption ==
  /\ Desc!MaxFdAssumption /\ Desc!MainAssumption /\ Desc!DevicesAssumption
  /\ Desc!UsesAssumption
  /\ Profile!GmonAssumption /\ Printer!PrintfAssumption /\ Port!LogAssumption

-----------------------------------------------------------------------------
NoFiles == /\ use = 0 /\ boot = 0 /\ devList = 0 /\ fsList = 0 /\ dev = 0 /\ flags = 0
           /\ maxFd = 0 /\ fAt = 0 /\ idx = 0 /\ want = 0 /\ pos = 0 /\ held = {} /\ users = 0
           /\ last = 0
NoGmon  == /\ entries = 0 /\ gRunning = 0 /\ gPc = 0 /\ self = 0 /\ from = 0 /\ fn = 0 /\ arc = 0
           /\ old = 0 /\ needInit = 0 /\ armed = 0 /\ timer = 0 /\ brk = 0 /\ slab = 0 /\ wild = 0
           /\ calls = 0 /\ torn = 0
NoPrint == /\ state = 0 /\ fmtLeadingZero = 0 /\ fmtBase = 0 /\ fmtSigned = 0 /\ fmtCase = 0
           /\ fmtBeforeDecimal = 0 /\ afterDot = 0 /\ inFormat = 0 /\ out = 0 /\ altOut = 0
           /\ did = 0 /\ arg = 0 /\ common = 0
NoLog   == /\ level = 0 /\ stage = 0 /\ lRunning = 0 /\ lAt = 0 /\ left = 0 /\ todo = 0 /\ fifo = 0
           /\ lost = 0 /\ filled = 0 /\ sysClkCount = 0 /\ alarm = 0 /\ since = 0 /\ late = 0

MCInit ==
  /\ Init
  /\ unit = "heap" \/ ~ownStack
  /\ \/ unit = "heap"  /\ NoFiles /\ NoGmon /\ NoPrint /\ NoLog
     \/ unit = "files" /\ Desc!Init /\ NoGmon /\ NoPrint /\ NoLog
     \/ unit = "gmon"  /\ NoFiles /\ Profile!Init /\ NoPrint /\ NoLog
     \/ unit = "print" /\ NoFiles /\ NoGmon /\ Printer!Init /\ NoLog
     \/ unit = "log"   /\ NoFiles /\ NoGmon /\ NoPrint /\ Port!Init

MCNext ==
  \/ unit = "heap"  /\ Next         /\ UNCHANGED <<unit, fileVars, gmonVars, printVars, logVars>>
  \/ unit = "files" /\ Desc!Next    /\ UNCHANGED <<unit, vars, gmonVars, printVars, logVars>>
  \/ unit = "gmon"  /\ Profile!Next /\ UNCHANGED <<unit, vars, fileVars, printVars, logVars>>
  \/ unit = "print" /\ Printer!Next /\ UNCHANGED <<unit, vars, fileVars, gmonVars, logVars>>
  \/ unit = "log"   /\ Port!Next    /\ UNCHANGED <<unit, vars, fileVars, gmonVars, printVars>>

MCSpec == MCInit /\ [][MCNext]_mcVars

-----------------------------------------------------------------------------
\* The stack never passes its limit unreported; and for sizes of any number of
\* bytes, until an odd end of the heap has been rounded up, it never runs into
\* the heap without a report, with either stack arrangement, and with one
\* stack what is reported is an overflow.
CollisionsReported ==
  unit = "heap" => TypeOK /\ LimitHolds /\ CollisionSeen /\ (~ownStack => ReportsOnlyOverflow)

\* No descriptor leaks or lies above the mark, a lock is its holder's, drivers
\* see one close for each open, streams stay usable; while a descriptor above
\* all others is kept, a locked device has only one.
FilesSound ==
  unit = "files" =>
    /\ Desc!TypeOK /\ Desc!LockIsHeld /\ Desc!NoLeak /\ Desc!MarkIsHigh /\ Desc!CallbacksPair
    /\ Desc!StreamsUsable
    /\ use.pinned => Desc!Exclusive

\* open, close and the lock, made of many steps, promise their callers what
\* the abstract pool does, while a descriptor above all others is kept.
Pinned == unit = "files" /\ use.pinned

Pool == INSTANCE FdPool WITH
  Fd <- Desc!Fd, All <- Desc!All,
  owner <- IF Pinned THEN Desc!owner ELSE [f \in Desc!Fd |-> None],
  locked <- IF Pinned THEN Desc!locked ELSE {},
  begun <- Pinned
DescriptorsArePool == Pool!Spec

\* No call is counted twice, and what is missing from the counts are the handler's
\* calls that cut into main()'s increment of the same count, no more and no
\* fewer; a number printed reads back as its argument, and both printers print
\* it alike; main() loses a character only where a handler has written between
\* its test for space and its write, and a handler loses none.
RecordsTrue ==
  /\ unit = "gmon" => Profile!TypeOK /\ Profile!EveryArcCounted /\ Profile!CopiesComeFromRaces
  /\ unit = "print" => Printer!TypeOK /\ Printer!NumbersReadBack /\ Printer!PrintersAgree
  /\ unit = "log" => Port!TypeOK /\ Port!LossNeedsAnInterrupt
=============================================================================
