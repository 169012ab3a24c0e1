------------------------------ MODULE MCIrq ------------------------------
(***************************************************************************)
(* The interrupts: who may interrupt whom (IrqMask), and a request's way   *)
(* from a core to its handler and back (IrqPath), with restarts of the CPU *)
(* while the cores compute.  A behaviour is one of them; the variables of  *)
(* the other stay as they are.                                             *)
(***************************************************************************)
EXTENDS IrqMask

CONSTANTS NCores, Depth, Flight, Entry, Body, Restarts   \* IrqPath's

VARIABLES
  unit,                                              \* what runs
  request, job, clr, sync, cpu, busy, line, pc, next, \* IrqPath's
  intr, enabled, count, flag, fresh, stale, restarts

pathVars == <<request, job, clr, sync, cpu, busy, line, pc, next,
              intr, enabled, count, flag, fresh, stale, restarts>>
mcVars   == <<vars, unit, pathVars>>

Path == INSTANCE IrqPath WITH req <- request, pie <- intr

ASSUME PathAssumption ==
  Path!SizesAssumption /\ Path!DepthAssumption /\ Path!TimingAssumption

NoPath ==
  /\ request = 0 /\ job = 0 /\ clr = 0 /\ sync = 0 /\ cpu = 0 /\ busy = 0 /\ line = 0
  /\ pc = 0 /\ next = 0 /\ intr = 0 /\ enabled = 0 /\ count = 0 /\ flag = 0 /\ fresh = 0
  /\ stale = 0 /\ restarts = 0

MCInit ==
  /\ Init
  /\ \/ unit = "mask" /\ NoPath
     \/ unit = "path" /\ Path!Init

MCNext ==
  \/ unit = "mask" /\ Next /\ UNCHANGED <<unit, pathVars>>
  \/ unit = "path" /\ Path!Next /\ UNCHANGED <<unit, vars>>

MCSpec == MCInit /\ [][MCNext]_mcVars

-----------------------------------------------------------------------------
\* No handler runs twice for one compression, also over a restart of the CPU,
\* although a request and its clear take clocks to cross.  Of a core that rested
\* when the CPU was restarted, if it was, no request is lost, and every start of
\* main() meets it at rest with its handler's count at 0.  While no restart has
\* found a core at work, what caused an exception is there for the dispatcher.
RequestsServedOnce ==
  unit = "path" =>
    /\ Path!TypeOK /\ Path!OneHandlerPerRequest
    /\ Path!RequestKept /\ Path!StartMeetsIdle
    /\ stale = {} => Path!DispatcherServes
=============================================================================
