---------------------------- MODULE IrqPath ----------------------------
(***************************************************************************)
(* An interrupt's way from a core to its handler, one CPU clock a step:    *)
(* the request in the cores' clock domain, the chain of registers that     *)
(* takes it into the CPU's, the exception entry, which tests ipending, and *)
(* alt_irq_handler, which reads it again; and back: the write that clears  *)
(* the request, which takes a few clocks to reach the core.  The CPU may   *)
(* stall at any clock.  The program on the CPU is the firmware's: boot,    *)
(* the handlers registered one by one, each core started, then the polling *)
(* loop; the cores go on when the CPU alone is restarted, because nothing  *)
(* is connected to debug_reset_request.                                    *)
(***************************************************************************)
EXTENDS Integers, Sequences, FiniteSets

CONSTANTS NCores,
          Depth,    \* SYNCHRONIZER_DEPTH
          Flight,   \* clocks a write may be on its way to a core
          Entry,    \* clocks from the exception to the test of ipending
          Body,     \* clocks from a write to the end of a handler, at least
          Restarts  \* how often the CPU is restarted

SizesAssumption  == NCores \in Nat \ {0} /\ Restarts \in Nat
DepthAssumption  == Depth \in Nat \ {0}
TimingAssumption == {Flight, Entry, Body} \subseteq Nat \ {0} /\ Body >= Flight + Depth

Core == 0 .. NCores - 1

VARIABLES
  req, job, clr,    \* each core: its request, whether it computes, clocks a
                    \* clear may still take to arrive
  sync,             \* the synchroniser of each request, ipending last
  cpu, busy, line,  \* what the CPU executes, clocks it is busy, the core
                    \* whose handler runs
  pc, next,         \* main()'s place, and its core
  pie, enabled,     \* status.PIE and ienable
  count, flag,      \* the handlers' variables
  fresh,            \* history: the core has finished and no handler has run for it
  stale,            \* history: a restart found the core computing, or waiting
  restarts

cores == <<req, job, clr>>
main  == <<pc, next>>
vars  == <<cores, sync, cpu, busy, line, main, pie, enabled, count, flag, fresh, stale, restarts>>

Init ==
  /\ req = [c \in Core |-> FALSE] /\ job = [c \in Core |-> FALSE]
  /\ clr = [c \in Core |-> 0]
  /\ sync = [c \in Core |-> [i \in 1 .. Depth |-> FALSE]]
  /\ cpu = "main" /\ busy = 0 /\ line = 0 /\ pc = "init" /\ next = 0
  /\ pie = FALSE /\ enabled = {}
  /\ count = [c \in Core |-> 0] /\ flag = [c \in Core |-> FALSE]
  /\ fresh = [c \in Core |-> FALSE] /\ stale = {} /\ restarts = 0

Pending == {c \in enabled : sync[c][Depth]}
Lowest(S) == CHOOSE c \in S : \A d \in S : c <= d

(***************************************************************************)
(* A clock in the cores: those of rise finish, those of fall get the clear *)
(* under way.  A request that rises beats its clear.  cleared and started  *)
(* are the cores the CPU writes to at this clock.                          *)
(***************************************************************************)
Cores(cleared, started) ==
  \E rise \in SUBSET {c \in Core : job[c]}, fall \in SUBSET {c \in Core : clr[c] > 0} :
    /\ {c \in Core : clr[c] = 1} \subseteq fall
    /\ req' = [c \in Core |-> IF c \in rise THEN TRUE ELSE req[c] /\ c \notin fall]
    /\ job' = [c \in Core |-> IF c \in started THEN TRUE ELSE job[c] /\ c \notin rise]
    /\ clr' = [c \in Core |-> IF c \in cleared THEN Flight
                              ELSE IF c \in fall \/ clr[c] = 0 THEN 0 ELSE clr[c] - 1]
    /\ fresh' = [c \in Core |-> IF c \in rise THEN TRUE
                                ELSE fresh[c] /\ ~(cpu = "handler" /\ c \in cleared)]
    /\ sync' = [c \in Core |-> <<req[c]>> \o SubSeq(sync[c], 1, Depth - 1)]

Quiet == Cores({}, {})

(***************************************************************************)
(* main(): alt_irq_init, the registration of the handlers, SHA_Init of     *)
(* every core, and of every core whose flag is up.                         *)
(***************************************************************************)
\* main() goes on unless an interrupt is pending.
MainRuns == cpu = "main" /\ busy = 0 /\ ~(pie /\ Pending # {})

NextCore(after, done) ==
  IF next = NCores - 1 THEN pc' = done /\ next' = 0 ELSE pc' = after /\ next' = next + 1

IrqInit ==
  /\ MainRuns /\ pc = "init"
  /\ enabled' = {} /\ pie' = TRUE /\ pc' = "register" /\ next' = 0
  /\ Quiet
  /\ UNCHANGED <<cpu, busy, line, count, flag, stale, restarts>>

Register ==
  /\ MainRuns /\ pc = "register"
  /\ enabled' = enabled \cup {next} /\ NextCore("register", "clear")
  /\ Quiet
  /\ UNCHANGED <<cpu, busy, line, pie, count, flag, stale, restarts>>

\* SHA_Init clears the interrupt, and later writes the start bit.
Clear ==
  /\ MainRuns /\ pc \in {"clear", "reclear"}
  /\ busy' = Body /\ pc' = IF pc = "clear" THEN "start" ELSE "restart"
  /\ Cores({next}, {})
  /\ UNCHANGED <<cpu, line, next, pie, enabled, count, flag, stale, restarts>>

Start ==
  /\ MainRuns /\ pc \in {"start", "restart"}
  /\ IF pc = "start" THEN NextCore("clear", "poll") ELSE pc' = "unflag" /\ UNCHANGED next
  /\ Cores({}, {next})
  /\ UNCHANGED <<cpu, busy, line, pie, enabled, count, flag, stale, restarts>>

\* main() clears the flag after the restart, whatever was raised in between.
ClearFlag ==
  /\ MainRuns /\ pc = "unflag"
  /\ flag' = [flag EXCEPT ![next] = FALSE] /\ pc' = "poll"
  /\ Quiet
  /\ UNCHANGED <<cpu, busy, line, next, pie, enabled, count, stale, restarts>>

Poll ==
  /\ MainRuns /\ pc = "poll"
  /\ \E c \in Core : flag[c] /\ next' = c
  /\ pc' = "reclear" /\ Quiet
  /\ UNCHANGED <<cpu, busy, line, pie, enabled, count, flag, stale, restarts>>

(***************************************************************************)
(* The exception, the dispatcher and the handlers.                         *)
(***************************************************************************)
Exception ==
  /\ cpu = "main" /\ pie /\ Pending # {}
  /\ cpu' = "entry" /\ pie' = FALSE /\ busy' = Entry
  /\ Quiet
  /\ UNCHANGED <<line, main, enabled, count, flag, stale, restarts>>

\* An exception with nothing pending is taken for an instruction's.
IrqTest ==
  /\ cpu = "entry" /\ busy = 0
  /\ cpu' = IF Pending = {} THEN "unknown" ELSE "dispatch"
  /\ Quiet
  /\ UNCHANGED <<busy, line, main, pie, enabled, count, flag, stale, restarts>>

\* With no bit set the inner loop of alt_irq_handler never ends.
FirstRead ==
  /\ cpu = "dispatch" /\ busy = 0
  /\ IF Pending = {} THEN cpu' = "spin" /\ UNCHANGED line
     ELSE cpu' = "handler" /\ line' = Lowest(Pending)
  /\ Quiet
  /\ UNCHANGED <<busy, main, pie, enabled, count, flag, stale, restarts>>

\* The interrupt is cleared at the end of the handler.
BugHandlerClears ==
  /\ cpu = "handler" /\ busy = 0
  /\ cpu' = "body" /\ busy' = 0
  /\ count' = [count EXCEPT ![line] = (@ + 1) % 3]
  /\ Cores({line}, {})
  /\ UNCHANGED <<line, main, pie, enabled, flag, stale, restarts>>

\* A handler clears its interrupt first ...
HandlerClears ==
  /\ cpu = "handler" /\ busy = 0
  /\ cpu' = "body" /\ busy' = Body
  /\ count' = [count EXCEPT ![line] = (@ + 1) % 3]
  /\ Cores({line}, {})
  /\ UNCHANGED <<line, main, pie, enabled, flag, stale, restarts>>

\* ... and then starts the next compression, or raises the flag.
HandlerEnds ==
  /\ cpu = "body" /\ busy = 0
  /\ cpu' = "reread"
  /\ flag' = IF count[line] = 0 THEN [flag EXCEPT ![line] = TRUE] ELSE flag
  /\ Cores({}, IF count[line] = 0 THEN {} ELSE {line})
  /\ UNCHANGED <<busy, line, main, pie, enabled, count, stale, restarts>>

Reread ==
  /\ cpu = "reread" /\ busy = 0
  /\ IF Pending = {} THEN cpu' = "main" /\ pie' = TRUE /\ UNCHANGED line
     ELSE cpu' = "handler" /\ line' = Lowest(Pending) /\ UNCHANGED pie
  /\ Quiet
  /\ UNCHANGED <<busy, main, enabled, count, flag, stale, restarts>>

\* The start-up code runs longer than a write takes.
Restart ==
  /\ restarts < Restarts /\ restarts' = restarts + 1
  /\ cpu' = "main" /\ busy' = Body /\ line' = 0 /\ pc' = "init" /\ next' = 0
  /\ pie' = FALSE
  /\ count' = [c \in Core |-> 0] /\ flag' = [c \in Core |-> FALSE]
  /\ stale' = stale \cup {c \in Core : job[c] \/ fresh[c]}
  /\ Quiet
  /\ UNCHANGED enabled

\* The CPU stalls, or is busy.
Stall ==
  /\ busy' = IF busy > 0 THEN busy - 1 ELSE 0
  /\ Quiet
  /\ UNCHANGED <<cpu, line, main, pie, enabled, count, flag, stale, restarts>>

Next ==
  \/ IrqInit \/ Register \/ Clear \/ Start \/ ClearFlag \/ Poll
  \/ Exception \/ IrqTest \/ FirstRead \/ HandlerClears \/ HandlerEnds \/ Reread
  \/ Restart \/ Stall

Spec == Init /\ [][Next]_vars

--------------------------------------------------------------------------
\* The type invariant.
TypeOK ==
  /\ req \in [Core -> BOOLEAN] /\ job \in [Core -> BOOLEAN]
  /\ clr \in [Core -> 0 .. Flight]
  /\ sync \in [Core -> [1 .. Depth -> BOOLEAN]]
  /\ cpu \in {"main", "entry", "dispatch", "handler", "body", "reread", "unknown", "spin"}
  /\ busy \in Nat /\ line \in Core /\ next \in Core
  /\ pc \in {"init", "register", "clear", "start", "poll", "reclear", "restart", "unflag"}
  /\ pie \in BOOLEAN /\ enabled \subseteq Core
  /\ count \in [Core -> 0 .. 2] /\ flag \in [Core -> BOOLEAN]
  /\ fresh \in [Core -> BOOLEAN] /\ stale \subseteq Core /\ restarts \in 0 .. Restarts

\* alt_irq_handler "loops, loading the active interrupt list on each pass
\* until alt_irq_pending() return zero" (alt_irq_handler.c:117): a request
\* that caused an exception is still pending when the entry code and the
\* dispatcher look for it, so that neither takes it for something else.
DispatcherServes == cpu \notin {"unknown", "spin"}

\* The synchroniser still shows a request some clocks after it was cleared:
\* the dispatcher's next look must come later, or the handler would run
\* twice for one compression and take the second count for a new digest.
OneHandlerPerRequest == cpu = "handler" => fresh[line]

\* A start bit that meets a core at work is ignored, and a handler that has
\* counted an interrupt already takes the next one for the second: main() starts
\* a core only while it rests and its count is 0, unless a restart of the CPU
\* left it at work.
StartMeetsIdle ==
  cpu = "main" /\ pc \in {"clear", "start", "reclear", "restart"} /\ next \notin stale
    => ~job[next] /\ count[next] = 0

\* No clear, of a handler or of main()'s SHA_Init, ever arrives at a core
\* that has finished in the meantime: a core that waits for its handler has
\* its request up, unless it computed or waited when the CPU was restarted.
RequestKept == \A c \in Core \ stale : fresh[c] => req[c]
=============================================================================
