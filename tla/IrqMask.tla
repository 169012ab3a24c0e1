---------------------------- MODULE IrqMask ----------------------------
(***************************************************************************)
(* Who may interrupt whom: status.PIE, ienable, alt_irq_active and         *)
(* alt_priority_mask, as main() and the handlers change them through       *)
(* alt_irq_disable_all, alt_irq_enable_all, alt_irq_enable,                *)
(* alt_irq_disable, alt_iic_isr_register, alt_irq_interruptible and        *)
(* alt_irq_non_interruptible.  Each activation of alt_irq_handler is a     *)
(* frame on top of main()'s; the top frame runs, one access at a time.     *)
(***************************************************************************)
EXTENDS Integers, Sequences

CONSTANTS NLines,   \* ALT_NIRQ
          IsrOps    \* TRUE: handlers enable and disable interrupts whenever they
                    \* like; FALSE: only while no handler below is interruptible

ASSUME LinesAssumption == NLines \in Nat \ {0}

Line == 0 .. NLines - 1

VARIABLES
  pie, ienable,   \* the control registers
  active, pmask,  \* alt_irq_active, alt_priority_mask
  table,          \* each line's entry in alt_irq: none, half written, whole
  req,            \* the lines' requests
  frames,         \* main() and the handlers under way
  wanted          \* the lines enabled last, as their callers asked for it

regs == <<pie, ienable>>
vars == <<regs, active, pmask, table, req, frames, wanted>>

Top        == frames[Len(frames)]
InIsr      == Len(frames) > 1
With(f)    == frames' = [frames EXCEPT ![Len(frames)] = f]
Goes(at)   == With([Top EXCEPT !.at = at])

\* op is the call a frame makes, arg its line, tmp what it has read; outer
\* and inner are the contexts of the critical sections it is in.
NewFrame(i) ==
  [line |-> i, at |-> "isr", nested |-> FALSE, old |-> Line,
   op |-> "none", arg |-> 0, tmp |-> {}, outer |-> TRUE, inner |-> TRUE]

Init ==
  /\ pie = TRUE /\ ienable = {} /\ active = {} /\ pmask = Line
  /\ table = [i \in Line |-> "none"] /\ req = {}
  /\ frames = <<[NewFrame(NLines) EXCEPT !.at = "run"]>>
  /\ wanted = {}

Pending == req \cap ienable

Raise(i) ==
  /\ i \notin req /\ req' = req \cup {i}
  /\ UNCHANGED <<regs, active, pmask, table, frames, wanted>>

(***************************************************************************)
(* The exception and the dispatcher's loop.                                *)
(***************************************************************************)
Lowest(S) == CHOOSE i \in S : \A j \in S : i <= j

Interrupt ==
  /\ pie /\ Pending # {}
  /\ pie' = FALSE
  /\ frames' = Append(frames, NewFrame(Lowest(Pending)))
  /\ UNCHANGED <<ienable, active, pmask, table, req, wanted>>

\* The handler clears the interrupt condition.
Serve ==
  /\ InIsr /\ Top.at = "isr"
  /\ req' = req \ {Top.line} /\ Goes("run")
  /\ UNCHANGED <<regs, active, pmask, table, wanted>>

Again ==
  /\ InIsr /\ Top.at = "run" /\ ~Top.nested /\ Pending # {}
  /\ With(NewFrame(Lowest(Pending)))
  /\ UNCHANGED <<regs, active, pmask, table, req, wanted>>

\* eret gives the interrupted frame its status back.
Return ==
  /\ InIsr /\ Top.at = "run" /\ ~Top.nested /\ Pending = {}
  /\ frames' = SubSeq(frames, 1, Len(frames) - 1)
  /\ pie' = TRUE
  /\ UNCHANGED <<ienable, active, pmask, table, req, wanted>>

(***************************************************************************)
(* A handler that lets higher priorities in.                               *)
(***************************************************************************)

Interruptible ==
  /\ InIsr /\ Top.at = "run" /\ ~Top.nested /\ Top.op \in {"none", "done"}
  /\ With([Top EXCEPT !.nested = TRUE, !.old = pmask])
  /\ pmask' = 0 .. Top.line - 1 /\ ienable' = active \cap (0 .. Top.line - 1)
  /\ pie' = TRUE
  /\ UNCHANGED <<active, table, req, wanted>>

\* The mask is left as it is.
BugNonInterruptible ==
  /\ InIsr /\ Top.at = "run" /\ Top.nested
  /\ pie' = FALSE /\ ienable' = active \cap Top.old /\ UNCHANGED pmask
  /\ With([Top EXCEPT !.nested = FALSE, !.op = "done"])
  /\ UNCHANGED <<active, table, req, wanted>>

NonInterruptible ==
  /\ InIsr /\ Top.at = "run" /\ Top.nested
  /\ pie' = FALSE /\ pmask' = Top.old /\ ienable' = active \cap Top.old
  /\ With([Top EXCEPT !.nested = FALSE, !.op = "done"])
  /\ UNCHANGED <<active, table, req, wanted>>

(***************************************************************************)
(* alt_irq_enable, alt_irq_disable, and around one of them                 *)
(* alt_iic_isr_register: critical sections that nest.                      *)
(***************************************************************************)
Ops == {"enable", "disable", "register", "unregister"}

\* Handlers register none; nobody enables a line that has no handler.
Begin(op, i) ==
  /\ Top.at = "run" /\ Top.op = "none"
  /\ InIsr => op \in {"enable", "disable"} /\ (IsrOps \/ pmask = Line)
  /\ op = "enable" => table[i] = "whole"
  /\ With([Top EXCEPT !.op = op, !.arg = i,
                      !.at = IF op \in {"register", "unregister"} THEN "outer" ELSE "inner"])
  /\ UNCHANGED <<regs, active, pmask, table, req, wanted>>

\* The registration does not keep interrupts out.
BugOuterOff ==
  /\ Top.at = "outer"
  /\ With([Top EXCEPT !.outer = pie, !.at = "handler"])
  /\ UNCHANGED <<regs, active, pmask, table, req, wanted>>

OuterOff ==
  /\ Top.at = "outer"
  /\ With([Top EXCEPT !.outer = pie, !.at = "handler"]) /\ pie' = FALSE
  /\ UNCHANGED <<ienable, active, pmask, table, req, wanted>>

\* The table's entry is written in two halves.
SetHandler ==
  /\ Top.at = "handler"
  /\ table' = [table EXCEPT ![Top.arg] = "half"] /\ Goes("context")
  /\ UNCHANGED <<regs, active, pmask, req, wanted>>

SetContext ==
  /\ Top.at = "context"
  /\ table' = [table EXCEPT ![Top.arg] = IF Top.op = "register" THEN "whole" ELSE "none"]
  /\ Goes("inner")
  /\ UNCHANGED <<regs, active, pmask, req, wanted>>

InnerOff ==
  /\ Top.at = "inner"
  /\ With([Top EXCEPT !.inner = pie, !.at = "load"]) /\ pie' = FALSE
  /\ UNCHANGED <<ienable, active, pmask, table, req, wanted>>

Load ==
  /\ Top.at = "load"
  /\ With([Top EXCEPT !.tmp = active, !.at = "store"])
  /\ UNCHANGED <<regs, active, pmask, table, req, wanted>>

On(S) == IF Top.op \in {"enable", "register"} THEN S \cup {Top.arg} ELSE S \ {Top.arg}

Store ==
  /\ Top.at = "store"
  /\ active' = On(Top.tmp) /\ wanted' = On(wanted) /\ Goes("ienable")
  /\ UNCHANGED <<regs, pmask, table, req>>

\* The mask of the handler under way is not looked at.
WriteIenable ==
  /\ Top.at = "ienable"
  /\ ienable' = active /\ Goes("restore")
  /\ UNCHANGED <<pie, active, pmask, table, req, wanted>>

\* The outer section is still open.
Nests == Top.op \in {"register", "unregister"}

InnerOn ==
  /\ Top.at = "restore"
  /\ pie' = Top.inner
  /\ With([Top EXCEPT !.at = IF Nests THEN "outeron" ELSE "run",
                      !.op = IF Nests THEN @ ELSE IF InIsr THEN "done" ELSE "none"])
  /\ UNCHANGED <<ienable, active, pmask, table, req, wanted>>

OuterOn ==
  /\ Top.at = "outeron"
  /\ pie' = Top.outer
  /\ With([Top EXCEPT !.at = "run", !.op = IF InIsr THEN "done" ELSE "none"])
  /\ UNCHANGED <<ienable, active, pmask, table, req, wanted>>

Next ==
  \/ \E i \in Line : Raise(i)
  \/ Interrupt \/ Serve \/ Again \/ Return \/ Interruptible \/ NonInterruptible
  \/ \E op \in Ops, i \in Line : Begin(op, i)
  \/ OuterOff \/ SetHandler \/ SetContext \/ InnerOff \/ Load \/ Store \/ WriteIenable
  \/ InnerOn \/ OuterOn

Spec == Init /\ [][Next]_vars

--------------------------------------------------------------------------
\* The type invariant.
TypeOK ==
  /\ pie \in BOOLEAN /\ ienable \subseteq Line /\ active \subseteq Line
  /\ pmask \subseteq Line /\ req \subseteq Line /\ wanted \subseteq Line
  /\ table \in [Line -> {"none", "half", "whole"}]
  /\ Len(frames) \in 1 .. NLines + 1
  /\ \A k \in 1 .. Len(frames) :
       /\ frames[k].line \in 0 .. NLines /\ frames[k].arg \in Line
       /\ frames[k].tmp \subseteq Line /\ frames[k].old \subseteq Line
       /\ {frames[k].outer, frames[k].inner, frames[k].nested} \subseteq BOOLEAN

\* alt_irq_interruptible "is used to allow higer priority interrupts to
\* interrupt the current ISR" (alt_legacy_irq.h:99): of the handlers under
\* way each has a higher priority than the one it interrupted, and none is
\* entered twice, so that the stack holds one frame a line at most.
OnlyHigherNests ==
  \A k \in 1 .. Len(frames) - 1 : frames[k + 1].line < frames[k].line

\* Whenever an interrupt can be taken, ienable admits exactly the enabled
\* lines the mask of the innermost interruptible handler lets through, and
\* back in main() all of them: every handler that left put the mask back.
MaskFollows ==
  pie => /\ ienable = active \cap pmask
         /\ ~InIsr => pmask = Line

\* alt_irq_active is read, changed and written in the open, by main() and by
\* handlers that interrupt each other: no enabling or disabling is lost.
NoLostEnable == active = wanted

\* "Interrupts are disabled while the handler tables are updated to ensure
\* that an interrupt doesn't occur while the tables are in an inconsistant
\* state" (alt_iic_isr_register.c:85): no interrupt is dispatched through
\* an entry that is half written or empty, although the function that
\* enables the line opens and closes a critical section of its own inside.
DispatchWhole == InIsr /\ Top.at = "isr" => table[Top.line] = "whole"

\* Handlers are interrupted by higher lines only, and the processor lets in what
\* software enabled.
NestingSound == OnlyHigherNests /\ MaskFollows

\* The enabled lines and the handlers' table, which main() and nesting handlers
\* change access by access, are never seen half changed.
TablesSound == NoLostEnable /\ DispatchWhole
=============================================================================
