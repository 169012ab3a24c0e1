------------------------------ MODULE Heap ------------------------------
(***************************************************************************)
(* alt_sbrk, which grows the heap towards the stack, called by main() and  *)
(* by a handler (the profiling code), and the stack limit it keeps in the  *)
(* et register when ALT_STACK_CHECK is defined: every function's entry     *)
(* compares sp with it.  With ALT_EXCEPTION_STACK the handlers run on a    *)
(* stack of their own, and the limit of the interrupted stack waits in     *)
(* alt_exception_old_stack_limit.  Addresses are bytes.                    *)
(***************************************************************************)
EXTENDS Integers, FiniteSets

CONSTANTS HeapLimit,       \* __alt_heap_limit, where the stack starts
          Incrs, Backs,    \* bytes sbrk is asked for, and given back
          Frame            \* bytes an exception saves on the stack

Heap     == 8          \* __alt_heap_start, also __alt_stack_limit

ASSUME HeapAssumption ==
  HeapLimit \in Nat /\ HeapLimit >= Heap /\ Incrs \cup Backs \subseteq Nat /\ Frame \in Nat

ExLimit  == -100       \* __alt_exception_stack_limit, elsewhere
Who      == {"main", "isr"}

VARIABLES
  heapEnd,              \* heap_end
  et, oldLimit,         \* the limit in force, alt_exception_old_stack_limit
  sp,                   \* main()'s stack pointer
  pie, running,         \* interrupts enabled, who runs
  pc, incr, prev, ctx,  \* each caller's place in sbrk and its variables
  ownStack,             \* ALT_EXCEPTION_STACK, from the build on
  blocks,               \* what was handed out, <<first, behind the last>>
  reported,             \* a stack overflow was reported: the CPU stops
  rounded               \* an end that was no whole word has been rounded up

stack == <<et, oldLimit, sp>>
local == <<pc, incr, prev, ctx>>
vars  == <<heapEnd, stack, pie, running, local, ownStack, blocks, reported, rounded>>

Init ==
  /\ heapEnd = Heap /\ et = Heap /\ oldLimit = 0 /\ sp = HeapLimit
  /\ pie = TRUE /\ running = "main"
  /\ pc = [w \in Who |-> "out"] /\ incr = [w \in Who |-> 0]
  /\ prev = [w \in Who |-> 0] /\ ctx = [w \in Who |-> TRUE]
  /\ ownStack \in BOOLEAN /\ blocks = {} /\ reported = FALSE
  /\ rounded = FALSE

Runs(w, at) == ~reported /\ running = w /\ pc[w] = at
Goes(w, at) == pc' = [pc EXCEPT ![w] = at]

Aligned(a) == ((a + 3) \div 4) * 4

(***************************************************************************)
(* The stack, and the exception with its own or main()'s stack.            *)
(***************************************************************************)
\* A function of main() is entered: its frame is checked first.
Push ==
  /\ Runs("main", "out") /\ sp' = sp - 4
  /\ reported' = (sp' < et)
  /\ UNCHANGED <<heapEnd, et, oldLimit, pie, running, local, blocks, ownStack, rounded>>

Pop ==
  /\ Runs("main", "out") /\ sp < HeapLimit /\ sp' = sp + 4
  /\ UNCHANGED <<heapEnd, et, oldLimit, pie, running, local, blocks, reported, ownStack, rounded>>

Interrupt ==
  /\ ~reported /\ running = "main" /\ pie
  /\ pie' = FALSE /\ running' = "isr"
  /\ IF ownStack
     THEN oldLimit' = et /\ et' = ExLimit /\ UNCHANGED <<sp, reported>>
     ELSE sp' = sp - Frame /\ reported' = (sp' < et) /\ UNCHANGED <<et, oldLimit>>
  /\ UNCHANGED <<heapEnd, local, blocks, ownStack, rounded>>

Return ==
  /\ Runs("isr", "out")
  /\ pie' = TRUE /\ running' = "main"
  /\ IF ownStack THEN et' = oldLimit /\ oldLimit' = 0 /\ UNCHANGED sp
     ELSE sp' = sp + Frame /\ UNCHANGED <<et, oldLimit>>
  /\ UNCHANGED <<heapEnd, local, blocks, reported, ownStack, rounded>>

(***************************************************************************)
(* alt_sbrk.                                                               *)
(***************************************************************************)
\* Interrupts stay as they are.
BugSbrk(w, n) ==
  /\ Runs(w, "out") /\ n >= Heap - heapEnd
  /\ ctx' = [ctx EXCEPT ![w] = pie] /\ UNCHANGED pie
  /\ incr' = [incr EXCEPT ![w] = n] /\ Goes(w, "align")
  /\ UNCHANGED <<heapEnd, stack, running, prev, blocks, reported, ownStack, rounded>>

\* malloc gives back no more than there is.
Sbrk(w, n) ==
  /\ Runs(w, "out") /\ n >= Heap - heapEnd
  /\ ctx' = [ctx EXCEPT ![w] = pie] /\ pie' = FALSE
  /\ incr' = [incr EXCEPT ![w] = n] /\ Goes(w, "align")
  /\ UNCHANGED <<heapEnd, stack, running, prev, blocks, reported, ownStack, rounded>>

Align(w) ==
  /\ Runs(w, "align") /\ Goes(w, "test")
  /\ heapEnd' = Aligned(heapEnd)
  /\ rounded' = (rounded \/ heapEnd' # heapEnd)
  /\ UNCHANGED <<stack, pie, running, incr, prev, ctx, blocks, reported, ownStack>>

Test(w) ==
  /\ Runs(w, "test")
  /\ Goes(w, IF heapEnd + incr[w] > HeapLimit THEN "leave" ELSE "extend")
  /\ UNCHANGED <<heapEnd, stack, pie, running, incr, prev, ctx, blocks, reported, ownStack, rounded>>

Extend(w) ==
  /\ Runs(w, "extend") /\ Goes(w, "limit")
  /\ prev' = [prev EXCEPT ![w] = heapEnd] /\ heapEnd' = heapEnd + incr[w]
  /\ blocks' = IF incr[w] > 0 THEN blocks \cup {<<heapEnd, heapEnd'>>}
               ELSE {b \in blocks : b[2] <= heapEnd'}
  /\ UNCHANGED <<stack, pie, running, incr, ctx, reported, ownStack, rounded>>

\* The stack pointer of the stack in use.
Sp(w) == IF w = "isr" /\ ownStack THEN ExLimit + 50 ELSE sp

\* The limit stays at the old end.
BugLimit(w) ==
  /\ Runs(w, "limit") /\ Goes(w, "old")
  /\ reported' = (et = prev[w] /\ Sp(w) <= heapEnd)
  /\ UNCHANGED <<heapEnd, et, oldLimit, sp, pie, running, incr, prev, ctx, blocks, ownStack, rounded>>

\* If the limit is the heap's old end it becomes the new one.
Limit(w) ==
  /\ Runs(w, "limit") /\ Goes(w, "old")
  /\ IF et = prev[w] THEN et' = heapEnd /\ reported' = (Sp(w) <= heapEnd)
     ELSE UNCHANGED <<et, reported>>
  /\ UNCHANGED <<heapEnd, oldLimit, sp, pie, running, incr, prev, ctx, blocks, ownStack, rounded>>

\* The limit of the stack switched away from is compared, not its pointer.
OldLimit(w) ==
  /\ Runs(w, "old") /\ Goes(w, "leave")
  /\ IF ownStack /\ oldLimit = prev[w]
     THEN reported' = (oldLimit <= heapEnd) /\ oldLimit' = heapEnd
     ELSE UNCHANGED <<oldLimit, reported>>
  /\ UNCHANGED <<heapEnd, et, sp, pie, running, incr, prev, ctx, blocks, ownStack, rounded>>

Leave(w) ==
  /\ Runs(w, "leave") /\ Goes(w, "out")
  /\ pie' = ctx[w]
  /\ UNCHANGED <<heapEnd, stack, running, incr, prev, ctx, blocks, reported, ownStack, rounded>>

Next ==
  \/ Push \/ Pop \/ Interrupt \/ Return
  \/ \E w \in Who :
       \/ \E n \in Incrs \cup {-k : k \in Backs} : Sbrk(w, n)
       \/ Align(w) \/ Test(w) \/ Extend(w) \/ Limit(w) \/ OldLimit(w) \/ Leave(w)

Spec == Init /\ [][Next]_vars

--------------------------------------------------------------------------
Addresses == -2 * Frame - 8 .. HeapLimit + 8

\* The type invariant.
TypeOK ==
  /\ heapEnd \in Heap .. HeapLimit + 3
  /\ et \in Addresses \cup {ExLimit} /\ oldLimit \in Addresses
  /\ sp \in Addresses /\ sp <= HeapLimit
  /\ pie \in BOOLEAN /\ running \in Who /\ {reported, ownStack, rounded} \subseteq BOOLEAN
  /\ pc \in [Who -> {"out", "align", "test", "extend", "limit", "old", "leave"}]
  /\ incr \in [Who -> Incrs \cup {-k : k \in Backs} \cup {0}]
  /\ prev \in [Who -> Addresses] /\ ctx \in [Who -> BOOLEAN]

\* sbrk "must be safe if called from an interrupt context" (alt_sbrk.c:52):
\* no two callers are given the same byte, and none lies beyond the limit.
BlocksDisjoint ==
  /\ \A b \in blocks : Heap <= b[1] /\ b[2] <= HeapLimit
  /\ \A a, b \in blocks : a # b => a[2] <= b[1] \/ b[2] <= a[1]

Outside == \A w \in Who : pc[w] = "out"

\* "If the stack and heap are contiguous then extending the heap reduces the
\* space available for the stack" (alt_sbrk.c:99): the stack never reaches
\* into the heap without a report, whichever of the two grew.
NoSilentCollision == Outside /\ ~reported => sp >= heapEnd

\* It is so until sbrk rounds up an end that was no whole word (alt_sbrk.c:76),
\* as it does after alt_gmon.c:227 asked for an odd number of halfwords: from
\* then on the limit, left where the end was, follows the heap no more.
CollisionSeen == ~rounded => NoSilentCollision

\* And what is reported until then is an overflow: the stack has reached the
\* heap's end.
ReportsOnlyOverflow == reported /\ ~rounded => sp <= heapEnd

\* Whatever the sizes, main()'s stack never passes the limit it is held to,
\* in et or, while a handler runs on its own stack, in alt_exception_old_stack_limit.
LimitHolds == ~reported => sp >= IF ownStack /\ running = "isr" THEN oldLimit ELSE et
=============================================================================
