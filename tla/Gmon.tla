------------------------------ MODULE Gmon ------------------------------
(***************************************************************************)
(* Profiling: mcount, called at the start of every function of main() and  *)
(* of a handler that may come between any two of its steps, and the sample *)
(* of the program counter that the clock takes.  Lists grow at their head, *)
(* so a walk sees the list as it was when the walk began; a list is        *)
(* written oldest first, and its head is the last element.                 *)
(***************************************************************************)
EXTENDS Integers, FiniteSets, FiniteSetsExt, SequencesExt

CONSTANTS
  Funcs,      \* functions that call each other: self_pc and from_pc
  MaxCalls,   \* calls looked at
  SlabUnits,  \* list entries in MCOUNT_SLAB_INCREMENT bytes
  HeapUnits,  \* entries sbrk() can supply
  Buckets,    \* units of memory the histogram takes
  TextBytes   \* s_high_pc - s_low_pc

GmonAssumption ==
  /\ MaxCalls \in Nat /\ SlabUnits \in Nat \ {0} /\ HeapUnits \in Nat
  /\ Buckets \in Nat /\ TextBytes \in Nat

Who   == {"main", "isr"}
BytesPerBucket == 32   \* PCSAMPLE_BYTES_PER_BUCKET

VARIABLES
  entries,               \* the functions' list, each with its arcs and counts
  running, pc,           \* who runs, and where in mcount
  self, from, fn, arc, old, \* each caller's arguments and finds
  needInit, armed,       \* pcsample_need_init, calls of alt_alarm_start
  timer,                 \* the system clock is started
  brk, slab,             \* units sbrk has supplied, units left in the slab
  wild,                  \* what was written outside its memory
  calls,                 \* calls made, by arc
  torn                   \* counts stored by the handler inside main()'s own increment

local == <<self, from, fn, arc, old>>
mem   == <<brk, slab, wild>>
vars  == <<entries, running, pc, local, needInit, armed, timer, mem, calls, torn>>

Init ==
  /\ entries = <<>> /\ running = "main" /\ pc = [w \in Who |-> "out"]
  /\ self \in [Who -> Funcs] /\ from = self
  /\ fn = [w \in Who |-> 0] /\ arc = [w \in Who |-> 0] /\ old = [w \in Who |-> 0]
  /\ needInit = TRUE /\ armed = 0 /\ timer \in BOOLEAN
  /\ brk = 0 /\ slab = 0 /\ wild = {} /\ calls = [a \in Funcs \X Funcs |-> 0]
  /\ torn = calls

Goes(w, p) == pc' = [pc EXCEPT ![w] = p]
At(w, p) == running = w /\ pc[w] = p

Arcs  == UNION {{k} \X DOMAIN entries[k].arcs : k \in DOMAIN entries}
Count == [c \in Arcs |-> entries[c[1]].arcs[c[2]].count]

Copies(s, f) == {c \in Arcs : entries[c[1]].self = s /\ entries[c[1]].arcs[c[2]].from = f}
Counted(s, f) == SumFunctionOnSet(Count, Copies(s, f))

(***************************************************************************)
(* _mcount, with interrupts enabled as they are.                           *)
(***************************************************************************)
\* A function is entered; its list entry is looked for.
Mcount(w, s, f) ==
  /\ At(w, "out") /\ SumFunction(calls) < MaxCalls
  /\ calls' = [calls EXCEPT ![<<s, f>>] = @ + 1]
  /\ self' = [self EXCEPT ![w] = s] /\ from' = [from EXCEPT ![w] = f]
  /\ fn' = [fn EXCEPT ![w] = SelectLastInSeq(entries, LAMBDA e : e.self = s)]
  /\ Goes(w, IF fn'[w] = 0 THEN "check" ELSE "arc")
  /\ UNCHANGED <<entries, running, arc, old, needInit, armed, timer, mem, torn>>

FindArc(w) ==
  /\ At(w, "arc")
  /\ LET arcs == entries[fn[w]].arcs IN
       arc' = [arc EXCEPT ![w] = SelectLastInSeq(arcs, LAMBDA a : a.from = from[w])]
  /\ Goes(w, IF arc'[w] = 0 THEN "check" ELSE "load")
  /\ UNCHANGED <<entries, running, self, from, fn, old, needInit, armed, timer, mem, calls, torn>>

LoadCount(w) ==
  /\ At(w, "load") /\ Goes(w, "store")
  /\ old' = [old EXCEPT ![w] = entries[fn[w]].arcs[arc[w]].count]
  /\ UNCHANGED <<entries, running, self, from, fn, arc, needInit, armed, timer, mem, calls, torn>>

\* The handler stores a count that main() has loaded and not stored yet.
CutsIn(w) ==
  /\ w = "isr" /\ pc["main"] = "store"
  /\ fn["main"] = fn[w] /\ arc["main"] = arc[w]

StoreCount(w) ==
  /\ At(w, "store") /\ Goes(w, "out")
  /\ entries' = [entries EXCEPT ![fn[w]].arcs[arc[w]].count = old[w] + 1]
  /\ torn' = IF CutsIn(w) THEN [torn EXCEPT ![<<self[w], from[w]>>] = @ + 1] ELSE torn
  /\ UNCHANGED <<running, local, needInit, armed, timer, mem, calls>>

(***************************************************************************)
(* __mcount_record.                                                        *)
(***************************************************************************)
CheckInit(w) ==
  /\ At(w, "check") /\ Goes(w, IF needInit THEN "clear" ELSE "record")
  /\ UNCHANGED <<entries, running, local, needInit, armed, timer, mem, calls, torn>>

ClearInit(w) ==
  /\ At(w, "clear") /\ Goes(w, "sample") /\ needInit' = FALSE
  /\ UNCHANGED <<entries, running, local, armed, timer, mem, calls, torn>>

\* sbrk() of n units: -1 when there are none left, which nobody looks for.
Sbrk(n, what) ==
  IF brk + n <= HeapUnits THEN brk' = brk + n /\ UNCHANGED wild
  ELSE wild' = wild \cup {what} /\ UNCHANGED brk

\* nios2_pcsample_init: not before the clock is started.
PcsampleInit(w) ==
  /\ At(w, "sample") /\ Goes(w, "record")
  /\ IF timer
     THEN needInit' = FALSE /\ armed' = armed + 1 /\ Sbrk(Buckets, "histogram")
     ELSE needInit' = TRUE /\ UNCHANGED <<armed, brk, wild>>
  /\ UNCHANGED <<entries, running, local, timer, slab, calls, torn>>

\* mcount_allocate, n entries, a new slab for whatever does not fit.
mcount_allocate(n) ==
  LET first == slab < 1  second == n = 2 /\ (IF first THEN SlabUnits - 1 ELSE slab - 1) < 1 IN
  IF first \/ second
  THEN /\ slab' = IF n = 1 \/ second THEN SlabUnits - 1 ELSE SlabUnits - 2
       /\ Sbrk(SlabUnits * ((IF first THEN 1 ELSE 0) + (IF second THEN 1 ELSE 0)), "list")
  ELSE slab' = slab - n /\ UNCHANGED <<brk, wild>>

NewArc(w) == [from |-> from[w], count |-> 1]

\* The new function's entry does not point to the others.
BugRecord(w) ==
  /\ At(w, "record") /\ Goes(w, "out")
  /\ IF fn[w] = 0
     THEN entries' = <<[self |-> self[w], arcs |-> <<NewArc(w)>>]>> /\ mcount_allocate(2)
     ELSE /\ entries' = [entries EXCEPT ![fn[w]].arcs = Append(@, NewArc(w))]
          /\ mcount_allocate(1)
  /\ UNCHANGED <<running, local, needInit, armed, timer, calls, torn>>

\* With interrupts disabled: a function's entry if there was none, and its arc.
Record(w) ==
  /\ At(w, "record") /\ Goes(w, "out")
  /\ IF fn[w] = 0
     THEN /\ entries' = Append(entries, [self |-> self[w], arcs |-> <<NewArc(w)>>])
          /\ mcount_allocate(2)
     ELSE /\ entries' = [entries EXCEPT ![fn[w]].arcs = Append(@, NewArc(w))]
          /\ mcount_allocate(1)
  /\ UNCHANGED <<running, local, needInit, armed, timer, calls, torn>>

(***************************************************************************)
(* The clock and the handler.                                              *)
(***************************************************************************)
StartTimer ==
  /\ ~timer /\ timer' = TRUE
  /\ UNCHANGED <<entries, running, pc, local, needInit, armed, mem, calls, torn>>

\* nios2_pcsample: the bucket of a counter in the text section.
Bucket(ea) == ea \div BytesPerBucket
PcsamplesSize == TextBytes \div BytesPerBucket

Pcsample(ea) ==
  /\ armed > 0 /\ running = "main" /\ ea < TextBytes
  /\ wild' = (IF Bucket(ea) < PcsamplesSize THEN wild ELSE wild \cup {"bucket"})
  /\ UNCHANGED <<entries, running, pc, local, needInit, armed, timer, brk, slab, calls, torn>>

Interrupt ==
  /\ running = "main" /\ running' = "isr"
  /\ UNCHANGED <<entries, pc, local, needInit, armed, timer, mem, calls, torn>>
Return ==
  /\ At("isr", "out") /\ running' = "main"
  /\ UNCHANGED <<entries, pc, local, needInit, armed, timer, mem, calls, torn>>

Next ==
  \/ \E w \in Who :
       \/ \E s, f \in Funcs : Mcount(w, s, f)
       \/ FindArc(w) \/ LoadCount(w) \/ StoreCount(w)
       \/ CheckInit(w) \/ ClearInit(w) \/ PcsampleInit(w) \/ Record(w)
  \/ StartTimer \/ Interrupt \/ Return
  \/ \E k \in 0 .. TextBytes \div BytesPerBucket : Pcsample(k * BytesPerBucket)

Spec == Init /\ [][Next]_vars

--------------------------------------------------------------------------
\* The type invariant.
TypeOK ==
  /\ running \in Who /\ needInit \in BOOLEAN /\ timer \in BOOLEAN /\ armed \in 0 .. 2
  /\ pc \in [Who -> {"out", "arc", "load", "store", "check", "clear", "sample", "record"}]
  /\ self \in [Who -> Funcs] /\ from \in [Who -> Funcs]
  /\ \A w \in Who : fn[w] \in 0 .. Len(entries)
  /\ slab \in 0 .. SlabUnits - 1 /\ brk \in 0 .. HeapUnits
  /\ wild \subseteq {"list", "histogram", "bucket"}
  /\ torn \in [Funcs \X Funcs -> Nat]

\* "Dealt with on the host" (alt_gmon.c:180): however often an arc or its
\* function is on the lists, no call is counted twice and no arc whose call
\* has been recorded is missing.  What is not counted are the handler's calls
\* that came between main()'s load and store of the very same count
\* (alt_mcount.S:120), each of them lost once and no other call with them.
EveryArcCounted ==
  \A s, f \in Funcs :
    LET made   == calls[<<s, f>>]
        inside == Cardinality({w \in Who : pc[w] # "out" /\ self[w] = s /\ from[w] = f})
        known  == Counted(s, f) + inside IN
    /\ known <= made /\ made <= known + torn[<<s, f>>]
    /\ pc["main"] # "store" => made = known + torn[<<s, f>>]
    /\ made > inside => Counted(s, f) > 0

\* The comment in __mcount_record: a walk that is overtaken leaves an arc
\* twice on the list of its function, never more often for each copy of it.
CopiesComeFromRaces ==
  \A k \in DOMAIN entries : \A f \in Funcs :
    Cardinality({j \in DOMAIN entries[k].arcs : entries[k].arcs[j].from = f}) <= 2

\* "The number of times this arc is executed is recorded in the field count"
\* (alt_gmon.c:52).
CountsExact ==
  (\A w \in Who : pc[w] = "out") => \A s, f \in Funcs : Counted(s, f) = calls[<<s, f>>]

\* "This function might be called at interrupt time so must be able to cope
\* with reentrancy" (alt_gmon.c:153): the sampler is started once.
SamplerStartedOnce == armed <= 1

\* "If we're within the profilable range then increment the relevant bucket
\* in the histogram" (alt_gmon.c:260): a bucket the histogram has.
BucketInside == "bucket" \notin wild

\* The lists are only put in memory that sbrk() supplied; it returns -1 when
\* the heap is used up (alt_sbrk.c:80).
NoWildEntry == wild \cap {"list", "histogram"} = {}
=============================================================================
