-------------------------- MODULE ResourcesProofs --------------------------
(***************************************************************************)
(* What the HAL hands out, proved.                                         *)
(*                                                                         *)
(* The heap: what sbrk hands out, for every limit, every sequence of sizes *)
(* and both stack arrangements, with main() and a handler calling.  Blocks *)
(* are disjoint: nobody is inside sbrk unless interrupts are off, so that  *)
(* there is never a second caller (Alone), and whatever was handed out     *)
(* ends at or before heap_end, with the room the caller at each place of   *)
(* sbrk may still count on (Below).  And the stack does not run into the   *)
(* heap unreported until an odd end has been rounded up: the limit of      *)
(* main()'s stack, wherever it is kept, is till then the heap's end except *)
(* while sbrk moves both, and the stack never passes it (Marks, Guarded).  *)
(*                                                                         *)
(* The descriptors: for any number of threads, devices and descriptors,    *)
(* what is taken is what is held or being opened (PoolInv), each by one    *)
(* opener (Openers), drivers have seen as many opens more than closes as   *)
(* descriptors refer to them (Paired), and while the last descriptor stays *)
(* open a locked device's second descriptor is one whose open() has yet to *)
(* find the lock (PinInv): so the many steps of open implement the         *)
(* abstract pool.                                                          *)
(***************************************************************************)
EXTENDS MCResources, Sequences, TLAPS, FiniteSetTheorems, WellFoundedInduction

Places == {"out", "align", "test", "extend", "limit", "old", "leave"}
Sizes  == Incrs \cup {-k : k \in Backs} \cup {0}

Types ==
  /\ heapEnd \in Int /\ heapEnd >= Heap
  /\ pie \in BOOLEAN /\ running \in Who
  /\ pc \in [Who -> Places] /\ incr \in [Who -> Sizes] /\ ctx \in [Who -> BOOLEAN]
  /\ blocks \subseteq Int \X Int

Alone ==
  /\ \A w \in Who : pc[w] # "out" => running = w /\ ~pie
  /\ running = "isr" => ~pie /\ (pc["isr"] # "out" => ~ctx["isr"])

Below ==
  /\ \A w \in Who : pc[w] \in {"align", "test", "extend"} => heapEnd + incr[w] >= Heap
  /\ \A w \in Who : pc[w] = "extend" => heapEnd + incr[w] <= HeapLimit
  /\ \A b \in blocks : b[2] <= heapEnd

Inv == Types /\ Alone /\ Below /\ BlocksDisjoint

-----------------------------------------------------------------------------
LEMMA SizesAreInt == Sizes \subseteq Int
BY HeapAssumption DEF Sizes

\* The room asked for, where it was found to be there.
LEMMA Room ==
  ASSUME Inv, NEW w \in Who
  PROVE  /\ heapEnd \in Int /\ heapEnd >= Heap /\ incr[w] \in Int
         /\ pc[w] \in {"align", "test", "extend"} => heapEnd + incr[w] >= Heap
         /\ pc[w] = "extend" => heapEnd + incr[w] <= HeapLimit
<1>1. incr[w] \in Sizes /\ heapEnd \in Int /\ heapEnd >= Heap
  BY DEF Inv, Types
<1>. QED BY <1>1, SizesAreInt DEF Inv, Below

\* Rounding up to a word never goes back.
LEMMA AlignedIsUp ==
  ASSUME NEW a \in Int
  PROVE  Aligned(a) \in Int /\ Aligned(a) >= a
<1>1. (a + 3) \div 4 \in Int /\ 4 * ((a + 3) \div 4) > (a + 3) - 4
  OBVIOUS
<1>. QED BY <1>1 DEF Aligned

LEMMA InitInv == Init => Inv
<1>. SUFFICES ASSUME Init PROVE Inv
  OBVIOUS
<1>1. heapEnd \in Int /\ heapEnd >= Heap /\ blocks = {}
  BY DEF Init, Heap
<1>2. /\ pie = TRUE /\ running = "main" /\ pc = [w \in Who |-> "out"]
      /\ incr = [w \in Who |-> 0] /\ ctx = [w \in Who |-> TRUE]
  BY DEF Init
<1>3. Types
  BY <1>1, <1>2, Zenon DEF Types, Who, Places, Sizes
<1>. QED BY <1>1, <1>2, <1>3 DEF Inv, Alone, Below, BlocksDisjoint, Who

\* Interrupts go off before anything is read.
LEMMA SbrkInv ==
  ASSUME Inv, NEW w \in Who, NEW n \in Incrs \cup {-k : k \in Backs}, Sbrk(w, n)
  PROVE  Inv'
<1>1. /\ running = w /\ pc[w] = "out" /\ n >= Heap - heapEnd /\ n \in Sizes /\ n \in Int
      /\ heapEnd \in Int /\ Heap \in Int
  BY SizesAreInt DEF Sbrk, Runs, Sizes, Inv, Types, Heap
<1>2. /\ ctx' = [ctx EXCEPT ![w] = pie] /\ pie' = FALSE
      /\ incr' = [incr EXCEPT ![w] = n] /\ pc' = [pc EXCEPT ![w] = "align"]
      /\ UNCHANGED <<heapEnd, running, blocks>>
  BY DEF Sbrk, Goes
<1>3. Types'
  BY <1>1, <1>2 DEF Inv, Types, Places
<1>4. Alone'
  <2>1. \A v \in Who : v # w => pc[v] = "out"
    BY <1>1 DEF Inv, Alone
  <2>2. w = "isr" => ~pie
    BY <1>1 DEF Inv, Alone
  <2>. QED BY <1>1, <1>2, <2>1, <2>2 DEF Inv, Types, Alone, Who
<1>5. Below'
  <2>1. heapEnd + n >= Heap
    BY <1>1
  <2>. QED BY <1>1, <1>2, <2>1 DEF Inv, Types, Below
<1>. QED BY <1>2, <1>3, <1>4, <1>5 DEF Inv, BlocksDisjoint

\* One place of sbrk after another, interrupts off.
LEMMA PlaceTypes ==
  ASSUME Inv, NEW w \in Who, NEW p \in Places, pc[w] # "out", pc' = [pc EXCEPT ![w] = p],
         p # "out", UNCHANGED <<pie, running, incr, ctx>>
  PROVE  /\ pc' \in [Who -> Places] /\ Alone'
         /\ \A v \in Who : v # w => pc'[v] = "out"
         /\ pc'[w] = p
<1>1. running = w
  BY DEF Inv, Alone
<1>2. \A v \in Who : v # w => pc[v] = "out"
  BY <1>1 DEF Inv, Alone
<1>. QED BY <1>1, <1>2 DEF Inv, Types, Alone, Who

LEMMA AlignInv == ASSUME Inv, NEW w \in Who, Align(w) PROVE Inv'
<1>1. /\ pc[w] = "align" /\ pc' = [pc EXCEPT ![w] = "test"] /\ heapEnd' = Aligned(heapEnd)
      /\ UNCHANGED <<pie, running, incr, ctx, blocks>>
  BY DEF Align, Runs, Goes
<1>2. heapEnd \in Int /\ heapEnd' \in Int /\ heapEnd' >= heapEnd /\ incr[w] \in Int
      /\ heapEnd >= Heap /\ heapEnd + incr[w] >= Heap /\ Heap \in Int
  BY <1>1, AlignedIsUp, Room DEF Heap
<1>3. /\ pc' \in [Who -> Places] /\ Alone' /\ pc'[w] = "test"
      /\ \A v \in Who : v # w => pc'[v] = "out"
  BY <1>1, PlaceTypes DEF Places
<1>4. Types'
  BY <1>1, <1>2, <1>3 DEF Inv, Types
<1>5. Below'
  <2>1. \A b \in blocks : b[2] <= heapEnd'
    BY <1>2 DEF Inv, Types, Below
  <2>2. heapEnd' + incr[w] >= Heap
    BY <1>2
  <2>. QED BY <1>1, <1>3, <2>1, <2>2 DEF Below
<1>. QED BY <1>1, <1>3, <1>4, <1>5 DEF Inv, BlocksDisjoint

LEMMA TestInv == ASSUME Inv, NEW w \in Who, Test(w) PROVE Inv'
<1>. DEFINE p == IF heapEnd + incr[w] > HeapLimit THEN "leave" ELSE "extend"
<1>1. /\ pc[w] = "test" /\ pc' = [pc EXCEPT ![w] = p]
      /\ UNCHANGED <<heapEnd, pie, running, incr, ctx, blocks>>
  BY DEF Test, Runs, Goes
<1>2. heapEnd \in Int /\ incr[w] \in Int /\ HeapLimit \in Int /\ heapEnd + incr[w] >= Heap
  BY <1>1, Room, HeapAssumption
<1>3. p \in Places /\ p # "out" /\ (p = "extend" => heapEnd + incr[w] <= HeapLimit)
      /\ p \in {"leave", "extend"}
  BY <1>2 DEF Places
<1>. HIDE DEF p
<1>4. /\ pc' \in [Who -> Places] /\ Alone' /\ pc'[w] = p
      /\ \A v \in Who : v # w => pc'[v] = "out"
  BY <1>1, <1>3, PlaceTypes
<1>5. Types' /\ Below'
  BY <1>1, <1>2, <1>3, <1>4 DEF Inv, Types, Below
<1>. QED BY <1>1, <1>4, <1>5 DEF Inv, BlocksDisjoint

\* The block lies behind all others; what is given back lies behind those kept.
LEMMA ExtendInv == ASSUME Inv, NEW w \in Who, Extend(w) PROVE Inv'
<1>1. /\ pc[w] = "extend" /\ pc' = [pc EXCEPT ![w] = "limit"]
      /\ heapEnd' = heapEnd + incr[w] /\ UNCHANGED <<pie, running, incr, ctx>>
      /\ blocks' = IF incr[w] > 0 THEN blocks \cup {<<heapEnd, heapEnd'>>}
                   ELSE {b \in blocks : b[2] <= heapEnd'}
  BY DEF Extend, Runs, Goes
<1>2. /\ heapEnd \in Int /\ incr[w] \in Int /\ HeapLimit \in Int /\ Heap \in Int
      /\ heapEnd >= Heap /\ heapEnd' \in Int /\ heapEnd' >= Heap /\ heapEnd' <= HeapLimit
  BY <1>1, Room, HeapAssumption DEF Heap
<1>3. /\ pc' \in [Who -> Places] /\ Alone' /\ pc'[w] = "limit"
      /\ \A v \in Who : v # w => pc'[v] = "out"
  BY <1>1, PlaceTypes DEF Places
<1>4. /\ blocks \subseteq Int \X Int /\ BlocksDisjoint /\ \A b \in blocks : b[2] <= heapEnd
  BY DEF Inv, Types, Below
<1>5. CASE incr[w] > 0
  <2>. DEFINE new == <<heapEnd, heapEnd'>>
  <2>1. /\ blocks' = blocks \cup {new} /\ new \in Int \X Int
        /\ new[1] = heapEnd /\ new[2] = heapEnd' /\ heapEnd' > heapEnd
    BY <1>1, <1>2, <1>5
  <2>. HIDE DEF new
  <2>2. Types'
    BY <1>1, <1>2, <1>3, <1>4, <2>1 DEF Inv, Types
  <2>3. \A b \in blocks' : b[2] <= heapEnd'
    BY <1>2, <1>4, <2>1
  <2>4. BlocksDisjoint'
    <3>1. \A b \in blocks' : Heap <= b[1] /\ b[2] <= HeapLimit
      BY <1>2, <1>4, <2>1 DEF BlocksDisjoint
    <3>2. ASSUME NEW a \in blocks', NEW b \in blocks', a # b
          PROVE  a[2] <= b[1] \/ b[2] <= a[1]
      BY <1>2, <1>4, <2>1, <3>2 DEF BlocksDisjoint
    <3>. QED BY <3>1, <3>2 DEF BlocksDisjoint
  <2>. QED BY <1>3, <2>2, <2>3, <2>4 DEF Inv, Below
<1>6. CASE ~(incr[w] > 0)
  <2>1. blocks' \subseteq blocks /\ \A b \in blocks' : b[2] <= heapEnd'
    BY <1>1, <1>6
  <2>2. Types'
    BY <1>1, <1>2, <1>3, <1>4, <2>1 DEF Inv, Types
  <2>. QED BY <1>3, <1>4, <2>1, <2>2 DEF Inv, Below, BlocksDisjoint
<1>. QED BY <1>5, <1>6

\* The rest of sbrk touches the stack limits only.
LEMMA LimitInv == ASSUME Inv, NEW w \in Who, Limit(w) \/ OldLimit(w) PROVE Inv'
<1>1. PICK p \in {"old", "leave"} :
        /\ pc[w] # "out" /\ pc' = [pc EXCEPT ![w] = p]
        /\ UNCHANGED <<heapEnd, pie, running, incr, ctx, blocks>>
  BY DEF Limit, OldLimit, Runs, Goes
<1>2. /\ pc' \in [Who -> Places] /\ Alone' /\ pc'[w] = p
      /\ \A v \in Who : v # w => pc'[v] = "out"
  BY <1>1, PlaceTypes DEF Places
<1>. QED BY <1>1, <1>2 DEF Inv, Types, Below, BlocksDisjoint

LEMMA LeaveInv == ASSUME Inv, NEW w \in Who, Leave(w) PROVE Inv'
<1>1. /\ running = w /\ pc[w] # "out" /\ pc' = [pc EXCEPT ![w] = "out"] /\ pie' = ctx[w]
      /\ UNCHANGED <<heapEnd, running, incr, ctx, blocks>>
  BY DEF Leave, Runs, Goes
<1>2. \A v \in Who : pc'[v] = "out"
  BY <1>1 DEF Inv, Types, Alone
<1>3. Types'
  BY <1>1 DEF Inv, Types, Places
<1>4. Alone'
  BY <1>1, <1>2 DEF Inv, Types, Alone, Who
<1>. QED BY <1>1, <1>2, <1>3, <1>4 DEF Inv, Below, BlocksDisjoint

LEMMA NextInv == Inv /\ [Next]_vars => Inv'
<1>. SUFFICES ASSUME Inv, [Next]_vars PROVE Inv'
  OBVIOUS
<1>1. CASE UNCHANGED vars
  BY <1>1 DEF vars, local, Inv, Types, Alone, Below, BlocksDisjoint
<1>2. CASE Push \/ Pop
  BY <1>2 DEF Push, Pop, local, Inv, Types, Alone, Below, BlocksDisjoint
<1>3. CASE Interrupt
  <2>1. /\ pie /\ running = "main" /\ pie' = FALSE /\ running' = "isr"
        /\ UNCHANGED <<heapEnd, pc, incr, ctx, blocks>>
    BY <1>3 DEF Interrupt, local
  <2>2. \A w \in Who : pc[w] = "out"
    BY <2>1 DEF Inv, Alone
  <2>. QED BY <2>1, <2>2 DEF Inv, Types, Alone, Below, BlocksDisjoint, Who
<1>4. CASE Return
  <2>1. /\ pc["isr"] = "out" /\ running = "isr" /\ pie' = TRUE /\ running' = "main"
        /\ UNCHANGED <<heapEnd, pc, incr, ctx, blocks>>
    BY <1>4 DEF Return, Runs, local
  <2>2. \A w \in Who : pc[w] = "out"
    BY <2>1 DEF Inv, Alone, Who
  <2>. QED BY <2>1, <2>2 DEF Inv, Types, Alone, Below, BlocksDisjoint, Who
<1>5. ASSUME NEW w \in Who, NEW n \in Incrs \cup {-k : k \in Backs}, Sbrk(w, n) PROVE Inv'
  BY <1>5, SbrkInv
<1>6. ASSUME NEW w \in Who, Align(w) \/ Test(w) \/ Extend(w) PROVE Inv'
  BY <1>6, AlignInv, TestInv, ExtendInv
<1>7. ASSUME NEW w \in Who, Limit(w) \/ OldLimit(w) \/ Leave(w) PROVE Inv'
  BY <1>7, LimitInv, LeaveInv
<1>. QED BY <1>1, <1>2, <1>3, <1>4, <1>5, <1>6, <1>7 DEF Next

-----------------------------------------------------------------------------
THEOREM HeapInvariant == Spec => []Inv
BY InitInv, NextInv, PTL DEF Spec

\* No two callers of sbrk, main() and a handler, are ever given the same byte,
\* and none lies beyond the heap's limit.
THEOREM BlocksStayDisjoint == Spec => []BlocksDisjoint
<1>1. Inv => BlocksDisjoint BY DEF Inv
<1>. QED BY <1>1, HeapInvariant, PTL

-----------------------------------------------------------------------------
(***************************************************************************)
(* The stack limit, for sizes of any number of bytes.                      *)
(***************************************************************************)
Top == Aligned(HeapLimit)

\* A handler runs on the exception stack; main()'s limit waits.
OnOwn     == ownStack /\ running = "isr"
MainLimit == IF OnOwn THEN oldLimit ELSE et

Saved == IF running = "isr" /\ ~ownStack THEN Frame ELSE 0

Marks ==
  /\ ownStack \in BOOLEAN /\ reported \in BOOLEAN /\ rounded \in BOOLEAN
  /\ heapEnd <= Top
  /\ prev \in [Who -> {0} \cup Heap .. Top]
  /\ IF OnOwn THEN et = ExLimit ELSE oldLimit = 0
  /\ MainLimit \in Heap .. HeapLimit
  /\ sp \in Int /\ sp >= 4 - Frame
  /\ \E k \in Nat : sp = HeapLimit - 4 * k - Saved

Moving == \E w \in Who : pc[w] \in {"limit", "old"}

Guarded ==
  /\ ~reported => sp >= MainLimit
  /\ reported /\ ~ownStack /\ ~rounded => sp <= heapEnd
  /\ ~reported /\ ~Moving /\ ~rounded => MainLimit = heapEnd
  /\ \A w \in Who : pc[w] \in {"limit", "old"} => prev[w] >= Heap /\ heapEnd <= HeapLimit
  /\ \A w \in Who : ~reported /\ ~rounded /\ pc[w] = "limit" => MainLimit = prev[w]
  /\ \A w \in Who :
       ~reported /\ ~rounded /\ pc[w] = "old" => MainLimit = IF OnOwn THEN prev[w] ELSE heapEnd

StackInv == Inv /\ Marks /\ Guarded

LEMMA HeapConstants == HeapLimit \in Nat /\ Frame \in Nat /\ Heap = 8 /\ ExLimit = -100 /\ HeapLimit >= 8
BY HeapAssumption DEF Heap, ExLimit

\* Rounding stays at or below the limit rounded up.
LEMMA TopBounds ==
  /\ Top \in Int /\ HeapLimit <= Top /\ Top <= HeapLimit + 3
  /\ \A h \in Int : h <= Top => Aligned(h) <= Top
<1>. USE HeapConstants
<1>1. Top = 4 * ((HeapLimit + 3) \div 4) /\ (HeapLimit + 3) \div 4 \in Int
  BY DEF Top, Aligned
<1>2. ASSUME NEW h \in Int, h <= Top PROVE Aligned(h) <= Top
  <2>1. PICK j \in Int : Top = 4 * j
    BY <1>1
  <2>2. (h + 3) \div 4 <= j
    BY <1>2, <2>1
  <2>. QED BY <2>1, <2>2 DEF Aligned
<1>. QED BY <1>1, <1>2

LEMMA StackInit == Init => StackInv
<1>. USE HeapConstants
<1>. SUFFICES ASSUME Init PROVE StackInv
  OBVIOUS
<1>1. /\ heapEnd = 8 /\ et = 8 /\ oldLimit = 0 /\ sp = HeapLimit /\ running = "main"
      /\ prev = [w \in Who |-> 0] /\ ownStack \in BOOLEAN /\ reported = FALSE /\ rounded = FALSE
      /\ \A w \in Who : pc[w] = "out"
  BY DEF Init
<1>2. heapEnd <= Top
  BY <1>1, TopBounds
<1>3. \E k \in Nat : sp = HeapLimit - 4 * k - Saved
  <2>1. sp = HeapLimit - 4 * 0 - Saved
    BY <1>1 DEF Saved
  <2>. QED BY <2>1
<1>4. Marks
  <2>1. ~OnOwn /\ MainLimit = 8 /\ 8 \in Heap .. HeapLimit /\ sp \in Int /\ sp >= 4 - Frame
    BY <1>1 DEF OnOwn, MainLimit
  <2>2. reported \in BOOLEAN /\ rounded \in BOOLEAN /\ prev \in [Who -> {0} \cup Heap .. Top]
    BY <1>1
  <2>. QED BY <1>1, <1>2, <1>3, <2>1, <2>2 DEF Marks
<1>5. Guarded
  BY <1>1 DEF Guarded, OnOwn, MainLimit, Moving
<1>. QED BY <1>4, <1>5, InitInv DEF StackInv

\* While main() or a handler pushes, pops or comes and goes nobody is inside sbrk.
LEMMA NobodyInside ==
  ASSUME Inv, pie \/ pc[running] = "out"
  PROVE  \A w \in Who : pc[w] = "out"
BY DEF Inv, Alone, Types, Who

LEMMA StacksMove ==
  ASSUME StackInv, Push \/ Pop \/ Interrupt \/ Return
  PROVE  Marks' /\ Guarded'
<1>. USE HeapConstants
<1>1. \A w \in Who : pc[w] = "out"
  BY NobodyInside DEF Push, Pop, Interrupt, Return, Runs, StackInv, Inv, Alone
<1>2. UNCHANGED <<heapEnd, pc, prev, ownStack, rounded>> /\ ~reported /\ reported \in BOOLEAN
  BY DEF Push, Pop, Interrupt, Return, Runs, local, StackInv, Marks
<1>3. /\ ~rounded => MainLimit = heapEnd
      /\ sp >= MainLimit /\ MainLimit \in 8 .. HeapLimit /\ sp \in Int
      /\ heapEnd \in Int /\ running \in Who /\ ownStack \in BOOLEAN
      /\ IF OnOwn THEN et = ExLimit ELSE oldLimit = 0
  BY <1>1, <1>2 DEF StackInv, Guarded, Marks, Moving, Inv, Types
<1>4. PICK k \in Nat : sp = HeapLimit - 4 * k - Saved
  BY DEF StackInv, Marks
<1>5. heapEnd' <= Top /\ prev' \in [Who -> {0} \cup Heap .. Top] /\ rounded' \in BOOLEAN
  BY <1>2 DEF StackInv, Marks
<1>6. ~Moving' /\ \A w \in Who : pc'[w] = "out"
  BY <1>1, <1>2 DEF Moving
<1>. DEFINE Good == /\ IF OnOwn' THEN et' = ExLimit ELSE oldLimit' = 0
                    /\ MainLimit' = MainLimit /\ sp' \in Int /\ sp' >= 4 - Frame
                    /\ \E j \in Nat : sp' = HeapLimit - 4 * j - Saved'
                    /\ reported' \in BOOLEAN
                    /\ ~reported' => sp' >= MainLimit
                    /\ reported' /\ ~ownStack /\ ~rounded => sp' <= heapEnd
<1>7. CASE Push
  <2>0. reported' \in BOOLEAN /\ (reported' <=> sp' < et)
    <3>1. reported' = (sp' < et) /\ sp' = sp - 4 /\ et \in Int
      BY <1>2, <1>3, <1>7 DEF Push, Runs, OnOwn, MainLimit
    <3>2. reported' \in BOOLEAN
      BY <1>3, <3>1
    <3>3. reported' <=> sp' < et
      BY <1>3, <3>1
    <3>. QED BY <3>2, <3>3
  <2>1. sp' = sp - 4 /\ running = "main" /\ UNCHANGED <<et, oldLimit, running>>
    BY <1>7 DEF Push, Runs
  <2>2. sp' = HeapLimit - 4 * (k + 1) - Saved' /\ k + 1 \in Nat
    BY <1>2, <1>4, <2>1 DEF Saved
  <2>3. Good
    <3>1. sp' \in Int /\ sp' >= 4 - Frame /\ MainLimit' = MainLimit
          /\ IF OnOwn' THEN et' = ExLimit ELSE oldLimit' = 0
      BY <1>2, <1>3, <2>1 DEF OnOwn, MainLimit
    <3>2. ~reported' => sp' >= MainLimit
      BY <1>2, <1>3, <2>0, <2>1 DEF OnOwn, MainLimit
    <3>3. reported' /\ ~ownStack /\ ~rounded => sp' <= heapEnd
      BY <1>2, <1>3, <2>0, <2>1 DEF OnOwn, MainLimit
    <3>. QED BY <2>0, <2>2, <3>1, <3>2, <3>3
  <2>. QED BY <1>2, <1>3, <1>5, <1>6, <2>3 DEF Marks, Guarded
<1>8. CASE Pop
  <2>0. reported' \in BOOLEAN /\ ~reported'
    BY <1>2, <1>8 DEF Pop
  <2>1. sp' = sp + 4 /\ sp < HeapLimit /\ running = "main" /\ UNCHANGED <<et, oldLimit, running>>
    BY <1>2, <1>8 DEF Pop, Runs
  <2>2. sp' = HeapLimit - 4 * (k - 1) - Saved' /\ k - 1 \in Nat
    BY <1>2, <1>4, <2>1 DEF Saved
  <2>3. Good
    <3>1. sp' \in Int /\ sp' >= 4 - Frame /\ MainLimit' = MainLimit
          /\ IF OnOwn' THEN et' = ExLimit ELSE oldLimit' = 0
      BY <1>2, <1>3, <2>1 DEF OnOwn, MainLimit
    <3>2. ~reported' => sp' >= MainLimit
      BY <1>2, <1>3, <2>0, <2>1 DEF OnOwn, MainLimit
    <3>3. reported' /\ ~ownStack /\ ~rounded => sp' <= heapEnd
      BY <1>2, <1>3, <2>0, <2>1 DEF OnOwn, MainLimit
    <3>. QED BY <2>0, <2>2, <3>1, <3>2, <3>3
  <2>. QED BY <1>2, <1>3, <1>5, <1>6, <2>3 DEF Marks, Guarded
<1>9. CASE Interrupt
  <2>0. /\ reported' \in BOOLEAN
        /\ ownStack => ~reported'
        /\ ~ownStack => (reported' <=> sp' < et)
    <3>1. CASE ownStack
      BY <1>2, <1>9, <3>1 DEF Interrupt
    <3>2. CASE ~ownStack
      <4>1. reported' = (sp' < et) /\ sp' \in Int /\ et \in Int
        BY <1>3, <1>9, <3>2 DEF Interrupt, OnOwn, MainLimit
      <4>2. reported' \in BOOLEAN
        BY <4>1
      <4>3. reported' <=> sp' < et
        BY <4>1
      <4>. QED BY <3>2, <4>2, <4>3
    <3>. QED BY <3>1, <3>2
  <2>1. /\ running = "main" /\ running' = "isr"
        /\ IF ownStack THEN oldLimit' = et /\ et' = ExLimit /\ sp' = sp
           ELSE sp' = sp - Frame /\ UNCHANGED <<et, oldLimit>>
    BY <1>2, <1>9 DEF Interrupt
  <2>2. sp' = HeapLimit - 4 * k - Saved'
    BY <1>2, <1>3, <1>4, <2>1 DEF Saved
  <2>3. Good
    <3>1. sp' \in Int /\ sp' >= 4 - Frame /\ MainLimit' = MainLimit
          /\ IF OnOwn' THEN et' = ExLimit ELSE oldLimit' = 0
      BY <1>2, <1>3, <2>1 DEF OnOwn, MainLimit
    <3>2. ~reported' => sp' >= MainLimit
      BY <1>2, <1>3, <2>0, <2>1 DEF OnOwn, MainLimit
    <3>3. reported' /\ ~ownStack /\ ~rounded => sp' <= heapEnd
      BY <1>2, <1>3, <2>0, <2>1 DEF OnOwn, MainLimit
    <3>. QED BY <2>0, <2>2, <3>1, <3>2, <3>3
  <2>. QED BY <1>2, <1>3, <1>5, <1>6, <2>3 DEF Marks, Guarded
<1>10. CASE Return
  <2>0. reported' \in BOOLEAN /\ ~reported'
    BY <1>2, <1>10 DEF Return
  <2>1. /\ running = "isr" /\ running' = "main"
        /\ IF ownStack THEN et' = oldLimit /\ oldLimit' = 0 /\ UNCHANGED sp
           ELSE sp' = sp + Frame /\ UNCHANGED <<et, oldLimit>>
    BY <1>2, <1>10 DEF Return, Runs
  <2>2. sp' = HeapLimit - 4 * k - Saved'
    BY <1>2, <1>3, <1>4, <2>1 DEF Saved
  <2>3. Good
    <3>1. sp' \in Int /\ sp' >= 4 - Frame /\ MainLimit' = MainLimit
          /\ IF OnOwn' THEN et' = ExLimit ELSE oldLimit' = 0
      BY <1>2, <1>3, <2>1 DEF OnOwn, MainLimit
    <3>2. ~reported' => sp' >= MainLimit
      BY <1>2, <1>3, <2>0, <2>1 DEF OnOwn, MainLimit
    <3>3. reported' /\ ~ownStack /\ ~rounded => sp' <= heapEnd
      BY <1>2, <1>3, <2>0, <2>1 DEF OnOwn, MainLimit
    <3>. QED BY <2>0, <2>2, <3>1, <3>2, <3>3
  <2>. QED BY <1>2, <1>3, <1>5, <1>6, <2>3 DEF Marks, Guarded
<1>. QED BY <1>7, <1>8, <1>9, <1>10

\* sbrk's caller is alone in it.
LEMMA OnlyCaller ==
  ASSUME Inv, NEW w \in Who, Runs(w, pc[w]), pc[w] # "out"
  PROVE  \A v \in Who : v # w => pc[v] = "out"
BY DEF Inv, Alone, Runs

LEMMA SbrkStack ==
  ASSUME StackInv, NEW w \in Who,
         \/ \E n \in Incrs \cup {-k : k \in Backs} : Sbrk(w, n)
         \/ Align(w) \/ Test(w) \/ Extend(w) \/ Leave(w)
  PROVE  Marks' /\ Guarded'
<1>. USE HeapConstants, TopBounds
<1>1. /\ UNCHANGED <<et, oldLimit, sp, running, ownStack, reported>> /\ ~reported
      /\ running = w /\ \A v \in Who : v # w => pc[v] = "out" /\ pc'[v] = "out"
      /\ Inv /\ Marks /\ Guarded /\ pc \in [Who -> Places] /\ heapEnd \in Int
  BY DEF Sbrk, Align, Test, Extend, Leave, Runs, Goes, stack, StackInv, Inv, Alone, Types
<1>2. UNCHANGED <<OnOwn, MainLimit, Saved>>
  BY <1>1 DEF OnOwn, MainLimit, Saved
<1>3. CASE ~Extend(w)
  <2>1. /\ prev' = prev /\ pc[w] \notin {"limit", "old"} /\ pc'[w] \notin {"limit", "old"}
    BY <1>1, <1>3 DEF Sbrk, Align, Test, Leave, Runs, Goes
  <2>2. ~Moving /\ ~Moving'
    BY <1>1, <2>1 DEF Moving
  <2>3. /\ rounded' \in BOOLEAN /\ heapEnd' <= Top
        /\ ~rounded' => ~rounded /\ heapEnd' = heapEnd
    <3>1. CASE Align(w)
      <4>1. heapEnd' = Aligned(heapEnd) /\ rounded' = (rounded \/ heapEnd' # heapEnd)
        BY <3>1 DEF Align
      <4>2. heapEnd' <= Top
        BY <1>1, <4>1 DEF Marks
      <4>. QED BY <1>1, <4>1, <4>2 DEF Marks
    <3>2. CASE ~Align(w)
      <4>1. heapEnd' = heapEnd /\ rounded' = rounded
        BY <1>3, <3>2 DEF Sbrk, Test, Leave
      <4>. QED BY <1>1, <4>1 DEF Marks
    <3>. QED BY <3>1, <3>2
  <2>4. Marks'
    BY <1>1, <1>2, <2>1, <2>3 DEF Marks
  <2>. QED BY <1>1, <1>2, <2>1, <2>2, <2>3, <2>4 DEF Guarded
<1>4. CASE Extend(w)
  <2>1. /\ pc[w] = "extend" /\ pc' = [pc EXCEPT ![w] = "limit"] /\ rounded' = rounded
        /\ prev' = [prev EXCEPT ![w] = heapEnd] /\ heapEnd' = heapEnd + incr[w]
    BY <1>4 DEF Extend, Runs, Goes
  <2>2. heapEnd >= 8 /\ heapEnd \in 8 .. Top /\ heapEnd' <= HeapLimit /\ heapEnd' <= Top
    <3>1. heapEnd' <= HeapLimit /\ heapEnd' \in Int /\ heapEnd >= 8
      BY <1>1, <2>1, Room
    <3>. QED BY <1>1, <3>1 DEF Marks
  <2>3. ~Moving /\ (~rounded => MainLimit = heapEnd) /\ sp >= MainLimit
    BY <1>1, <2>1 DEF Moving, Guarded
  <2>4. prev' \in [Who -> {0} \cup Heap .. Top] /\ prev'[w] = heapEnd /\ pc'[w] = "limit" /\ Moving'
    BY <1>1, <2>1, <2>2 DEF Marks, Moving
  <2>5. Marks'
    BY <1>1, <1>2, <2>1, <2>2, <2>4 DEF Marks
  <2>. QED BY <1>1, <1>2, <2>1, <2>2, <2>3, <2>4, <2>5 DEF Guarded
<1>. QED BY <1>3, <1>4

LEMMA LimitStack ==
  ASSUME StackInv, NEW w \in Who, Limit(w) PROVE Marks' /\ Guarded'
<1>. USE HeapConstants, TopBounds
<1>1. /\ running = w /\ pc[w] = "limit" /\ ~reported /\ pc' = [pc EXCEPT ![w] = "old"]
      /\ et' = IF et = prev[w] THEN heapEnd ELSE et
      /\ UNCHANGED <<heapEnd, oldLimit, sp, running, prev, ownStack, rounded>>
  BY DEF Limit, Runs, Goes
<1>2. Inv /\ Marks /\ Guarded /\ pc \in [Who -> Places] /\ heapEnd \in Int /\ heapEnd >= 8
  BY DEF StackInv, Inv, Types
<1>0. /\ reported' \in BOOLEAN
      /\ et = prev[w] => (reported' <=> Sp(w) <= heapEnd)
      /\ et # prev[w] => ~reported'
  <2>1. CASE et = prev[w]
    <3>1. reported' = (Sp(w) <= heapEnd) /\ Sp(w) \in Int
      BY <1>2, <2>1 DEF Limit, Sp, Marks
    <3>2. reported' \in BOOLEAN
      BY <1>2, <3>1
    <3>3. reported' <=> Sp(w) <= heapEnd
      BY <1>2, <3>1
    <3>. QED BY <2>1, <3>2, <3>3
  <2>2. CASE et # prev[w]
    BY <1>1, <1>2, <2>2 DEF Limit, Marks
  <2>. QED BY <2>1, <2>2
<1>3. \A v \in Who : v # w => pc[v] = "out" /\ pc'[v] = "out"
  BY <1>1, <1>2 DEF Inv, Alone
<1>4. pc'[w] = "old" /\ Moving' /\ (~rounded => MainLimit = prev[w]) /\ sp >= MainLimit /\ prev[w] >= 8
      /\ MainLimit \in 8 .. HeapLimit /\ heapEnd <= HeapLimit /\ sp \in Int
  BY <1>1, <1>2 DEF Moving, Guarded, Marks
<1>5. CASE OnOwn
  <2>1. et = -100 /\ et # prev[w]
    BY <1>2, <1>4, <1>5 DEF Marks
  <2>2. UNCHANGED <<et, OnOwn, MainLimit, Saved>> /\ ~reported'
    BY <1>0, <1>1, <2>1 DEF OnOwn, MainLimit, Saved
  <2>3. Marks'
    BY <1>0, <1>1, <1>2, <2>2 DEF Marks
  <2>. QED BY <1>1, <1>2, <1>3, <1>4, <1>5, <2>2, <2>3 DEF Guarded
<1>6. CASE ~OnOwn
  <2>1. (~rounded => et = prev[w]) /\ Sp(w) = sp
    BY <1>1, <1>4, <1>6 DEF OnOwn, MainLimit, Sp
  <2>2. /\ ~OnOwn' /\ Saved' = Saved
        /\ \/ et' = heapEnd /\ (reported' <=> sp <= heapEnd) /\ MainLimit' = heapEnd
           \/ rounded /\ ~reported' /\ MainLimit' = MainLimit
    BY <1>0, <1>1, <1>6, <2>1 DEF OnOwn, MainLimit, Saved
  <2>3. Marks'
    BY <1>0, <1>1, <1>2, <1>4, <1>6, <2>2 DEF Marks
  <2>. QED BY <1>1, <1>2, <1>3, <1>4, <2>2, <2>3 DEF Guarded
<1>. QED BY <1>5, <1>6

LEMMA OldLimitStack ==
  ASSUME StackInv, NEW w \in Who, OldLimit(w) PROVE Marks' /\ Guarded'
<1>. USE HeapConstants, TopBounds
<1>1. /\ running = w /\ pc[w] = "old" /\ ~reported /\ pc' = [pc EXCEPT ![w] = "leave"]
      /\ IF ownStack /\ oldLimit = prev[w]
         THEN (reported' <=> oldLimit <= heapEnd) /\ oldLimit' = heapEnd
         ELSE oldLimit' = oldLimit /\ ~reported'
      /\ reported' \in BOOLEAN
      /\ UNCHANGED <<heapEnd, et, sp, running, prev, ownStack, rounded>>
  BY DEF OldLimit, Runs, Goes, StackInv, Marks
<1>2. Inv /\ Marks /\ Guarded /\ pc \in [Who -> Places] /\ heapEnd \in Int /\ heapEnd >= 8
  BY DEF StackInv, Inv, Types
<1>3. \A v \in Who : v # w => pc[v] = "out" /\ pc'[v] = "out"
  BY <1>1, <1>2 DEF Inv, Alone
<1>4. pc'[w] = "leave" /\ ~Moving' /\ sp >= MainLimit /\ prev[w] >= 8 /\ prev[w] \in Int
      /\ MainLimit \in 8 .. HeapLimit /\ heapEnd <= HeapLimit /\ sp \in Int
  BY <1>1, <1>2, <1>3 DEF Moving, Guarded, Marks
<1>5. CASE OnOwn
  <2>1. MainLimit = oldLimit /\ (~rounded => oldLimit = prev[w])
    BY <1>1, <1>2, <1>5 DEF Guarded, MainLimit
  <2>2. /\ OnOwn' /\ Saved' = Saved /\ ownStack /\ MainLimit' = oldLimit'
        /\ \/ oldLimit' = heapEnd /\ (reported' <=> oldLimit <= heapEnd)
           \/ rounded /\ oldLimit' = oldLimit /\ ~reported'
    BY <1>1, <1>5, <2>1 DEF OnOwn, MainLimit, Saved
  <2>3. Marks'
    BY <1>1, <1>2, <1>4, <1>5, <2>1, <2>2 DEF Marks
  <2>. QED BY <1>1, <1>2, <1>3, <1>4, <1>5, <2>1, <2>2, <2>3 DEF Guarded, OnOwn
<1>6. CASE ~OnOwn
  <2>1. oldLimit = 0 /\ (~rounded => MainLimit = heapEnd)
    BY <1>1, <1>2, <1>6 DEF Marks, Guarded
  <2>2. UNCHANGED <<oldLimit, OnOwn, MainLimit, Saved>> /\ ~reported'
    BY <1>1, <1>4, <2>1 DEF OnOwn, MainLimit, Saved
  <2>3. Marks'
    BY <1>1, <1>2, <2>2 DEF Marks
  <2>. QED BY <1>1, <1>2, <1>3, <1>4, <2>1, <2>2, <2>3 DEF Guarded
<1>. QED BY <1>5, <1>6

LEMMA StackNext == StackInv /\ [Next]_vars => StackInv'
<1>. SUFFICES ASSUME StackInv, [Next]_vars PROVE Marks' /\ Guarded'
  BY NextInv DEF StackInv
<1>1. CASE UNCHANGED vars
  BY <1>1 DEF vars, stack, local, StackInv, Marks, Guarded, OnOwn, MainLimit, Saved, Moving
<1>2. CASE Next
  BY <1>2, StacksMove, SbrkStack, LimitStack, OldLimitStack DEF Next
<1>. QED BY <1>1, <1>2

LEMMA StackPromises ==
  StackInv => TypeOK /\ LimitHolds /\ CollisionSeen /\ (~ownStack => ReportsOnlyOverflow)
<1>. USE HeapConstants, TopBounds
<1>. SUFFICES ASSUME StackInv PROVE TypeOK /\ LimitHolds /\ CollisionSeen /\ (~ownStack => ReportsOnlyOverflow)
  OBVIOUS
<1>1. Inv /\ Marks /\ Guarded /\ heapEnd \in 8 .. Top
  BY DEF StackInv, Inv, Types, Marks
<1>2. et \in Addresses \cup {ExLimit} /\ oldLimit \in Addresses
  BY <1>1 DEF Marks, MainLimit, Addresses
<1>3. sp \in Addresses /\ sp <= HeapLimit
  <2>1. PICK k \in Nat : sp = HeapLimit - 4 * k - Saved
    BY <1>1 DEF Marks
  <2>2. Saved \in Nat
    BY DEF Saved
  <2>. QED BY <1>1, <2>1, <2>2 DEF Marks, Addresses
<1>4. prev \in [Who -> Addresses]
  <2>1. {0} \cup Heap .. Top \subseteq Addresses
    BY DEF Addresses
  <2>. QED BY <1>1, <2>1 DEF Marks
<1>5. TypeOK
  BY <1>1, <1>2, <1>3, <1>4 DEF TypeOK, Inv, Types, Marks, Places, Sizes
<1>6. LimitHolds /\ CollisionSeen
  BY <1>1 DEF LimitHolds, CollisionSeen, NoSilentCollision, Outside, Guarded, Moving, MainLimit, OnOwn
<1>. QED BY <1>1, <1>5, <1>6 DEF Guarded, ReportsOnlyOverflow

\* The stack never passes its limit unreported, and until an odd end of the heap
\* has been rounded up it never runs into the heap unreported, whichever of the
\* two grew, on either stack, whatever number of bytes sbrk is asked for.
THEOREM CollisionsAreReported == Spec => [](LimitHolds /\ CollisionSeen)
<1>1. StackInv => LimitHolds /\ CollisionSeen
  BY StackPromises
<1>. QED BY <1>1, StackInit, StackNext, PTL DEF Spec

\* The run's property.
THEOREM HeapKeepsItsWord == MCSpec => []CollisionsReported
<1>. DEFINE I == unit = "heap" => StackInv
<1>1. MCInit => I
  BY StackInit DEF MCInit
<1>2. I /\ [MCNext]_mcVars => I'
  <2>. SUFFICES ASSUME I, [MCNext]_mcVars, unit' = "heap" PROVE StackInv'
    OBVIOUS
  <2>1. [Next]_vars /\ unit = "heap"
    BY DEF MCNext, mcVars
  <2>. QED BY <2>1, StackNext
<1>3. I => CollisionsReported
  BY StackPromises DEF CollisionsReported
<1>. QED BY <1>1, <1>2, <1>3, PTL DEF MCSpec

-----------------------------------------------------------------------------
(***************************************************************************)
(* The descriptors.                                                        *)
(***************************************************************************)
Fds   == Desc!Fd
Spots == {"idle", "flags", "mark", "scan", "callback", "move"}

\* A caller of open() that has a descriptor and has not returned it.
Opener(t) == fAt[t] # "idle" /\ idx[t] # -1

FTypes ==
  /\ Desc!TypeOK
  /\ devList \in Seq(Devices \cup {Null}) /\ fsList \in Seq(FileSystems)
  /\ want \in [Threads -> SUBSET Desc!Bits]

\* While the system boots MainThread alone opens, and a stream it has not come to is
\* still the null device's.
Booting ==
  /\ boot = -1 => fAt[MainThread] = "idle"
  /\ boot < 3 => /\ held = {0, 1, 2}
                 /\ \A t \in Threads : t # MainThread => fAt[t] = "idle"
                 /\ \A i \in 0 .. 2 : i >= boot => dev[Desc!Order[i + 1]] = Null
  /\ boot = 3 => \A t \in Threads : fAt[t] # "move"
  /\ \A t \in Threads : fAt[t] = "idle" => idx[t] = -1
  /\ \A t \in Threads : fAt[t] \notin {"idle", "move"} => idx[t] # -1
  /\ {0, 1, 2} \subseteq held

\* A descriptor being opened is one opener's, taken, and nobody's yet.
Openers ==
  /\ \A t \in Threads : Opener(t) => idx[t] > 2 /\ dev[idx[t]] # None /\ idx[t] \notin held
  /\ \A t \in Threads : fAt[t] \in {"mark", "scan"} => dev[idx[t]] \notin FileSystems
  /\ \A t, u \in Threads : Opener(t) /\ Opener(u) /\ idx[t] = idx[u] => t = u

\* What is taken is a stream, held or being opened, and lies below the mark; a
\* free descriptor has no flags; a lock is on a held descriptor of a device.
PoolInv ==
  /\ \A f \in Fds : f <= 2 \/ f \in held => dev[f] # None
  /\ \A f \in Fds : dev[f] # None => f <= 2 \/ f \in held \/ f \in Desc!Opening
  /\ \A f \in Fds : f > 2 /\ dev[f] # None => f <= maxFd
  /\ \A f \in Fds : dev[f] = None => flags[f] = {}
  /\ \A f \in Fds : "EXCL" \in flags[f] => f \in held /\ "DEV" \in flags[f]
  /\ \A f \in Fds : "DEV" \in flags[f] => dev[f] \notin FileSystems

\* stdin is not write only, and stdout and stderr are unless they stayed at the
\* null device: so is what is being opened for them.
StreamInv ==
  /\ "WRONLY" \notin flags[0]
  /\ \A f \in {1, 2} : dev[f] = Null \/ "WRONLY" \in flags[f]
  /\ boot < 3 /\ Opener(MainThread) =>
       /\ fAt[MainThread] # "flags" => ("WRONLY" \in flags[idx[MainThread]] <=> boot # 1)
       /\ fAt[MainThread] = "flags" => ("WRONLY" \in want[MainThread] <=> boot # 1)
  /\ last.call \in {"read", "write"} => boot = 3
  /\ Desc!StreamsUsable

\* Whoever opens g has yet to look whether f is locked.
Unlooked(f, g) ==
  \E t \in Threads : /\ fAt[t] \in {"flags", "mark", "scan"} /\ idx[t] = g
                     /\ fAt[t] = "scan" => pos[t] <= f

\* While the last descriptor stays open the mark stays at the top, so that lock
\* looks at all others: a second descriptor of a locked device is one whose open()
\* has yet to find the lock.
PinInv ==
  use.pinned =>
    /\ boot = 3 /\ maxFd = MaxFd - 1 /\ MaxFd - 1 \in held /\ dev[MaxFd - 1] \in FileSystems
    /\ \A f, g \in Fds : "EXCL" \in flags[f] /\ g # f /\ dev[g] = dev[f] =>
         Unlooked(f, g)

FilesInv == FTypes /\ Booting /\ Openers /\ PoolInv /\ StreamInv /\ PinInv

-----------------------------------------------------------------------------
LEMMA FilesConstants ==
  /\ MaxFd \in Nat /\ MaxFd > 3 /\ MainThread \in Threads /\ IsFiniteSet(Devices)
  /\ Null \notin Devices \cup FileSystems /\ None \notin Desc!All
  /\ Devices \cap FileSystems = {}
  /\ \A u \in Uses : u.threads \subseteq Threads /\ u.args \subseteq SUBSET Desc!Bits
  BY ResourcesAssumption DEF ResourcesAssumption, Desc!MaxFdAssumption, Desc!MainAssumption,
     Desc!DevicesAssumption, Desc!UsesAssumption, Desc!All, IsFiniteSet, Desc!IsFiniteSet

LEMMA SameCount == \A S : Desc!Cardinality(S) = Cardinality(S)
  BY DEF Cardinality, Desc!Cardinality

LEMMA SetFlagsInv == ASSUME FilesInv, NEW t \in Threads, Desc!SetFlags(t) PROVE FilesInv'
<1>. USE FilesConstants
<1>. DEFINE f == idx[t]
<1>1. /\ fAt[t] = "flags" /\ f \in Fds /\ f > 2 /\ f \notin held /\ dev[f] # None /\ Opener(t)
  BY DEF FilesInv, Booting, Openers, Opener, Desc!SetFlags, FTypes, Desc!TypeOK, Fds, Desc!Fd
<1>2. /\ flags' = [flags EXCEPT ![f] = want[t] \ Desc!Mask]
      /\ fAt' = [fAt EXCEPT ![t] = IF dev[f] \in FileSystems THEN "callback" ELSE "mark"]
      /\ UNCHANGED <<use, boot, devList, fsList, dev, maxFd, idx, want, pos, held, users, last>>
  BY DEF Desc!SetFlags, Desc!Goes, Desc!lists
<1>3. flags \in [Fds -> SUBSET Desc!Bits] /\ fAt \in [Threads -> Spots]
      /\ want[t] \in SUBSET Desc!Bits
  BY DEF FilesInv, FTypes, Desc!TypeOK, Fds, Desc!Fd, Spots
<1>4. FTypes'
  BY <1>1, <1>2, <1>3 DEF FilesInv, FTypes, Desc!TypeOK, Fds, Desc!Fd
<1>5. Booting'
  BY <1>1, <1>2, <1>3 DEF FilesInv, Booting
<1>6. Openers'
  BY <1>1, <1>2, <1>3 DEF FilesInv, Openers, Opener
<1>7. PoolInv'
  BY <1>1, <1>2, <1>3 DEF FilesInv, PoolInv, Desc!Opening, Desc!Mask, Fds, Desc!Fd
<1>8. StreamInv'
  BY <1>1, <1>2, <1>3
     DEF FilesInv, StreamInv, Booting, Desc!StreamsUsable, Opener, Desc!Mask, Fds, Desc!Fd
<1>9. PinInv'
  BY <1>1, <1>2, <1>3 DEF FilesInv, PinInv, Unlooked, Desc!Mask, PoolInv
<1>. QED BY <1>4, <1>5, <1>6, <1>7, <1>8, <1>9 DEF FilesInv

LEMMA MarkInv == ASSUME FilesInv, NEW t \in Threads, Desc!Mark(t) PROVE FilesInv'
<1>. USE FilesConstants
<1>. DEFINE f == idx[t]
<1>1. /\ fAt[t] = "mark" /\ f \in Fds /\ f > 2 /\ f \notin held /\ dev[f] # None /\ Opener(t)
      /\ dev[f] \notin FileSystems
  BY DEF FilesInv, Booting, Openers, Opener, Desc!Mark, FTypes, Desc!TypeOK, Fds, Desc!Fd
<1>2. /\ flags' = [flags EXCEPT ![f] = flags[f] \cup {"DEV"}]
      /\ fAt' = [fAt EXCEPT ![t] = "scan"] /\ pos' = [pos EXCEPT ![t] = 0]
      /\ UNCHANGED <<use, boot, devList, fsList, dev, maxFd, idx, want, held, users, last>>
  BY DEF Desc!Mark, Desc!Goes, Desc!lists
<1>3. flags \in [Fds -> SUBSET Desc!Bits] /\ fAt \in [Threads -> Spots]
      /\ pos \in [Threads -> 0 .. MaxFd]
  BY DEF FilesInv, FTypes, Desc!TypeOK, Fds, Desc!Fd, Spots
<1>4. FTypes'
  BY <1>1, <1>2, <1>3 DEF FilesInv, FTypes, Desc!TypeOK, Fds, Desc!Fd, Desc!Bits, Desc!Mask
<1>5. Booting'
  BY <1>1, <1>2, <1>3 DEF FilesInv, Booting
<1>6. Openers'
  BY <1>1, <1>2, <1>3 DEF FilesInv, Openers, Opener
<1>7. PoolInv'
  BY <1>1, <1>2, <1>3 DEF FilesInv, PoolInv, Desc!Opening, Fds, Desc!Fd
<1>8. StreamInv'
  BY <1>1, <1>2, <1>3 DEF FilesInv, StreamInv, Booting, Desc!StreamsUsable, Opener, Fds, Desc!Fd
<1>9. PinInv'
  <2>. SUFFICES ASSUME NEW e \in Fds, NEW g \in Fds, Unlooked(e, g) PROVE Unlooked(e, g)'
    BY <1>1, <1>2, <1>3 DEF FilesInv, PinInv
  <2>. QED BY <1>1, <1>2, <1>3 DEF Unlooked, Fds, Desc!Fd
<1>. QED BY <1>4, <1>5, <1>6, <1>7, <1>8, <1>9 DEF FilesInv

LEMMA GiveUpInv ==
  ASSUME FilesInv, NEW t \in Threads, fAt[t] \in {"scan", "callback"}, NEW e \in Desc!Error,
         Desc!Release(idx[t]), Desc!Ends(t, -1, e), UNCHANGED <<use, boot, Desc!lists, users>>
  PROVE  FilesInv'
<1>. USE FilesConstants
<1>. DEFINE f == idx[t]
<1>1. /\ f \in Fds /\ f > 2 /\ f \notin held /\ dev[f] # None /\ Opener(t) /\ e # "ok"
      /\ boot \in -1 .. 3 /\ (boot < 3 => t = MainThread /\ boot >= 0)
  BY DEF FilesInv, Booting, Openers, Opener, FTypes, Desc!TypeOK, Fds, Desc!Fd, Desc!Error
<1>2. /\ flags' = [flags EXCEPT ![f] = {}] /\ dev' = [dev EXCEPT ![f] = None]
      /\ fAt' = [fAt EXCEPT ![t] = IF boot = 3 THEN "idle" ELSE "move"]
      /\ idx' = [idx EXCEPT ![t] = -1] /\ want' = [want EXCEPT ![t] = {}]
      /\ pos' = [pos EXCEPT ![t] = 0]
      /\ UNCHANGED <<use, boot, devList, fsList, maxFd, held, users>>
      /\ last' = [call |-> "open", fd |-> -1, value |-> e]
  BY <1>1 DEF Desc!Release, Desc!Ends, Desc!Returns, Desc!lists
<1>3. /\ flags \in [Fds -> SUBSET Desc!Bits] /\ fAt \in [Threads -> Spots]
      /\ dev \in [Fds -> Desc!All \cup {None}] /\ idx \in [Threads -> Fds \cup {-1}]
      /\ pos \in [Threads -> 0 .. MaxFd] /\ want \in [Threads -> SUBSET Desc!Bits]
      /\ maxFd \in -1 .. MaxFd - 1
  BY DEF FilesInv, FTypes, Desc!TypeOK, Fds, Desc!Fd, Spots
<1>4. FTypes'
  BY <1>1, <1>2, <1>3 DEF FilesInv, FTypes, Desc!TypeOK, Fds, Desc!Fd
<1>5. Booting'
  BY <1>1, <1>2, <1>3 DEF FilesInv, Booting, Fds, Desc!Fd, Desc!Order
<1>6. Openers'
  BY <1>1, <1>2, <1>3 DEF FilesInv, Openers, Opener
<1>7. PoolInv'
  BY <1>1, <1>2, <1>3 DEF FilesInv, PoolInv, Desc!Opening, Fds, Desc!Fd
<1>8. StreamInv'
  BY <1>1, <1>2, <1>3 DEF FilesInv, StreamInv, Booting, Desc!StreamsUsable, Opener, Fds, Desc!Fd
<1>9. PinInv'
  BY <1>1, <1>2, <1>3 DEF FilesInv, PinInv, Unlooked, PoolInv, Fds, Desc!Fd
<1>. QED BY <1>4, <1>5, <1>6, <1>7, <1>8, <1>9 DEF FilesInv

LEMMA ScanInv == ASSUME FilesInv, NEW t \in Threads, Desc!Scan(t) PROVE FilesInv'
<1>. USE FilesConstants
<1>. DEFINE f == idx[t]
            Blocks == pos[t] # f /\ dev[pos[t]] = dev[f] /\ "EXCL" \in flags[pos[t]]
<1>1. CASE Blocks
  BY <1>1, GiveUpInv DEF Desc!Scan, Desc!Error
<1>2. CASE ~Blocks
  <2>1. /\ fAt[t] = "scan" /\ f \in Fds /\ Opener(t) /\ pos[t] \in 0 .. MaxFd - 1
        /\ pos[t] <= maxFd /\ maxFd \in -1 .. MaxFd - 1
    <3>1. fAt[t] = "scan" /\ pos[t] <= maxFd
      BY DEF Desc!Scan
    <3>2. maxFd \in -1 .. MaxFd - 1 /\ pos[t] \in 0 .. MaxFd /\ f \in Fds \cup {-1}
      BY DEF FilesInv, FTypes, Desc!TypeOK, Fds
    <3>3. f # -1
      BY <3>1 DEF FilesInv, Booting
    <3>. QED BY <3>1, <3>2, <3>3 DEF Opener
  <2>2. /\ pos' = [pos EXCEPT ![t] = pos[t] + 1]
        /\ UNCHANGED <<use, boot, devList, fsList, dev, flags, maxFd, fAt, idx, want, held,
                       users, last>>
    BY <1>2 DEF Desc!Scan, Desc!lists, Desc!pool
  <2>3. pos \in [Threads -> 0 .. MaxFd] /\ fAt \in [Threads -> Spots]
        /\ idx \in [Threads -> Fds \cup {-1}]
    BY DEF FilesInv, FTypes, Desc!TypeOK, Fds, Desc!Fd, Spots
  <2>4. FTypes'
    BY <2>1, <2>2, <2>3 DEF FilesInv, FTypes, Desc!TypeOK, Fds, Desc!Fd
  <2>5. Booting' /\ Openers' /\ PoolInv' /\ StreamInv'
    BY <2>2 DEF FilesInv, Booting, Openers, PoolInv, StreamInv, Desc!StreamsUsable, Opener,
                Desc!Opening
  <2>6. PinInv'
    <3>1. ASSUME use.pinned, NEW e \in Fds, NEW g \in Fds, Unlooked(e, g),
                 "EXCL" \in flags[e], g # e, dev[g] = dev[e]
          PROVE  Unlooked(e, g)'
      <4>1. PICK u \in Threads : /\ fAt[u] \in {"flags", "mark", "scan"} /\ idx[u] = g
                                 /\ fAt[u] = "scan" => pos[u] <= e
        BY <3>1 DEF Unlooked
      <4>2. u = t => pos[t] # e
        BY <1>2, <3>1, <4>1
      <4>3. fAt'[u] = "scan" => pos'[u] <= e
        BY <2>1, <2>2, <2>3, <4>1, <4>2 DEF Fds, Desc!Fd
      <4>. QED BY <2>2, <4>1, <4>3 DEF Unlooked
    <3>. QED BY <2>2, <3>1 DEF FilesInv, PinInv
  <2>. QED BY <2>4, <2>5, <2>6 DEF FilesInv
<1>. QED BY <1>1, <1>2

LEMMA NotLockedInv == ASSUME FilesInv, NEW t \in Threads, Desc!NotLocked(t) PROVE FilesInv'
<1>. USE FilesConstants
<1>1. /\ fAt[t] = "scan" /\ idx[t] \in Fds /\ Opener(t) /\ pos[t] > maxFd
      /\ maxFd \in -1 .. MaxFd - 1 /\ pos[t] \in 0 .. MaxFd
  BY DEF FilesInv, Booting, Openers, Opener, Desc!NotLocked, FTypes, Desc!TypeOK, Fds, Desc!Fd
<1>2. /\ fAt' = [fAt EXCEPT ![t] = "callback"]
      /\ UNCHANGED <<use, boot, devList, fsList, dev, flags, maxFd, idx, want, pos, held,
                     users, last>>
  BY DEF Desc!NotLocked, Desc!Goes, Desc!lists, Desc!pool
<1>3. fAt \in [Threads -> Spots]
  BY DEF FilesInv, FTypes, Desc!TypeOK, Spots
<1>4. FTypes'
  BY <1>1, <1>2, <1>3 DEF FilesInv, FTypes, Desc!TypeOK, Fds, Desc!Fd
<1>5. Booting'
  BY <1>1, <1>2, <1>3 DEF FilesInv, Booting
<1>6. Openers'
  BY <1>1, <1>2, <1>3 DEF FilesInv, Openers, Opener
<1>7. PoolInv'
  BY <1>1, <1>2, <1>3 DEF FilesInv, PoolInv, Desc!Opening, Fds, Desc!Fd
<1>8. StreamInv'
  BY <1>1, <1>2, <1>3 DEF FilesInv, StreamInv, Booting, Desc!StreamsUsable, Opener
<1>9. PinInv'
  BY <1>1, <1>2, <1>3 DEF FilesInv, PinInv, Unlooked, Fds, Desc!Fd
<1>. QED BY <1>4, <1>5, <1>6, <1>7, <1>8, <1>9 DEF FilesInv

-----------------------------------------------------------------------------
\* The search for a free descriptor, and for the owner of a name, finds the first.
Less == {ss \in Nat \X Nat : ss[1] < ss[2]}

LEMMA LessIsWellFounded == IsWellFoundedOn(Less, Nat)
BY NatLessThanWellFounded DEF OpToRel, Less

LEMMA HasLowest ==
  ASSUME NEW S \in SUBSET Nat, S # {}
  PROVE  \E x \in S : \A y \in S : x <= y
<1>2. PICK x \in S : \A y \in S : ~(<<y, x>> \in Less)
  BY LessIsWellFounded, WFMin
<1>3. \A m, n \in Nat : n < m => <<n, m>> \in Less
  BY DEF Less
<1>4. \A y \in S : x <= y
  <2>. TAKE y \in S
  <2>1. x \in Nat /\ y \in Nat OBVIOUS
  <2>2. ~(y < x) BY <1>2, <1>3, <2>1
  <2>. QED BY <2>1, <2>2
<1>. QED BY <1>4

Fresh == CHOOSE f \in Fds : dev[f] = None /\ \A g \in 0 .. f - 1 : dev[g] # None

LEMMA FreshIsFree == ASSUME ~Desc!Full PROVE Fresh \in Fds /\ dev[Fresh] = None
<1>. DEFINE S == {f \in Fds : dev[f] = None}
<1>1. S # {} /\ S \in SUBSET Nat
  BY FilesConstants DEF Desc!Full, Fds, Desc!Fd
<1>2. PICK f \in S : \A g \in S : f <= g
  BY <1>1, HasLowest
<1>3. \A g \in 0 .. f - 1 : dev[g] # None
  BY <1>1, <1>2, FilesConstants DEF Fds, Desc!Fd
<1>. QED BY <1>2, <1>3 DEF Fresh

LEMMA Listed == ASSUME NEW S, NEW s \in Seq(S) PROVE Desc!Range(s) \subseteq S
  BY DEF Desc!Range

LEMMA FirstIs ==
  ASSUME NEW S, NEW s \in Seq(S), NEW I \in SUBSET (1 .. Len(s))
  PROVE  LET i == IF I # {} THEN Desc!Min(I) ELSE 0
         IN  (IF i = 0 THEN None ELSE s[i]) \in S \cup {None}
<1>1. CASE I = {}
  BY <1>1
<1>2. CASE I # {}
  <2>1. PICK i \in I : \A j \in I : i <= j
    BY <1>2, HasLowest
  <2>2. Desc!Min(I) \in I
    BY <2>1 DEF Desc!Min
  <2>. \A k \in 1 .. Len(s) : k # 0 /\ s[k] \in S
    OBVIOUS
  <2>3. Desc!Min(I) # 0 /\ s[Desc!Min(I)] \in S
    BY <2>2
  <2>. QED BY <1>2, <2>3
<1>. QED BY <1>1, <1>2

LEMMA OwnerIs == ASSUME FTypes, NEW name PROVE Desc!Owner(name) \in Desc!All \cup {None}
<1>1. Desc!FindDev(name) \in Devices \cup {Null} \cup {None}
  <2>. DEFINE I == {i \in 1 .. Len(devList) : NameOf[devList[i]] = name}
  <2>. I \in SUBSET (1 .. Len(devList))
    OBVIOUS
  <2>. HIDE DEF I
  <2>1. (IF (IF I # {} THEN Desc!Min(I) ELSE 0) = 0 THEN None
         ELSE devList[IF I # {} THEN Desc!Min(I) ELSE 0]) \in Devices \cup {Null} \cup {None}
    BY FirstIs DEF FTypes
  <2>. QED BY <2>1 DEF Desc!FindDev, Desc!First, Desc!SelectInSeq, I
<1>2. Desc!FindFile(name) \in FileSystems \cup {None}
  <2>. DEFINE I == {i \in 1 .. Len(fsList) : Desc!IsPrefix(NameOf[fsList[i]], name)}
  <2>. I \in SUBSET (1 .. Len(fsList))
    OBVIOUS
  <2>. HIDE DEF I
  <2>1. (IF (IF I # {} THEN Desc!Min(I) ELSE 0) = 0 THEN None
         ELSE fsList[IF I # {} THEN Desc!Min(I) ELSE 0]) \in FileSystems \cup {None}
    BY FirstIs DEF FTypes
  <2>. QED BY <2>1 DEF Desc!FindFile, Desc!First, Desc!SelectInSeq, I
<1>. QED BY <1>1, <1>2 DEF Desc!Owner, Desc!All

LEMMA BeginInv ==
  ASSUME FilesInv, NEW t \in Threads, NEW name, NEW args \in SUBSET Desc!Bits,
         Desc!Begin(t, name, args),
         boot = 3 \/ (boot \in 0 .. 2 /\ t = MainThread /\ ("WRONLY" \in args <=> boot # 1))
  PROVE  FilesInv'
<1>. USE FilesConstants
<1>1. fAt[t] = "idle" /\ idx[t] = -1
  BY DEF Desc!Begin, FilesInv, Booting
<1>2. /\ flags \in [Fds -> SUBSET Desc!Bits] /\ fAt \in [Threads -> Spots]
      /\ dev \in [Fds -> Desc!All \cup {None}] /\ idx \in [Threads -> Fds \cup {-1}]
      /\ pos \in [Threads -> 0 .. MaxFd] /\ want \in [Threads -> SUBSET Desc!Bits]
      /\ maxFd \in -1 .. MaxFd - 1 /\ boot \in -1 .. 3
  BY DEF FilesInv, FTypes, Desc!TypeOK, Fds, Desc!Fd, Spots
<1>. DEFINE Fails == \E e \in Desc!Error :
              Desc!Ends(t, -1, e) /\ UNCHANGED <<Desc!pool, use, boot, Desc!lists, users>>
<1>3. CASE Fails
  <2>1. PICK e \in Desc!Error : Desc!Ends(t, -1, e)
    BY <1>3
  <2>2. /\ UNCHANGED <<use, boot, devList, fsList, dev, flags, maxFd, held, users>>
        /\ fAt' = [fAt EXCEPT ![t] = IF boot = 3 THEN "idle" ELSE "move"]
        /\ idx' = [idx EXCEPT ![t] = -1] /\ want' = [want EXCEPT ![t] = {}]
        /\ pos' = [pos EXCEPT ![t] = 0]
        /\ last' = [call |-> "open", fd |-> -1, value |-> e]
    BY <1>3, <2>1 DEF Desc!Ends, Desc!Returns, Desc!lists, Desc!pool, Desc!Error
  <2>4. FTypes'
    BY <1>1, <1>2, <2>2 DEF FilesInv, FTypes, Desc!TypeOK, Fds, Desc!Fd
  <2>5. Booting'
    BY <1>1, <1>2, <2>2 DEF FilesInv, Booting
  <2>6. Openers'
    BY <1>1, <1>2, <2>2 DEF FilesInv, Openers, Opener
  <2>7. PoolInv'
    BY <1>1, <1>2, <2>2 DEF FilesInv, PoolInv, Desc!Opening, Fds, Desc!Fd
  <2>8. StreamInv'
    BY <1>1, <1>2, <2>2 DEF FilesInv, StreamInv, Booting, Desc!StreamsUsable, Opener
  <2>9. PinInv'
    <3>1. \A f, g \in Fds : Unlooked(f, g) => Unlooked(f, g)'
      BY <1>1, <1>2, <2>2 DEF Unlooked
    <3>. QED BY <1>1, <1>2, <2>2, <3>1 DEF FilesInv, PinInv
  <2>. QED BY <2>4, <2>5, <2>6, <2>7, <2>8, <2>9 DEF FilesInv
<1>4. CASE ~Fails
  <2>. DEFINE d == Desc!Owner(name)
  <2>1. /\ d # None /\ ~Desc!Full /\ Desc!GetFd(d) /\ UNCHANGED flags
        /\ idx' = [idx EXCEPT ![t] = Fresh] /\ want' = [want EXCEPT ![t] = args]
        /\ fAt' = [fAt EXCEPT ![t] = "flags"]
        /\ UNCHANGED <<use, boot, devList, fsList, pos, held, users, last>>
    BY <1>4 DEF Desc!Begin, Desc!Error, Desc!Goes, Desc!lists, Fresh, Fds
  <2>f. Fresh \in Fds /\ dev[Fresh] = None
    BY <2>1, FreshIsFree
  <2>g. PICK f \in Fds : f = Fresh
    BY <2>f
  <2>2. dev[f] = None /\ idx' = [idx EXCEPT ![t] = f]
    BY <2>1, <2>f, <2>g
  <2>3. /\ dev' = [dev EXCEPT ![f] = d]
        /\ maxFd' = IF f > maxFd THEN f ELSE maxFd
    BY <2>1, <2>g DEF Desc!GetFd, Fresh, Fds
  <2>. d \in Desc!All
    BY <2>1, OwnerIs DEF FilesInv
  <2>. HIDE DEF d
  <2>a. f > 2 /\ f \notin held /\ \A u \in Threads : idx[u] # f
    <3>1. f > 2 /\ f \notin held
      BY <2>2 DEF FilesInv, PoolInv, Fds, Desc!Fd
    <3>2. ASSUME NEW u \in Threads, idx[u] = f PROVE FALSE
      BY <2>2, <3>1, <3>2 DEF FilesInv, Booting, Openers, Opener, Fds, Desc!Fd
    <3>. QED BY <3>1, <3>2
  <2>4. FTypes'
    BY <1>1, <1>2, <2>1, <2>2, <2>3 DEF FilesInv, FTypes, Desc!TypeOK, Fds, Desc!Fd
  <2>5. Booting'
    BY <1>1, <1>2, <2>1, <2>2, <2>3, <2>a DEF FilesInv, Booting, Desc!Order, Fds, Desc!Fd
  <2>6. Openers'
    BY <1>1, <1>2, <2>1, <2>2, <2>3, <2>a DEF FilesInv, Openers, Opener
  <2>7. PoolInv'
    BY <1>1, <1>2, <2>1, <2>2, <2>3, <2>a DEF FilesInv, PoolInv, Desc!Opening, Fds, Desc!Fd
  <2>8. StreamInv'
    BY <1>1, <1>2, <2>1, <2>2, <2>3, <2>a
       DEF FilesInv, StreamInv, Booting, Desc!StreamsUsable, Opener, Fds, Desc!Fd
  <2>9. PinInv'
    <3>1. \A e, g \in Fds : Unlooked(e, g) => Unlooked(e, g)'
      BY <1>1, <1>2, <2>1, <2>2 DEF Unlooked
    <3>2. \A e \in Fds : Unlooked(e, f)'
      <4>1. fAt'[t] = "flags" /\ idx'[t] = f
        BY <1>2, <2>1, <2>2
      <4>. QED BY <4>1 DEF Unlooked
    <3>3. "EXCL" \notin flags[f]
      BY <2>2 DEF FilesInv, PoolInv
    <3>. QED
      BY <1>1, <1>2, <2>1, <2>2, <2>3, <2>a, <3>1, <3>2, <3>3
         DEF FilesInv, PinInv, Fds, Desc!Fd
  <2>. QED BY <2>4, <2>5, <2>6, <2>7, <2>8, <2>9 DEF FilesInv
<1>. QED BY <1>3, <1>4

LEMMA OpenInv ==
  ASSUME FilesInv, NEW t \in Threads, NEW name, NEW args, Desc!Open(t, name, args)
  PROVE  FilesInv'
<1>1. boot = 3 /\ args \in SUBSET Desc!Bits /\ Desc!Begin(t, name, args)
  BY FilesConstants DEF Desc!Open, FilesInv, FTypes, Desc!TypeOK
<1>. QED BY <1>1, BeginInv

LEMMA RedirectInv == ASSUME FilesInv, Desc!Redirect PROVE FilesInv'
<1>. DEFINE s == Desc!Order[boot + 1]
            args == IF s = 0 THEN {} ELSE {"WRONLY"}
<1>1. boot \in 0 .. 2 /\ Desc!Begin(MainThread, use.streams[s], args)
  BY DEF Desc!Redirect
<1>2. ("WRONLY" \in args <=> boot # 1) /\ args \in SUBSET Desc!Bits
  BY <1>1 DEF Desc!Order, Desc!Bits
<1>. HIDE DEF s, args
<1>. QED BY <1>1, <1>2, BeginInv, FilesConstants

LEMMA OpenedInv ==
  ASSUME FilesInv, NEW t \in Threads, fAt[t] = "callback", Desc!Ends(t, idx[t], "ok"),
         users' = [users EXCEPT ![dev[idx[t]]] = @ + 1],
         UNCHANGED <<use, boot, Desc!lists, Desc!pool>>
  PROVE  FilesInv'
<1>. USE FilesConstants
<1>. DEFINE f == idx[t]
<1>1. /\ f \in Fds /\ f > 2 /\ f \notin held /\ dev[f] # None /\ Opener(t)
      /\ boot \in -1 .. 3 /\ (boot < 3 => t = MainThread /\ boot >= 0) /\ dev[f] \in Desc!All
  BY DEF FilesInv, Booting, Openers, Opener, FTypes, Desc!TypeOK, Fds, Desc!Fd
<1>2. /\ fAt' = [fAt EXCEPT ![t] = IF boot = 3 THEN "idle" ELSE "move"]
      /\ idx' = [idx EXCEPT ![t] = IF boot = 3 THEN -1 ELSE f] /\ want' = [want EXCEPT ![t] = {}]
      /\ pos' = [pos EXCEPT ![t] = 0]
      /\ held' = IF boot = 3 THEN held \cup {f} ELSE held
      /\ users' = [users EXCEPT ![dev[f]] = users[dev[f]] + 1]
      /\ UNCHANGED <<use, boot, devList, fsList, maxFd, dev, flags>>
      /\ last' = [call |-> "open", fd |-> f, value |-> "ok"]
  BY <1>1 DEF Desc!Release, Desc!Ends, Desc!Returns, Desc!lists, Desc!pool
<1>3. /\ flags \in [Fds -> SUBSET Desc!Bits] /\ fAt \in [Threads -> Spots]
      /\ dev \in [Fds -> Desc!All \cup {None}] /\ idx \in [Threads -> Fds \cup {-1}]
      /\ pos \in [Threads -> 0 .. MaxFd] /\ want \in [Threads -> SUBSET Desc!Bits]
      /\ maxFd \in -1 .. MaxFd - 1 /\ users \in [Desc!All -> Int]
  BY DEF FilesInv, FTypes, Desc!TypeOK, Fds, Desc!Fd, Spots
<1>4. FTypes'
  <2>1. users' \in [Desc!All -> Int] /\ idx' \in [Threads -> Fds \cup {-1}]
        /\ want' \in [Threads -> SUBSET Desc!Bits] /\ pos' \in [Threads -> 0 .. MaxFd]
        /\ fAt' \in [Threads -> Spots] /\ held' \subseteq Fds
    BY <1>1, <1>2, <1>3 DEF FilesInv, FTypes, Desc!TypeOK, Spots, Fds
  <2>. QED BY <1>1, <1>2, <2>1 DEF FilesInv, FTypes, Desc!TypeOK, Fds, Desc!Fd, Spots
<1>5. Booting'
  BY <1>1, <1>2, <1>3 DEF FilesInv, Booting, Fds, Desc!Fd, Desc!Order
<1>6. Openers'
  BY <1>1, <1>2, <1>3 DEF FilesInv, Openers, Opener
<1>7. PoolInv'
  BY <1>1, <1>2, <1>3 DEF FilesInv, PoolInv, Desc!Opening, Fds, Desc!Fd
<1>8. StreamInv'
  BY <1>1, <1>2, <1>3 DEF FilesInv, StreamInv, Booting, Desc!StreamsUsable, Opener, Fds, Desc!Fd
<1>9. PinInv'
  <2>1. \A e, g \in Fds : Unlooked(e, g) => Unlooked(e, g)'
    BY <1>1, <1>2, <1>3 DEF Unlooked
  <2>. QED BY <1>1, <1>2, <1>3, <2>1 DEF FilesInv, PinInv
<1>. QED BY <1>4, <1>5, <1>6, <1>7, <1>8, <1>9 DEF FilesInv

LEMMA CallbackInv == ASSUME FilesInv, NEW t \in Threads, Desc!Callback(t) PROVE FilesInv'
  BY OpenedInv, GiveUpInv DEF Desc!Callback, Desc!Error

LEMMA MoveInv == ASSUME FilesInv, Desc!Move PROVE FilesInv'
<1>. USE FilesConstants
<1>. DEFINE f == idx[MainThread]
<1>1. fAt[MainThread] = "move" /\ boot \in 0 .. 2
  BY DEF Desc!Move, FilesInv, Booting, FTypes, Desc!TypeOK
<1>2. PICK s \in 0 .. 2 : s = Desc!Order[boot + 1]
  BY <1>1 DEF Desc!Order
<1>3. /\ flags \in [Fds -> SUBSET Desc!Bits] /\ fAt \in [Threads -> Spots]
      /\ dev \in [Fds -> Desc!All \cup {None}] /\ idx \in [Threads -> Fds \cup {-1}]
      /\ maxFd \in -1 .. MaxFd - 1 /\ s \in Fds
  BY DEF FilesInv, FTypes, Desc!TypeOK, Fds, Desc!Fd, Spots
<1>4. /\ boot' = boot + 1 /\ fAt' = [fAt EXCEPT ![MainThread] = "idle"]
      /\ idx' = [idx EXCEPT ![MainThread] = -1]
      /\ UNCHANGED <<use, devList, fsList, maxFd, want, pos, held, users, last>>
      /\ f = -1 => UNCHANGED <<dev, flags>>
      /\ f # -1 => dev' = [dev EXCEPT ![s] = dev[f], ![f] = None]
      /\ f # -1 => flags' = [flags EXCEPT ![s] = flags[f], ![f] = {}]
  BY <1>2 DEF Desc!Move, Desc!Goes, Desc!lists
<1>5. f # -1 => f \in Fds /\ f > 2 /\ f \notin held /\ dev[f] # None /\ Opener(MainThread)
  BY <1>1, <1>3 DEF FilesInv, Openers, Opener
<1>6. /\ ~use.pinned /\ held = {0, 1, 2} /\ \A t \in Threads : t # MainThread => fAt[t] = "idle"
      /\ \A t \in Threads : t # MainThread => ~Opener(t)
  BY <1>1 DEF FilesInv, Booting, PinInv, Opener
<1>7. /\ flags' \in [Fds -> SUBSET Desc!Bits] /\ dev' \in [Fds -> Desc!All \cup {None}]
      /\ \A g \in Fds : dev'[g] = IF f = -1 THEN dev[g] ELSE IF g = f THEN None
                                    ELSE IF g = s THEN dev[f] ELSE dev[g]
      /\ \A g \in Fds : flags'[g] = IF f = -1 THEN flags[g] ELSE IF g = f THEN {}
                                      ELSE IF g = s THEN flags[f] ELSE flags[g]
  BY <1>3, <1>4, <1>5
<1>8. fAt' \in [Threads -> Spots] /\ idx' \in [Threads -> Fds \cup {-1}]
      /\ \A t \in Threads : fAt'[t] = "idle" /\ ~Opener(t)'
  BY <1>3, <1>4, <1>6 DEF Spots, Opener
<1>a. FTypes'
  BY <1>1, <1>4, <1>7, <1>8 DEF FilesInv, FTypes, Desc!TypeOK, Fds, Desc!Fd, Spots
<1>b. Booting'
  BY <1>1, <1>2, <1>3, <1>4, <1>5, <1>6, <1>7, <1>8 DEF FilesInv, Booting, Fds, Desc!Fd, Desc!Order
<1>c. Openers'
  BY <1>1, <1>3, <1>4, <1>6 DEF FilesInv, Openers, Opener
<1>d. PoolInv'
  <2>1. \A g \in Fds : dev[g] # None => g <= 2 \/ g = f
    BY <1>3, <1>6 DEF FilesInv, PoolInv, Desc!Opening, Opener, Fds, Desc!Fd
  <2>2. \A g \in Fds : dev'[g] # None <=> g <= 2
    BY <1>3, <1>5, <1>6, <1>7, <2>1 DEF FilesInv, PoolInv, Fds, Desc!Fd
  <2>3. \A g \in Fds : dev'[g] = None => flags'[g] = {}
    BY <1>3, <1>5, <1>6, <1>7 DEF FilesInv, PoolInv
  <2>4. \A g \in Fds : "EXCL" \in flags'[g] => g \in held /\ "DEV" \in flags'[g]
    BY <1>3, <1>5, <1>6, <1>7 DEF FilesInv, PoolInv
  <2>5. \A g \in Fds : "DEV" \in flags'[g] => dev'[g] \notin FileSystems
    BY <1>3, <1>5, <1>6, <1>7 DEF FilesInv, PoolInv
  <2>. QED BY <1>4, <1>6, <2>2, <2>3, <2>4, <2>5 DEF PoolInv, Fds, Desc!Fd
<1>e. StreamInv'
  BY <1>1, <1>2, <1>3, <1>4, <1>5, <1>6, <1>7, <1>8
     DEF FilesInv, StreamInv, Booting, Desc!StreamsUsable, Opener, Fds, Desc!Fd, Desc!Order
<1>f. PinInv'
  BY <1>4, <1>6 DEF PinInv
<1>. QED BY <1>a, <1>b, <1>c, <1>d, <1>e, <1>f DEF FilesInv

LEMMA CloseInv ==
  ASSUME FilesInv, ~use.closesStd, NEW t \in Threads, NEW f \in Fds, Desc!Close(t, f)
  PROVE  FilesInv'
<1>. USE FilesConstants
<1>1. /\ f \in held /\ f > 2 /\ boot = 3 /\ fAt[t] = "idle" /\ dev[f] \in Desc!All
      /\ use.pinned => f # MaxFd - 1
  BY DEF Desc!Close, Desc!Free, Desc!Closable, FilesInv, PoolInv, FTypes, Desc!TypeOK, Fds
<1>2. PICK v \in {"EIO", "ok"} :
      /\ flags' = [flags EXCEPT ![f] = {}] /\ dev' = [dev EXCEPT ![f] = None]
      /\ held' = held \ {f} /\ users' = [users EXCEPT ![dev[f]] = users[dev[f]] - 1]
      /\ UNCHANGED <<use, boot, devList, fsList, maxFd, fAt, idx, want, pos>>
      /\ last' = [call |-> "close", fd |-> f, value |-> v]
  BY <1>1 DEF Desc!Close, Desc!Release, Desc!Returns, Desc!lists, Desc!open
<1>3. /\ flags \in [Fds -> SUBSET Desc!Bits] /\ fAt \in [Threads -> Spots]
      /\ dev \in [Fds -> Desc!All \cup {None}] /\ idx \in [Threads -> Fds \cup {-1}]
      /\ users \in [Desc!All -> Int] /\ maxFd \in -1 .. MaxFd - 1
  BY DEF FilesInv, FTypes, Desc!TypeOK, Fds, Desc!Fd, Spots
<1>4. FTypes'
  BY <1>1, <1>2, <1>3 DEF FilesInv, FTypes, Desc!TypeOK, Fds, Desc!Fd, Desc!Error
<1>5. Booting'
  BY <1>1, <1>2, <1>3 DEF FilesInv, Booting
<1>6. Openers'
  BY <1>1, <1>2, <1>3 DEF FilesInv, Openers, Opener
<1>7. PoolInv'
  BY <1>1, <1>2, <1>3 DEF FilesInv, PoolInv, Desc!Opening, Fds, Desc!Fd
<1>8. StreamInv'
  BY <1>1, <1>2, <1>3 DEF FilesInv, StreamInv, Desc!StreamsUsable, Opener, Fds, Desc!Fd
<1>9. PinInv'
  <2>1. \A e, g \in Fds : Unlooked(e, g) => Unlooked(e, g)'
    BY <1>2 DEF Unlooked
  <2>. QED BY <1>1, <1>2, <1>3, <2>1 DEF FilesInv, PinInv, PoolInv, Fds, Desc!Fd
<1>. QED BY <1>4, <1>5, <1>6, <1>7, <1>8, <1>9 DEF FilesInv

LEMMA LockInv == ASSUME FilesInv, NEW t \in Threads, NEW f \in Fds, Desc!Lock(t, f) PROVE FilesInv'
<1>. USE FilesConstants
<1>1. /\ flags \in [Fds -> SUBSET Desc!Bits] /\ dev \in [Fds -> Desc!All \cup {None}]
      /\ f \in held /\ boot = 3 /\ "DEV" \in flags[f]
  BY DEF FilesInv, FTypes, Desc!TypeOK, Fds, Desc!Lock, Desc!Free
<1>2. UNCHANGED <<use, boot, devList, fsList, dev, maxFd, fAt, idx, want, pos, held, users>>
  BY DEF Desc!Lock, Desc!lists, Desc!open
<1>3. PICK v \in {"ok", "EACCES"} : last' = [call |-> "lock", fd |-> f, value |-> v]
  BY DEF Desc!Lock, Desc!Returns
<1>4. \/ UNCHANGED flags
      \/ /\ flags' = [flags EXCEPT ![f] = flags[f] \cup {"EXCL"}]
         /\ \A g \in Fds : g < maxFd /\ g # f => dev[g] # dev[f]
  BY DEF Desc!Lock, Fds
<1>5. /\ flags' \in [Fds -> SUBSET Desc!Bits]
      /\ \A g \in Fds : flags'[g] = flags[g] \/ (g = f /\ flags'[g] = flags[f] \cup {"EXCL"})
  BY <1>1, <1>4 DEF Desc!Bits, Desc!Mask
<1>6. FTypes'
  BY <1>2, <1>3, <1>5 DEF FilesInv, FTypes, Desc!TypeOK, Fds, Desc!Error
<1>7. Booting' /\ Openers'
  BY <1>2 DEF FilesInv, Booting, Openers, Opener
<1>8. PoolInv'
  BY <1>1, <1>2, <1>5 DEF FilesInv, PoolInv, Desc!Opening
<1>9. StreamInv'
  BY <1>1, <1>2, <1>3, <1>5 DEF FilesInv, StreamInv, Desc!StreamsUsable, Opener, Fds, Desc!Fd
<1>10. PinInv'
  <2>1. \A e, g \in Fds : Unlooked(e, g) => Unlooked(e, g)'
    BY <1>2 DEF Unlooked
  <2>2. ASSUME use.pinned, UNCHANGED flags PROVE PinInv'
    BY <1>2, <2>1, <2>2 DEF FilesInv, PinInv
  <2>3. ASSUME use.pinned, ~UNCHANGED flags PROVE PinInv'
    <3>1. \A g \in Fds : g # f => dev[g] # dev[f]
      <4>1. maxFd = MaxFd - 1 /\ dev[MaxFd - 1] \in FileSystems /\ dev[f] \notin FileSystems
        BY <2>3, <1>1 DEF FilesInv, PinInv, PoolInv
      <4>. QED BY <4>1, <2>3, <1>4 DEF Fds, Desc!Fd
    <3>2. \A e \in Fds : "EXCL" \in flags'[e] => "EXCL" \in flags[e] \/ e = f
      BY <1>5
    <3>. QED BY <2>3, <1>2, <2>1, <3>1, <3>2 DEF FilesInv, PinInv
  <2>. QED BY <2>2, <2>3, <1>2 DEF PinInv
<1>. QED BY <1>6, <1>7, <1>8, <1>9, <1>10 DEF FilesInv

\* The calls that change at most settings of a held descriptor.
LEMMA SettingInv ==
  ASSUME FilesInv, boot = 3, NEW f \in Fds, f \in held, NEW new \in SUBSET Desc!Bits,
         \A b \in {"WRONLY", "DEV"} : b \in new <=> b \in flags[f],
         "EXCL" \in new => "EXCL" \in flags[f],
         flags' = [flags EXCEPT ![f] = new],
         NEW call \in {"unlock", "setfl"},
         last' = [call |-> call, fd |-> f, value |-> "ok"],
         UNCHANGED <<use, boot, Desc!lists, dev, maxFd, Desc!open, held, users>>
  PROVE  FilesInv'
<1>. USE FilesConstants
<1>1. UNCHANGED <<use, boot, devList, fsList, dev, maxFd, fAt, idx, want, pos, held, users>>
  BY DEF Desc!lists, Desc!open
<1>2. flags \in [Fds -> SUBSET Desc!Bits]
  BY DEF FilesInv, FTypes, Desc!TypeOK, Fds
<1>3. FTypes'
  BY <1>1, <1>2 DEF FilesInv, FTypes, Desc!TypeOK, Fds
<1>4. Booting' /\ Openers'
  BY <1>1 DEF FilesInv, Booting, Openers, Opener
<1>5. PoolInv'
  BY <1>1, <1>2 DEF FilesInv, PoolInv, Desc!Opening
<1>6. StreamInv'
  BY <1>1, <1>2 DEF FilesInv, StreamInv, Desc!StreamsUsable, Opener, Fds, Desc!Fd
<1>7. PinInv'
  <2>1. \A e, g \in Fds : Unlooked(e, g) => Unlooked(e, g)'
    BY <1>1 DEF Unlooked
  <2>. QED BY <1>1, <1>2, <2>1 DEF FilesInv, PinInv
<1>. QED BY <1>3, <1>4, <1>5, <1>6, <1>7 DEF FilesInv

LEMMA UnlockInv ==
  ASSUME FilesInv, NEW t \in Threads, NEW f \in Fds, Desc!Unlock(t, f) PROVE FilesInv'
<1>1. flags[f] \in SUBSET Desc!Bits
  BY DEF FilesInv, FTypes, Desc!TypeOK, Fds
<1>2. boot = 3 /\ f \in held /\ flags' = [flags EXCEPT ![f] = flags[f] \ {"EXCL"}]
      /\ last' = [call |-> "unlock", fd |-> f, value |-> "ok"]
      /\ UNCHANGED <<use, boot, Desc!lists, dev, maxFd, Desc!open, held, users>>
  BY DEF Desc!Unlock, Desc!Free, Desc!Returns
<1>. QED BY <1>1, <1>2, SettingInv

LEMMA SetFlInv ==
  ASSUME FilesInv, NEW t \in Threads, NEW f \in Fds, NEW new, Desc!SetFl(t, f, new)
  PROVE  FilesInv'
<1>. DEFINE n == (flags[f] \ Desc!Setting) \cup (new \cap Desc!Setting)
<1>1. flags[f] \in SUBSET Desc!Bits
  BY DEF FilesInv, FTypes, Desc!TypeOK, Fds
<1>2. boot = 3 /\ f \in held /\ flags' = [flags EXCEPT ![f] = n]
      /\ last' = [call |-> "setfl", fd |-> f, value |-> "ok"]
      /\ UNCHANGED <<use, boot, Desc!lists, dev, maxFd, Desc!open, held, users>>
  BY DEF Desc!SetFl, Desc!Free, Desc!Returns
<1>3. /\ n \in SUBSET Desc!Bits /\ ("EXCL" \in n => "EXCL" \in flags[f])
      /\ \A b \in {"WRONLY", "DEV"} : b \in n <=> b \in flags[f]
  BY <1>1 DEF Desc!Setting, Desc!Bits
<1>. HIDE DEF n
<1>. QED BY <1>2, <1>3, SettingInv

\* The steps that leave the pool and the openers alone.
LEMMA AnswerInv ==
  ASSUME FilesInv, boot = 3, NEW fd \in Fds \cup {-1},
         NEW value \in Desc!Error \cup {"ok", "driver", "_IFCHR", "other", "yes", "no"},
         NEW call, last' = [call |-> call, fd |-> fd, value |-> value],
         UNCHANGED <<use, boot, Desc!lists, Desc!pool, Desc!open, held, users>>,
         Desc!StreamsUsable'
  PROVE  FilesInv'
<1>. USE FilesConstants
<1>1. UNCHANGED <<use, boot, devList, fsList, dev, flags, maxFd, fAt, idx, want, pos, held, users>>
  BY DEF Desc!lists, Desc!open, Desc!pool
<1>2. FTypes'
  BY <1>1 DEF FilesInv, FTypes, Desc!TypeOK, Fds
<1>3. Booting' /\ Openers' /\ PoolInv'
  BY <1>1 DEF FilesInv, Booting, Openers, Opener, PoolInv, Desc!Opening
<1>4. StreamInv'
  BY <1>1 DEF FilesInv, StreamInv, Opener
<1>5. PinInv'
  BY <1>1 DEF FilesInv, PinInv, Unlooked
<1>. QED BY <1>2, <1>3, <1>4, <1>5 DEF FilesInv

LEMMA CallInv ==
  ASSUME FilesInv, NEW t \in Threads, NEW call \in Desc!Passed, NEW f \in Fds \cup {-1},
         Desc!Call(t, call, f)
  PROVE  FilesInv'
<1>. USE FilesConstants
<1>. DEFINE Possible == IF use.direct THEN Desc!DirectAnswers(f)[call]
                        ELSE IF f < 0 THEN {IF call = "isatty" THEN "no" ELSE "EBADFD"}
                        ELSE Desc!Answers(f)[call]
<1>1. PICK value \in Possible : last' = [call |-> call, fd |-> f, value |-> value]
  BY DEF Desc!Call, Desc!Returns
<1>2. boot = 3 /\ UNCHANGED <<use, boot, Desc!lists, Desc!pool, Desc!open, held, users>>
  BY DEF Desc!Call, Desc!Free
<1>3. value \in Desc!Error \cup {"ok", "driver", "_IFCHR", "other", "yes", "no"}
  <2>1. CASE use.direct
    BY <1>1, <2>1 DEF Desc!DirectAnswers, Desc!Passed, Desc!Error
  <2>2. CASE ~use.direct /\ f < 0
    BY <1>1, <2>2 DEF Desc!Error
  <2>3. CASE ~use.direct /\ ~(f < 0)
    BY <1>1, <2>3 DEF Desc!Answers, Desc!Passed, Desc!Error, Desc!Read, Desc!Write, Desc!Lseek,
                      Desc!Ioctl, Desc!Fstat, Desc!Isatty, Desc!Vector
  <2>. QED BY <2>1, <2>2, <2>3
<1>4. Desc!StreamsUsable'
  <2>1. CASE use.direct
    BY <1>1, <1>2, <2>1 DEF Desc!DirectAnswers, Desc!StreamsUsable, Desc!pool
  <2>2. CASE ~use.direct /\ f < 0
    BY <1>1, <1>2, <2>2 DEF Desc!StreamsUsable
  <2>3. CASE ~use.direct /\ ~(f < 0)
    BY <1>1, <1>2, <2>3 DEF Desc!Answers, Desc!StreamsUsable, Desc!Read, Desc!Write,
                            Desc!Vector, Desc!pool, FilesInv, StreamInv
  <2>. QED BY <2>1, <2>2, <2>3
<1>. HIDE DEF Possible
<1>. QED BY <1>1, <1>2, <1>3, <1>4, AnswerInv

LEMMA DirectOpenInv == ASSUME FilesInv, NEW t \in Threads, Desc!DirectOpen(t) PROVE FilesInv'
<1>1. /\ last' = [call |-> "open", fd |-> -1, value |-> "ENOSYS"] /\ boot = 3
      /\ UNCHANGED <<use, boot, Desc!lists, Desc!pool, Desc!open, held, users>>
  BY DEF Desc!DirectOpen, Desc!Returns
<1>2. Desc!StreamsUsable'
  BY <1>1 DEF Desc!StreamsUsable
<1>. QED BY <1>1, <1>2, AnswerInv DEF Desc!Error

\* The steps before the boot.
LEMMA RegisteredInv ==
  ASSUME FilesInv, boot = -1, devList' \in Seq(Devices \cup {Null}), fsList' \in Seq(FileSystems),
         boot' \in {-1, 0, 3},
         UNCHANGED <<use, Desc!pool, Desc!open, held, users, last>>
  PROVE  FilesInv'
<1>. USE FilesConstants
<1>1. /\ UNCHANGED <<use, dev, flags, maxFd, fAt, idx, want, pos, held, users, last>>
      /\ ~use.pinned /\ \A t \in Threads : fAt[t] = "idle" /\ idx[t] = -1
  BY DEF Desc!open, Desc!pool, FilesInv, Booting, PinInv
<1>2. FTypes'
  BY <1>1, Listed DEF FilesInv, FTypes, Desc!TypeOK
<1>3. Booting'
  BY <1>1 DEF FilesInv, Booting
<1>4. Openers' /\ PoolInv'
  BY <1>1 DEF FilesInv, Openers, Opener, PoolInv, Desc!Opening
<1>5. StreamInv'
  BY <1>1 DEF FilesInv, StreamInv, Opener, Desc!StreamsUsable
<1>6. PinInv'
  BY <1>1 DEF PinInv
<1>. QED BY <1>2, <1>3, <1>4, <1>5, <1>6 DEF FilesInv

LEMMA BootInv ==
  ASSUME FilesInv, Desc!Booted \/ (\E d \in Devices : Desc!DevReg(d))
                               \/ (\E s \in FileSystems : Desc!FsReg(s))
  PROVE  FilesInv'
<1>1. devList \in Seq(Devices \cup {Null}) /\ fsList \in Seq(FileSystems)
  BY DEF FilesInv, FTypes
<1>2. CASE Desc!Booted
  BY <1>1, <1>2, RegisteredInv DEF Desc!Booted, Desc!lists
<1>3. ASSUME NEW d \in Devices, Desc!DevReg(d) PROVE FilesInv'
  <2>1. devList' \in Seq(Devices \cup {Null})
    BY <1>1, <1>3 DEF Desc!DevReg
  <2>. QED BY <1>1, <1>3, <2>1, RegisteredInv DEF Desc!DevReg
<1>4. ASSUME NEW s \in FileSystems, Desc!FsReg(s) PROVE FilesInv'
  <2>1. fsList' \in Seq(FileSystems)
    BY <1>1, <1>4 DEF Desc!FsReg
  <2>. QED BY <1>1, <1>4, <2>1, RegisteredInv DEF Desc!FsReg
<1>. QED BY <1>2, <1>3, <1>4

LEMMA DescNextInv ==
  ASSUME FilesInv, ~use.closesStd, [Desc!Next]_Desc!vars PROVE FilesInv'
<1>. use.threads \subseteq Threads
  BY FilesConstants DEF FilesInv, FTypes, Desc!TypeOK
<1>1. CASE UNCHANGED Desc!vars
  <2>1. UNCHANGED <<use, boot, devList, fsList, dev, flags, maxFd, fAt, idx, want, pos, held,
                    users, last>>
    BY <1>1 DEF Desc!vars, Desc!lists, Desc!pool, Desc!open
  <2>. QED
    BY <2>1 DEF FilesInv, FTypes, Desc!TypeOK, Booting, Openers, Opener, PoolInv, Desc!Opening,
                StreamInv, Desc!StreamsUsable, PinInv, Unlooked
<1>2. CASE \/ (\E d \in Devices : Desc!DevReg(d)) \/ (\E s \in FileSystems : Desc!FsReg(s))
           \/ Desc!Booted \/ Desc!Redirect \/ Desc!Move
  BY <1>2, BootInv, RedirectInv, MoveInv
<1>3. ASSUME NEW t \in Threads,
             \/ \E name \in Names, args \in SUBSET Desc!Bits : Desc!Open(t, name, args)
             \/ Desc!DirectOpen(t) \/ Desc!SetFlags(t) \/ Desc!Mark(t) \/ Desc!Scan(t)
             \/ Desc!NotLocked(t) \/ Desc!Callback(t)
      PROVE  FilesInv'
  BY <1>3, OpenInv, DirectOpenInv, SetFlagsInv, MarkInv, ScanInv, NotLockedInv, CallbackInv
<1>4. ASSUME NEW t \in Threads,
             \/ \E f \in Desc!Fd : Desc!Close(t, f) \/ Desc!Lock(t, f) \/ Desc!Unlock(t, f)
             \/ \E f \in Desc!Fd, new \in SUBSET {"NONBLOCK", "RDWR"} : Desc!SetFl(t, f, new)
             \/ \E call \in Desc!Passed, f \in Desc!Fd \cup {-1} : Desc!Call(t, call, f)
      PROVE  FilesInv'
  BY <1>4, CloseInv, LockInv, UnlockInv, SetFlInv, CallInv DEF Fds
<1>. QED BY <1>1, <1>2, <1>3, <1>4 DEF Desc!Next

LEMMA DevicesInARow == Desc!SetToSeq(Devices) \in Seq(Devices)
<1>. DEFINE n == Cardinality(Devices)
<1>1. n \in Nat /\ ExistsBijection(1 .. n, Devices)
  BY FilesConstants, FS_CardinalityType
<1>2. PICK b \in [1 .. n -> Devices] : \A i, j \in 1 .. n : b[i] = b[j] => i = j
  BY <1>1 DEF ExistsBijection, Bijection, Injection, IsInjective, Surjection
<1>3. Desc!SetToSeq(Devices) \in [1 .. n -> Devices]
  BY <1>2, SameCount DEF Desc!SetToSeq, Desc!IsInjective
<1>. QED BY <1>1, <1>3

LEMMA DescInit == Desc!Init => FilesInv
<1>. USE FilesConstants
<1>. SUFFICES ASSUME Desc!Init PROVE FilesInv
  OBVIOUS
<1>0. /\ use \in Uses /\ fAt = [t \in Threads |-> "idle"] /\ idx = [t \in Threads |-> -1]
      /\ want = [t \in Threads |-> {}] /\ pos = [t \in Threads |-> 0]
      /\ last = [call |-> "none", fd |-> -1, value |-> "ok"]
  BY DEF Desc!Init
<1>1. CASE use.pinned
  <2>1. PICK d \in Devices, s \in FileSystems :
          /\ boot = 3 /\ fsList = <<s>>
          /\ devList = Desc!SetToSeq(Devices) \o <<Null>>
          /\ dev = [f \in Fds |-> IF f < 3 THEN d ELSE IF f = MaxFd - 1 THEN s ELSE None]
          /\ flags = [f \in Fds |-> IF f = 0 THEN {"DEV"}
                                    ELSE IF f < 3 THEN {"WRONLY", "DEV"} ELSE {}]
          /\ maxFd = MaxFd - 1 /\ held = {0, 1, 2, MaxFd - 1}
          /\ users = [e \in Desc!All |-> IF e = d THEN 3 ELSE IF e = s THEN 1 ELSE 0]
    BY <1>1 DEF Desc!Init, Fds
  <2>2. devList \in Seq(Devices \cup {Null}) /\ fsList \in Seq(FileSystems)
    BY <2>1, DevicesInARow
  <2>3. dev \in [Fds -> Desc!All \cup {None}] /\ flags \in [Fds -> SUBSET Desc!Bits]
    BY <2>1 DEF Desc!All, Desc!Bits, Desc!Mask
  <2>4. FTypes
    <3>1. /\ Desc!Range(devList) \subseteq Devices \cup {Null}
          /\ Desc!Range(fsList) \subseteq FileSystems
      BY <2>2, Listed
    <3>2. /\ fAt \in [Threads -> Spots] /\ idx \in [Threads -> Fds \cup {-1}]
          /\ pos \in [Threads -> 0 .. MaxFd] /\ want \in [Threads -> SUBSET Desc!Bits]
      BY <1>0 DEF Spots
    <3>3. users \in [Desc!All -> Int] /\ held \subseteq Fds /\ maxFd \in -1 .. MaxFd - 1
      BY <2>1 DEF Fds, Desc!Fd
    <3>. QED BY <1>0, <2>1, <2>2, <2>3, <3>1, <3>2, <3>3 DEF FTypes, Desc!TypeOK, Spots, Fds
  <2>5. Booting /\ Openers
    BY <1>0, <2>1 DEF Booting, Openers, Opener
  <2>6. PoolInv
    BY <2>1 DEF PoolInv, Fds, Desc!Fd, Desc!All
  <2>7. StreamInv
    BY <1>0, <2>1 DEF StreamInv, Desc!StreamsUsable, Fds, Desc!Fd
  <2>8. PinInv
    BY <2>1 DEF PinInv, Fds, Desc!Fd
  <2>. QED BY <2>4, <2>5, <2>6, <2>7, <2>8 DEF FilesInv
<1>2. CASE ~use.pinned
  <2>1. /\ boot = -1 /\ devList = <<Null>> /\ fsList = << >>
        /\ dev = [f \in Fds |-> IF f < 3 THEN Null ELSE None]
        /\ flags = [f \in Fds |-> {}] /\ maxFd = -1 /\ held = {0, 1, 2}
        /\ users = [d \in Desc!All |-> 0]
    BY <1>2 DEF Desc!Init, Fds
  <2>2. devList \in Seq(Devices \cup {Null}) /\ fsList \in Seq(FileSystems)
    BY <2>1
  <2>3. dev \in [Fds -> Desc!All \cup {None}] /\ flags \in [Fds -> SUBSET Desc!Bits]
    BY <2>1 DEF Desc!All
  <2>4. FTypes
    <3>1. /\ Desc!Range(devList) \subseteq Devices \cup {Null}
          /\ Desc!Range(fsList) \subseteq FileSystems
      BY <2>2, Listed
    <3>2. /\ fAt \in [Threads -> Spots] /\ idx \in [Threads -> Fds \cup {-1}]
          /\ pos \in [Threads -> 0 .. MaxFd] /\ want \in [Threads -> SUBSET Desc!Bits]
      BY <1>0 DEF Spots
    <3>3. users \in [Desc!All -> Int] /\ held \subseteq Fds /\ maxFd \in -1 .. MaxFd - 1
      BY <2>1 DEF Fds, Desc!Fd
    <3>. QED BY <1>0, <2>1, <2>2, <2>3, <3>1, <3>2, <3>3 DEF FTypes, Desc!TypeOK, Spots, Fds
  <2>5. Booting /\ Openers
    BY <1>0, <2>1 DEF Booting, Openers, Opener, Fds, Desc!Fd, Desc!Order
  <2>6. PoolInv
    BY <2>1 DEF PoolInv, Fds, Desc!Fd, Desc!All
  <2>7. StreamInv
    BY <1>0, <2>1 DEF StreamInv, Desc!StreamsUsable, Opener, Fds, Desc!Fd
  <2>8. PinInv
    BY <1>2 DEF PinInv
  <2>. QED BY <2>4, <2>5, <2>6, <2>7, <2>8 DEF FilesInv
<1>. QED BY <1>1, <1>2

-----------------------------------------------------------------------------
(***************************************************************************)
(* The opens a driver has seen: those of the descriptors that refer to it, *)
(* and of the one on its way to a stream.                                  *)
(***************************************************************************)
Refer(d)  == {f \in Fds \ Desc!Opening : dev[f] = d}
InMove(d) == {t \in Threads : fAt[t] = "move" /\ idx[t] # -1 /\ dev[idx[t]] = d}

Paired == \A d \in Desc!All \ {Null} :
            users[d] = Cardinality(Refer(d)) + Cardinality(InMove(d))

LEMMA PairedIs == Paired <=> Desc!CallbacksPair
  BY SameCount DEF Paired, Desc!CallbacksPair, Refer, InMove, Fds

LEMMA ReferIsFinite == \A d : IsFiniteSet(Refer(d)) /\ Cardinality(Refer(d)) \in Nat
<1>. TAKE d
<1>1. IsFiniteSet(Fds)
  BY FilesConstants, FS_Interval DEF Fds, Desc!Fd
<1>2. Refer(d) \in SUBSET Fds
  BY DEF Refer
<1>. QED BY <1>1, <1>2, FS_Subset, FS_CardinalityType

LEMMA QuietPairs ==
  ASSUME Paired, UNCHANGED <<dev, idx, users>>,
         \A t \in Threads : \A spot \in {"idle", "move"} : fAt'[t] = spot <=> fAt[t] = spot
  PROVE  Paired'
<1>1. \A d : Refer(d)' = Refer(d)
  BY DEF Refer, Desc!Opening
<1>2. \A d : InMove(d)' = InMove(d)
  BY DEF InMove
<1>. QED BY <1>1, <1>2 DEF Paired

LEMMA QuietSteps ==
  ASSUME FilesInv, NEW t \in Threads,
         \/ Desc!SetFlags(t) \/ Desc!Mark(t) \/ Desc!NotLocked(t) \/ Desc!DirectOpen(t)
         \/ \E f \in Fds : Desc!Lock(t, f) \/ Desc!Unlock(t, f)
         \/ \E f \in Fds, new \in SUBSET {"NONBLOCK", "RDWR"} : Desc!SetFl(t, f, new)
         \/ \E call \in Desc!Passed, f \in Fds \cup {-1} : Desc!Call(t, call, f)
  PROVE  /\ UNCHANGED <<dev, idx, users>>
         /\ \A u \in Threads : \A spot \in {"idle", "move"} : fAt'[u] = spot <=> fAt[u] = spot
<1>1. fAt \in [Threads -> Spots]
  BY DEF FilesInv, FTypes, Desc!TypeOK, Spots
<1>2. CASE Desc!SetFlags(t)
  BY <1>1, <1>2 DEF Desc!SetFlags, Desc!Goes
<1>3. CASE Desc!Mark(t)
  BY <1>1, <1>3 DEF Desc!Mark, Desc!Goes
<1>4. CASE Desc!NotLocked(t)
  BY <1>1, <1>4 DEF Desc!NotLocked, Desc!Goes, Desc!pool
<1>5. CASE Desc!DirectOpen(t)
  BY <1>5 DEF Desc!DirectOpen, Desc!pool, Desc!open
<1>6. ASSUME NEW f \in Fds, Desc!Lock(t, f) \/ Desc!Unlock(t, f)
      PROVE  UNCHANGED <<dev, fAt, idx, users>>
  BY <1>6 DEF Desc!Lock, Desc!Unlock, Desc!open
<1>7. ASSUME NEW f \in Fds, NEW new, Desc!SetFl(t, f, new)
      PROVE  UNCHANGED <<dev, fAt, idx, users>>
  BY <1>7 DEF Desc!SetFl, Desc!open
<1>8. ASSUME NEW call, NEW f, Desc!Call(t, call, f)
      PROVE  UNCHANGED <<dev, fAt, idx, users>>
  BY <1>8 DEF Desc!Call, Desc!open, Desc!pool
<1>. QED BY <1>2, <1>3, <1>4, <1>5, <1>6, <1>7, <1>8

LEMMA GiveUpPairs ==
  ASSUME FilesInv, Paired, NEW t \in Threads, fAt[t] \in {"scan", "callback"},
         NEW e \in Desc!Error, Desc!Release(idx[t]), Desc!Ends(t, -1, e),
         UNCHANGED <<boot, users>>
  PROVE  Paired'
<1>. USE FilesConstants
<1>. DEFINE f == idx[t]
<1>1. /\ f \in Fds /\ f > 2 /\ dev[f] # None /\ Opener(t)
      /\ \A u \in Threads : Opener(u) /\ idx[u] = f => u = t
  BY DEF FilesInv, Booting, Openers, Opener, FTypes, Desc!TypeOK, Fds, Desc!Fd
<1>2. /\ dev' = [dev EXCEPT ![f] = None] /\ idx' = [idx EXCEPT ![t] = -1]
      /\ fAt' = [fAt EXCEPT ![t] = IF boot = 3 THEN "idle" ELSE "move"]
  BY <1>1 DEF Desc!Release, Desc!Ends, Desc!Error
<1>3. /\ fAt \in [Threads -> Spots] /\ dev \in [Fds -> Desc!All \cup {None}]
      /\ idx \in [Threads -> Fds \cup {-1}] /\ -1 \notin Fds
  BY DEF FilesInv, FTypes, Desc!TypeOK, Spots, Fds, Desc!Fd
<1>4. \A g \in Fds : g # f => (g \in Desc!Opening' <=> g \in Desc!Opening)
  BY <1>1, <1>2, <1>3 DEF Desc!Opening
<1>5. f \in Desc!Opening
  BY <1>1 DEF Desc!Opening, Opener
<1>6. ASSUME NEW d \in Desc!All PROVE Refer(d)' = Refer(d)
  BY <1>1, <1>2, <1>3, <1>4, <1>5 DEF Refer
<1>7. ASSUME NEW d \in Desc!All PROVE InMove(d)' = InMove(d)
  <2>1. \A u \in Threads : u # t => fAt'[u] = fAt[u] /\ idx'[u] = idx[u]
    BY <1>2, <1>3
  <2>2. \A u \in Threads : u # t /\ fAt[u] = "move" /\ idx[u] # -1 => dev'[idx[u]] = dev[idx[u]]
    BY <1>1, <1>2, <1>3 DEF Opener
  <2>3. idx'[t] = -1 /\ fAt[t] # "move"
    BY <1>2, <1>3
  <2>. QED BY <2>1, <2>2, <2>3 DEF InMove
<1>. QED BY <1>6, <1>7 DEF Paired

LEMMA BeginPairs ==
  ASSUME FilesInv, Paired, NEW t \in Threads, NEW name, NEW args, Desc!Begin(t, name, args)
  PROVE  Paired'
<1>. USE FilesConstants
<1>1. /\ fAt \in [Threads -> Spots] /\ dev \in [Fds -> Desc!All \cup {None}]
      /\ idx \in [Threads -> Fds \cup {-1}] /\ -1 \notin Fds
      /\ fAt[t] = "idle" /\ idx[t] = -1
  BY DEF FilesInv, FTypes, Desc!TypeOK, Spots, Fds, Desc!Fd, Desc!Begin, Booting
<1>2. CASE \E e \in Desc!Error : Desc!Ends(t, -1, e) /\ UNCHANGED <<Desc!pool, boot, users>>
  <2>1. /\ UNCHANGED <<dev, users>> /\ idx' = [idx EXCEPT ![t] = -1]
        /\ fAt' = [fAt EXCEPT ![t] = IF boot = 3 THEN "idle" ELSE "move"]
    BY <1>2 DEF Desc!Ends, Desc!pool, Desc!Error
  <2>2. \A g \in Fds : g \in Desc!Opening' <=> g \in Desc!Opening
    BY <1>1, <2>1 DEF Desc!Opening
  <2>3. ASSUME NEW d PROVE Refer(d)' = Refer(d)
    BY <2>1, <2>2 DEF Refer
  <2>4. ASSUME NEW d PROVE InMove(d)' = InMove(d)
    BY <1>1, <2>1 DEF InMove
  <2>. QED BY <2>1, <2>3, <2>4 DEF Paired
<1>3. CASE ~\E e \in Desc!Error : Desc!Ends(t, -1, e) /\ UNCHANGED <<Desc!pool, boot, users>>
  <2>. DEFINE d == Desc!Owner(name)
  <2>1. /\ ~Desc!Full /\ Desc!GetFd(d) /\ UNCHANGED users
        /\ idx' = [idx EXCEPT ![t] = Fresh] /\ fAt' = [fAt EXCEPT ![t] = "flags"]
    BY <1>3 DEF Desc!Begin, Desc!Error, Desc!Goes, Fresh, Fds
  <2>2. Fresh \in Fds /\ dev[Fresh] = None
    BY <2>1, FreshIsFree
  <2>3. PICK f \in Fds : f = Fresh
    BY <2>2
  <2>4. /\ dev[f] = None /\ idx' = [idx EXCEPT ![t] = f] /\ dev' = [dev EXCEPT ![f] = d]
    BY <2>1, <2>2, <2>3 DEF Desc!GetFd, Fresh, Fds
  <2>. HIDE DEF d
  <2>5. f \in Desc!Opening' /\ \A g \in Fds : g # f => (g \in Desc!Opening' <=> g \in Desc!Opening)
    BY <1>1, <2>1, <2>4 DEF Desc!Opening
  <2>6. ASSUME NEW e \in Desc!All PROVE Refer(e)' = Refer(e)
    BY <1>1, <2>4, <2>5 DEF Refer
  <2>7. ASSUME NEW e \in Desc!All PROVE InMove(e)' = InMove(e)
    <3>1. \A u \in Threads : u # t => fAt'[u] = fAt[u] /\ idx'[u] = idx[u]
      BY <1>1, <2>1, <2>4
    <3>2. fAt'[t] = "flags"
      BY <1>1, <2>1
    <3>3. \A u \in Threads : fAt[u] = "move" /\ idx[u] # -1 => idx[u] # f
      BY <2>4 DEF FilesInv, Openers, Opener
    <3>. QED BY <1>1, <2>4, <3>1, <3>2, <3>3 DEF InMove
  <2>. QED BY <2>1, <2>6, <2>7 DEF Paired
<1>. QED BY <1>2, <1>3

LEMMA OpenedPairs ==
  ASSUME FilesInv, Paired, NEW t \in Threads, fAt[t] = "callback", Desc!Ends(t, idx[t], "ok"),
         users' = [users EXCEPT ![dev[idx[t]]] = @ + 1],
         UNCHANGED <<boot, dev>>
  PROVE  Paired'
<1>. USE FilesConstants
<1>a. idx[t] \in Fds /\ dev[idx[t]] \in Desc!All /\ dev[idx[t]] # None
  BY DEF FilesInv, Booting, Openers, Opener, FTypes, Desc!TypeOK, Fds, Desc!Fd
<1>0. PICK f \in Fds, c \in Desc!All : f = idx[t] /\ c = dev[f] /\ dev[f] # None
  BY <1>a
<1>1. /\ Opener(t)
      /\ \A u \in Threads : Opener(u) /\ idx[u] = f => u = t
      /\ users \in [Desc!All -> Int] /\ boot \in -1 .. 3
      /\ boot < 3 => t = MainThread
  BY <1>0 DEF FilesInv, Booting, Openers, Opener, FTypes, Desc!TypeOK, Fds, Desc!Fd
<1>2. /\ fAt' = [fAt EXCEPT ![t] = IF boot = 3 THEN "idle" ELSE "move"]
      /\ idx' = [idx EXCEPT ![t] = IF boot = 3 THEN -1 ELSE f]
      /\ users' = [users EXCEPT ![c] = users[c] + 1]
  BY <1>0 DEF Desc!Ends
<1>3. /\ fAt \in [Threads -> Spots] /\ idx \in [Threads -> Fds \cup {-1}] /\ -1 \notin Fds
  BY DEF FilesInv, FTypes, Desc!TypeOK, Spots, Fds, Desc!Fd
<1>4. \A g \in Fds : g # f => (g \in Desc!Opening' <=> g \in Desc!Opening)
  BY <1>0, <1>1, <1>2, <1>3 DEF Desc!Opening
<1>5. f \in Desc!Opening /\ (f \in Desc!Opening' <=> boot # 3)
  BY <1>0, <1>1, <1>2, <1>3 DEF Desc!Opening, Opener
<1>6. ASSUME NEW d \in Desc!All, d # c PROVE Refer(d)' = Refer(d) /\ InMove(d)' = InMove(d)
  <2>1. Refer(d)' = Refer(d)
    BY <1>0, <1>4, <1>6 DEF Refer
  <2>2. InMove(d)' = InMove(d)
    BY <1>0, <1>2, <1>3, <1>6 DEF InMove
  <2>. QED BY <2>1, <2>2
<1>7. CASE boot = 3
  <2>1. Refer(c)' = Refer(c) \cup {f} /\ f \notin Refer(c)
    BY <1>0, <1>1, <1>4, <1>5, <1>7 DEF Refer
  <2>2. InMove(c)' = InMove(c)
    BY <1>0, <1>2, <1>3, <1>7 DEF InMove
  <2>3. Cardinality(Refer(c)') = Cardinality(Refer(c)) + 1
    <3>1. IsFiniteSet(Refer(c)) /\ Cardinality(Refer(c)) \in Nat
      BY ReferIsFinite
    <3>. QED BY <2>1, <3>1, FS_AddElement
  <2>4. InMove(c) = {}
    BY <1>7 DEF FilesInv, Booting, InMove
  <2>5. Cardinality(Refer(c)) \in Nat /\ Cardinality({}) = 0
    BY ReferIsFinite, FS_EmptySet
  <2>6. users'[c] = users[c] + 1 /\ \A d \in Desc!All : d # c => users'[d] = users[d]
    BY <1>1, <1>2
  <2>7. c # Null => users'[c] = Cardinality(Refer(c)') + Cardinality(InMove(c)')
    <3>. SUFFICES ASSUME c # Null PROVE users'[c] = Cardinality(Refer(c)') + Cardinality(InMove(c)')
      OBVIOUS
    <3>1. users[c] = Cardinality(Refer(c)) + Cardinality(InMove(c))
      BY DEF Paired
    <3>2. Cardinality(InMove(c)) = 0 /\ Cardinality(InMove(c)') = 0
      BY <2>2, <2>4, <2>5
    <3>. QED BY <2>3, <2>5, <2>6, <3>1, <3>2
  <2>8. \A d \in Desc!All \ {Null} : d # c =>
          users'[d] = Cardinality(Refer(d)') + Cardinality(InMove(d)')
    BY <1>6, <2>6 DEF Paired
  <2>. QED BY <2>7, <2>8 DEF Paired
<1>8. CASE boot # 3
  <2>1. Refer(c)' = Refer(c)
    BY <1>0, <1>1, <1>4, <1>5, <1>8 DEF Refer
  <2>2. InMove(c) = {}
    BY <1>0, <1>1, <1>8 DEF FilesInv, Booting, InMove
  <2>3. InMove(c)' = {t}
    BY <1>0, <1>1, <1>2, <1>3, <1>8 DEF FilesInv, Booting, InMove
  <2>4. Cardinality(InMove(c)') = 1 /\ Cardinality(InMove(c)) = 0
    BY <2>2, <2>3, FS_EmptySet, FS_Singleton
  <2>. QED BY <1>0, <1>1, <1>2, <1>6, <2>1, <2>4, ReferIsFinite DEF Paired
<1>. QED BY <1>7, <1>8

LEMMA MovePairs == ASSUME FilesInv, Paired, Desc!Move PROVE Paired'
<1>. USE FilesConstants
<1>. DEFINE f == idx[MainThread]
<1>1. fAt[MainThread] = "move" /\ boot \in 0 .. 2 /\ \A t \in Threads : t # MainThread => fAt[t] = "idle"
  BY DEF Desc!Move, FilesInv, Booting, FTypes, Desc!TypeOK
<1>2. PICK s \in 0 .. 2 : s = Desc!Order[boot + 1]
  BY <1>1 DEF Desc!Order
<1>3. /\ fAt \in [Threads -> Spots] /\ dev \in [Fds -> Desc!All \cup {None}]
      /\ idx \in [Threads -> Fds \cup {-1}] /\ s \in Fds /\ -1 \notin Fds
  BY DEF FilesInv, FTypes, Desc!TypeOK, Fds, Desc!Fd, Spots
<1>4. /\ fAt' = [fAt EXCEPT ![MainThread] = "idle"] /\ UNCHANGED users
      /\ f = -1 => UNCHANGED dev
      /\ f # -1 => dev' = [dev EXCEPT ![s] = dev[f], ![f] = None]
  BY <1>2 DEF Desc!Move, Desc!Goes
<1>5. /\ dev[s] = Null
      /\ f # -1 => f \in Fds /\ f > 2 /\ dev[f] # None
  BY <1>1, <1>2, <1>3 DEF FilesInv, Openers, Opener, Booting
<1>6. \A t \in Threads : fAt'[t] = "idle"
  BY <1>1, <1>3, <1>4
<1>7. Desc!Opening' = {} /\ Desc!Opening = {f}
  BY <1>1, <1>6 DEF Desc!Opening
<1>8. ASSUME NEW d PROVE InMove(d)' = {} /\ Cardinality(InMove(d)') = 0
  BY <1>6, FS_EmptySet DEF InMove
<1>9. CASE f = -1
  <2>1. ASSUME NEW d PROVE Refer(d)' = Refer(d)
    BY <1>3, <1>4, <1>7, <1>9 DEF Refer
  <2>2. ASSUME NEW d PROVE InMove(d) = {}
    BY <1>1, <1>9 DEF InMove
  <2>. QED BY <1>4, <1>8, <2>1, <2>2 DEF Paired
<1>10. CASE f # -1
  <2>1. ASSUME NEW d \in Desc!All \ {Null}, d # dev[f]
        PROVE  Refer(d)' = Refer(d) /\ InMove(d) = {}
    <3>1. Refer(d)' = Refer(d)
      BY <1>3, <1>4, <1>5, <1>7, <1>10, <2>1 DEF Refer
    <3>2. InMove(d) = {}
      BY <1>1, <2>1 DEF InMove
    <3>. QED BY <3>1, <3>2
  <2>2. ASSUME dev[f] \in Desc!All \ {Null}
        PROVE  /\ Cardinality(Refer(dev[f])) \in Nat
               /\ Cardinality({g \in Fds \ Desc!Opening' : dev'[g] = dev[f]})
                    = Cardinality(Refer(dev[f])) + 1
               /\ Cardinality(InMove(dev[f])) = 1
    <3>1. {g \in Fds \ Desc!Opening' : dev'[g] = dev[f]} = Refer(dev[f]) \cup {s}
      BY <1>3, <1>4, <1>5, <1>7, <1>10 DEF Refer
    <3>2. s \notin Refer(dev[f])
      BY <1>5, <2>2 DEF Refer
    <3>3. InMove(dev[f]) = {MainThread}
      BY <1>1, <1>10 DEF InMove
    <3>4. IsFiniteSet(Refer(dev[f])) /\ Cardinality(Refer(dev[f])) \in Nat
      BY ReferIsFinite
    <3>5. Cardinality(Refer(dev[f]) \cup {s}) = Cardinality(Refer(dev[f])) + 1
      BY <3>2, <3>4, FS_AddElement
    <3>6. Cardinality({MainThread}) = 1
      BY FS_Singleton
    <3>. QED BY <3>1, <3>3, <3>4, <3>5, <3>6
  <2>3. ASSUME NEW d \in Desc!All \ {Null}
        PROVE  (users[d] = Cardinality(Refer(d)) + Cardinality(InMove(d)))'
    <3>1. CASE d # dev[f]
      BY <1>4, <1>8, <2>1, <3>1 DEF Paired
    <3>2. CASE d = dev[f]
      <4>1. Refer(d)' = {g \in Fds \ Desc!Opening' : dev'[g] = dev[f]}
        BY <3>2 DEF Refer
      <4>2. users[d] = Cardinality(Refer(dev[f])) + Cardinality(InMove(dev[f]))
        BY <3>2 DEF Paired
      <4>. QED BY <1>4, <1>8, <2>2, <3>2, <4>1, <4>2
    <3>. QED BY <3>1, <3>2
  <2>. QED BY <2>3 DEF Paired
<1>. QED BY <1>9, <1>10

LEMMA ClosePairs ==
  ASSUME FilesInv, Paired, ~use.closesStd, NEW t \in Threads, NEW f \in Fds, Desc!Close(t, f)
  PROVE  Paired'
<1>. USE FilesConstants
<1>1. /\ f \in held /\ f > 2 /\ boot = 3 /\ dev[f] \in Desc!All
      /\ dev \in [Fds -> Desc!All \cup {None}] /\ users \in [Desc!All -> Int]
  BY DEF Desc!Close, Desc!Free, Desc!Closable, FilesInv, PoolInv, FTypes, Desc!TypeOK, Fds
<1>2. /\ dev' = [dev EXCEPT ![f] = None] /\ users' = [users EXCEPT ![dev[f]] = users[dev[f]] - 1]
      /\ UNCHANGED <<fAt, idx>>
  BY <1>1 DEF Desc!Close, Desc!Release, Desc!open
<1>3. f \notin Desc!Opening
  BY <1>1 DEF FilesInv, Openers, Opener, Desc!Opening, Fds, Desc!Fd
<1>4. \A u \in Threads : fAt[u] # "move"
  BY <1>1 DEF FilesInv, Booting
<1>5. ASSUME NEW d PROVE InMove(d)' = InMove(d) /\ InMove(d) = {}
  BY <1>2, <1>4 DEF InMove
<1>6. ASSUME NEW d \in Desc!All, d # dev[f] PROVE Refer(d)' = Refer(d)
  BY <1>1, <1>2, <1>6 DEF Refer, Desc!Opening
<1>7. {g \in Fds \ Desc!Opening : dev'[g] = dev[f]} = Refer(dev[f]) \ {f} /\ f \in Refer(dev[f])
  BY <1>1, <1>2, <1>3 DEF Refer
<1>8. Cardinality({g \in Fds \ Desc!Opening : dev'[g] = dev[f]}) = Cardinality(Refer(dev[f])) - 1
  <2>1. IsFiniteSet(Refer(dev[f]))
    BY ReferIsFinite
  <2>2. Cardinality(Refer(dev[f]) \ {f}) = Cardinality(Refer(dev[f])) - 1
    BY <1>7, <2>1, FS_RemoveElement
  <2>. QED BY <1>7, <2>2
<1>9. ASSUME NEW d \in Desc!All \ {Null}
      PROVE  (users[d] = Cardinality(Refer(d)) + Cardinality(InMove(d)))'
  <2>1. CASE d # dev[f]
    BY <1>1, <1>2, <1>5, <1>6, <2>1 DEF Paired
  <2>2. CASE d = dev[f]
    <3>1. Refer(d)' = {g \in Fds \ Desc!Opening : dev'[g] = dev[f]}
      BY <1>2, <2>2 DEF Refer, Desc!Opening
    <3>2. users[d] = Cardinality(Refer(dev[f])) + Cardinality(InMove(d)) /\ users'[d] = users[d] - 1
      BY <1>1, <1>2, <2>2 DEF Paired
    <3>3. Cardinality(Refer(dev[f])) \in Nat /\ Cardinality({}) = 0
      BY ReferIsFinite, FS_EmptySet
    <3>4. InMove(d)' = {} /\ InMove(d) = {}
      BY <1>5
    <3>. QED BY <1>8, <2>2, <3>1, <3>2, <3>3, <3>4
  <2>. QED BY <2>1, <2>2
<1>. QED BY <1>9 DEF Paired

LEMMA DescNextPairs ==
  ASSUME FilesInv, Paired, ~use.closesStd, [Desc!Next]_Desc!vars PROVE Paired'
<1>. use.threads \subseteq Threads
  BY FilesConstants DEF FilesInv, FTypes, Desc!TypeOK
<1>1. CASE UNCHANGED Desc!vars
  BY <1>1, QuietPairs DEF Desc!vars, Desc!pool, Desc!open
<1>2. CASE \/ (\E d \in Devices : Desc!DevReg(d)) \/ (\E s \in FileSystems : Desc!FsReg(s))
           \/ Desc!Booted
  BY <1>2, QuietPairs DEF Desc!DevReg, Desc!FsReg, Desc!Booted, Desc!pool, Desc!open
<1>3. CASE Desc!Redirect
  BY <1>3, BeginPairs, FilesConstants DEF Desc!Redirect
<1>4. CASE Desc!Move
  BY <1>4, MovePairs
<1>5. ASSUME NEW t \in Threads, NEW name, NEW args, Desc!Open(t, name, args) PROVE Paired'
  BY <1>5, BeginPairs DEF Desc!Open
<1>6. ASSUME NEW t \in Threads, Desc!Callback(t) PROVE Paired'
  BY <1>6, GiveUpPairs, OpenedPairs DEF Desc!Callback, Desc!pool, Desc!Error
<1>7. ASSUME NEW t \in Threads, Desc!Scan(t) PROVE Paired'
  <2>1. CASE pos[t] # idx[t] /\ dev[pos[t]] = dev[idx[t]] /\ "EXCL" \in flags[pos[t]]
    BY <1>7, <2>1, GiveUpPairs DEF Desc!Scan, Desc!Error
  <2>2. CASE ~(pos[t] # idx[t] /\ dev[pos[t]] = dev[idx[t]] /\ "EXCL" \in flags[pos[t]])
    BY <1>7, <2>2, QuietPairs DEF Desc!Scan, Desc!pool
  <2>. QED BY <2>1, <2>2
<1>8. ASSUME NEW t \in Threads, NEW f \in Desc!Fd, Desc!Close(t, f) PROVE Paired'
  BY <1>8, ClosePairs DEF Fds
<1>9. ASSUME NEW t \in Threads,
             \/ Desc!SetFlags(t) \/ Desc!Mark(t) \/ Desc!NotLocked(t) \/ Desc!DirectOpen(t)
             \/ \E f \in Fds : Desc!Lock(t, f) \/ Desc!Unlock(t, f)
             \/ \E f \in Fds, new \in SUBSET {"NONBLOCK", "RDWR"} : Desc!SetFl(t, f, new)
             \/ \E call \in Desc!Passed, f \in Fds \cup {-1} : Desc!Call(t, call, f)
      PROVE  Paired'
  BY <1>9, QuietSteps, QuietPairs
<1>. QED BY <1>1, <1>2, <1>3, <1>4, <1>5, <1>6, <1>7, <1>8, <1>9 DEF Desc!Next, Fds

LEMMA ThreeStreams == Cardinality(0 .. 2) = 3
<1>1. Cardinality({0}) = 1 /\ IsFiniteSet({0})
  BY FS_Singleton
<1>2. Cardinality({0} \cup {1}) = 2 /\ IsFiniteSet({0} \cup {1})
  BY <1>1, FS_AddElement
<1>3. Cardinality(({0} \cup {1}) \cup {2}) = 3
  BY <1>2, FS_AddElement
<1>4. ({0} \cup {1}) \cup {2} = 0 .. 2
  OBVIOUS
<1>. QED BY <1>3, <1>4

LEMMA InitPairs == Desc!Init => Paired
<1>. USE FilesConstants
<1>. SUFFICES ASSUME Desc!Init PROVE Paired
  OBVIOUS
<1>1. Desc!Opening = {} /\ \A d : InMove(d) = {}
  BY DEF Desc!Init, Desc!Opening, InMove
<1>2. CASE use.pinned
  <2>1. PICK d \in Devices, s \in FileSystems :
          /\ dev = [f \in Fds |-> IF f < 3 THEN d ELSE IF f = MaxFd - 1 THEN s ELSE None]
          /\ users = [e \in Desc!All |-> IF e = d THEN 3 ELSE IF e = s THEN 1 ELSE 0]
    BY <1>2 DEF Desc!Init, Fds
  <2>2. d # s /\ d # None /\ s # None /\ None \notin Desc!All
    BY DEF Desc!All
  <2>3. Refer(d) = 0 .. 2 /\ Refer(s) = {MaxFd - 1}
    BY <1>1, <2>1, <2>2 DEF Refer, Fds, Desc!Fd
  <2>4. ASSUME NEW e \in Desc!All, e # d, e # s PROVE Refer(e) = {}
    BY <1>1, <2>1, <2>2, <2>4 DEF Refer
  <2>5. Cardinality(0 .. 2) = 3 /\ Cardinality({MaxFd - 1}) = 1 /\ Cardinality({}) = 0
    <3>1. Cardinality(0 .. 2) = 3
      BY ThreeStreams
    <3>2. Cardinality({MaxFd - 1}) = 1
      BY FS_Singleton
    <3>. QED BY <3>1, <3>2, FS_EmptySet
  <2>6. ASSUME NEW e \in Desc!All PROVE users[e] = Cardinality(Refer(e)) + Cardinality(InMove(e))
    <3>1. CASE e = d
      <4>1. users[e] = 3
        BY <2>1, <2>2, <3>1
      <4>2. Cardinality(Refer(e)) = 3
        BY <2>3, <2>5, <3>1
      <4>3. Cardinality(InMove(e)) = 0
        BY <1>1, <2>5
      <4>. QED BY <4>1, <4>2, <4>3
    <3>2. CASE e = s
      <4>1. users[e] = 1
        BY <2>1, <2>2, <3>2
      <4>2. Cardinality(Refer(e)) = 1
        BY <2>3, <2>5, <3>2
      <4>3. Cardinality(InMove(e)) = 0
        BY <1>1, <2>5
      <4>. QED BY <4>1, <4>2, <4>3
    <3>3. CASE e # d /\ e # s
      <4>1. users[e] = 0
        BY <2>1, <2>2, <3>3
      <4>2. Cardinality(Refer(e)) = 0
        BY <2>4, <2>5, <3>3
      <4>3. Cardinality(InMove(e)) = 0
        BY <1>1, <2>5
      <4>. QED BY <4>1, <4>2, <4>3
    <3>. QED BY <3>1, <3>2, <3>3
  <2>. QED BY <2>6 DEF Paired
<1>3. CASE ~use.pinned
  <2>1. /\ dev = [f \in Fds |-> IF f < 3 THEN Null ELSE None]
        /\ users = [d \in Desc!All |-> 0]
    BY <1>3 DEF Desc!Init, Fds
  <2>2. ASSUME NEW d \in Desc!All \ {Null} PROVE Refer(d) = {}
    BY <1>1, <2>1 DEF Refer
  <2>3. ASSUME NEW d \in Desc!All \ {Null}
        PROVE  users[d] = Cardinality(Refer(d)) + Cardinality(InMove(d))
    <3>1. Cardinality(Refer(d)) = 0 /\ Cardinality(InMove(d)) = 0
      BY <1>1, <2>2, FS_EmptySet
    <3>. QED BY <2>1, <3>1
  <2>. QED BY <2>3 DEF Paired
<1>. QED BY <1>2, <1>3

-----------------------------------------------------------------------------
\* The program leaves the three streams open.
KeepsStreams == \A u \in Uses : ~u.closesStd

DescInv == unit = "files" => FilesInv /\ Paired

LEMMA InvSound == FilesInv /\ Paired =>
  /\ Desc!TypeOK /\ Desc!LockIsHeld /\ Desc!NoLeak /\ Desc!MarkIsHigh /\ Desc!CallbacksPair
  /\ Desc!StreamsUsable
  /\ use.pinned => Desc!Exclusive
<1>. USE FilesConstants
<1>. SUFFICES ASSUME FilesInv, Paired
              PROVE  /\ Desc!TypeOK /\ Desc!LockIsHeld /\ Desc!NoLeak /\ Desc!MarkIsHigh
                     /\ Desc!CallbacksPair /\ Desc!StreamsUsable
                     /\ use.pinned => Desc!Exclusive
  OBVIOUS
<1>1. Desc!TypeOK /\ Desc!StreamsUsable /\ Desc!CallbacksPair
  BY PairedIs DEF FilesInv, FTypes, StreamInv
<1>2. Desc!LockIsHeld /\ Desc!MarkIsHigh
  BY DEF FilesInv, PoolInv, Desc!LockIsHeld, Desc!MarkIsHigh, Fds
<1>3. Desc!NoLeak
  <2>. SUFFICES ASSUME boot = 3
                PROVE  /\ {f \in Fds : f > 2 /\ dev[f] # None}
                            = {f \in held \cup Desc!Opening : f > 2}
                       /\ \A t, u \in Threads : idx[t] # -1 /\ fAt[t] # "idle" /\ fAt[u] # "idle"
                                                /\ t # u => idx[t] # idx[u] /\ idx[t] \notin held
    BY DEF Desc!NoLeak, Fds
  <2>1. held \subseteq Fds /\ idx \in [Threads -> Fds \cup {-1}] /\ -1 \notin Fds
    BY DEF FilesInv, FTypes, Desc!TypeOK, Fds, Desc!Fd
  <2>2. \A f \in Fds : f > 2 => (dev[f] # None <=> f \in held \/ f \in Desc!Opening)
    BY DEF FilesInv, PoolInv, Openers, Opener, Desc!Opening, Fds, Desc!Fd
  <2>3. \A f \in held \cup Desc!Opening : f > 2 => f \in Fds
    BY <2>1 DEF Desc!Opening
  <2>4. {f \in Fds : f > 2 /\ dev[f] # None} = {f \in held \cup Desc!Opening : f > 2}
    BY <2>2, <2>3
  <2>5. \A t, u \in Threads : idx[t] # -1 /\ fAt[t] # "idle" /\ fAt[u] # "idle" /\ t # u
                                => idx[t] # idx[u] /\ idx[t] \notin held
    BY DEF FilesInv, Openers, Opener
  <2>. QED BY <2>4, <2>5
<1>4. use.pinned => Desc!Exclusive
  <2>1. held \subseteq Fds /\ -1 \notin Fds
    BY DEF FilesInv, FTypes, Desc!TypeOK, Fds, Desc!Fd
  <2>2. \A e, g \in Fds : Unlooked(e, g) => g \notin held
    BY <2>1 DEF FilesInv, Unlooked, Openers, Opener
  <2>. QED BY <2>1, <2>2 DEF FilesInv, PinInv, Desc!Exclusive
<1>. QED BY <1>1, <1>2, <1>3, <1>4

\* While a descriptor above all others is kept, a step shows in the pool as one
\* of its steps or not at all.
Effect ==
  \/ /\ held' = held /\ \A f \in held : dev'[f] = dev[f]
     /\ \A f \in held : "EXCL" \in flags'[f] <=> "EXCL" \in flags[f]
  \/ \E f \in Fds \ held :
       /\ held' = held \cup {f} /\ UNCHANGED <<dev, flags>> /\ dev[f] \in Desc!All
       /\ \A e \in held : "EXCL" \in flags[e] => dev[e] # dev[f]
  \/ \E f \in held :
       /\ held' = held \ {f}
       /\ dev' = [dev EXCEPT ![f] = None] /\ flags' = [flags EXCEPT ![f] = {}]
  \/ \E f \in held :
       /\ UNCHANGED <<dev, held>> /\ flags' = [flags EXCEPT ![f] = @ \cup {"EXCL"}]
       /\ \A g \in held : dev[g] = dev[f] => g = f
  \/ \E f \in held :
       UNCHANGED <<dev, held>> /\ flags' = [flags EXCEPT ![f] = @ \ {"EXCL"}]

LEMMA EffectIs ==
  ASSUME FilesInv, ~use.closesStd, use.pinned, [Desc!Next]_Desc!vars
  PROVE  Effect /\ UNCHANGED <<use, boot>>
<1>. USE FilesConstants
<1>1. /\ use.threads \subseteq Threads /\ boot = 3 /\ held \subseteq Fds
      /\ flags \in [Fds -> SUBSET Desc!Bits] /\ dev \in [Fds -> Desc!All \cup {None}]
      /\ idx \in [Threads -> Fds \cup {-1}]
  BY DEF FilesInv, PinInv, FTypes, Desc!TypeOK, Fds
<1>2. CASE UNCHANGED Desc!vars
  BY <1>2 DEF Desc!vars, Desc!pool, Effect
<1>3. CASE \/ (\E d \in Devices : Desc!DevReg(d)) \/ (\E s \in FileSystems : Desc!FsReg(s))
           \/ Desc!Booted \/ Desc!Redirect \/ Desc!Move
  <2>1. ~Desc!Move
    BY <1>1 DEF Desc!Move, FilesInv, Booting
  <2>. QED BY <1>1, <1>3, <2>1 DEF Desc!DevReg, Desc!FsReg, Desc!Booted, Desc!Redirect
<1>4. ASSUME NEW t \in Threads, NEW name, NEW args, Desc!Begin(t, name, args)
      PROVE  Effect /\ UNCHANGED <<use, boot>>
  <2>1. UNCHANGED <<use, boot>>
    BY <1>4 DEF Desc!Begin
  <2>2. UNCHANGED flags /\ held' = held
    BY <1>4 DEF Desc!Begin, Desc!Ends, Desc!pool
  <2>3. \A f \in held : dev'[f] = dev[f]
    <3>1. CASE UNCHANGED dev
      BY <3>1
    <3>2. CASE ~UNCHANGED dev
      <4>1. ~Desc!Full /\ dev' = [dev EXCEPT ![Fresh] = Desc!Owner(name)]
        BY <1>4, <3>2 DEF Desc!Begin, Desc!pool, Desc!GetFd, Fresh, Fds
      <4>2. Fresh \notin held
        BY <1>1, <4>1, FreshIsFree DEF FilesInv, PoolInv
      <4>. QED BY <1>1, <4>1, <4>2
    <3>. QED BY <3>1, <3>2
  <2>. QED BY <2>1, <2>2, <2>3 DEF Effect
<1>5. ASSUME NEW t \in Threads, fAt[t] \in {"scan", "callback"}, Desc!Release(idx[t]),
             NEW e \in Desc!Error, Desc!Ends(t, -1, e)
      PROVE  Effect
  <2>1. idx[t] \in Fds /\ idx[t] > 2 /\ idx[t] \notin held
    BY <1>1, <1>5 DEF FilesInv, Booting, Openers, Opener
  <2>2. /\ held' = held /\ flags' = [flags EXCEPT ![idx[t]] = {}]
        /\ dev' = [dev EXCEPT ![idx[t]] = None]
    BY <1>5, <2>1 DEF Desc!Release, Desc!Ends, Desc!Error
  <2>. QED BY <1>1, <2>1, <2>2 DEF Effect
<1>6. ASSUME NEW t \in Threads, Desc!Callback(t) PROVE Effect /\ UNCHANGED <<use, boot>>
  <2>1. UNCHANGED <<use, boot>> /\ fAt[t] = "callback"
    BY <1>6 DEF Desc!Callback
  <2>2. CASE Desc!Release(idx[t]) /\ Desc!Ends(t, -1, "EIO")
    BY <1>5, <2>1, <2>2 DEF Desc!Error
  <2>3. CASE Desc!Ends(t, idx[t], "ok") /\ UNCHANGED Desc!pool
    <3>1. idx[t] \in Fds \ held /\ dev[idx[t]] \in Desc!All
      BY <1>1, <2>1 DEF FilesInv, Booting, Openers, Opener
    <3>2. held' = held \cup {idx[t]} /\ UNCHANGED <<dev, flags>>
      BY <1>1, <2>3 DEF Desc!Ends, Desc!pool
    <3>3. ASSUME NEW e \in held, "EXCL" \in flags[e] PROVE dev[e] # dev[idx[t]]
      <4>1. ~Unlooked(e, idx[t])
        BY <1>1, <2>1, <3>1 DEF Unlooked, FilesInv, Openers, Opener, Fds, Desc!Fd
      <4>. QED BY <1>1, <3>1, <3>3, <4>1 DEF FilesInv, PinInv
    <3>. QED BY <2>1, <3>1, <3>2, <3>3 DEF Effect
  <2>. QED BY <1>6, <2>2, <2>3 DEF Desc!Callback
<1>7. ASSUME NEW t \in Threads, Desc!Scan(t) PROVE Effect /\ UNCHANGED <<use, boot>>
  BY <1>5, <1>7 DEF Desc!Scan, Desc!pool, Effect, Desc!Error
<1>8. ASSUME NEW t \in Threads, NEW f \in Fds, Desc!Close(t, f)
      PROVE  Effect /\ UNCHANGED <<use, boot>>
  <2>1. f \in held /\ f > 2 /\ Desc!Release(f) /\ held' = held \ {f} /\ UNCHANGED <<use, boot>>
    BY <1>8 DEF Desc!Close, Desc!Closable
  <2>. QED BY <2>1 DEF Desc!Release, Effect
<1>9. ASSUME NEW t \in Threads, NEW f \in Fds, Desc!Lock(t, f)
      PROVE  Effect /\ UNCHANGED <<use, boot>>
  <2>1. f \in held /\ "DEV" \in flags[f] /\ UNCHANGED <<use, boot, dev, held>>
    BY <1>9 DEF Desc!Lock
  <2>2. CASE UNCHANGED flags
    BY <2>1, <2>2 DEF Effect
  <2>3. CASE ~UNCHANGED flags
    <3>1. /\ flags' = [flags EXCEPT ![f] = @ \cup {"EXCL"}]
          /\ \A g \in Fds : g < maxFd /\ g # f => dev[g] # dev[f]
      BY <1>9, <2>3 DEF Desc!Lock, Fds
    <3>2. maxFd = MaxFd - 1 /\ dev[MaxFd - 1] \in FileSystems /\ dev[f] \notin FileSystems
      BY <1>1, <2>1 DEF FilesInv, PinInv, PoolInv
    <3>3. \A g \in held : dev[g] = dev[f] => g = f
      BY <1>1, <3>1, <3>2 DEF Fds, Desc!Fd
    <3>. QED BY <2>1, <3>1, <3>3 DEF Effect
  <2>. QED BY <2>2, <2>3
<1>10. ASSUME NEW t \in Threads, NEW f \in Fds, Desc!Unlock(t, f)
       PROVE  Effect /\ UNCHANGED <<use, boot>>
  BY <1>10 DEF Desc!Unlock, Effect
<1>11. ASSUME NEW t \in Threads, NEW f \in Fds, NEW new, Desc!SetFl(t, f, new)
       PROVE  Effect /\ UNCHANGED <<use, boot>>
  BY <1>1, <1>11 DEF Desc!SetFl, Effect, Desc!Setting
<1>12. ASSUME NEW t \in Threads, Desc!SetFlags(t) \/ Desc!Mark(t)
       PROVE  Effect /\ UNCHANGED <<use, boot>>
  <2>1. idx[t] \in Fds /\ idx[t] \notin held
    BY <1>1, <1>12 DEF FilesInv, Booting, Openers, Opener, Desc!SetFlags, Desc!Mark
  <2>2. /\ UNCHANGED <<use, boot, dev, held>>
        /\ \A g \in held : flags'[g] = flags[g]
    BY <1>1, <1>12, <2>1 DEF Desc!SetFlags, Desc!Mark
  <2>. QED BY <2>2 DEF Effect
<1>13. ASSUME NEW t \in Threads,
              \/ Desc!DirectOpen(t) \/ Desc!NotLocked(t)
              \/ \E call \in Desc!Passed, f \in Desc!Fd \cup {-1} : Desc!Call(t, call, f)
       PROVE  Effect /\ UNCHANGED <<use, boot>>
  BY <1>13 DEF Desc!DirectOpen, Desc!NotLocked, Desc!Call, Desc!pool, Effect
<1>. QED
  BY <1>1, <1>2, <1>3, <1>4, <1>6, <1>7, <1>8, <1>9, <1>10, <1>11, <1>12, <1>13
     DEF Desc!Next, Desc!Open, Fds

Shown == <<IF Pinned THEN Desc!owner ELSE [f \in Desc!Fd |-> None],
           IF Pinned THEN Desc!locked ELSE {}, Pinned>>

LEMMA EffectOnPool ==
  ASSUME FilesInv, FilesInv', Effect, UNCHANGED <<use, boot, unit>>, unit = "files", use.pinned
  PROVE  [Pool!Next]_Shown
<1>. USE FilesConstants
<1>. DEFINE own == Desc!owner  lck == Desc!locked
<1>1. /\ boot = 3 /\ held \subseteq Fds /\ held' \subseteq Fds /\ Pinned /\ Pinned'
      /\ flags \in [Fds -> SUBSET Desc!Bits] /\ dev \in [Fds -> Desc!All \cup {None}]
      /\ \A f \in held : dev[f] # None
  BY DEF FilesInv, PinInv, PoolInv, FTypes, Desc!TypeOK, Fds, Pinned
<1>2. /\ own = [f \in Fds |-> IF f \in held THEN dev[f] ELSE None]
      /\ own' = [f \in Fds |-> IF f \in held' THEN dev'[f] ELSE None]
      /\ lck = {f \in held : "EXCL" \in flags[f]} /\ lck' = {f \in held' : "EXCL" \in flags'[f]}
  BY <1>1 DEF Desc!owner, Desc!locked, Fds
<1>3. Shown = <<own, lck, TRUE>> /\ Shown' = <<own', lck', TRUE>>
  BY <1>1 DEF Shown, Pinned
<1>4. CASE /\ held' = held /\ \A f \in held : dev'[f] = dev[f]
           /\ \A f \in held : "EXCL" \in flags'[f] <=> "EXCL" \in flags[f]
  BY <1>1, <1>2, <1>3, <1>4
<1>5. ASSUME NEW f \in Fds \ held,
             held' = held \cup {f}, UNCHANGED <<dev, flags>>, dev[f] \in Desc!All,
             \A e \in held : "EXCL" \in flags[e] => dev[e] # dev[f]
      PROVE  Pool!Grant(f, dev[f])
  <2>1. own' = [own EXCEPT ![f] = dev[f]] /\ own[f] = None
    BY <1>2, <1>5
  <2>2. "EXCL" \notin flags[f]
    BY <1>5 DEF FilesInv, PoolInv
  <2>3. lck' = lck /\ \A g \in lck : own[g] # dev[f]
    BY <1>1, <1>2, <1>5, <2>2
  <2>. QED BY <1>1, <1>3, <2>1, <2>3 DEF Pool!Grant, Fds
<1>6. ASSUME NEW f \in held, held' = held \ {f},
             dev' = [dev EXCEPT ![f] = None], flags' = [flags EXCEPT ![f] = {}]
      PROVE  Pool!Close(f)
  <2>1. own' = [own EXCEPT ![f] = None] /\ own[f] # None
    BY <1>1, <1>2, <1>6
  <2>2. lck' = lck \ {f}
    BY <1>1, <1>2, <1>6
  <2>. QED BY <1>1, <2>1, <2>2 DEF Pool!Close, Fds
<1>7. ASSUME NEW f \in held, UNCHANGED <<dev, held>>,
             flags' = [flags EXCEPT ![f] = @ \cup {"EXCL"}],
             \A g \in held : dev[g] = dev[f] => g = f
      PROVE  Pool!Lock(f)
  <2>1. own' = own /\ own[f] # None /\ \A g \in Fds : own[g] = own[f] => g = f
    BY <1>1, <1>2, <1>7
  <2>2. lck' = lck \cup {f}
    BY <1>1, <1>2, <1>7
  <2>. QED BY <1>1, <2>1, <2>2 DEF Pool!Lock, Fds
<1>8. ASSUME NEW f \in held, UNCHANGED <<dev, held>>,
             flags' = [flags EXCEPT ![f] = @ \ {"EXCL"}]
      PROVE  Pool!Unlock(f)
  <2>1. own' = own /\ lck' = lck \ {f}
    BY <1>1, <1>2, <1>8
  <2>. QED BY <1>1, <2>1 DEF Pool!Unlock, Fds
<1>9. ASSUME NEW f \in Fds, \/ Pool!Lock(f) \/ Pool!Unlock(f) \/ Pool!Close(f)
                            \/ \E d \in Desc!All : Pool!Grant(f, d)
      PROVE  Pool!Next
  BY <1>9 DEF Pool!Next, Fds
<1>. QED BY <1>1, <1>4, <1>5, <1>6, <1>7, <1>8, <1>9 DEF Effect


LEMMA DescStarts == MCInit => DescInv
  BY DescInit, InitPairs DEF MCInit, DescInv, NoFiles

LEMMA DescSteps == ASSUME KeepsStreams PROVE DescInv /\ [MCNext]_mcVars => DescInv'
<1>. SUFFICES ASSUME DescInv, [MCNext]_mcVars, unit' = "files" PROVE FilesInv' /\ Paired'
  BY DEF DescInv
<1>1. [Desc!Next]_Desc!vars /\ unit = "files"
  BY DEF MCNext, mcVars, fileVars, Desc!vars, Desc!lists, Desc!pool, Desc!open
<1>2. FilesInv /\ Paired /\ ~use.closesStd
  BY <1>1 DEF DescInv, FilesInv, FTypes, Desc!TypeOK, KeepsStreams
<1>. QED BY <1>1, <1>2, DescNextInv, DescNextPairs

\* No descriptor leaks, none in use lies above the mark, a lock is its holder's,
\* drivers see one close for each open and the streams stay usable, for any
\* callers, devices and names, if the program leaves its streams open; and a
\* locked device has one descriptor while one above all others is kept.
THEOREM FilesKeepSound == ASSUME KeepsStreams PROVE MCSpec => []FilesSound
<1>1. DescInv => FilesSound
  BY InvSound DEF DescInv, FilesSound
<1>. QED BY <1>1, DescStarts, DescSteps, PTL DEF MCSpec

LEMMA PoolStarts == MCInit => Pool!Init
<1>. USE FilesConstants
<1>. SUFFICES ASSUME MCInit PROVE Pool!Init
  OBVIOUS
<1>1. CASE ~Pinned
  BY <1>1 DEF Pool!Init, Fds, Pinned
<1>2. CASE Pinned
  <2>1. unit = "files" /\ use.pinned /\ FilesInv /\ Desc!Init
    BY <1>2, DescStarts DEF Pinned, MCInit, DescInv, NoFiles
  <2>2. /\ boot = 3 /\ held \subseteq Fds /\ {0, 1, 2} \subseteq held
        /\ dev \in [Fds -> Desc!All \cup {None}] /\ \A f \in held : dev[f] # None
    BY <2>1 DEF FilesInv, PinInv, Booting, PoolInv, FTypes, Desc!TypeOK, Fds
  <2>3. Desc!locked = {}
    <3>1. flags = [f \in Desc!Fd |-> IF f = 0 THEN {"DEV"}
                                      ELSE IF f < 3 THEN {"WRONLY", "DEV"} ELSE {}]
      BY <2>1 DEF Desc!Init
    <3>. QED BY <2>2, <3>1 DEF Desc!locked, Fds
  <2>4. Desc!owner = [f \in Fds |-> IF f \in held THEN dev[f] ELSE None]
    BY <2>2 DEF Desc!owner, Fds
  <2>5. {0, 1, 2} \subseteq Fds
    BY DEF Fds, Desc!Fd
  <2>. QED BY <1>2, <2>2, <2>3, <2>4, <2>5 DEF Pool!Init, Fds
<1>. QED BY <1>1, <1>2

LEMMA PoolSteps ==
  ASSUME KeepsStreams, DescInv, DescInv', [MCNext]_mcVars PROVE [Pool!Next]_Shown
<1>1. UNCHANGED unit /\ (unit = "files" => [Desc!Next]_Desc!vars)
  BY DEF MCNext, mcVars, fileVars, Desc!vars, Desc!lists, Desc!pool, Desc!open
<1>2. CASE unit # "files"
  BY <1>1, <1>2 DEF Shown, Pinned, Desc!Fd, Fds
<1>3. CASE unit = "files" /\ use.pinned
  <2>1. FilesInv /\ FilesInv' /\ ~use.closesStd
    BY <1>1, <1>3 DEF DescInv, KeepsStreams, FilesInv, FTypes, Desc!TypeOK
  <2>. QED BY <1>1, <1>3, <2>1, EffectIs, EffectOnPool
<1>4. CASE unit = "files" /\ ~use.pinned
  <2>1. UNCHANGED use
    BY <1>1, <1>4 DEF Desc!Next, Desc!vars, Desc!DevReg, Desc!FsReg, Desc!Booted, Desc!Redirect,
       Desc!Move, Desc!Begin, Desc!Open, Desc!DirectOpen, Desc!SetFlags, Desc!Mark, Desc!Scan,
       Desc!NotLocked, Desc!Callback, Desc!Close, Desc!Lock, Desc!Unlock, Desc!SetFl, Desc!Call
  <2>. QED BY <1>1, <1>4, <2>1 DEF Shown, Pinned, Desc!Fd, Fds
<1>. QED BY <1>2, <1>3, <1>4

\* Then open, close and the lock, with all their steps, implement the abstract
\* pool: a device somebody has locked is handed to nobody.
THEOREM DescriptorsAreAPool == ASSUME KeepsStreams PROVE MCSpec => DescriptorsArePool
<1>1. DescInv /\ DescInv' /\ [MCNext]_mcVars => [Pool!Next]_Shown
  BY PoolSteps
<1>. QED
  BY <1>1, DescStarts, DescSteps, PoolStarts, PTL
     DEF MCSpec, DescriptorsArePool, Pool!Spec, Shown
=============================================================================
