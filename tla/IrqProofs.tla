----------------------------- MODULE IrqProofs -----------------------------
(***************************************************************************)
(* The interrupts, proved: who may interrupt whom (IrqMask), for every     *)
(* number of interrupt lines, and a request's way to its handler and back  *)
(* (IrqPath), for every number of cores, depth of the synchroniser, flight *)
(* of a write and number of restarts.                                      *)
(*                                                                         *)
(* Of the masks: handlers enable and disable interrupts only while no      *)
(* handler below them is interruptible (IsrOps = FALSE).  Only the topmost *)
(* frame runs, so the invariant has three parts: what a suspended frame is *)
(* doing (Stack), what the mask and the saved contexts are while the       *)
(* topmost frame is where it is (Masks, Sections), and which entries of    *)
(* the handler table may be half written meanwhile (Tables).               *)
(*                                                                         *)
(* Of a request's way: what the CPU sees of a request that has been served *)
(* is gone before it looks again (Served); and every core that no restart  *)
(* has found at work is idle, computes or waits for its handler, no clear  *)
(* is under way to it while it computes or waits, and its request, once    *)
(* through the chain, stays there (Kept).                                  *)
(***************************************************************************)
EXTENDS MCIrq, SequenceTheorems, WellFoundedInduction, TLAPS

Places == {"isr", "run", "outer", "handler", "context", "inner", "load", "store",
           "ienable", "restore", "outeron"}

Frame ==
  [line : 0 .. NLines, at : Places, nested : BOOLEAN, old : SUBSET Line,
   op : Ops \cup {"none", "done"}, arg : Line, tmp : SUBSET Line,
   outer : BOOLEAN, inner : BOOLEAN]

Types ==
  /\ pie \in BOOLEAN /\ ienable \in SUBSET Line /\ active \in SUBSET Line
  /\ pmask \in SUBSET Line /\ req \in SUBSET Line /\ wanted \in SUBSET Line
  /\ table \in [Line -> {"none", "half", "whole"}]

\* The lines above a frame's own, by priority; main()'s line is NLines.
Level(f) == 0 .. f.line - 1

\* The frame is inside alt_iic_isr_register.
Registers(f) == f.op \in {"register", "unregister"}

\* Where an interrupt can find a frame.
Suspended(k) ==
  IF k = 1
    THEN /\ frames[1].at \in {"run", "outer", "inner"} /\ ~frames[1].nested
         /\ frames[1].at = "outer" => Registers(frames[1])
         /\ frames[1].at = "inner" => ~Registers(frames[1])
    ELSE /\ frames[k].at = "run" /\ frames[k].nested
         /\ frames[k].old = Level(frames[k - 1])
         /\ ~Registers(frames[k])

Stack ==
  /\ frames \in Seq(Frame) /\ Len(frames) >= 1
  /\ frames[1].line = NLines
  /\ \A k \in 1 .. Len(frames) : frames[k].line <= NLines - k + 1
  /\ \A k \in 1 .. Len(frames) - 1 :
       frames[k + 1].line < frames[k].line /\ Suspended(k)

\* What the innermost interruptible frame lets through.
Bound ==
  IF Len(frames) = 1 \/ Top.nested THEN Level(Top) ELSE Level(frames[Len(frames) - 1])

Masks ==
  /\ pmask = Bound
  /\ Top.at # "ienable" => ienable = active \cap pmask
  /\ Top.at \notin {"isr", "run"} => pmask = Line
  /\ active = wanted
  /\ Top.at = "store" => Top.tmp = active

\* Where interrupts are off, and what the sections will put back.
Sections ==
  /\ Top.at \in {"handler", "context", "load", "store", "ienable", "restore", "outeron"}
       => ~pie
  /\ InIsr /\ ~Top.nested => ~pie
  /\ Top.at = "inner" /\ Registers(Top) => ~pie
  /\ Top.at \in {"load", "store", "ienable", "restore"} /\ (InIsr \/ Registers(Top))
       => ~Top.inner
  /\ Top.nested => InIsr /\ Top.at = "run" /\ Top.old = Level(frames[Len(frames) - 1])
  /\ Top.at = "isr" => InIsr
  /\ Top.at \in {"outer", "handler", "context", "outeron"} => Registers(Top)
  /\ Registers(Top) => ~InIsr

\* A frame about to enable a line finds its entry whole.
EnablesWhole(f) ==
  f.at \in {"inner", "load", "store"} /\ f.op \in {"enable", "register"}
    => table[f.arg] = "whole"

\* The entry being written is the only one that is not whole while its line is
\* active.
Tables ==
  /\ \A i \in active :
       \/ table[i] = "whole"
       \/ /\ Top.at \in {"context", "inner", "load", "store"}
          /\ Registers(Top) /\ i = Top.arg
  /\ EnablesWhole(Top) /\ EnablesWhole(frames[1])
  /\ Top.at = "isr" => table[Top.line] = "whole"

Inv == Types /\ Stack /\ Masks /\ Sections /\ Tables

-----------------------------------------------------------------------------
(***************************************************************************)
(* The lowest line, and the three ways to change the stack.                *)
(***************************************************************************)
Less == {ss \in Nat \X Nat : ss[1] < ss[2]}

LEMMA LessIsWellFounded == IsWellFoundedOn(Less, Nat)
BY NatLessThanWellFounded DEF OpToRel, Less

LEMMA HasLowest ==
  ASSUME NEW S \in SUBSET Nat, S # {}
  PROVE  \E x \in S : \A y \in S : x <= y
<1>2. PICK x \in S : \A y \in S : ~(<<y, x>> \in Less)
  BY LessIsWellFounded, WFMin
<1>3. \A m, n \in Nat : n < m => <<n, m>> \in Less
  BY DEF Less
<1>4. \A y \in S : x <= y
  <2>. TAKE y \in S
  <2>1. x \in Nat /\ y \in Nat OBVIOUS
  <2>2. ~(y < x) BY <1>2, <1>3, <2>1
  <2>. QED BY <2>1, <2>2
<1>. QED BY <1>4

LEMMA LowestIsIn ==
  ASSUME NEW S \in SUBSET Line, S # {}
  PROVE  Lowest(S) \in S
<1>1. S \subseteq Nat
  BY LinesAssumption DEF Line
<1>2. PICK x \in S : \A y \in S : x <= y
  BY <1>1, HasLowest
<1>. QED BY <1>2 DEF Lowest

LEMMA FrameTypes ==
  ASSUME Types, Stack
  PROVE  /\ Len(frames) \in Nat
         /\ \A k \in 1 .. Len(frames) : frames[k] \in Frame
         /\ Top \in Frame
         /\ NLines \in Nat \ {0}
         /\ NLines = Top.line => Level(Top) = Line
<1>1. Len(frames) \in Nat /\ \A k \in 1 .. Len(frames) : frames[k] \in Frame
  BY ElementOfSeq, LenProperties DEF Stack
<1>. QED BY <1>1, LinesAssumption DEF Stack, Top, Level, Line

LEMMA FrameDepth ==
  ASSUME Types, Stack
  PROVE  /\ ~InIsr => Len(frames) = 1
         /\ InIsr => Len(frames) # 1
<1>. DEFINE n == Len(frames)
<1>1. n \in Nat /\ n >= 1
  BY FrameTypes DEF Stack
<1>2. InIsr <=> n > 1
  BY DEF InIsr
<1>. HIDE DEF n
<1>3. n > 1 <=> n # 1
  BY <1>1
<1>. QED BY <1>2, <1>3 DEF n

\* The running frame goes on, or hands over to the next handler of its loop.
LEMMA TopChanges ==
  ASSUME Types, Stack, NEW f \in Frame, With(f),
         \/ f.line = Top.line
         \/ InIsr /\ f.line < frames[Len(frames) - 1].line
  PROVE  /\ Stack' /\ Top' = f /\ InIsr' = InIsr
         /\ Len(frames') = Len(frames)
         /\ \A k \in 1 .. Len(frames) - 1 : frames'[k] = frames[k]
<1>. DEFINE n == Len(frames)
<1>1. n \in Nat /\ n >= 1 /\ frames \in Seq(Frame)
  BY FrameTypes DEF Stack
<1>2. /\ frames' \in Seq(Frame) /\ Len(frames') = n
      /\ \A j \in 1 .. n : frames'[j] = IF j = n THEN f ELSE frames[j]
  BY <1>1, ExceptSeq DEF With
<1>. HIDE DEF n
<1>3. Top' = f /\ InIsr' = InIsr
  BY <1>1, <1>2 DEF Top, InIsr, n
<1>4. /\ \A k \in 1 .. n : frames[k] \in Frame /\ frames[k].line \in Int
      /\ f.line \in Int /\ NLines \in Int
  BY FrameTypes, LinesAssumption DEF Frame, n
<1>5. \A k \in 1 .. n - 1 : frames'[k] = frames[k]
  BY <1>1, <1>2
<1>6. f.line <= NLines - n + 1 /\ (n > 1 => f.line < frames[n - 1].line)
      /\ (n = 1 => f.line = NLines)
  <2>1. /\ frames[n].line <= NLines - n + 1 /\ frames[1].line = NLines
        /\ n > 1 => frames[n - 1].line <= NLines - n + 2 /\ frames[n].line < frames[n - 1].line
    <3>1. /\ \A k \in 1 .. n : frames[k].line <= NLines - k + 1
          /\ \A k \in 1 .. n - 1 : frames[k + 1].line < frames[k].line
          /\ frames[1].line = NLines
      BY DEF Stack, n
    <3>2. CASE n > 1
      <4>1. n - 1 \in 1 .. n - 1 /\ n - 1 \in 1 .. n /\ (n - 1) + 1 = n
            /\ NLines - (n - 1) + 1 = NLines - n + 2
        BY <1>1, <1>4, <3>2
      <4>. QED BY <1>1, <3>1, <4>1
    <3>. QED BY <1>1, <3>1, <3>2
  <2>2. CASE f.line = Top.line
    BY <1>1, <2>1, <2>2 DEF Top, n
  <2>3. CASE InIsr /\ f.line < frames[n - 1].line
    <3>1. n > 1 /\ n - 1 \in 1 .. n BY <1>1, <2>3 DEF InIsr, n
    <3>. QED BY <1>1, <1>4, <2>1, <2>3, <3>1
  <2>. QED BY <2>2, <2>3 DEF n
<1>7. \A k \in 1 .. n - 1 : Suspended(k)'
  <2>. TAKE k \in 1 .. n - 1
  <2>1. Suspended(k) BY DEF Stack, n
  <2>2. CASE k = 1 BY <1>5, <2>1, <2>2 DEF Suspended
  <2>3. CASE k # 1
    <3>1. k - 1 \in 1 .. n - 1 BY <1>1, <2>3
    <3>2. frames'[k] = frames[k] /\ frames'[k - 1] = frames[k - 1]
      BY <1>5, <3>1
    <3>. QED BY <2>1, <2>3, <3>2 DEF Suspended
  <2>. QED BY <2>2, <2>3
<1>8. \A k \in 1 .. n : frames'[k].line <= NLines - k + 1
  BY <1>1, <1>2, <1>6 DEF Stack, n
<1>9. \A k \in 1 .. n - 1 : frames'[k + 1].line < frames'[k].line
  BY <1>1, <1>2, <1>6 DEF Stack, n
<1>10. frames'[1].line = NLines
  BY <1>1, <1>2, <1>6 DEF Stack, n
<1>. QED BY <1>1, <1>2, <1>3, <1>5, <1>7, <1>8, <1>9, <1>10 DEF Stack, n

LEMMA NewFrameType ==
  ASSUME NEW i \in 0 .. NLines
  PROVE  NewFrame(i) \in Frame
BY LinesAssumption DEF NewFrame, Frame, Line, Places

\* An interrupt suspends the running frame.
LEMMA FramePushed ==
  ASSUME Types, Stack, NEW i \in Line, i < Top.line, Suspended(Len(frames)),
         frames' = Append(frames, NewFrame(i))
  PROVE  /\ Stack' /\ Top' = NewFrame(i) /\ InIsr'
         /\ Len(frames') = Len(frames) + 1
         /\ frames'[Len(frames') - 1] = Top
         /\ \A k \in 1 .. Len(frames) : frames'[k] = frames[k]
<1>. DEFINE n == Len(frames)
<1>1. n \in Nat /\ n >= 1 /\ frames \in Seq(Frame)
  BY FrameTypes DEF Stack
<1>2. /\ frames' \in Seq(Frame) /\ Len(frames') = n + 1
      /\ \A k \in 1 .. n : frames'[k] = frames[k]
      /\ frames'[n + 1] = NewFrame(i)
  <2>1. NewFrame(i) \in Frame
    BY NewFrameType, LinesAssumption DEF Line
  <2>. QED BY <1>1, <2>1, AppendProperties
<1>3. Top = frames[n] BY DEF Top
<1>4. \A k \in 1 .. n : Suspended(k)
  BY <1>1 DEF Stack
<1>. HIDE DEF n
<1>5. Top' = NewFrame(i) /\ InIsr' /\ frames'[Len(frames') - 1] = Top
  <2>1. (n + 1) - 1 = n /\ n + 1 > 1 BY <1>1
  <2>. QED BY <1>1, <1>2, <1>3, <2>1 DEF Top, InIsr
<1>6. /\ \A k \in 1 .. n : frames[k].line \in Int
      /\ i \in Int /\ NLines \in Int
  BY FrameTypes, LinesAssumption DEF Frame, Line, n
<1>7. NewFrame(i).line = i BY DEF NewFrame
<1>8. frames[n].line <= NLines - n + 1
  BY <1>1 DEF Stack, n
<1>9. \A k \in 1 .. n + 1 : frames'[k].line <= NLines - k + 1
  <2>1. i <= NLines - (n + 1) + 1 BY <1>1, <1>3, <1>6, <1>8
  <2>. QED BY <1>1, <1>2, <1>7, <2>1 DEF Stack, n
<1>10. \A k \in 1 .. n : frames'[k + 1].line < frames'[k].line
  BY <1>1, <1>2, <1>3, <1>7 DEF Stack, n
<1>11. \A k \in 1 .. n : Suspended(k)'
  <2>. TAKE k \in 1 .. n
  <2>1. CASE k = 1 BY <1>1, <1>2, <1>4, <2>1 DEF Suspended
  <2>2. CASE k # 1
    <3>1. k - 1 \in 1 .. n BY <1>1, <2>2
    <3>. QED BY <1>2, <1>4, <2>2, <3>1 DEF Suspended
  <2>. QED BY <2>1, <2>2
<1>12. frames'[1].line = NLines
  BY <1>1, <1>2 DEF Stack
<1>13. (n + 1) - 1 = n /\ n + 1 >= 1
  BY <1>1
<1>. QED BY <1>1, <1>2, <1>5, <1>9, <1>10, <1>11, <1>12, <1>13 DEF Stack, n

\* A handler that leaves gives the processor back to the frame below.
LEMMA FramePopped ==
  ASSUME Types, Stack, InIsr, frames' = SubSeq(frames, 1, Len(frames) - 1)
  PROVE  /\ Stack' /\ Top' = frames[Len(frames) - 1]
         /\ Len(frames') = Len(frames) - 1
         /\ \A k \in 1 .. Len(frames) - 1 : frames'[k] = frames[k]
         /\ Suspended(Len(frames) - 1)
<1>. DEFINE n == Len(frames)
<1>1. n \in Nat /\ n > 1 /\ frames \in Seq(Frame)
  BY FrameTypes DEF Stack, InIsr
<1>2. \A k \in 1 .. n - 1 : frames[k] \in Frame
  BY <1>1, FrameTypes
<1>. HIDE DEF n
<1>3. /\ frames' \in Seq(Frame) /\ Len(frames') = n - 1
      /\ \A k \in 1 .. n - 1 : frames'[k] = frames[k]
  BY <1>1, <1>2, SubSeqProperties DEF n
<1>4. n - 1 \in 1 .. n - 1 /\ n - 1 >= 1
  BY <1>1
<1>5. Top' = frames[n - 1]
  BY <1>3, <1>4 DEF Top
<1>6. \A k \in 1 .. n - 1 : Suspended(k)
  BY DEF Stack, n
<1>7. \A k \in 1 .. (n - 1) - 1 : Suspended(k)'
  <2>. TAKE k \in 1 .. (n - 1) - 1
  <2>1. k \in 1 .. n - 1 BY <1>1
  <2>2. CASE k = 1 BY <1>3, <1>6, <2>1, <2>2 DEF Suspended
  <2>3. CASE k # 1
    <3>1. k - 1 \in 1 .. n - 1 BY <1>1, <2>1, <2>3
    <3>. QED BY <1>3, <1>6, <2>1, <2>3, <3>1 DEF Suspended
  <2>. QED BY <2>2, <2>3
<1>8. /\ \A k \in 1 .. n - 1 : frames'[k].line <= NLines - k + 1
      /\ \A k \in 1 .. (n - 1) - 1 : frames'[k + 1].line < frames'[k].line
      /\ frames'[1].line = NLines
  BY <1>1, <1>3 DEF Stack, n
<1>. QED BY <1>1, <1>3, <1>4, <1>5, <1>6, <1>7, <1>8 DEF Stack, n

-----------------------------------------------------------------------------
(***************************************************************************)
(* The actions, one by one.                                                *)
(***************************************************************************)
LEMMA TopType ==
  ASSUME Inv
  PROVE  /\ Top \in Frame /\ Types /\ Stack
         /\ Top.line \in 0 .. NLines /\ Top.at \in Places /\ Top.nested \in BOOLEAN
         /\ Top.arg \in Line /\ Top.inner \in BOOLEAN /\ Top.outer \in BOOLEAN
         /\ Top.op \in Ops \cup {"none", "done"} /\ Top.tmp \in SUBSET Line
         /\ Top.old \in SUBSET Line
<1>1. Top \in Frame /\ Types /\ Stack
  BY FrameTypes DEF Inv
<1>. QED BY <1>1 DEF Frame

LEMMA InitInv == Init => Inv
<1>. SUFFICES ASSUME Init PROVE Inv
  OBVIOUS
<1>. DEFINE f == [NewFrame(NLines) EXCEPT !.at = "run"]
<1>1. /\ f \in Frame /\ f.line = NLines /\ f.at = "run" /\ ~f.nested /\ f.op = "none"
  <2>1. NewFrame(NLines) \in Frame
    BY NewFrameType, LinesAssumption
  <2>2. /\ NewFrame(NLines).line = NLines /\ NewFrame(NLines).nested = FALSE
        /\ NewFrame(NLines).op = "none"
    BY DEF NewFrame
  <2>. QED BY <2>1, <2>2 DEF Frame, Places
<1>2. frames = <<f>>
  BY DEF Init
<1>. HIDE DEF f
<1>3. frames \in Seq(Frame) /\ Len(frames) = 1 /\ frames[1] = f /\ Top = f
  BY <1>1, <1>2 DEF Top
<1>4. Stack
  BY <1>1, <1>3, LinesAssumption DEF Stack
<1>5. Types
  BY DEF Init, Types
<1>6. Masks
  BY <1>1, <1>3 DEF Init, Masks, Bound, Level, Line
<1>7. Sections
  BY <1>1, <1>3 DEF Init, Sections, InIsr, Registers
<1>8. Tables
  BY <1>1, <1>3 DEF Init, Tables, EnablesWhole
<1>. QED BY <1>4, <1>5, <1>6, <1>7, <1>8 DEF Inv

\* A step of the running frame's own leaves the bound alone.
LEMMA TopMoves ==
  ASSUME Inv, NEW f \in Frame, With(f), f.line = Top.line, (f.nested <=> Top.nested)
  PROVE  /\ Stack' /\ Top' = f /\ InIsr' = InIsr /\ Len(frames') = Len(frames)
         /\ Bound' = Bound
         /\ frames'[1] = IF InIsr THEN frames[1] ELSE f
<1>1. /\ Stack' /\ Top' = f /\ InIsr' = InIsr /\ Len(frames') = Len(frames)
      /\ \A k \in 1 .. Len(frames) - 1 : frames'[k] = frames[k]
  BY TopChanges DEF Inv
<1>2. Len(frames) \in Nat /\ Len(frames) >= 1
  <2>1. Types /\ Stack /\ Len(frames) >= 1
    BY DEF Inv, Stack
  <2>2. Len(frames) \in Nat
    BY <2>1, FrameTypes
  <2>. QED BY <2>1, <2>2
<1>3. Bound' = Bound
  <2>1. Len(frames) # 1 => Len(frames) - 1 \in 1 .. Len(frames) - 1
    BY <1>2
  <2>. QED BY <1>1, <2>1 DEF Bound, Level
<1>4. frames'[1] = IF InIsr THEN frames[1] ELSE f
  <2>1. CASE InIsr
    <3>1. 1 \in 1 .. Len(frames) - 1
      BY <1>2, <2>1 DEF InIsr
    <3>. QED BY <1>1, <2>1, <3>1
  <2>2. CASE ~InIsr
    <3>1. Len(frames') = 1 BY <1>1, <1>2, <2>2 DEF InIsr, Inv, Stack
    <3>. QED BY <1>1, <2>2, <3>1 DEF Top
  <2>. QED BY <2>1, <2>2
<1>. QED BY <1>1, <1>3, <1>4

LEMMA ServeInv == Inv /\ Serve => Inv'
<1>. SUFFICES ASSUME Inv, Serve PROVE Inv'
  OBVIOUS
<1>. DEFINE f == [Top EXCEPT !.at = "run"]
<1>1. /\ f \in Frame /\ f.line = Top.line /\ (f.nested <=> Top.nested)
      /\ f.at = "run" /\ f.op = Top.op /\ f.arg = Top.arg
      /\ f.tmp = Top.tmp /\ (f.inner <=> Top.inner) /\ f.old = Top.old
  BY TopType DEF Frame, Places, Types
<1>. With(f)
  BY DEF Serve, Goes
<1>. HIDE DEF f
<1>2. /\ Stack' /\ Top' = f /\ InIsr' = InIsr /\ Len(frames') = Len(frames) /\ Bound' = Bound
      /\ frames'[1] = IF InIsr THEN frames[1] ELSE f
  BY <1>1, TopMoves
<1>3. Types'
  BY TopType DEF Types, Serve, regs
<1>4. Masks'
  BY <1>1, <1>2, TopType DEF Inv, Types, Masks, Sections, Serve, regs
<1>5. Sections'
  BY <1>1, <1>2, TopType DEF Inv, Sections, Registers, Serve, regs
<1>6. Tables'
  BY <1>1, <1>2, TopType DEF Inv, Types, Masks, Sections, Tables, EnablesWhole,
     Registers, Serve, regs
<1>. QED BY <1>2, <1>3, <1>4, <1>5, <1>6 DEF Inv

LEMMA SetHandlerInv == Inv /\ SetHandler => Inv'
<1>. SUFFICES ASSUME Inv, SetHandler PROVE Inv'
  OBVIOUS
<1>. DEFINE f == [Top EXCEPT !.at = "context"]
<1>1. /\ f \in Frame /\ f.line = Top.line /\ (f.nested <=> Top.nested)
      /\ f.at = "context" /\ f.op = Top.op /\ f.arg = Top.arg
      /\ f.tmp = Top.tmp /\ (f.inner <=> Top.inner) /\ f.old = Top.old
  BY TopType DEF Frame, Places, Types
<1>. With(f)
  BY DEF SetHandler, Goes
<1>. HIDE DEF f
<1>2. /\ Stack' /\ Top' = f /\ InIsr' = InIsr /\ Len(frames') = Len(frames) /\ Bound' = Bound
      /\ frames'[1] = IF InIsr THEN frames[1] ELSE f
  BY <1>1, TopMoves
<1>3. Types'
  BY TopType DEF Types, SetHandler, regs
<1>4. Masks'
  BY <1>1, <1>2, TopType DEF Inv, Types, Masks, Sections, SetHandler, regs
<1>5. Sections'
  BY <1>1, <1>2, TopType DEF Inv, Sections, Registers, SetHandler, regs
<1>6. Tables'
  BY <1>1, <1>2, TopType DEF Inv, Types, Masks, Sections, Tables, EnablesWhole,
     Registers, SetHandler, regs
<1>. QED BY <1>2, <1>3, <1>4, <1>5, <1>6 DEF Inv

LEMMA SetContextInv == Inv /\ SetContext => Inv'
<1>. SUFFICES ASSUME Inv, SetContext PROVE Inv'
  OBVIOUS
<1>. DEFINE f == [Top EXCEPT !.at = "inner"]
<1>1. /\ f \in Frame /\ f.line = Top.line /\ (f.nested <=> Top.nested)
      /\ f.at = "inner" /\ f.op = Top.op /\ f.arg = Top.arg
      /\ f.tmp = Top.tmp /\ (f.inner <=> Top.inner) /\ f.old = Top.old
  BY TopType DEF Frame, Places, Types
<1>. With(f)
  BY DEF SetContext, Goes
<1>. HIDE DEF f
<1>2. /\ Stack' /\ Top' = f /\ InIsr' = InIsr /\ Len(frames') = Len(frames) /\ Bound' = Bound
      /\ frames'[1] = IF InIsr THEN frames[1] ELSE f
  BY <1>1, TopMoves
<1>3. Types'
  BY TopType DEF Types, SetContext, regs
<1>4. Masks'
  BY <1>1, <1>2, TopType DEF Inv, Types, Masks, Sections, SetContext, regs
<1>5. Sections'
  BY <1>1, <1>2, TopType DEF Inv, Sections, Registers, SetContext, regs
<1>6. Tables'
  BY <1>1, <1>2, TopType DEF Inv, Types, Masks, Sections, Tables, EnablesWhole,
     Registers, SetContext, regs
<1>. QED BY <1>2, <1>3, <1>4, <1>5, <1>6 DEF Inv

LEMMA OuterOffInv == Inv /\ OuterOff => Inv'
<1>. SUFFICES ASSUME Inv, OuterOff PROVE Inv'
  OBVIOUS
<1>. DEFINE f == [Top EXCEPT !.outer = pie, !.at = "handler"]
<1>1. /\ f \in Frame /\ f.line = Top.line /\ (f.nested <=> Top.nested)
      /\ f.at = "handler" /\ f.op = Top.op /\ f.arg = Top.arg
      /\ f.tmp = Top.tmp /\ (f.inner <=> Top.inner) /\ f.old = Top.old
  BY TopType DEF Frame, Places, Types
<1>. With(f)
  BY DEF OuterOff, Goes
<1>. HIDE DEF f
<1>2. /\ Stack' /\ Top' = f /\ InIsr' = InIsr /\ Len(frames') = Len(frames) /\ Bound' = Bound
      /\ frames'[1] = IF InIsr THEN frames[1] ELSE f
  BY <1>1, TopMoves
<1>3. Types'
  BY TopType DEF Types, OuterOff, regs
<1>4. Masks'
  BY <1>1, <1>2, TopType DEF Inv, Types, Masks, Sections, OuterOff, regs
<1>5. Sections'
  BY <1>1, <1>2, TopType DEF Inv, Sections, Registers, OuterOff, regs
<1>6. Tables'
  BY <1>1, <1>2, TopType DEF Inv, Types, Masks, Sections, Tables, EnablesWhole,
     Registers, OuterOff, regs
<1>. QED BY <1>2, <1>3, <1>4, <1>5, <1>6 DEF Inv

LEMMA InnerOffInv == Inv /\ InnerOff => Inv'
<1>. SUFFICES ASSUME Inv, InnerOff PROVE Inv'
  OBVIOUS
<1>. DEFINE f == [Top EXCEPT !.inner = pie, !.at = "load"]
<1>1. /\ f \in Frame /\ f.line = Top.line /\ (f.nested <=> Top.nested)
      /\ f.at = "load" /\ f.op = Top.op /\ f.arg = Top.arg
      /\ f.tmp = Top.tmp /\ (f.inner <=> pie) /\ f.old = Top.old
  BY TopType DEF Frame, Places, Types
<1>. With(f)
  BY DEF InnerOff, Goes
<1>. HIDE DEF f
<1>2. /\ Stack' /\ Top' = f /\ InIsr' = InIsr /\ Len(frames') = Len(frames) /\ Bound' = Bound
      /\ frames'[1] = IF InIsr THEN frames[1] ELSE f
  BY <1>1, TopMoves
<1>3. Types'
  BY TopType DEF Types, InnerOff, regs
<1>4. Masks'
  BY <1>1, <1>2, TopType DEF Inv, Types, Masks, Sections, InnerOff, regs
<1>5. Sections'
  BY <1>1, <1>2, TopType DEF Inv, Sections, Registers, InnerOff, regs
<1>6. Tables'
  BY <1>1, <1>2, TopType DEF Inv, Types, Masks, Sections, Tables, EnablesWhole,
     Registers, InnerOff, regs
<1>. QED BY <1>2, <1>3, <1>4, <1>5, <1>6 DEF Inv

LEMMA LoadInv == Inv /\ Load => Inv'
<1>. SUFFICES ASSUME Inv, Load PROVE Inv'
  OBVIOUS
<1>. DEFINE f == [Top EXCEPT !.tmp = active, !.at = "store"]
<1>1. /\ f \in Frame /\ f.line = Top.line /\ (f.nested <=> Top.nested)
      /\ f.at = "store" /\ f.op = Top.op /\ f.arg = Top.arg
      /\ f.tmp = active /\ (f.inner <=> Top.inner) /\ f.old = Top.old
  BY TopType DEF Frame, Places, Types
<1>. With(f)
  BY DEF Load, Goes
<1>. HIDE DEF f
<1>2. /\ Stack' /\ Top' = f /\ InIsr' = InIsr /\ Len(frames') = Len(frames) /\ Bound' = Bound
      /\ frames'[1] = IF InIsr THEN frames[1] ELSE f
  BY <1>1, TopMoves
<1>3. Types'
  BY TopType DEF Types, Load, regs
<1>4. Masks'
  BY <1>1, <1>2, TopType DEF Inv, Types, Masks, Sections, Load, regs
<1>5. Sections'
  BY <1>1, <1>2, TopType DEF Inv, Sections, Registers, Load, regs
<1>6. Tables'
  BY <1>1, <1>2, TopType DEF Inv, Types, Masks, Sections, Tables, EnablesWhole,
     Registers, Load, regs
<1>. QED BY <1>2, <1>3, <1>4, <1>5, <1>6 DEF Inv

LEMMA StoreInv == Inv /\ Store => Inv'
<1>. SUFFICES ASSUME Inv, Store PROVE Inv'
  OBVIOUS
<1>. DEFINE f == [Top EXCEPT !.at = "ienable"]
<1>1. /\ f \in Frame /\ f.line = Top.line /\ (f.nested <=> Top.nested)
      /\ f.at = "ienable" /\ f.op = Top.op /\ f.arg = Top.arg
      /\ f.tmp = Top.tmp /\ (f.inner <=> Top.inner) /\ f.old = Top.old
  BY TopType DEF Frame, Places, Types, On
<1>. With(f)
  BY DEF Store, Goes
<1>. HIDE DEF f
<1>2. /\ Stack' /\ Top' = f /\ InIsr' = InIsr /\ Len(frames') = Len(frames) /\ Bound' = Bound
      /\ frames'[1] = IF InIsr THEN frames[1] ELSE f
  BY <1>1, TopMoves
<1>3. Types'
  BY TopType DEF Types, Store, regs, On
<1>4. Masks'
  BY <1>1, <1>2, TopType DEF Inv, Types, Masks, Sections, Store, regs, On
<1>5. Sections'
  BY <1>1, <1>2, TopType DEF Inv, Sections, Registers, Store, regs, On
<1>6. Tables'
  BY <1>1, <1>2, TopType DEF Inv, Types, Masks, Sections, Tables, EnablesWhole,
     Registers, Store, regs, On
<1>. QED BY <1>2, <1>3, <1>4, <1>5, <1>6 DEF Inv

LEMMA WriteIenableInv == Inv /\ WriteIenable => Inv'
<1>. SUFFICES ASSUME Inv, WriteIenable PROVE Inv'
  OBVIOUS
<1>. DEFINE f == [Top EXCEPT !.at = "restore"]
<1>1. /\ f \in Frame /\ f.line = Top.line /\ (f.nested <=> Top.nested)
      /\ f.at = "restore" /\ f.op = Top.op /\ f.arg = Top.arg
      /\ f.tmp = Top.tmp /\ (f.inner <=> Top.inner) /\ f.old = Top.old
  BY TopType DEF Frame, Places, Types
<1>. With(f)
  BY DEF WriteIenable, Goes
<1>. HIDE DEF f
<1>2. /\ Stack' /\ Top' = f /\ InIsr' = InIsr /\ Len(frames') = Len(frames) /\ Bound' = Bound
      /\ frames'[1] = IF InIsr THEN frames[1] ELSE f
  BY <1>1, TopMoves
<1>3. Types'
  BY TopType DEF Types, WriteIenable, regs
<1>4. Masks'
  BY <1>1, <1>2, TopType DEF Inv, Types, Masks, Sections, WriteIenable, regs
<1>5. Sections'
  BY <1>1, <1>2, TopType DEF Inv, Sections, Registers, WriteIenable, regs
<1>6. Tables'
  BY <1>1, <1>2, TopType DEF Inv, Types, Masks, Sections, Tables, EnablesWhole,
     Registers, WriteIenable, regs
<1>. QED BY <1>2, <1>3, <1>4, <1>5, <1>6 DEF Inv

LEMMA InnerOnInv == Inv /\ InnerOn => Inv'
<1>. SUFFICES ASSUME Inv, InnerOn PROVE Inv'
  OBVIOUS
<1>. DEFINE f == [Top EXCEPT !.at = IF Nests THEN "outeron" ELSE "run",
                      !.op = IF Nests THEN @ ELSE IF InIsr THEN "done" ELSE "none"]
<1>1. /\ f \in Frame /\ f.line = Top.line /\ (f.nested <=> Top.nested)
      /\ (f.at = IF Nests THEN "outeron" ELSE "run")
      /\ (f.op = IF Nests THEN Top.op ELSE IF InIsr THEN "done" ELSE "none")
      /\ f.arg = Top.arg
      /\ f.tmp = Top.tmp /\ (f.inner <=> Top.inner) /\ f.old = Top.old
  BY TopType DEF Frame, Places, Types, Nests
<1>. With(f)
  BY DEF InnerOn, Goes
<1>. HIDE DEF f
<1>2. /\ Stack' /\ Top' = f /\ InIsr' = InIsr /\ Len(frames') = Len(frames) /\ Bound' = Bound
      /\ frames'[1] = IF InIsr THEN frames[1] ELSE f
  BY <1>1, TopMoves
<1>3. Types'
  BY TopType DEF Types, InnerOn, regs, Nests
<1>4. Masks'
  BY <1>1, <1>2, TopType DEF Inv, Types, Masks, Sections, InnerOn, regs, Nests
<1>5. Sections'
  BY <1>1, <1>2, TopType DEF Inv, Sections, Registers, InnerOn, regs, Nests
<1>6. Tables'
  BY <1>1, <1>2, TopType DEF Inv, Types, Masks, Sections, Tables, EnablesWhole,
     Registers, InnerOn, regs, Nests
<1>. QED BY <1>2, <1>3, <1>4, <1>5, <1>6 DEF Inv

LEMMA OuterOnInv == Inv /\ OuterOn => Inv'
<1>. SUFFICES ASSUME Inv, OuterOn PROVE Inv'
  OBVIOUS
<1>. DEFINE f == [Top EXCEPT !.at = "run", !.op = IF InIsr THEN "done" ELSE "none"]
<1>1. /\ f \in Frame /\ f.line = Top.line /\ (f.nested <=> Top.nested)
      /\ f.at = "run" /\ (f.op = IF InIsr THEN "done" ELSE "none") /\ f.arg = Top.arg
      /\ f.tmp = Top.tmp /\ (f.inner <=> Top.inner) /\ f.old = Top.old
  BY TopType DEF Frame, Places, Types
<1>. With(f)
  BY DEF OuterOn, Goes
<1>. HIDE DEF f
<1>2. /\ Stack' /\ Top' = f /\ InIsr' = InIsr /\ Len(frames') = Len(frames) /\ Bound' = Bound
      /\ frames'[1] = IF InIsr THEN frames[1] ELSE f
  BY <1>1, TopMoves
<1>3. Types'
  BY TopType DEF Types, OuterOn, regs
<1>4. Masks'
  BY <1>1, <1>2, TopType DEF Inv, Types, Masks, Sections, OuterOn, regs
<1>5. Sections'
  BY <1>1, <1>2, TopType DEF Inv, Sections, Registers, OuterOn, regs
<1>6. Tables'
  BY <1>1, <1>2, TopType DEF Inv, Types, Masks, Sections, Tables, EnablesWhole,
     Registers, OuterOn, regs
<1>. QED BY <1>2, <1>3, <1>4, <1>5, <1>6 DEF Inv

\* Outside every handler the mask lets all lines through, in an interruptible
\* one it does not.
LEMMA MainSeesAll == Inv => (~InIsr => pmask = Line)
<1>. SUFFICES ASSUME Inv, ~InIsr PROVE pmask = Line
  OBVIOUS
<1>1. Len(frames) = 1 /\ Top = frames[1] /\ frames[1].line = NLines
  <2>1. Len(frames) \in Nat /\ Len(frames) >= 1 /\ frames[1].line = NLines
    BY TopType, FrameTypes DEF Stack
  <2>2. Len(frames) = 1
    BY TopType, FrameDepth
  <2>. QED BY <2>1, <2>2 DEF Top
<1>. QED BY <1>1 DEF Inv, Masks, Bound, Level, Line

LEMMA NestedSeesLess == Inv /\ Top.nested => pmask # Line
<1>. SUFFICES ASSUME Inv, Top.nested PROVE pmask # Line
  OBVIOUS
<1>1. pmask = 0 .. Top.line - 1
  BY DEF Inv, Masks, Bound, Level
<1>2. Top.line < NLines
  <2>1. Len(frames) \in Nat /\ Len(frames) > 1
    BY TopType, FrameTypes DEF Inv, Sections, InIsr
  <2>2. Top.line <= NLines - Len(frames) + 1
    <3>1. \A k \in 1 .. Len(frames) : frames[k].line <= NLines - k + 1
      BY TopType DEF Stack
    <3>2. Len(frames) \in 1 .. Len(frames)
      BY <2>1
    <3>. QED BY <3>1, <3>2 DEF Top
  <2>. QED BY <2>1, <2>2, TopType, LinesAssumption
<1>3. NLines - 1 \in Line /\ NLines - 1 \notin 0 .. Top.line - 1
  BY <1>2, TopType, LinesAssumption DEF Line
<1>. QED BY <1>1, <1>3

LEMMA BeginInv ==
  ASSUME ~IsrOps, Inv, NEW op \in Ops, NEW i \in Line, Begin(op, i)
  PROVE  Inv'
<1>. DEFINE f == [Top EXCEPT !.op = op, !.arg = i,
                      !.at = IF op \in {"register", "unregister"} THEN "outer" ELSE "inner"]
<1>1. /\ f \in Frame /\ f.line = Top.line /\ (f.nested <=> Top.nested)
      /\ f.at = IF op \in {"register", "unregister"} THEN "outer" ELSE "inner"
      /\ f.op = op /\ f.arg = i
  BY TopType DEF Frame, Places, Types
<1>. With(f)
  BY DEF Begin
<1>. HIDE DEF f
<1>2. /\ Stack' /\ Top' = f /\ InIsr' = InIsr /\ Len(frames') = Len(frames) /\ Bound' = Bound
      /\ frames'[1] = IF InIsr THEN frames[1] ELSE f
  BY <1>1, TopMoves
<1>3. Types'
  BY TopType DEF Types, Begin, regs
<1>4. InIsr => pmask = Line
  BY DEF Begin
<1>5. ~InIsr => pmask = Line
  BY MainSeesAll
<1>6. Masks'
  BY <1>1, <1>2, <1>4, <1>5, TopType DEF Inv, Types, Masks, Sections, Begin, regs
<1>7. ~Top.nested
  BY <1>4, <1>5, NestedSeesLess
<1>8. Sections'
  BY <1>1, <1>2, <1>7, TopType DEF Inv, Sections, Registers, Begin, regs
<1>9. Tables'
  BY <1>1, <1>2, TopType DEF Inv, Types, Masks, Sections, Tables, EnablesWhole,
     Registers, Begin, regs
<1>. QED BY <1>2, <1>3, <1>6, <1>8, <1>9 DEF Inv

LEMMA RaiseInv ==
  ASSUME Inv, NEW i \in Line, Raise(i)
  PROVE  Inv'
<1>1. Types'
  BY DEF Inv, Types, Raise, regs
<1>2. UNCHANGED <<pie, ienable, active, pmask, table, frames, wanted>>
  BY DEF Raise, regs
<1>. QED BY <1>1, <1>2 DEF Inv, Stack, Suspended, Masks, Bound, Sections, Tables,
         EnablesWhole, Top, InIsr, Level, Registers

\* Only a line above all the frames' own can be pending while the running frame
\* may be interrupted, and its entry is whole.
LEMMA PendingAbove ==
  ASSUME Inv, Pending # {}, pie \/ (InIsr /\ Top.at = "run" /\ ~Top.nested)
  PROVE  /\ Lowest(Pending) \in Line
         /\ table[Lowest(Pending)] = "whole"
         /\ pie => Lowest(Pending) < Top.line /\ Suspended(Len(frames))
         /\ ~pie => Lowest(Pending) < frames[Len(frames) - 1].line
<1>. DEFINE i == Lowest(Pending)
<1>1. i \in Pending /\ i \in Line
  BY TopType, LowestIsIn DEF Types, Pending
<1>. HIDE DEF i
<1>2. Top.at # "ienable" /\ ienable = active \cap pmask
  BY DEF Inv, Masks, Sections
<1>3. i \in active /\ i \in Bound
  BY <1>1, <1>2 DEF Pending, Inv, Masks
<1>4. table[i] = "whole"
  BY <1>3 DEF Inv, Tables, Sections
<1>5. Len(frames) \in Nat /\ Len(frames) >= 1
  BY TopType, FrameTypes DEF Stack
<1>6. ASSUME pie PROVE i < Top.line /\ Suspended(Len(frames))
  <2>1. ~InIsr \/ Top.nested
    BY <1>6 DEF Inv, Sections
  <2>2. Bound = Level(Top)
    BY <2>1, TopType, FrameDepth DEF Bound
  <2>3. i < Top.line
    BY <1>3, <2>2, TopType DEF Level
  <2>4. CASE InIsr
    <3>1. Len(frames) # 1
      BY <2>4, TopType, FrameDepth
    <3>2. /\ Top.at = "run" /\ Top.nested /\ ~Registers(Top)
          /\ Top.old = Level(frames[Len(frames) - 1])
      BY <2>1, <2>4 DEF Inv, Sections
    <3>. DEFINE n == Len(frames)
    <3>3. n # 1 /\ frames[n].at = "run" /\ frames[n].nested /\ ~Registers(frames[n])
          /\ frames[n].old = Level(frames[n - 1])
      BY <3>1, <3>2 DEF Top
    <3>. HIDE DEF n
    <3>4. Suspended(n)
      BY <3>3 DEF Suspended
    <3>. QED BY <2>3, <3>4 DEF n
  <2>5. CASE ~InIsr
    <3>1. Len(frames) = 1 /\ Top = frames[1]
      BY <2>5, TopType, FrameDepth DEF Top
    <3>2. ~Top.nested /\ Top.at \in {"run", "outer", "inner"}
      BY <1>6, <2>5, TopType DEF Inv, Sections, Places
    <3>3. /\ Top.at = "outer" => Registers(Top)
          /\ Top.at = "inner" => ~Registers(Top)
      BY <1>6 DEF Inv, Sections
    <3>4. Suspended(1)
      BY <3>1, <3>2, <3>3 DEF Suspended
    <3>. QED BY <2>3, <3>1, <3>4
  <2>. QED BY <2>3, <2>4, <2>5
<1>7. ASSUME ~pie PROVE i < frames[Len(frames) - 1].line
  <2>1. InIsr /\ ~Top.nested
    BY <1>7
  <2>2. Bound = Level(frames[Len(frames) - 1])
    BY <2>1, TopType, FrameDepth DEF Bound
  <2>3. Len(frames) - 1 \in 1 .. Len(frames)
    BY <1>5, <2>1 DEF InIsr
  <2>4. frames[Len(frames) - 1].line \in Int
    BY <2>3, TopType, FrameTypes DEF Frame
  <2>. QED BY <1>3, <2>2, <2>4 DEF Level
<1>. QED BY <1>1, <1>4, <1>6, <1>7 DEF i

LEMMA InterruptInv == Inv /\ Interrupt => Inv'
<1>. SUFFICES ASSUME Inv, Interrupt PROVE Inv'
  OBVIOUS
<1>. DEFINE i == Lowest(Pending)
<1>1. /\ i \in Line /\ table[i] = "whole" /\ i < Top.line /\ Suspended(Len(frames))
      /\ frames' = Append(frames, NewFrame(i))
      /\ pie /\ ~pie' /\ UNCHANGED <<ienable, active, pmask, table, req, wanted>>
  BY PendingAbove DEF Interrupt
<1>. HIDE DEF i
<1>2. /\ Stack' /\ Top' = NewFrame(i) /\ InIsr' /\ Len(frames') = Len(frames) + 1
      /\ frames'[Len(frames') - 1] = Top
      /\ \A k \in 1 .. Len(frames) : frames'[k] = frames[k]
  BY <1>1, TopType, FramePushed
<1>3. Len(frames) \in Nat /\ Len(frames) >= 1
  BY TopType, FrameTypes DEF Stack
<1>4. frames'[1] = frames[1] /\ Len(frames') # 1
  BY <1>2, <1>3
<1>5. /\ Top'.at = "isr" /\ ~Top'.nested /\ Top'.op = "none" /\ Top'.line = i
  BY <1>2 DEF NewFrame
<1>6. Types'
  BY <1>1, TopType DEF Interrupt, Types
<1>7. Bound' = Bound
  <2>1. InIsr => Top.nested
    BY <1>1 DEF Inv, Sections
  <2>3. Bound = Level(Top)
    BY <2>1, TopType, FrameDepth DEF Bound
  <2>2. Bound' = Level(Top)
    BY <1>2, <1>4, <1>5 DEF Bound, Level
  <2>. QED BY <2>2, <2>3
<1>8. Masks'
  BY <1>1, <1>5, <1>7 DEF Inv, Masks, Sections
<1>9. Sections'
  BY <1>1, <1>2, <1>5 DEF Sections, Registers
<1>10. Tables'
  BY <1>1, <1>4, <1>5 DEF Inv, Sections, Tables, EnablesWhole
<1>. QED BY <1>2, <1>6, <1>8, <1>9, <1>10 DEF Inv

LEMMA AgainInv == Inv /\ Again => Inv'
<1>. SUFFICES ASSUME Inv, Again PROVE Inv'
  OBVIOUS
<1>. DEFINE i == Lowest(Pending)
<1>1. InIsr /\ Top.at = "run" /\ ~Top.nested /\ ~pie
  BY DEF Again, Inv, Sections
<1>2. /\ i \in Line /\ table[i] = "whole" /\ i < frames[Len(frames) - 1].line
      /\ With(NewFrame(i))
      /\ UNCHANGED <<regs, active, pmask, table, req, wanted>>
  BY <1>1, PendingAbove DEF Again
<1>. HIDE DEF i
<1>3. NewFrame(i) \in Frame /\ NewFrame(i).line = i
  BY <1>2, NewFrameType, LinesAssumption DEF Line, NewFrame
<1>4. /\ Stack' /\ Top' = NewFrame(i) /\ InIsr' = InIsr /\ Len(frames') = Len(frames)
      /\ \A k \in 1 .. Len(frames) - 1 : frames'[k] = frames[k]
  BY <1>1, <1>2, <1>3, TopType, TopChanges
<1>5. Len(frames) \in Nat /\ Len(frames) > 1
  BY <1>1, TopType, FrameTypes DEF Stack, InIsr
<1>6. frames'[1] = frames[1] /\ frames'[Len(frames) - 1] = frames[Len(frames) - 1]
  BY <1>4, <1>5
<1>7. Top'.at = "isr" /\ ~Top'.nested /\ Top'.op = "none" /\ Top'.line = i
  BY <1>4 DEF NewFrame
<1>8. Types'
  BY <1>2, TopType DEF Types, regs
<1>9. Bound' = Bound
  BY <1>1, <1>4, <1>6, <1>7, TopType, FrameDepth DEF Bound, Level
<1>10. Masks'
  BY <1>1, <1>2, <1>7, <1>9 DEF Inv, Masks, Sections, regs
<1>11. Sections'
  BY <1>1, <1>2, <1>4, <1>7 DEF Sections, Registers, regs
<1>12. Tables'
  BY <1>1, <1>2, <1>6, <1>7 DEF Inv, Sections, Tables, EnablesWhole
<1>. QED BY <1>4, <1>8, <1>10, <1>11, <1>12 DEF Inv

LEMMA ReturnInv == Inv /\ Return => Inv'
<1>. SUFFICES ASSUME Inv, Return PROVE Inv'
  OBVIOUS
<1>. DEFINE n == Len(frames)
<1>1. InIsr /\ Top.at = "run" /\ ~Top.nested /\ ~pie
  BY DEF Return, Inv, Sections
<1>2. pie' /\ UNCHANGED <<ienable, active, pmask, table, req, wanted>>
  BY DEF Return
<1>3. /\ Stack' /\ Top' = frames[n - 1] /\ Len(frames') = n - 1
      /\ \A k \in 1 .. n - 1 : frames'[k] = frames[k]
      /\ Suspended(n - 1)
  BY <1>1, TopType, FramePopped DEF Return
<1>4. n \in Nat /\ n > 1
  BY <1>1, TopType, FrameTypes DEF Stack, InIsr
<1>14. Len(frames) # 1
  BY <1>1, TopType, FrameDepth
<1>. HIDE DEF n
<1>5. frames'[1] = frames[1]
  BY <1>3, <1>4
<1>6. Types'
  BY <1>2, TopType DEF Types
<1>7. /\ Top'.at \in {"run", "outer", "inner"}
      /\ Top'.at = "outer" => Registers(Top')
      /\ Top'.at = "inner" => ~Registers(Top')
      /\ n - 1 = 1 => ~Top'.nested
      /\ n - 1 # 1 => /\ Top'.at = "run" /\ Top'.nested /\ ~Registers(Top')
                      /\ Top'.old = Level(frames[n - 2])
  <2>1. (n - 1) - 1 = n - 2
    BY <1>4
  <2>. QED BY <1>3, <2>1 DEF Suspended
<1>8. InIsr' <=> n - 1 # 1
  BY <1>3, <1>4 DEF InIsr
<1>9. Bound' = Bound
  <2>1. Bound = Level(frames[n - 1])
    BY <1>1, <1>14 DEF Bound, n
  <2>2. Bound' = Level(frames[n - 1])
    BY <1>3, <1>7 DEF Bound, Level
  <2>. QED BY <2>1, <2>2
<1>10. n - 1 = 1 => pmask = Line
  <2>1. ASSUME n - 1 = 1 PROVE Bound = Level(frames[1])
    BY <1>1, <1>14, <2>1 DEF Bound, n
  <2>2. Level(frames[1]) = Line
    BY TopType DEF Stack, Level, Line
  <2>. QED BY <2>1, <2>2 DEF Inv, Masks
<1>11. Masks'
  BY <1>1, <1>2, <1>7, <1>9, <1>10 DEF Inv, Masks
<1>12. Sections'
  <2>1. Top'.nested => Top'.old = Level(frames'[Len(frames') - 1])
    <3>1. ASSUME n - 1 # 1 PROVE n - 2 \in 1 .. n - 1 /\ (n - 1) - 1 = n - 2
      BY <1>4, <3>1
    <3>. QED BY <1>3, <1>7, <3>1 DEF Level
  <2>. QED BY <1>2, <1>7, <1>8, <2>1 DEF Sections, Registers, Level
<1>13. Tables'
  <2>1. EnablesWhole(Top)'
    BY <1>2, <1>3, <1>7 DEF Inv, Tables, EnablesWhole
  <2>. QED BY <1>1, <1>2, <1>5, <1>7, <2>1 DEF Inv, Tables, EnablesWhole
<1>. QED BY <1>3, <1>6, <1>11, <1>12, <1>13 DEF Inv

LEMMA InterruptibleInv == Inv /\ Interruptible => Inv'
<1>. SUFFICES ASSUME Inv, Interruptible PROVE Inv'
  OBVIOUS
<1>. DEFINE f == [Top EXCEPT !.nested = TRUE, !.old = pmask]
<1>1. /\ f \in Frame /\ f.line = Top.line /\ f.nested /\ f.old = pmask
      /\ f.at = Top.at /\ f.op = Top.op /\ f.arg = Top.arg
  BY TopType DEF Frame, Types
<1>2. /\ InIsr /\ Top.at = "run" /\ ~Top.nested /\ Top.op \in {"none", "done"} /\ With(f)
      /\ pmask' = Level(Top) /\ ienable' = active \cap Level(Top) /\ pie'
      /\ UNCHANGED <<active, table, req, wanted>>
  BY DEF Interruptible, Level
<1>. HIDE DEF f
<1>3. /\ Stack' /\ Top' = f /\ InIsr' /\ Len(frames') = Len(frames)
      /\ \A k \in 1 .. Len(frames) - 1 : frames'[k] = frames[k]
  BY <1>1, <1>2, TopType, TopChanges
<1>4. Len(frames) \in Nat /\ Len(frames) > 1
  BY <1>2, TopType, FrameTypes DEF Stack, InIsr
<1>5. frames'[1] = frames[1] /\ frames'[Len(frames) - 1] = frames[Len(frames) - 1]
  BY <1>3, <1>4
<1>6. Bound' = Level(Top)
  BY <1>1, <1>3 DEF Bound, Level
<1>7. pmask = Level(frames[Len(frames) - 1])
  BY <1>2, TopType, FrameDepth DEF Inv, Masks, Bound
<1>8. Types'
  <2>1. Level(Top) \in SUBSET Line
    BY TopType, LinesAssumption DEF Level, Line
  <2>. QED BY <1>2, <2>1, TopType DEF Types, Interruptible
<1>9. Masks'
  BY <1>1, <1>2, <1>3, <1>6 DEF Inv, Masks
<1>10. Sections'
  BY <1>1, <1>2, <1>3, <1>5, <1>7 DEF Sections, Registers, Level
<1>11. Tables'
  BY <1>1, <1>2, <1>3, <1>5 DEF Inv, Tables, EnablesWhole
<1>. QED BY <1>3, <1>8, <1>9, <1>10, <1>11 DEF Inv

LEMMA NonInterruptibleInv == Inv /\ NonInterruptible => Inv'
<1>. SUFFICES ASSUME Inv, NonInterruptible PROVE Inv'
  OBVIOUS
<1>. DEFINE f == [Top EXCEPT !.nested = FALSE, !.op = "done"]
<1>1. /\ f \in Frame /\ f.line = Top.line /\ ~f.nested
      /\ f.at = Top.at /\ f.op = "done" /\ f.arg = Top.arg
  BY TopType DEF Frame, Types
<1>2. /\ InIsr /\ Top.at = "run" /\ Top.nested /\ With(f)
      /\ pmask' = Top.old /\ ienable' = active \cap Top.old /\ ~pie'
      /\ UNCHANGED <<active, table, req, wanted>>
  BY DEF NonInterruptible
<1>. HIDE DEF f
<1>3. /\ Stack' /\ Top' = f /\ InIsr' /\ Len(frames') = Len(frames)
      /\ \A k \in 1 .. Len(frames) - 1 : frames'[k] = frames[k]
  BY <1>1, <1>2, TopType, TopChanges
<1>4. Len(frames) \in Nat /\ Len(frames) > 1
  BY <1>2, TopType, FrameTypes DEF Stack, InIsr
<1>5. frames'[1] = frames[1] /\ frames'[Len(frames) - 1] = frames[Len(frames) - 1]
  BY <1>3, <1>4
<1>6. Bound' = Level(frames[Len(frames) - 1])
  BY <1>1, <1>2, <1>3, <1>5, TopType, FrameDepth DEF Bound, Level
<1>7. Top.old = Level(frames[Len(frames) - 1])
  BY <1>2 DEF Inv, Sections
<1>8. Types'
  BY <1>2, TopType DEF Types, NonInterruptible
<1>9. Masks'
  BY <1>1, <1>2, <1>3, <1>6, <1>7 DEF Inv, Masks
<1>10. Sections'
  BY <1>1, <1>2, <1>3 DEF Sections, Registers
<1>11. Tables'
  BY <1>1, <1>2, <1>3, <1>5 DEF Inv, Tables, EnablesWhole
<1>. QED BY <1>3, <1>8, <1>9, <1>10, <1>11 DEF Inv

LEMMA NextInv == ASSUME ~IsrOps PROVE Inv /\ [Next]_vars => Inv'
<1>. SUFFICES ASSUME Inv, [Next]_vars PROVE Inv'
  OBVIOUS
<1>1. CASE UNCHANGED vars
  BY <1>1 DEF vars, regs, Inv, Types, Stack, Suspended, Masks, Bound, Sections,
     Tables, EnablesWhole, Top, InIsr, Level, Registers
<1>. QED BY <1>1, RaiseInv, InterruptInv, ServeInv, AgainInv, ReturnInv, InterruptibleInv,
        NonInterruptibleInv, BeginInv, OuterOffInv, SetHandlerInv, SetContextInv,
        InnerOffInv, LoadInv, StoreInv, WriteIenableInv, InnerOnInv, OuterOnInv DEF Next

\* The invariant the properties follow from.
THEOREM MaskInvariant == ASSUME ~IsrOps PROVE Spec => []Inv
BY InitInv, NextInv, PTL DEF Spec

-----------------------------------------------------------------------------
\* The registers, the table and the frames keep their types; the handlers under
\* way are as many as there are lines at most.
THEOREM MaskTypeCorrect == ASSUME ~IsrOps PROVE Spec => []TypeOK
<1>1. Inv => TypeOK
  <2>. SUFFICES ASSUME Inv PROVE TypeOK
    OBVIOUS
  <2>1. Types /\ Stack /\ Len(frames) \in Nat
    BY TopType, FrameTypes
  <2>2. Len(frames) \in 1 .. NLines + 1
    <3>1. Len(frames) >= 1 /\ \A k \in 1 .. Len(frames) : frames[k].line <= NLines - k + 1
      BY <2>1 DEF Stack
    <3>2. Top.line <= NLines - Len(frames) + 1
      BY <2>1, <3>1 DEF Top
    <3>. QED BY <2>1, <3>1, <3>2, TopType, LinesAssumption
  <2>3. ASSUME NEW k \in 1 .. Len(frames)
        PROVE  /\ frames[k].line \in 0 .. NLines /\ frames[k].arg \in Line
               /\ frames[k].tmp \subseteq Line /\ frames[k].old \subseteq Line
               /\ {frames[k].outer, frames[k].inner, frames[k].nested} \subseteq BOOLEAN
    BY <2>1, FrameTypes DEF Frame
  <2>. QED BY <2>1, <2>2, <2>3 DEF TypeOK, Types
<1>. QED BY <1>1, MaskInvariant, PTL

\* alt_irq_interruptible lets nothing but higher priorities in, so that no
\* handler is entered twice.
THEOREM HigherNests == ASSUME ~IsrOps PROVE Spec => []OnlyHigherNests
<1>1. Inv => OnlyHigherNests
  BY DEF Inv, Stack, OnlyHigherNests
<1>. QED BY <1>1, MaskInvariant, PTL

\* Whenever an interrupt can be taken ienable is what alt_irq_active and the
\* mask of the innermost interruptible handler say; every handler puts it back.
THEOREM MaskIsFollowed == ASSUME ~IsrOps PROVE Spec => []MaskFollows
<1>1. Inv => MaskFollows
  BY MainSeesAll DEF Inv, Masks, Sections, MaskFollows
<1>. QED BY <1>1, MaskInvariant, PTL

\* No enabling or disabling is lost between the read of alt_irq_active and the
\* write.
THEOREM NoEnableLost == ASSUME ~IsrOps PROVE Spec => []NoLostEnable
<1>1. Inv => NoLostEnable
  BY DEF Inv, Masks, NoLostEnable
<1>. QED BY <1>1, MaskInvariant, PTL

\* No interrupt is dispatched through a half-written entry of the table.
THEOREM DispatchedWhole == ASSUME ~IsrOps PROVE Spec => []DispatchWhole
<1>1. Inv => DispatchWhole
  BY DEF Inv, Tables, DispatchWhole
<1>. QED BY <1>1, MaskInvariant, PTL

\* Handlers nest by priority only, and the mask is put back by every one.
THEOREM NestsSoundly == ASSUME ~IsrOps PROVE Spec => []NestingSound
BY HigherNests, MaskIsFollowed, PTL DEF NestingSound

\* What main() and the handlers enter into the tables is neither lost nor used
\* before it is whole.
THEOREM TablesAreSound == ASSUME ~IsrOps PROVE Spec => []TablesSound
BY NoEnableLost, DispatchedWhole, PTL DEF TablesSound

-----------------------------------------------------------------------------
(***************************************************************************)
(* A request's way to its handler and back.                                *)
(***************************************************************************)
Cores == Path!Core

\* Cores main() has not started yet.
Untouched(c) ==
  \/ pc \in {"init", "register"}
  \/ pc \in {"clear", "start"} /\ c >= next

\* No trace is left of a request that has been served ...
Spent(c) == ~fresh[c] => ~request[c] /\ \A i \in 1 .. Depth : ~sync[c][i]

\* ... or what is left will have gone when the CPU is no longer busy.
Fades(c) ==
  ~fresh[c] => /\ request[c] => clr[c] > 0 /\ clr[c] + Depth <= busy
               /\ \A i \in 1 .. Depth : sync[c][i] => Depth - i < busy

\* The CPU looks at the requests at some places only.
Looks == cpu # "body" /\ (cpu = "main" => intr)

Served ==
  /\ \A c \in Cores : IF Looks THEN Spent(c) ELSE Fades(c)
  /\ cpu = "main" /\ ~intr => pc = "init"
  /\ cpu = "handler" => fresh[line]

\* The flag is up, and main() is still to see it.
Raised(c) == flag[c] /\ ~(pc = "unflag" /\ next = c)

\* A core is idle, computes, or waits for its handler; its handler has counted
\* nothing when main() is to start it.
CoreKept(c) ==
  /\ job[c] => /\ ~fresh[c] /\ ~request[c] /\ clr[c] = 0
               /\ \A i \in 1 .. Depth : ~sync[c][i]
  /\ fresh[c] => /\ request[c] /\ clr[c] = 0 /\ ~Raised(c)
                 /\ \A i, j \in 1 .. Depth : sync[c][i] /\ j < i => sync[c][j]
  /\ Raised(c) => ~job[c]
  /\ Untouched(c) => ~job[c] /\ ~fresh[c] /\ ~Raised(c)
  /\ Raised(c) \/ Untouched(c) => count[c] = 0

\* A clear is under way only while the CPU is busy, or interrupted.
Arrives(c) ==
  /\ cpu \in {"main", "body"} => clr[c] <= busy
  /\ cpu = "reread" => clr[c] = 0

\* A core whose handler is to start it rests.
Rests(c) == ~job[c] /\ ~fresh[c] /\ ~Raised(c) /\ ~Untouched(c)

Waits == \E c \in enabled : fresh[c] /\ sync[c][Depth]

Kept ==
  /\ \A c \in Cores : Arrives(c) /\ (c \notin stale => CoreKept(c))
  /\ cpu = "body" /\ line \notin stale => Rests(line)
  /\ pc \in {"reclear", "restart"} => flag[next]
  /\ cpu = "reread" => busy = 0
  /\ stale = {} => Path!DispatcherServes /\ (cpu \in {"entry", "dispatch"} => Waits)

PathInv == Path!TypeOK /\ Served /\ Kept

-----------------------------------------------------------------------------
LEMMA PathConstants ==
  /\ NCores \in Nat \ {0} /\ Restarts \in Nat /\ Depth \in Nat \ {0}
  /\ Flight \in Nat \ {0} /\ Entry \in Nat \ {0} /\ Body \in Nat \ {0}
  /\ Body >= Flight + Depth
BY PathAssumption DEF Path!SizesAssumption, Path!DepthAssumption, Path!TimingAssumption

\* The chain of registers moves on by one.
LEMMA Shift ==
  ASSUME NEW b \in BOOLEAN, NEW s \in [1 .. Depth -> BOOLEAN]
  PROVE  /\ <<b>> \o SubSeq(s, 1, Depth - 1) \in [1 .. Depth -> BOOLEAN]
         /\ \A i \in 1 .. Depth :
              (<<b>> \o SubSeq(s, 1, Depth - 1))[i] = IF i = 1 THEN b ELSE s[i - 1]
<1>. USE PathConstants
<1>. DEFINE t == SubSeq(s, 1, Depth - 1)  u == <<b>> \o t
<1>1. s \in Seq(BOOLEAN) /\ Len(s) = Depth
  BY IsASeq
<1>2. /\ t \in Seq(BOOLEAN) /\ Len(t) = Depth - 1
      /\ \A i \in 1 .. Depth - 1 : t[i] = s[i]
  <2>1. \A i \in 1 .. Depth - 1 : s[i] \in BOOLEAN
    OBVIOUS
  <2>. QED BY <1>1, <2>1, SubSeqProperties
<1>. HIDE DEF t
<1>3. <<b>> \in Seq(BOOLEAN) /\ Len(<<b>>) = 1 /\ <<b>>[1] = b
  OBVIOUS
<1>4. /\ u \in Seq(BOOLEAN) /\ Len(u) = Depth
      /\ \A i \in 1 .. Depth : u[i] = IF i = 1 THEN b ELSE t[i - 1]
  BY <1>2, <1>3, ConcatProperties
<1>5. u \in [1 .. Depth -> BOOLEAN]
  BY <1>4, LenProperties
<1>6. \A i \in 1 .. Depth : i # 1 => i - 1 \in 1 .. Depth - 1
  OBVIOUS
<1>. QED BY <1>2, <1>4, <1>5, <1>6 DEF t

\* A clock in one core: r says that it finishes, f that its clear arrives.
Ticks(c, cleared, started, r, f) ==
  /\ r => job[c]
  /\ f => clr[c] > 0
  /\ clr[c] = 1 => f
  /\ request'[c] <=> r \/ (request[c] /\ ~f)
  /\ job'[c] <=> c \in started \/ (job[c] /\ ~r)
  /\ clr'[c] = IF c \in cleared THEN Flight ELSE IF f \/ clr[c] = 0 THEN 0 ELSE clr[c] - 1
  /\ fresh'[c] <=> r \/ (fresh[c] /\ ~(cpu = "handler" /\ c \in cleared))
  /\ \A i \in 1 .. Depth : sync'[c][i] <=> IF i = 1 THEN request[c] ELSE sync[c][i - 1]

LEMMA EachTicks ==
  ASSUME Path!TypeOK, NEW cleared, NEW started, Path!Cores(cleared, started)
  PROVE  /\ request' \in [Cores -> BOOLEAN] /\ job' \in [Cores -> BOOLEAN]
         /\ clr' \in [Cores -> 0 .. Flight] /\ fresh' \in [Cores -> BOOLEAN]
         /\ sync' \in [Cores -> [1 .. Depth -> BOOLEAN]]
         /\ \A c \in Cores : \E r, f \in BOOLEAN : Ticks(c, cleared, started, r, f)
<1>. USE PathConstants DEF Cores
<1>1. PICK rise \in SUBSET {c \in Cores : job[c]}, fall \in SUBSET {c \in Cores : clr[c] > 0} :
    /\ {c \in Cores : clr[c] = 1} \subseteq fall
    /\ request' = [c \in Cores |-> IF c \in rise THEN TRUE ELSE request[c] /\ c \notin fall]
    /\ job' = [c \in Cores |-> IF c \in started THEN TRUE ELSE job[c] /\ c \notin rise]
    /\ clr' = [c \in Cores |-> IF c \in cleared THEN Flight
                              ELSE IF c \in fall \/ clr[c] = 0 THEN 0 ELSE clr[c] - 1]
    /\ fresh' = [c \in Cores |-> IF c \in rise THEN TRUE
                                ELSE fresh[c] /\ ~(cpu = "handler" /\ c \in cleared)]
    /\ sync' = [c \in Cores |-> <<request[c]>> \o SubSeq(sync[c], 1, Depth - 1)]
  BY DEF Path!Cores
<1>2. \A c \in Cores : /\ request[c] \in BOOLEAN /\ job[c] \in BOOLEAN /\ fresh[c] \in BOOLEAN
                       /\ clr[c] \in 0 .. Flight /\ sync[c] \in [1 .. Depth -> BOOLEAN]
  BY DEF Path!TypeOK
<1>3. \A c \in Cores : sync'[c] \in [1 .. Depth -> BOOLEAN]
  BY <1>1, <1>2, Shift
<1>4. sync' \in [Cores -> [1 .. Depth -> BOOLEAN]]
  BY <1>1, <1>3
<1>5. clr' \in [Cores -> 0 .. Flight]
  BY <1>1, <1>2
<1>6. request' \in [Cores -> BOOLEAN] /\ job' \in [Cores -> BOOLEAN] /\ fresh' \in [Cores -> BOOLEAN]
  BY <1>1, <1>2
<1>7. ASSUME NEW c \in Cores
      PROVE  Ticks(c, cleared, started, c \in rise, c \in fall)
  <2>1. \A i \in 1 .. Depth : sync'[c][i] <=> IF i = 1 THEN request[c] ELSE sync[c][i - 1]
    BY <1>1, <1>2, Shift
  <2>. QED BY <1>1, <1>2, <2>1 DEF Ticks
<1>8. \A c \in Cores : (c \in rise) \in BOOLEAN /\ (c \in fall) \in BOOLEAN
  OBVIOUS
<1>. QED BY <1>4, <1>5, <1>6, <1>7, <1>8

-----------------------------------------------------------------------------
LEMMA LowestPending ==
  ASSUME Path!TypeOK, Path!Pending # {}
  PROVE  Path!Lowest(Path!Pending) \in Path!Pending /\ Path!Pending \subseteq Cores
<1>1. Path!Pending \subseteq Cores
  BY DEF Path!Pending, Path!TypeOK, Cores
<1>. Cores \subseteq Nat
  BY PathConstants DEF Cores, Path!Core
<1>2. PICK c \in Path!Pending : \A d \in Path!Pending : c <= d
  BY <1>1, HasLowest
<1>. QED BY <1>1, <1>2 DEF Path!Lowest

LEMMA PathInit == Path!Init => PathInv
<1>. USE PathConstants
<1>. SUFFICES ASSUME Path!Init PROVE PathInv
  OBVIOUS
<1>1. Path!TypeOK
  <2>1. sync \in [Path!Core -> [1 .. Depth -> BOOLEAN]]
    BY DEF Path!Init
  <2>2. 0 \in Path!Core /\ 0 \in 0 .. Flight /\ 0 \in 0 .. Restarts
    BY DEF Path!Core
  <2>3. /\ request \in [Path!Core -> BOOLEAN] /\ job \in [Path!Core -> BOOLEAN]
        /\ flag \in [Path!Core -> BOOLEAN] /\ fresh \in [Path!Core -> BOOLEAN]
    BY DEF Path!Init
  <2>4. count \in [Path!Core -> 0 .. 2] /\ clr \in [Path!Core -> 0 .. Flight]
    BY <2>2 DEF Path!Init
  <2>. QED BY <2>1, <2>2, <2>3, <2>4 DEF Path!Init, Path!TypeOK
<1>2. \A c \in Cores : /\ ~request[c] /\ ~job[c] /\ clr[c] = 0 /\ ~fresh[c] /\ ~flag[c]
                       /\ \A i \in 1 .. Depth : ~sync[c][i]
  BY DEF Path!Init, Cores
<1>3. cpu = "main" /\ busy = 0 /\ pc = "init" /\ ~intr
  BY DEF Path!Init
<1>4. Served
  BY <1>2, <1>3 DEF Served, Fades, Looks
<1>5. Kept
  <2>1. \A c \in Cores : count[c] = 0 BY DEF Path!Init, Cores
  <2>. QED BY <1>2, <1>3, <2>1 DEF Kept, CoreKept, Raised, Arrives, Path!DispatcherServes
<1>. QED BY <1>1, <1>4, <1>5 DEF PathInv

LEMMA PathTypes == Path!TypeOK /\ Path!Next => Path!TypeOK'
<1>. USE PathConstants DEF Path!TypeOK, Path!Quiet, Path!MainRuns, Path!NextCore
<1>. SUFFICES ASSUME Path!TypeOK, Path!Next PROVE Path!TypeOK'
  OBVIOUS
<1>1. \A cleared, started : Path!Cores(cleared, started) =>
         /\ request' \in [Cores -> BOOLEAN] /\ job' \in [Cores -> BOOLEAN]
         /\ clr' \in [Cores -> 0 .. Flight] /\ fresh' \in [Cores -> BOOLEAN]
         /\ sync' \in [Cores -> [1 .. Depth -> BOOLEAN]]
  BY EachTicks
<1>. DEFINE Wires == /\ request' \in [Cores -> BOOLEAN] /\ job' \in [Cores -> BOOLEAN]
                     /\ clr' \in [Cores -> 0 .. Flight] /\ fresh' \in [Cores -> BOOLEAN]
                     /\ sync' \in [Cores -> [1 .. Depth -> BOOLEAN]]
<1>2. Wires
  BY <1>1 DEF Path!Next, Path!IrqInit, Path!Register, Path!Clear, Path!Start, Path!ClearFlag, Path!Poll,
       Path!Exception, Path!IrqTest, Path!FirstRead, Path!HandlerClears, Path!HandlerEnds,
       Path!Reread, Path!Restart, Path!Stall
<1>3. CASE Path!IrqInit
  BY <1>2, <1>3 DEF Path!IrqInit, Cores, Path!Core
<1>4. CASE Path!Register
  <2>1. next' \in Path!Core /\ pc' \in {"register", "clear"}
    BY <1>4 DEF Path!Register, Path!Core
  <2>. QED BY <1>2, <1>4, <2>1 DEF Path!Register, Cores
<1>5. CASE Path!Clear
  BY <1>2, <1>5 DEF Path!Clear, Cores, Path!Core, Path!main
<1>6. CASE Path!Start
  <2>1. next' \in Path!Core /\ pc' \in {"clear", "poll", "unflag"}
    BY <1>6 DEF Path!Start, Path!Core
  <2>. QED BY <1>2, <1>6, <2>1 DEF Path!Start, Cores
<1>6a. CASE Path!ClearFlag
  <2>1. flag' \in [Path!Core -> BOOLEAN]
    BY <1>6a DEF Path!ClearFlag
  <2>. QED BY <1>2, <1>6a, <2>1 DEF Path!ClearFlag, Cores
<1>7. CASE Path!Poll
  BY <1>2, <1>7 DEF Path!Poll, Cores, Path!Core
<1>8. CASE Path!Exception
  BY <1>2, <1>8 DEF Path!Exception, Cores, Path!Core, Path!main
<1>9. CASE Path!IrqTest
  BY <1>2, <1>9 DEF Path!IrqTest, Cores, Path!Core, Path!main
<1>10. CASE Path!FirstRead
  BY <1>2, <1>10, LowestPending DEF Path!FirstRead, Cores, Path!Core, Path!main
<1>11. CASE Path!HandlerClears
  <2>1. (count[line] + 1) % 3 \in 0 .. 2
    <3>1. count[line] \in 0 .. 2
      OBVIOUS
    <3>2. \A n \in 0 .. 2 : (n + 1) % 3 \in 0 .. 2
      OBVIOUS
    <3>. QED BY <3>1, <3>2
  <2>2. count' \in [Path!Core -> 0 .. 2]
    BY <1>11, <2>1 DEF Path!HandlerClears
  <2>. QED BY <1>2, <1>11, <2>2 DEF Path!HandlerClears, Cores, Path!main
<1>12. CASE Path!HandlerEnds
  BY <1>2, <1>12 DEF Path!HandlerEnds, Cores, Path!Core, Path!main
<1>13. CASE Path!Reread
  BY <1>2, <1>13, LowestPending DEF Path!Reread, Cores, Path!Core, Path!main
<1>14. CASE Path!Restart
  <2>1. flag' \in [Path!Core -> BOOLEAN] /\ count' \in [Path!Core -> 0 .. 2]
    BY <1>14 DEF Path!Restart
  <2>2. 0 \in Path!Core /\ restarts' \in 0 .. Restarts
    BY <1>14 DEF Path!Restart, Path!Core
  <2>3. stale' \subseteq Path!Core
    BY <1>14 DEF Path!Restart
  <2>. QED BY <1>2, <1>14, <2>1, <2>2, <2>3 DEF Path!Restart, Cores
<1>15. CASE Path!Stall
  BY <1>2, <1>15 DEF Path!Stall, Cores, Path!Core, Path!main
<1>. QED BY <1>3, <1>4, <1>5, <1>6, <1>6a, <1>7, <1>8, <1>9, <1>10, <1>11, <1>12, <1>13, <1>14,
            <1>15
         DEF Path!Next

\* What a clock leaves of the traces, of a request or of its clear.
LEMMA TracesGo ==
  ASSUME Path!TypeOK, NEW cleared, NEW started, Path!Cores(cleared, started),
         NEW c \in Cores, ~(cpu = "handler" /\ c \in cleared), busy' \in Nat
  PROVE  /\ fresh[c] => fresh'[c]
         /\ Spent(c) => Spent(c)'
         /\ Fades(c) /\ c \notin cleared /\ busy' >= busy - 1 => Fades(c)'
         /\ Fades(c) /\ c \notin cleared /\ busy' = Body => Fades(c)'
<1>. USE PathConstants
<1>1. PICK r, f \in BOOLEAN : Ticks(c, cleared, started, r, f)
  BY EachTicks
<1>2. /\ clr[c] \in Nat /\ clr'[c] \in 0 .. Flight /\ busy \in Nat
      /\ request[c] \in BOOLEAN /\ fresh[c] \in BOOLEAN
  BY EachTicks DEF Path!TypeOK, Cores
<1>3. \A i \in 1 .. Depth : i # 1 => i - 1 \in 1 .. Depth
  OBVIOUS
<1>4. fresh[c] => fresh'[c]
  BY <1>1 DEF Ticks
<1>5. Spent(c) => Spent(c)'
  BY <1>1, <1>2, <1>3 DEF Ticks, Spent
<1>6. ASSUME Fades(c), c \notin cleared, ~fresh'[c], request'[c]
      PROVE  ~fresh[c] /\ request[c] /\ clr'[c] = clr[c] - 1 /\ clr[c] > 1
  BY <1>1, <1>2, <1>6 DEF Ticks, Fades
<1>7. ASSUME Fades(c), c \notin cleared, busy' >= busy - 1 PROVE Fades(c)'
  <2>. SUFFICES ASSUME ~fresh'[c]
                PROVE  /\ request'[c] => clr'[c] > 0 /\ clr'[c] + Depth <= busy'
                       /\ \A i \in 1 .. Depth : sync'[c][i] => Depth - i < busy'
    BY DEF Fades
  <2>1. request'[c] => clr'[c] > 0 /\ clr'[c] + Depth <= busy'
    BY <1>2, <1>6, <1>7 DEF Fades
  <2>2. ASSUME NEW i \in 1 .. Depth, sync'[c][i] PROVE Depth - i < busy'
    BY <1>1, <1>2, <1>3, <1>4, <1>7, <2>2 DEF Ticks, Fades
  <2>. QED BY <2>1, <2>2
<1>8. ASSUME Fades(c), c \notin cleared, busy' = Body PROVE Fades(c)'
  BY <1>2, <1>6, <1>8 DEF Fades
<1>. QED BY <1>4, <1>5, <1>7, <1>8

LEMMA FadedIsSpent ==
  ASSUME Path!TypeOK, NEW c \in Cores, Fades(c), busy = 0 PROVE Spent(c)
BY PathConstants DEF Path!TypeOK, Fades, Spent, Cores

LEMMA SpentFades == ASSUME NEW c, Spent(c) PROVE Fades(c)
BY DEF Spent, Fades

LEMMA ServedNext == Path!TypeOK /\ Served /\ Path!Next => Served'
<1>. USE PathConstants DEF Path!Quiet, Path!MainRuns
<1>. SUFFICES ASSUME Path!TypeOK, Served, Path!Next PROVE Served'
  OBVIOUS
<1>0. busy' \in Nat /\ busy \in Nat /\ Path!TypeOK'
  BY PathTypes DEF Path!TypeOK
<1>1. \A c \in Cores : Looks \/ busy = 0 => Spent(c)
  BY <1>0, FadedIsSpent DEF Served
<1>2. \A c \in Cores : Fades(c)
  BY SpentFades DEF Served
<1>3. ASSUME Looks \/ busy = 0, NEW cleared, NEW started, Path!Cores(cleared, started),
             cpu = "handler" => cleared = {}
      PROVE  \A c \in Cores : (fresh[c] => fresh'[c]) /\ Spent(c)' /\ Fades(c)'
  <2>1. ASSUME NEW c \in Cores PROVE (fresh[c] => fresh'[c]) /\ Spent(c)'
    BY <1>0, <1>1, <1>3, TracesGo
  <2>. QED BY <2>1, SpentFades DEF Spent, Fades
<1>4. CASE Path!IrqInit
  BY <1>3, <1>4 DEF Path!IrqInit, Served, Looks
<1>5. CASE Path!Register
  BY <1>3, <1>5 DEF Path!Register, Served, Looks
<1>6. CASE Path!Clear
  BY <1>3, <1>6 DEF Path!Clear, Served, Looks
<1>7. CASE Path!Start
  BY <1>3, <1>7 DEF Path!Start, Served, Looks
<1>7a. CASE Path!ClearFlag
  BY <1>3, <1>7a DEF Path!ClearFlag, Served, Looks
<1>8. CASE Path!Poll
  BY <1>3, <1>8 DEF Path!Poll, Served, Looks
<1>9. CASE Path!Exception
  BY <1>3, <1>9 DEF Path!Exception, Served, Looks
<1>10. CASE Path!IrqTest
  BY <1>3, <1>10 DEF Path!IrqTest, Served, Looks
<1>. DEFINE Takes == /\ Path!Pending # {} /\ line' = Path!Lowest(Path!Pending)
                     /\ Path!Quiet /\ cpu \in {"dispatch", "reread"}
<1>11. ASSUME Takes PROVE fresh'[line']
  <2>1. line' \in Cores /\ sync[line'][Depth]
    BY <1>11, LowestPending DEF Path!Pending, Path!TypeOK, Cores
  <2>2. Spent(line')
    BY <1>1, <1>11, <2>1 DEF Looks
  <2>3. fresh[line']
    BY <2>1, <2>2 DEF Spent
  <2>. QED BY <1>3, <1>11, <2>1, <2>3 DEF Looks
<1>12. CASE Path!FirstRead
  BY <1>3, <1>11, <1>12 DEF Path!FirstRead, Served, Looks
<1>13. CASE Path!HandlerClears
  <2>1. cpu = "handler" /\ cpu' = "body" /\ busy' = Body /\ line \in Cores
        /\ Path!Cores({line}, {})
    BY <1>13 DEF Path!HandlerClears, Path!TypeOK, Cores
  <2>2. ASSUME NEW c \in Cores PROVE Fades(c)'
    <3>1. CASE c # line
      <4>. HIDE DEF Fades, Spent
      <4>. QED BY <1>0, <1>1, <2>1, <3>1, TracesGo, SpentFades DEF Looks, Fades, Spent
    <3>2. CASE c = line
      <4>1. PICK r, f \in BOOLEAN : Ticks(c, {line}, {}, r, f)
        BY <2>1, EachTicks
      <4>. QED BY <2>1, <3>2, <4>1 DEF Ticks, Fades
    <3>. QED BY <3>1, <3>2
  <2>. QED BY <2>1, <2>2 DEF Served, Looks
<1>14. CASE Path!HandlerEnds
  BY <1>3, <1>14 DEF Path!HandlerEnds, Served, Looks
<1>15. CASE Path!Reread
  BY <1>3, <1>11, <1>15 DEF Path!Reread, Served, Looks
<1>16. CASE Path!Restart
  <2>1. ASSUME NEW c \in Cores PROVE Fades(c)'
    BY <1>0, <1>2, <1>16, TracesGo DEF Path!Restart
  <2>. QED BY <1>16, <2>1 DEF Path!Restart, Served, Looks
<1>17. CASE Path!Stall
  <2>1. ASSUME NEW c \in Cores
        PROVE  Fades(c)' /\ (Looks => Spent(c)') /\ (fresh[c] => fresh'[c])
    BY <1>0, <1>1, <1>2, <1>17, TracesGo DEF Path!Stall
  <2>2. cpu = "handler" => line \in Cores
    BY DEF Path!TypeOK, Cores
  <2>. QED BY <1>17, <2>1, <2>2 DEF Path!Stall, Path!main, Served, Looks
<1>. QED BY <1>4, <1>5, <1>6, <1>7, <1>7a, <1>8, <1>9, <1>10, <1>12, <1>13, <1>14, <1>15, <1>16,
            <1>17
         DEF Path!Next

-----------------------------------------------------------------------------
\* A core goes on while the CPU does nothing to it.
LEMMA CoreGoesOn ==
  ASSUME Path!TypeOK, NEW cleared, NEW started, Path!Cores(cleared, started),
         NEW c \in Cores, CoreKept(c), c \notin started, Raised(c)' => Raised(c),
         c \in cleared => ~job[c] /\ (fresh[c] => cpu = "handler"), Untouched(c)' => Untouched(c),
         Raised(c) \/ Untouched(c) => count'[c] = count[c]
  PROVE  CoreKept(c)'
<1>. USE PathConstants
<1>1. PICK r, f \in BOOLEAN : Ticks(c, cleared, started, r, f)
  BY EachTicks
<1>2. /\ clr[c] \in Nat /\ clr'[c] \in 0 .. Flight /\ job[c] \in BOOLEAN
      /\ request[c] \in BOOLEAN /\ fresh[c] \in BOOLEAN
  BY EachTicks DEF Path!TypeOK, Cores
<1>3. \A i \in 1 .. Depth : i # 1 => i - 1 \in 1 .. Depth
  OBVIOUS
<1>4. CASE job[c]
  <2>1. c \notin cleared /\ ~fresh[c] /\ ~Raised(c) /\ ~request[c] /\ clr[c] = 0
    BY <1>4 DEF CoreKept
  <2>2. \A i \in 1 .. Depth : ~sync[c][i]
    BY <1>4 DEF CoreKept
  <2>3. \A i \in 1 .. Depth : ~sync'[c][i]
    BY <1>1, <1>3, <2>1, <2>2 DEF Ticks
  <2>4. clr'[c] = 0 /\ (fresh'[c] => request'[c] /\ ~job'[c]) /\ (job'[c] => ~fresh'[c] /\ ~request'[c])
    BY <1>1, <2>1 DEF Ticks
  <2>5. ~Untouched(c)
    BY <1>4 DEF CoreKept
  <2>. QED BY <2>1, <2>3, <2>4, <2>5 DEF CoreKept
<1>5. CASE ~job[c] /\ fresh[c] /\ c \notin cleared
  <2>1. request[c] /\ clr[c] = 0 /\ ~Raised(c) /\ ~Untouched(c)
    BY <1>5 DEF CoreKept
  <2>2. \A i, j \in 1 .. Depth : sync[c][i] /\ j < i => sync[c][j]
    BY <1>5 DEF CoreKept
  <2>3. ASSUME NEW i \in 1 .. Depth, NEW j \in 1 .. Depth, sync'[c][i], j < i
        PROVE  sync'[c][j]
    BY <1>1, <1>3, <2>1, <2>2, <2>3 DEF Ticks
  <2>4. clr'[c] = 0 /\ fresh'[c] /\ request'[c] /\ ~job'[c]
    BY <1>1, <1>5, <2>1 DEF Ticks
  <2>. QED BY <2>1, <2>3, <2>4 DEF CoreKept
<1>6. CASE ~job[c] /\ (fresh[c] => c \in cleared)
  <2>1. ~job'[c] /\ ~fresh'[c]
    BY <1>1, <1>6 DEF Ticks
  <2>. QED BY <2>1 DEF CoreKept
<1>. QED BY <1>4, <1>5, <1>6

\* A core that has been served and waits for nothing can be started.
LEMMA CoreStarts ==
  ASSUME Path!TypeOK, NEW cleared, NEW started, Path!Cores(cleared, started),
         NEW c \in Cores, c \notin cleared, Spent(c), ~job[c], ~fresh[c], clr[c] = 0,
         ~Raised(c)', ~Untouched(c)'
  PROVE  CoreKept(c)'
<1>. USE PathConstants
<1>1. PICK r, f \in BOOLEAN : Ticks(c, cleared, started, r, f)
  BY EachTicks
<1>2. ~request[c] /\ \A i \in 1 .. Depth : ~sync[c][i]
  BY DEF Spent
<1>3. \A i \in 1 .. Depth : i # 1 => i - 1 \in 1 .. Depth
  OBVIOUS
<1>4. ~request'[c] /\ ~fresh'[c] /\ clr'[c] = 0
  BY <1>1, <1>2 DEF Ticks
<1>5. \A i \in 1 .. Depth : ~sync'[c][i]
  BY <1>1, <1>2, <1>3 DEF Ticks
<1>. QED BY <1>4, <1>5 DEF CoreKept

LEMMA ClearGoes ==
  ASSUME Path!TypeOK, NEW cleared, NEW started, Path!Cores(cleared, started), NEW c \in Cores
  PROVE  /\ clr[c] \in 0 .. Flight /\ clr'[c] \in 0 .. Flight
         /\ c \notin cleared => clr'[c] = 0 \/ clr'[c] <= clr[c] - 1
<1>1. PICK r, f \in BOOLEAN : Ticks(c, cleared, started, r, f)
  BY EachTicks
<1>2. clr[c] \in 0 .. Flight /\ clr'[c] \in 0 .. Flight
  BY EachTicks DEF Path!TypeOK, Cores
<1>. QED BY <1>1, <1>2, PathConstants DEF Ticks

\* A request that has come through stays until its handler runs.
LEMMA StaysPending ==
  ASSUME Path!TypeOK, NEW started, NEW cleared, Path!Cores(cleared, started),
         NEW c \in Cores, CoreKept(c), fresh[c], sync[c][Depth], cpu # "handler"
  PROVE  fresh'[c] /\ sync'[c][Depth]
<1>. USE PathConstants
<1>1. PICK r, f \in BOOLEAN : Ticks(c, cleared, started, r, f)
  BY EachTicks
<1>2. request[c] /\ \A i, j \in 1 .. Depth : sync[c][i] /\ j < i => sync[c][j]
  BY DEF CoreKept
<1>3. Depth \in 1 .. Depth /\ (Depth # 1 => Depth - 1 \in 1 .. Depth /\ Depth - 1 < Depth)
  OBVIOUS
<1>. QED BY <1>1, <1>2, <1>3 DEF Ticks

\* Every core that no restart finds at work is kept.
LEMMA KeptNext == Path!TypeOK /\ Served /\ Kept /\ Path!Next => Kept'
<1>. USE PathConstants DEF Path!Quiet, Path!MainRuns
<1>. SUFFICES ASSUME Path!TypeOK, Served, Kept, Path!Next PROVE Kept'
  OBVIOUS
<1>0. /\ Path!TypeOK' /\ busy' \in Nat /\ busy \in Nat /\ line \in Cores /\ next \in Cores
      /\ \A c \in Cores : job[c] \in BOOLEAN /\ fresh[c] \in BOOLEAN /\ flag[c] \in BOOLEAN
      /\ intr \in BOOLEAN /\ Cores \subseteq Nat /\ next' \in Cores
  <2>1. Path!TypeOK'
    BY PathTypes
  <2>2. /\ busy' \in Nat /\ busy \in Nat /\ line \in Cores /\ next \in Cores /\ next' \in Cores
        /\ intr \in BOOLEAN
    BY <2>1 DEF Path!TypeOK, Cores
  <2>3. \A c \in Cores : job[c] \in BOOLEAN /\ fresh[c] \in BOOLEAN /\ flag[c] \in BOOLEAN
    BY DEF Path!TypeOK, Cores
  <2>4. Cores \subseteq Nat
    BY DEF Cores, Path!Core
  <2>. QED BY <2>1, <2>2, <2>3, <2>4
<1>1. \A c \in Cores : Looks \/ busy = 0 => Spent(c)
  BY <1>0, FadedIsSpent DEF Served
<1>2. \A c \in Cores : Arrives(c) /\ (c \notin stale => CoreKept(c))
  BY DEF Kept
<1>3. \A c \in Cores : cpu \in {"main", "body", "reread"} /\ busy = 0 => clr[c] = 0
  BY <1>2, PathConstants DEF Arrives, Path!TypeOK, Cores
<1>4. ASSUME NEW cleared, NEW started, Path!Cores(cleared, started)
      PROVE  \A c \in Cores \ cleared :
               /\ clr[c] \in 0 .. Flight /\ clr'[c] \in 0 .. Flight
               /\ clr'[c] = 0 \/ clr'[c] <= clr[c] - 1
  BY <1>4, ClearGoes
<1>. DEFINE Still == /\ stale' = stale /\ count' = count /\ Path!Quiet
                     /\ \A c \in Cores : /\ Raised(c)' => Raised(c)
                                         /\ Untouched(c)' => Untouched(c)
            AllKept == \A c \in Cores : c \notin stale => CoreKept(c)
<1>5. ASSUME Still PROVE AllKept'
  <2>1. ASSUME NEW c \in Cores, c \notin stale PROVE CoreKept(c)'
    BY <1>2, <1>5, <2>1, CoreGoesOn
  <2>. QED BY <1>5, <2>1
<1>6. ASSUME stale = {}, Path!Quiet, Waits, enabled' = enabled, cpu # "handler" PROVE Waits'
  <2>1. PICK c \in enabled : fresh[c] /\ sync[c][Depth]
    BY <1>6 DEF Waits
  <2>2. c \in Cores
    BY DEF Path!TypeOK, Cores
  <2>3. fresh'[c] /\ sync'[c][Depth]
    BY <1>2, <1>6, <2>1, <2>2, StaysPending
  <2>. QED BY <1>6, <2>3 DEF Waits
<1>7. CASE Path!IrqInit
  <2>1. Still
    BY <1>7 DEF Path!IrqInit, Untouched, Raised
  <2>2. AllKept' BY <1>5, <2>1
  <2>. HIDE DEF Still
  <2>. QED BY <1>0, <1>3, <1>4, <1>7, <2>2 DEF Path!IrqInit, Kept, Arrives, Path!DispatcherServes
<1>8. CASE Path!Register
  <2>1. Still
    BY <1>0, <1>8 DEF Path!Register, Path!NextCore, Untouched, Raised
  <2>2. AllKept' BY <1>5, <2>1
  <2>. HIDE DEF Still
  <2>. QED BY <1>0, <1>3, <1>4, <1>8, <2>2
           DEF Path!Register, Path!NextCore, Kept, Arrives, Path!DispatcherServes
<1>9. CASE Path!Clear
  <2>1. /\ cpu = "main" /\ cpu' = "main" /\ next' = next /\ busy' = Body
        /\ flag' = flag /\ count' = count /\ stale' = stale
        /\ Path!Cores({next}, {})
    BY <1>9 DEF Path!Clear
  <2>2. next \notin stale => ~job[next] /\ ~fresh[next]
    <3>1. Untouched(next) \/ Raised(next)
      BY <1>0, <1>9 DEF Path!Clear, Untouched, Raised, Kept
    <3>. QED BY <1>0, <1>2, <3>1 DEF CoreKept
  <2>3. ASSUME NEW c \in Cores PROVE Arrives(c)' /\ (c \notin stale => CoreKept(c)')
    <3>1. ASSUME c \notin stale PROVE CoreKept(c)'
      <4>1. (Untouched(c)' => Untouched(c)) /\ (Raised(c)' => Raised(c))
        BY <1>9, <2>1 DEF Path!Clear, Untouched, Raised
      <4>. QED BY <1>2, <2>1, <2>2, <3>1, <4>1, CoreGoesOn
    <3>2. Arrives(c)'
      BY <2>1, ClearGoes DEF Arrives
    <3>. QED BY <3>1, <3>2
  <2>4. pc' \in {"reclear", "restart"} => flag'[next']
    BY <1>9 DEF Path!Clear, Kept
  <2>. QED BY <2>1, <2>3, <2>4 DEF Kept, Path!DispatcherServes
<1>10. CASE Path!Start
  <2>1. /\ cpu = "main" /\ cpu' = "main" /\ busy = 0 /\ busy' = 0 /\ Path!Cores({}, {next})
        /\ flag' = flag /\ count' = count /\ stale' = stale
        /\ pc \in {"start", "restart"} /\ pc' \in {"clear", "poll", "unflag"}
        /\ pc' = "unflag" <=> pc = "restart"
        /\ pc' = "unflag" => next' = next
    BY <1>10 DEF Path!Start, Path!NextCore
  <2>2. \A c \in Cores : Untouched(c)' => Untouched(c) /\ c # next
    BY <1>0, <1>10 DEF Path!Start, Path!NextCore, Untouched
  <2>3. ASSUME NEW c \in Cores, c = next, c \notin stale
        PROVE  ~job[c] /\ ~fresh[c] /\ ~Raised(c)'
    <3>1. CASE pc = "start"
      <4>1. Untouched(c)
        BY <1>0, <2>3, <3>1 DEF Untouched
      <4>2. ~job[c] /\ ~fresh[c] /\ ~Raised(c)
        BY <1>2, <2>3, <4>1 DEF CoreKept
      <4>3. Raised(c)' => Raised(c)
        BY <2>1, <3>1 DEF Raised
      <4>. QED BY <4>2, <4>3
    <3>2. CASE pc = "restart"
      <4>1. Raised(c) /\ ~Raised(c)'
        BY <2>1, <2>3, <3>2 DEF Kept, Raised
      <4>. QED BY <1>2, <2>3, <4>1 DEF CoreKept
    <3>. QED BY <2>1, <3>1, <3>2
  <2>5. ASSUME NEW c \in Cores, c \notin stale PROVE CoreKept(c)'
    <3>1. CASE c # next
      <4>1. Raised(c)' => Raised(c)
        BY <2>1 DEF Raised
      <4>2. CoreKept(c) /\ c \notin {next} /\ (Untouched(c)' => Untouched(c))
        BY <1>2, <2>2, <2>5, <3>1
      <4>3. Path!Cores({}, {next}) /\ (c \in {} => ~job[c] /\ (fresh[c] => cpu = "handler"))
            /\ count'[c] = count[c]
        BY <2>1
      <4>. QED BY <4>1, <4>2, <4>3, CoreGoesOn
    <3>2. CASE c = next
      <4>1. ~job[c] /\ ~fresh[c] /\ ~Raised(c)' /\ ~Untouched(c)'
        BY <2>2, <2>3, <2>5, <3>2
      <4>2. Path!Cores({}, {next}) /\ c \notin {} /\ Spent(c) /\ clr[c] = 0
        BY <1>1, <1>3, <2>1
      <4>. QED BY <4>1, <4>2, CoreStarts
    <3>. QED BY <3>1, <3>2
  <2>6. AllKept' BY <2>1, <2>5
  <2>. QED BY <1>3, <1>4, <2>1, <2>6 DEF Kept, Arrives, Path!DispatcherServes
<1>10a. CASE Path!ClearFlag
  <2>1. Still
    BY <1>10a DEF Path!ClearFlag, Untouched, Raised, Path!TypeOK, Cores
  <2>2. AllKept' BY <1>5, <2>1
  <2>. HIDE DEF Still
  <2>. QED BY <1>0, <1>3, <1>4, <1>10a, <2>2
           DEF Path!ClearFlag, Kept, Arrives, Path!DispatcherServes
<1>11. CASE Path!Poll
  <2>1. Still
    BY <1>11 DEF Path!Poll, Untouched, Raised
  <2>2. AllKept' BY <1>5, <2>1
  <2>. HIDE DEF Still
  <2>. QED BY <1>0, <1>3, <1>4, <1>11, <2>2 DEF Path!Poll, Kept, Arrives, Path!DispatcherServes
<1>12. CASE Path!Exception
  <2>1. Still
    BY <1>12 DEF Path!Exception, Path!main, Untouched, Raised
  <2>2. Waits
    <3>1. PICK c \in enabled : sync[c][Depth]
      BY <1>12 DEF Path!Exception, Path!Pending
    <3>2. Spent(c) /\ c \in Cores
      BY <1>1, <1>12, <3>1 DEF Path!Exception, Looks, Path!TypeOK, Cores
    <3>. QED BY <3>1, <3>2 DEF Spent, Waits
  <2>3. AllKept' /\ (stale = {} => Waits')
    BY <1>5, <1>6, <1>12, <2>1, <2>2 DEF Path!Exception
  <2>. HIDE DEF Still
  <2>. QED BY <1>12, <2>3
           DEF Path!Exception, Path!main, Kept, Arrives, Path!DispatcherServes
<1>13. CASE Path!IrqTest
  <2>1. Still
    BY <1>13 DEF Path!IrqTest, Path!main, Untouched, Raised
  <2>2. stale = {} => Waits
    BY <1>13 DEF Path!IrqTest, Kept
  <2>3. AllKept' /\ (stale = {} => Waits')
    BY <1>5, <1>6, <1>13, <2>1, <2>2 DEF Path!IrqTest
  <2>4. stale = {} => Path!Pending # {}
    BY <2>2 DEF Waits, Path!Pending
  <2>. HIDE DEF Still
  <2>. QED BY <1>13, <2>3, <2>4
           DEF Path!IrqTest, Path!main, Kept, Arrives, Path!DispatcherServes
<1>14. CASE Path!FirstRead
  <2>1. Still
    BY <1>14 DEF Path!FirstRead, Path!main, Untouched, Raised
  <2>2. stale = {} => Path!Pending # {}
    BY <1>14 DEF Path!FirstRead, Kept, Waits, Path!Pending
  <2>3. AllKept' BY <1>5, <2>1
  <2>. HIDE DEF Still
  <2>. QED BY <1>14, <2>2, <2>3
           DEF Path!FirstRead, Path!main, Kept, Arrives, Path!DispatcherServes
<1>15. CASE Path!HandlerClears
  <2>1. /\ cpu = "handler" /\ cpu' = "body" /\ busy' = Body /\ Path!Cores({line}, {})
        /\ flag' = flag /\ line' = line /\ pc' = pc /\ next' = next /\ stale' = stale
        /\ \A c \in Cores : c # line => count'[c] = count[c]
    BY <1>15 DEF Path!HandlerClears, Path!main, Path!TypeOK, Cores
  <2>2. line \notin stale => fresh[line] /\ ~job[line] /\ ~Raised(line) /\ ~Untouched(line)
    BY <1>0, <1>2, <2>1 DEF Served, CoreKept
  <2>3. \A c \in Cores : (Raised(c)' <=> Raised(c)) /\ (Untouched(c)' <=> Untouched(c))
    BY <2>1 DEF Raised, Untouched
  <2>4. ASSUME NEW c \in Cores PROVE Arrives(c)' /\ (c \notin stale => CoreKept(c)')
    <3>1. ASSUME c \notin stale PROVE CoreKept(c)'
      <4>1. Raised(c) \/ Untouched(c) => count'[c] = count[c]
        BY <2>1, <2>2, <3>1
      <4>2. c \in {line} => ~job[c] /\ (fresh[c] => cpu = "handler")
        BY <2>1, <2>2, <3>1
      <4>. QED BY <1>2, <2>1, <2>3, <3>1, <4>1, <4>2, CoreGoesOn
    <3>2. Arrives(c)'
      BY <2>1, ClearGoes DEF Arrives
    <3>. QED BY <3>1, <3>2
  <2>5. line \notin stale => Rests(line)'
    <3>1. PICK r, f \in BOOLEAN : Ticks(line, {line}, {}, r, f)
      BY <1>0, <2>1, EachTicks
    <3>2. line \notin stale => ~job'[line] /\ ~fresh'[line]
      BY <2>1, <2>2, <3>1 DEF Ticks
    <3>3. ~Raised(line) /\ ~Untouched(line) => ~Raised(line)' /\ ~Untouched(line)'
      BY <2>1 DEF Raised, Untouched
    <3>4. ASSUME line \notin stale, ~job'[line], ~fresh'[line], ~Raised(line)', ~Untouched(line)'
          PROVE  Rests(line)'
      BY <2>1, <3>4 DEF Rests
    <3>. QED BY <2>2, <3>2, <3>3, <3>4
  <2>6. (line \notin stale => Rests(line))'
    BY <2>1, <2>5
  <2>7. \A c \in Cores : Arrives(c)' /\ (c \notin stale' => CoreKept(c)')
    BY <2>1, <2>4
  <2>. QED BY <2>1, <2>6, <2>7 DEF Kept, Path!DispatcherServes
<1>16. CASE Path!HandlerEnds
  <2>. DEFINE again == IF count[line] = 0 THEN {} ELSE {line}
  <2>1. /\ cpu = "body" /\ cpu' = "reread" /\ busy = 0 /\ busy' = 0 /\ Path!Cores({}, again)
        /\ line' = line /\ pc' = pc /\ next' = next /\ count' = count /\ stale' = stale
        /\ flag' = IF count[line] = 0 THEN [flag EXCEPT ![line] = TRUE] ELSE flag
    BY <1>16 DEF Path!HandlerEnds, Path!main
  <2>2. line \notin stale => Rests(line)
    BY <2>1 DEF Kept
  <2>3. \A c \in Cores : Untouched(c)' <=> Untouched(c)
    BY <2>1 DEF Untouched
  <2>4. ASSUME NEW c \in Cores, c \notin stale PROVE CoreKept(c)'
    <3>1. CASE c # line
      <4>1. flag'[c] = flag[c]
        BY <2>1, <3>1 DEF Path!TypeOK, Cores
      <4>2. CoreKept(c) /\ c \notin again /\ (Untouched(c)' => Untouched(c))
        BY <1>2, <2>3, <2>4, <3>1
      <4>3. Path!Cores({}, again) /\ (c \in {} => ~job[c] /\ (fresh[c] => cpu = "handler"))
            /\ (Raised(c)' => Raised(c)) /\ count'[c] = count[c]
        BY <2>1, <4>1 DEF Raised
      <4>. HIDE DEF again
      <4>. QED BY <4>2, <4>3, CoreGoesOn
    <3>2. CASE c = line /\ count[line] # 0
      <4>1. ~job[c] /\ ~fresh[c] /\ ~Raised(c) /\ ~Untouched(c)
        BY <2>2, <2>4, <3>2 DEF Rests
      <4>2. ~Raised(c)' /\ ~Untouched(c)'
        BY <2>1, <2>3, <3>2, <4>1 DEF Raised
      <4>3. Path!Cores({}, {c}) /\ Spent(c) /\ clr[c] = 0
        BY <1>1, <1>3, <2>1, <3>2
      <4>. QED BY <4>1, <4>2, <4>3, CoreStarts
    <3>3. CASE c = line /\ count[line] = 0
      <4>1. ~job'[c] /\ ~fresh'[c]
        <5>1. PICK r, f \in BOOLEAN : Ticks(c, {}, {}, r, f)
          BY <2>1, <3>3, EachTicks
        <5>. QED BY <2>2, <2>4, <3>3, <5>1 DEF Ticks, Rests
      <4>2. count'[c] = 0 /\ ~Untouched(c)'
        BY <2>1, <2>2, <2>3, <2>4, <3>3 DEF Rests
      <4>. QED BY <4>1, <4>2 DEF CoreKept
    <3>. QED BY <3>1, <3>2, <3>3
  <2>5. pc' \in {"reclear", "restart"} => flag'[next']
    BY <1>0, <2>1 DEF Kept, Path!TypeOK, Cores
  <2>6. AllKept' BY <2>1, <2>4
  <2>. QED BY <1>3, <1>4, <2>1, <2>5, <2>6 DEF Kept, Arrives, Path!DispatcherServes
<1>17. CASE Path!Reread
  <2>1. Still
    BY <1>17 DEF Path!Reread, Path!main, Untouched, Raised
  <2>2. AllKept' BY <1>5, <2>1
  <2>. HIDE DEF Still
  <2>. QED BY <1>0, <1>3, <1>4, <1>17, <2>2
           DEF Path!Reread, Path!main, Kept, Arrives, Path!DispatcherServes
<1>18. CASE Path!Restart
  <2>1. /\ cpu' = "main" /\ busy' = Body /\ pc' = "init" /\ Path!Cores({}, {})
        /\ stale' = stale \cup {c \in Cores : job[c] \/ fresh[c]}
        /\ \A c \in Cores : ~flag'[c] /\ count'[c] = 0
    BY <1>18 DEF Path!Restart, Cores
  <2>2. ASSUME NEW c \in Cores PROVE Arrives(c)' /\ (c \notin stale' => CoreKept(c)')
    <3>1. Arrives(c)'
      BY <1>4, <2>1 DEF Arrives
    <3>2. PICK r, f \in BOOLEAN : Ticks(c, {}, {}, r, f)
      BY <2>1, EachTicks
    <3>3. c \notin stale' => ~job'[c] /\ ~fresh'[c]
      BY <2>1, <3>2 DEF Ticks
    <3>4. ~Raised(c)' /\ count'[c] = 0
      BY <2>1 DEF Raised
    <3>. QED BY <3>1, <3>3, <3>4 DEF CoreKept
  <2>. QED BY <2>1, <2>2 DEF Kept, Path!DispatcherServes
<1>19. CASE Path!Stall
  <2>1. Still /\ cpu' = cpu /\ line' = line /\ enabled' = enabled /\ pc' = pc /\ next' = next
        /\ flag' = flag
    BY <1>19 DEF Path!Stall, Path!main, Untouched, Raised
  <2>2. ASSUME NEW c \in Cores PROVE Arrives(c)'
    BY <1>0, <1>2, <1>4, <1>19 DEF Path!Stall, Arrives, Kept
  <2>3. ASSUME cpu = "body", line \notin stale PROVE Rests(line)'
    <3>1. PICK r, f \in BOOLEAN : Ticks(line, {}, {}, r, f)
      BY <1>0, <2>1, EachTicks
    <3>2. ~job[line] /\ ~fresh[line] /\ ~Raised(line) /\ ~Untouched(line)
      BY <2>3 DEF Kept, Rests
    <3>3. ~job'[line] /\ ~fresh'[line]
      BY <2>3, <3>1, <3>2 DEF Ticks
    <3>4. ~Raised(line)' /\ ~Untouched(line)'
      BY <2>1, <3>2 DEF Raised, Untouched
    <3>. QED BY <2>1, <3>3, <3>4 DEF Rests
  <2>4. AllKept'
    BY <1>5, <2>1
  <2>5. stale = {} /\ cpu \in {"entry", "dispatch"} => Waits'
    BY <1>6, <2>1 DEF Kept
  <2>6. busy = 0 => busy' = 0
    BY <1>19 DEF Path!Stall
  <2>. QED BY <1>0, <2>1, <2>2, <2>3, <2>4, <2>5, <2>6 DEF Kept, Path!DispatcherServes
<1>. QED BY <1>7, <1>8, <1>9, <1>10, <1>10a, <1>11, <1>12, <1>13, <1>14, <1>15, <1>16, <1>17, <1>18,
            <1>19
         DEF Path!Next

LEMMA PathNext == PathInv /\ [Path!Next]_(Path!vars) => PathInv'
<1>. SUFFICES ASSUME PathInv, [Path!Next]_(Path!vars) PROVE PathInv'
  OBVIOUS
<1>1. CASE Path!Next
  BY <1>1, PathTypes, ServedNext, KeptNext DEF PathInv
<1>2. CASE UNCHANGED Path!vars
  <2>1. Path!TypeOK' /\ Served'
    BY <1>2 DEF Path!vars, Path!cores, Path!main, PathInv, Path!TypeOK, Served, Looks, Spent, Fades
  <2>2. \A c \in Cores : CoreKept(c)' = CoreKept(c) /\ Arrives(c)' = Arrives(c)
    BY <1>2 DEF Path!vars, Path!cores, Path!main, CoreKept, Raised, Arrives, Untouched
  <2>3. Rests(line)' = Rests(line) /\ Waits' = Waits
    BY <1>2 DEF Path!vars, Path!cores, Path!main, Rests, Raised, Waits, Untouched
  <2>. QED BY <1>2, <2>1, <2>2, <2>3
           DEF Path!vars, Path!main, PathInv, Kept, Path!DispatcherServes
<1>. QED BY <1>1, <1>2

LEMMA PathPromises ==
  ASSUME PathInv
  PROVE  /\ Path!TypeOK /\ Path!OneHandlerPerRequest
         /\ Path!RequestKept /\ Path!StartMeetsIdle
         /\ stale = {} => Path!DispatcherServes
<1>1. Path!TypeOK /\ Path!OneHandlerPerRequest
  BY DEF PathInv, Served, Path!OneHandlerPerRequest
<1>2. Kept /\ \A c \in Cores : c \notin stale => CoreKept(c)
  BY DEF PathInv, Kept
<1>3. Path!RequestKept
  BY <1>2 DEF CoreKept, Path!RequestKept, Cores
<1>4. Path!StartMeetsIdle
  <2>. SUFFICES ASSUME cpu = "main", pc \in {"clear", "start", "reclear", "restart"},
                       next \notin stale
                PROVE  ~job[next] /\ count[next] = 0
    BY DEF Path!StartMeetsIdle
  <2>1. next \in Cores /\ next <= next
    BY <1>1, PathConstants DEF Path!TypeOK, Cores, Path!Core
  <2>2. Raised(next) \/ Untouched(next)
    BY <1>2, <2>1 DEF Kept, Untouched, Raised
  <2>. QED BY <1>2, <2>1, <2>2 DEF CoreKept
<1>. QED BY <1>1, <1>2, <1>3, <1>4 DEF Kept

\* The inductive invariant of a request's way.
THEOREM PathInvariant == Path!Spec => []PathInv
BY PathInit, PathNext, PTL DEF Path!Spec

\* No compression has two runs of its handler, however often the CPU alone is
\* restarted meanwhile: what a cleared request leaves in the chain of registers
\* has gone when the dispatcher looks again.
THEOREM OneHandlerEach == Path!Spec => []Path!OneHandlerPerRequest
<1>1. PathInv => Path!OneHandlerPerRequest
  BY PathPromises
<1>. QED BY <1>1, PathInvariant, PTL

\* Of the cores that no restart of the CPU found at work, none has its request
\* cleared before its handler has run, and none is started while it computes or
\* with a count left in its handler; and without a restart no request is taken for
\* another exception.
THEOREM NoRequestLost ==
  Path!Spec => [](/\ Path!RequestKept /\ Path!StartMeetsIdle
                  /\ stale = {} => Path!DispatcherServes)
<1>1. PathInv => /\ Path!RequestKept /\ Path!StartMeetsIdle
                 /\ stale = {} => Path!DispatcherServes
  BY PathPromises
<1>. QED BY <1>1, PathInvariant, PTL

\* The run's property: every compression has its handler's run, once, and what a
\* restart of the CPU can spoil is what computed or waited then.
THEOREM ServedOnce == MCSpec => []RequestsServedOnce
<1>. DEFINE I == unit = "path" => PathInv
<1>1. MCInit => I
  BY PathInit DEF MCInit
<1>2. I /\ [MCNext]_mcVars => I'
  <2>. SUFFICES ASSUME I, [MCNext]_mcVars, unit' = "path" PROVE PathInv'
    OBVIOUS
  <2>1. [Path!Next]_(Path!vars) /\ unit = "path"
    BY DEF MCNext, mcVars, pathVars, Path!vars, Path!cores, Path!main
  <2>. QED BY <2>1, PathNext
<1>3. I => RequestsServedOnce
  BY PathPromises DEF RequestsServedOnce
<1>. QED BY <1>1, <1>2, <1>3, PTL DEF MCSpec
=============================================================================
