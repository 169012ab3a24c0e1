-------------------------- MODULE RecordsProofs --------------------------
(***************************************************************************)
(* What the HAL records and prints, proved.                                *)
(*                                                                         *)
(* The profile, for any functions, any number of calls and any size of     *)
(* slab and heap: however the handler's recording cuts into main()'s, the  *)
(* counts of an arc's copies add up to its calls but for those that cut    *)
(* into an increment (GmonInv).  The log, for any FIFO, message and        *)
(* interval: only main() loses a character, and only where a handler has   *)
(* written since its test (LogInv).  The printers, for any set             *)
(* of bytes and any field width: what doIntegerPrint lays out reads back   *)
(* as the argument, and alt_printf prints the same (PrintInv).             *)
(***************************************************************************)
EXTENDS MCResources, Sequences, SequenceTheorems, TLAPS, FiniteSetTheorems, WellFoundedInduction

\* A set of natural numbers has a least one.
Less == {ss \in Nat \X Nat : ss[1] < ss[2]}
LEMMA LessIsWellFounded == IsWellFoundedOn(Less, Nat)
BY NatLessThanWellFounded DEF OpToRel, Less

LEMMA HasLowest ==
  ASSUME NEW S \in SUBSET Nat, S # {}
  PROVE  \E x \in S : \A y \in S : x <= y
<1>2. PICK x \in S : \A y \in S : ~(<<y, x>> \in Less)
  BY LessIsWellFounded, WFMin
<1>3. \A m, n \in Nat : n < m => <<n, m>> \in Less
  BY DEF Less
<1>4. \A y \in S : x <= y
  <2>. TAKE y \in S
  <2>1. x \in Nat /\ y \in Nat OBVIOUS
  <2>2. ~(y < x) BY <1>2, <1>3, <2>1
  <2>. QED BY <2>1, <2>2
<1>. QED BY <1>4

LEMMA SameCount ==
  /\ \A S : Profile!Cardinality(S) = Cardinality(S)
  /\ \A S : Printer!Cardinality(S) = Cardinality(S)
BY DEF Cardinality, Profile!Cardinality, Printer!Cardinality

-----------------------------------------------------------------------------
(***************************************************************************)
(* A sum over a finite set.  The library takes the elements in an order    *)
(* of its own; that the order makes no difference, and what one more       *)
(* element or one other value does to the sum, follows from the smallest   *)
(* set for which it would not be so.                                       *)
(***************************************************************************)
LEMMA LeastSet ==
  ASSUME NEW S, IsFiniteSet(S), NEW T \in SUBSET (SUBSET S), T # {}
  PROVE  \E m \in T : \A u \in T : u \subseteq m => u = m
<1>1. IsWellFoundedOn(StrictSubsetOrdering(S), SUBSET S)
  BY FS_StrictSubsetOrderingWellFounded, FS_FiniteSubsetsOfFinite
<1>2. PICK m \in T : \A u \in T : ~(<<u, m>> \in StrictSubsetOrdering(S))
  <2> DEFINE R == StrictSubsetOrdering(S)
             D == SUBSET S
  <2>1. IsWellFoundedOn(R, D) /\ T \subseteq D BY <1>1
  <2> HIDE DEF R, D
  <2> QED BY <2>1, WFMin DEF R
<1>3. ASSUME NEW u \in T, u \subseteq m PROVE u = m
  BY <1>2, <1>3 DEF StrictSubsetOrdering
<1> QED BY <1>3

\* The element a sum over s begins with.
First(s) == CHOOSE x \in s : TRUE

\* h adds up f over each subset of S, element by element.
Adds(h, f, S) ==
  h = [s \in SUBSET S |-> IF s = {} THEN 0 ELSE f[First(s)] + h[s \ {First(s)}]]

Sum(f, S) == Profile!SumFunctionOnSet(f, S)

LEMMA SumIs == ASSUME NEW f, NEW S PROVE Sum(f, S) = (CHOOSE h : Adds(h, f, S))[S]
BY DEF Sum, Profile!SumFunctionOnSet, Profile!FoldFunctionOnSet, Profile!MapThenFoldSet, Adds,
       First

LEMMA FirstIn == ASSUME NEW s, s # {} PROVE First(s) \in s
BY DEF First

LEMMA AddsAlike ==
  ASSUME NEW S, NEW R, NEW f, NEW g, NEW h, NEW k, Adds(h, f, S), Adds(k, g, R),
         NEW s, IsFiniteSet(s), s \subseteq S, s \subseteq R, \A x \in s : f[x] = g[x]
  PROVE  h[s] = k[s]
<1> DEFINE T == {u \in SUBSET s : h[u] # k[u]}
<1>1. SUFFICES ASSUME T # {} PROVE FALSE OBVIOUS
<1>2. PICK m \in T : \A u \in T : u \subseteq m => u = m
  <2>1. T \in SUBSET (SUBSET s) OBVIOUS
  <2> HIDE DEF T
  <2> QED BY <1>1, <2>1, LeastSet
<1>3. m \in SUBSET S /\ m \in SUBSET R /\ m \subseteq s OBVIOUS
<1>4. /\ h[m] = IF m = {} THEN 0 ELSE f[First(m)] + h[m \ {First(m)}]
      /\ k[m] = IF m = {} THEN 0 ELSE g[First(m)] + k[m \ {First(m)}]
  BY <1>3 DEF Adds
<1>5. m # {} BY <1>4
<1>6. First(m) \in m /\ f[First(m)] = g[First(m)] BY <1>3, <1>5, FirstIn
<1>7. m \ {First(m)} \in SUBSET s /\ m \ {First(m)} # m BY <1>3, <1>6
<1>8. h[m \ {First(m)}] = k[m \ {First(m)}] BY <1>2, <1>7
<1> QED BY <1>4, <1>5, <1>6, <1>8

\* Each sum is the first value and the sum of the others.
LEMMA SumStep ==
  ASSUME NEW f, NEW S, IsFiniteSet(S)
  PROVE  Sum(f, S) = IF S = {} THEN 0 ELSE f[First(S)] + Sum(f, S \ {First(S)})
<1> DEFINE Exists(s) == \E h : Adds(h, f, s)
           The(s) == CHOOSE h : Adds(h, f, s)
           T == {s \in SUBSET S : ~Exists(s)}
<1>0. \A s \in SUBSET S : IsFiniteSet(s) BY FS_Subset
<1>1. ASSUME NEW s \in SUBSET S, Exists(s) PROVE Adds(The(s), f, s) /\ Sum(f, s) = The(s)[s]
  BY <1>1, SumIs
<1>2. ASSUME NEW s \in SUBSET S, Exists(s), s # {}, Exists(s \ {First(s)})
      PROVE  Sum(f, s) = f[First(s)] + Sum(f, s \ {First(s)})
  <2> DEFINE r == s \ {First(s)}
  <2>1. r \in SUBSET S /\ r \in SUBSET s OBVIOUS
  <2>2. Adds(The(s), f, s) /\ Adds(The(r), f, r) BY <1>1, <1>2, <2>1
  <2> HIDE DEF The
  <2>3. The(s)[r] = The(r)[r] BY <1>0, <2>1, <2>2, AddsAlike
  <2>4. The(s)[s] = f[First(s)] + The(s)[r] BY <1>2, <2>2 DEF Adds
  <2> QED BY <1>1, <1>2, <2>1, <2>3, <2>4
<1>3. T = {}
  <2>1. SUFFICES ASSUME T # {} PROVE FALSE OBVIOUS
  <2>2. PICK m \in T : \A u \in T : u \subseteq m => u = m
    <3>1. T \in SUBSET (SUBSET S) OBVIOUS
    <3> HIDE DEF T
    <3> QED BY <2>1, <3>1, LeastSet
  <2> DEFINE h == [s \in SUBSET m |->
                     IF s = {} THEN 0
                     ELSE f[First(s)] + Sum(f, s \ {First(s)})]
  <2>3. m \in SUBSET S OBVIOUS
  <2>4. ASSUME NEW s \in SUBSET m, s # m PROVE h[s] = Sum(f, s)
    <3>1. s \in SUBSET S /\ Exists(s) BY <2>2, <2>3, <2>4
    <3>2. CASE s = {}
      <4>1. Adds(The(s), f, s) /\ Sum(f, s) = The(s)[s] BY <1>1, <3>1
      <4> HIDE DEF The
      <4>2. The(s)[s] = 0 BY <3>2, <4>1 DEF Adds
      <4> QED BY <3>2, <4>1, <4>2
    <3>3. CASE s # {}
      <4>1. First(s) \in s BY <3>3, FirstIn
      <4>2. s \ {First(s)} \in SUBSET S /\ s \ {First(s)} # m /\ s \ {First(s)} \subseteq m
        BY <2>4, <4>1, <3>1
      <4>3. Exists(s \ {First(s)}) BY <2>2, <4>2
      <4> HIDE DEF Exists
      <4>4. Sum(f, s) = f[First(s)] + Sum(f, s \ {First(s)}) BY <1>2, <3>1, <3>3, <4>3
      <4> QED BY <2>4, <3>3, <4>4
    <3> QED BY <3>2, <3>3
  <2>5. ASSUME NEW s \in SUBSET m
        PROVE  h[s] = IF s = {} THEN 0 ELSE f[First(s)] + h[s \ {First(s)}]
    <3>1. CASE s # {}
      <4>1. First(s) \in s BY <3>1, FirstIn
      <4>2. s \ {First(s)} \in SUBSET m /\ s \ {First(s)} # m BY <4>1
      <4>3. h[s \ {First(s)}] = Sum(f, s \ {First(s)}) BY <2>4, <4>2
      <4> QED BY <3>1, <4>3
    <3> QED BY <3>1
  <2> DEFINE k == [s \in SUBSET m |-> IF s = {} THEN 0 ELSE f[First(s)] + h[s \ {First(s)}]]
  <2>6. h = k
    <3>1. \A s \in SUBSET m : h[s] = k[s] BY <2>5
    <3> QED BY <3>1
  <2>7. Adds(h, f, m) BY <2>6 DEF Adds
  <2> QED BY <2>7
<1>4. Exists(S) /\ (S # {} => Exists(S \ {First(S)})) BY <1>3
<1>5. S = {} => Sum(f, S) = 0
  <2>1. Adds(The(S), f, S) /\ Sum(f, S) = The(S)[S] BY <1>1, <1>4
  <2> HIDE DEF The
  <2> QED BY <2>1 DEF Adds
<1> QED
  <2> HIDE DEF Exists
  <2> QED BY <1>2, <1>4, <1>5

\* Sums of natural numbers are natural numbers, whichever element comes first.
LEMMA SumAny ==
  ASSUME NEW f, NEW S, IsFiniteSet(S), \A x \in S : f[x] \in Nat
  PROVE  /\ Sum(f, S) \in Nat
         /\ \A x \in S : Sum(f, S) = f[x] + Sum(f, S \ {x})
<1>0. \A s \in SUBSET S : IsFiniteSet(s) BY FS_Subset
<1>1. \A s \in SUBSET S : Sum(f, s) \in Nat
  <2> DEFINE T == {s \in SUBSET S : ~(Sum(f, s) \in Nat)}
  <2>1. SUFFICES ASSUME T # {} PROVE FALSE OBVIOUS
  <2>2. PICK m \in T : \A u \in T : u \subseteq m => u = m
    <3>1. T \in SUBSET (SUBSET S) OBVIOUS
    <3> HIDE DEF T
    <3> QED BY <2>1, <3>1, LeastSet
  <2>3. Sum(f, m) = IF m = {} THEN 0 ELSE f[First(m)] + Sum(f, m \ {First(m)}) BY <1>0, SumStep
  <2>4. m # {} BY <2>3
  <2>5. First(m) \in m BY <2>4, FirstIn
  <2>6. m \ {First(m)} \in SUBSET S /\ m \ {First(m)} # m BY <2>5
  <2>7. Sum(f, m \ {First(m)}) \in Nat BY <2>2, <2>6
  <2> QED BY <2>3, <2>4, <2>5, <2>7
<1>2. \A s \in SUBSET S : \A x \in s : Sum(f, s) = f[x] + Sum(f, s \ {x})
  <2> DEFINE Fine(s) == \A x \in s : Sum(f, s) = f[x] + Sum(f, s \ {x})
             T == {s \in SUBSET S : ~Fine(s)}
  <2>1. SUFFICES ASSUME T # {} PROVE FALSE OBVIOUS
  <2>2. PICK m \in T : \A u \in T : u \subseteq m => u = m
    <3>1. T \in SUBSET (SUBSET S) OBVIOUS
    <3> HIDE DEF T
    <3> QED BY <2>1, <3>1, LeastSet
  <2>3. PICK x \in m : Sum(f, m) # f[x] + Sum(f, m \ {x}) BY <2>2
  <2> DEFINE y == First(m)
             r == (m \ {x}) \ {y}
  <2>4. y \in m BY <2>3, FirstIn
  <2> HIDE DEF y
  <2>5. Sum(f, m) = f[y] + Sum(f, m \ {y}) BY <1>0, <2>3, SumStep DEF y
  <2>6. x # y BY <2>3, <2>5
  <2>7. m \ {x} \in SUBSET S /\ m \ {y} \in SUBSET S /\ m \ {x} # m /\ m \ {y} # m
        /\ y \in m \ {x} /\ x \in m \ {y} /\ (m \ {y}) \ {x} = r /\ r \in SUBSET S
    BY <2>3, <2>4, <2>6
  <2>8. Fine(m \ {x}) /\ Fine(m \ {y}) BY <2>2, <2>7
  <2>9. Sum(f, m \ {x}) = f[y] + Sum(f, r) /\ Sum(f, m \ {y}) = f[x] + Sum(f, r)
    BY <2>7, <2>8
  <2>10. f[x] \in Nat /\ f[y] \in Nat /\ Sum(f, r) \in Nat BY <1>1, <2>3, <2>4, <2>7
  <2> HIDE DEF r
  <2> QED BY <2>3, <2>5, <2>9, <2>10
<1> QED BY <1>1, <1>2

LEMMA SumEmpty == ASSUME NEW f PROVE Sum(f, {}) = 0
BY SumStep, FS_EmptySet

LEMMA SumAlike ==
  ASSUME NEW f, NEW g, NEW S, IsFiniteSet(S), \A x \in S : f[x] \in Nat /\ f[x] = g[x]
  PROVE  Sum(f, S) = Sum(g, S)
<1>0. \A s \in SUBSET S : IsFiniteSet(s) BY FS_Subset
<1> DEFINE T == {s \in SUBSET S : Sum(f, s) # Sum(g, s)}
<1>1. SUFFICES ASSUME T # {} PROVE FALSE OBVIOUS
<1>2. PICK m \in T : \A u \in T : u \subseteq m => u = m
  <2>1. T \in SUBSET (SUBSET S) OBVIOUS
  <2> HIDE DEF T
  <2> QED BY <1>1, <2>1, LeastSet
<1>3. /\ Sum(f, m) = IF m = {} THEN 0 ELSE f[First(m)] + Sum(f, m \ {First(m)})
      /\ Sum(g, m) = IF m = {} THEN 0 ELSE g[First(m)] + Sum(g, m \ {First(m)})
  BY <1>0, SumStep
<1>4. First(m) \in m BY <1>3, FirstIn
<1>5. m \ {First(m)} \in SUBSET S /\ m \ {First(m)} # m BY <1>4
<1>6. Sum(f, m \ {First(m)}) = Sum(g, m \ {First(m)}) BY <1>2, <1>5
<1> QED BY <1>3, <1>4, <1>6

\* One more element, and another value at one place.
LEMMA SumMore ==
  ASSUME NEW f, NEW S, NEW x, x \notin S, IsFiniteSet(S), \A y \in S \cup {x} : f[y] \in Nat
  PROVE  Sum(f, S \cup {x}) = Sum(f, S) + f[x] /\ Sum(f, S) \in Nat
<1>1. IsFiniteSet(S \cup {x}) BY FS_AddElement
<1>2. (S \cup {x}) \ {x} = S OBVIOUS
<1>3. Sum(f, S \cup {x}) = f[x] + Sum(f, S) BY <1>1, <1>2, SumAny
<1>4. Sum(f, S) \in Nat BY SumAny
<1> QED BY <1>3, <1>4

LEMMA SumChange ==
  ASSUME NEW f, NEW g, NEW S, NEW x \in S, IsFiniteSet(S),
         \A y \in S : f[y] \in Nat /\ g[y] \in Nat, \A y \in S \ {x} : f[y] = g[y]
  PROVE  Sum(g, S) = Sum(f, S) - f[x] + g[x]
<1>1. IsFiniteSet(S \ {x}) BY FS_RemoveElement
<1>2. Sum(f, S \ {x}) = Sum(g, S \ {x}) BY <1>1, SumAlike
<1>3. Sum(f, S) = f[x] + Sum(f, S \ {x}) /\ Sum(g, S) = g[x] + Sum(g, S \ {x}) BY SumAny
<1>4. Sum(f, S \ {x}) \in Nat BY <1>1, SumAny
<1> QED BY <1>2, <1>3, <1>4

-----------------------------------------------------------------------------
(***************************************************************************)
(* The profile.  A walk along a list that a handler overtakes may add an   *)
(* arc that is there already; what a caller knows of the arc it looks for  *)
(* (Walks, Doubles) bounds the copies, and what it has loaded of a count   *)
(* (Loaded) never exceeds the count: so no call is counted twice           *)
(* (Counts).  By as much as the count has passed what main() has loaded,   *)
(* calls will be missing once main() stores (Due), and all of them are     *)
(* known to have cut in (DueTorn); those and the calls counted are all     *)
(* there were (Exact), and no arc whose record is made is missing          *)
(* (Recorded).                                                             *)
(***************************************************************************)
ArcT   == [from : Funcs, count : Nat \ {0}]
EntryT == [self : Funcs, arcs : Seq(ArcT)]
Spot   == {"out", "arc", "load", "store", "check", "clear", "sample", "record"}
GWho   == Profile!Who

GTypes ==
  /\ gRunning \in GWho /\ needInit \in BOOLEAN /\ timer \in BOOLEAN /\ armed \in 0 .. 2
  /\ gPc \in [GWho -> Spot] /\ self \in [GWho -> Funcs] /\ from \in [GWho -> Funcs]
  /\ fn \in [GWho -> Nat] /\ arc \in [GWho -> Nat] /\ old \in [GWho -> Nat]
  /\ \A w \in GWho : fn[w] <= Len(entries)
  /\ slab \in 0 .. SlabUnits - 1 /\ brk \in 0 .. HeapUnits
  /\ wild \subseteq {"list", "histogram", "bucket"}
  /\ entries \in Seq(EntryT) /\ calls \in [Funcs \X Funcs -> Nat]
  /\ torn \in [Funcs \X Funcs -> Nat]
  /\ IsFiniteSet(Profile!Arcs)
  /\ gPc["isr"] # "out" => gRunning = "isr"

Sampler ==
  /\ armed > 0 => timer /\ ~needInit /\ gPc["isr"] \notin {"clear", "sample"}
  /\ armed = 2 => gPc["main"] \notin {"clear", "sample"}

\* The arc a caller has found.
Found(w) == /\ fn[w] # 0 /\ arc[w] \in DOMAIN entries[fn[w]].arcs
            /\ entries[fn[w]].arcs[arc[w]].from = from[w]

Walks ==
  \A w \in GWho :
    /\ gPc[w] # "out" /\ fn[w] # 0 => entries[fn[w]].self = self[w]
    /\ gPc[w] = "arc" => fn[w] # 0
    /\ gPc[w] \in {"load", "store"} => Found(w)

Loaded ==
  /\ gPc["isr"] = "store" => old["isr"] = entries[fn["isr"]].arcs[arc["isr"]].count
  /\ gPc["main"] = "store" => old["main"] <= entries[fn["main"]].arcs[arc["main"]].count

\* A caller about to add an arc from f to entry k.
Adding(w, k, f) ==
  gPc[w] \in {"check", "clear", "sample", "record"} /\ fn[w] = k /\ from[w] = f
Doubled(k, f) == {j \in DOMAIN entries[k].arcs : entries[k].arcs[j].from = f}
Doubles ==
  \A k \in DOMAIN entries : \A f \in Funcs :
    /\ IsFiniteSet(Doubled(k, f)) /\ Cardinality(Doubled(k, f)) <= 2
    /\ Adding("isr", k, f) => Doubled(k, f) = {}
    /\ Adding("main", k, f) => Cardinality(Doubled(k, f)) <= 1

\* A call of f by s that w is counting.
Inside(w, s, f) == IF gPc[w] # "out" /\ self[w] = s /\ from[w] = f THEN 1 ELSE 0
Busy(s, f) == Inside("main", s, f) + Inside("isr", s, f)

Counts ==
  \A s, f \in Funcs :
    Sum(Profile!Count, Profile!Copies(s, f)) + Busy(s, f) <= calls[<<s, f>>]
Recorded ==
  \A s, f \in Funcs : calls[<<s, f>>] > Busy(s, f) => Profile!Copies(s, f) # {}

\* What main()'s store is going to take off the count of the arc from f to s.
Due(s, f) ==
  IF gPc["main"] = "store" /\ self["main"] = s /\ from["main"] = f
  THEN entries[fn["main"]].arcs[arc["main"]].count - old["main"] ELSE 0
DueTorn == \A s, f \in Funcs : Due(s, f) <= torn[<<s, f>>]
Exact ==
  \A s, f \in Funcs :
    Sum(Profile!Count, Profile!Copies(s, f)) + Busy(s, f) + torn[<<s, f>>] =
      calls[<<s, f>>] + Due(s, f)
Tally == DueTorn /\ Exact

GmonInv ==
  GTypes /\ Sampler /\ Walks /\ Loaded /\ Doubles /\ Counts /\ Recorded /\ Tally

-----------------------------------------------------------------------------
LEMMA GmonConstants ==
  /\ MaxCalls \in Nat /\ SlabUnits \in Nat \ {0} /\ HeapUnits \in Nat
  /\ Buckets \in Nat /\ TextBytes \in Nat
BY ResourcesAssumption DEF ResourcesAssumption, Profile!GmonAssumption

LEMMA MaxIsIn ==
  ASSUME NEW n \in Nat, NEW I \in SUBSET (1 .. n), I # {} PROVE Profile!Max(I) \in I
<1> DEFINE T == {n - i : i \in I}
<1>1. T \in SUBSET Nat /\ T # {}
  <2>1. \A i \in I : n - i \in Nat OBVIOUS
  <2> QED BY <2>1
<1>2. PICK t \in T : \A u \in T : t <= u
  <2> HIDE DEF T
  <2> QED BY <1>1, HasLowest
<1>3. PICK i \in I : t = n - i OBVIOUS
<1>4. \A j \in I : i >= j
  <2> TAKE j \in I
  <2>1. n - i <= n - j BY <1>2, <1>3
  <2> QED BY <2>1
<1> QED BY <1>4 DEF Profile!Max

LEMMA EntryIs ==
  ASSUME GTypes, NEW k \in DOMAIN entries
  PROVE  /\ DOMAIN entries = 1 .. Len(entries) /\ Len(entries) \in Nat
         /\ entries[k] \in EntryT /\ entries[k].self \in Funcs /\ entries[k].arcs \in Seq(ArcT)
         /\ DOMAIN entries[k].arcs = 1 .. Len(entries[k].arcs) /\ Len(entries[k].arcs) \in Nat
         /\ \A j \in DOMAIN entries[k].arcs :
              /\ entries[k].arcs[j] \in ArcT /\ entries[k].arcs[j].from \in Funcs
              /\ entries[k].arcs[j].count \in Nat \ {0}
<1>1. entries \in Seq(EntryT) BY DEF GTypes
<1>2. entries[k] \in EntryT BY <1>1
<1>3. entries[k].self \in Funcs /\ entries[k].arcs \in Seq(ArcT) BY <1>2 DEF EntryT
<1>4. \A j \in DOMAIN entries[k].arcs : entries[k].arcs[j] \in ArcT BY <1>3
<1> QED BY <1>1, <1>2, <1>3, <1>4 DEF ArcT

LEMMA ArcsAre ==
  \A c : c \in Profile!Arcs <=>
           \E k \in DOMAIN entries : \E j \in DOMAIN entries[k].arcs : c = <<k, j>>
BY DEF Profile!Arcs

LEMMA CopiesAre ==
  ASSUME GTypes, NEW s \in Funcs, NEW f \in Funcs
  PROVE  /\ Profile!Copies(s, f) \subseteq Profile!Arcs
         /\ IsFiniteSet(Profile!Copies(s, f))
         /\ \A c \in Profile!Arcs : Profile!Count[c] \in Nat \ {0}
                                   /\ Profile!Count[c] = entries[c[1]].arcs[c[2]].count
<1>1. Profile!Copies(s, f) \subseteq Profile!Arcs BY DEF Profile!Copies
<1>2. IsFiniteSet(Profile!Copies(s, f)) BY <1>1, FS_Subset DEF GTypes
<1>3. ASSUME NEW c \in Profile!Arcs
      PROVE  Profile!Count[c] \in Nat \ {0} /\ Profile!Count[c] = entries[c[1]].arcs[c[2]].count
  <2>1. PICK k \in DOMAIN entries : \E j \in DOMAIN entries[k].arcs : c = <<k, j>> BY ArcsAre
  <2>2. PICK j \in DOMAIN entries[k].arcs : c = <<k, j>> BY <2>1
  <2>3. entries[k].arcs[j].count \in Nat \ {0} BY EntryIs
  <2> QED BY <2>2, <2>3 DEF Profile!Count
<1> QED BY <1>1, <1>2, <1>3

LEMMA SameEntries ==
  ASSUME entries' = entries
  PROVE  /\ Profile!Arcs' = Profile!Arcs /\ Profile!Count' = Profile!Count
         /\ \A s, f : Profile!Copies(s, f)' = Profile!Copies(s, f)
BY DEF Profile!Arcs, Profile!Count, Profile!Copies

LEMMA PlaceMoves ==
  ASSUME GTypes, NEW w \in GWho, NEW p, gPc' = [gPc EXCEPT ![w] = p]
  PROVE  gPc'[w] = p /\ \A v \in GWho \ {w} : gPc'[v] = gPc[v]
BY DEF GTypes

\* A step inside mcount that leaves the lists as they are.
LEMMA InnerStep ==
  ASSUME GmonInv, NEW w \in GWho, gRunning = w, gPc[w] # "out", NEW p \in Spot, p # "out",
         gPc' = [gPc EXCEPT ![w] = p], UNCHANGED <<entries, gRunning, self, from, calls, torn>>,
         \A s, f \in Funcs : Due(s, f)' = Due(s, f)
  PROVE  /\ Counts' /\ Recorded' /\ Tally' /\ gPc' \in [GWho -> Spot] /\ gPc'[w] = p
         /\ \A v \in GWho \ {w} : gPc'[v] = gPc[v]
         /\ gPc'["isr"] # "out" => gRunning' = "isr"
         /\ IsFiniteSet(Profile!Arcs)'
         /\ \A k, f : Doubled(k, f)' = Doubled(k, f)
<1>1. gPc \in [GWho -> Spot] /\ IsFiniteSet(Profile!Arcs) BY DEF GmonInv, GTypes
<1>2. /\ gPc' \in [GWho -> Spot] /\ gPc'[w] = p
      /\ \A v \in GWho \ {w} : gPc'[v] = gPc[v]
  BY <1>1
<1>3. "main" \in GWho /\ "isr" \in GWho BY DEF GWho, Profile!Who
<1>4. \A v \in GWho : \A s, f : Inside(v, s, f)' = Inside(v, s, f) BY <1>2 DEF Inside
<1>5. \A s, f : Busy(s, f)' = Busy(s, f) BY <1>3, <1>4 DEF Busy
<1>6. Counts' /\ Recorded' BY <1>5, SameEntries DEF GmonInv, Counts, Recorded
<1>8. Tally' BY <1>5, SameEntries DEF GmonInv, Tally, DueTorn, Exact
<1>7. gPc'["isr"] # "out" => gRunning' = "isr" BY <1>2, <1>3 DEF GmonInv, GTypes
<1> QED BY <1>1, <1>2, <1>6, <1>7, <1>8, SameEntries DEF Doubled

LEMMA LastIs ==
  ASSUME NEW n \in Nat, NEW I \in SUBSET (1 .. n)
  PROVE  LET r == IF I # {} THEN Profile!Max(I) ELSE 0 IN
         r \in 0 .. n /\ (r # 0 => r \in I) /\ (r = 0 => I = {})
<1>1. CASE I = {} BY <1>1
<1>2. CASE I # {}
  <2>1. Profile!Max(I) \in I BY <1>2, MaxIsIn
  <2>2. Profile!Max(I) \in 1 .. n BY <2>1
  <2> QED BY <1>2, <2>1, <2>2
<1> QED BY <1>1, <1>2

\* The entry a caller has found is on the list.
LEMMA FoundEntry ==
  ASSUME GmonInv, NEW w \in GWho, gPc[w] # "out", fn[w] # 0
  PROVE  fn[w] \in DOMAIN entries /\ entries[fn[w]].self = self[w]
<1>1. fn[w] \in Nat /\ fn[w] <= Len(entries) /\ entries \in Seq(EntryT)
  BY DEF GmonInv, GTypes
<1> QED BY <1>1 DEF GmonInv, Walks

LEMMA DueIs ==
  ASSUME GmonInv, NEW s \in Funcs, NEW f \in Funcs
  PROVE  Due(s, f) \in Nat
<1>1. CASE gPc["main"] = "store" /\ self["main"] = s /\ from["main"] = f
  <2> DEFINE k == fn["main"]
             j == arc["main"]
  <2>1. "main" \in GWho BY DEF GWho, Profile!Who
  <2>2. Found("main") BY <1>1, <2>1 DEF GmonInv, Walks
  <2>3. k \in DOMAIN entries BY <1>1, <2>1, <2>2, FoundEntry DEF Found
  <2>4. entries[k].arcs[j].count \in Nat BY <2>2, <2>3, EntryIs DEF GmonInv, Found
  <2>5. old["main"] \in Nat /\ old["main"] <= entries[k].arcs[j].count
    BY <1>1, <2>1 DEF GmonInv, GTypes, Loaded
  <2>6. Due(s, f) = entries[k].arcs[j].count - old["main"] BY <1>1 DEF Due
  <2> HIDE DEF k, j
  <2> QED BY <2>4, <2>5, <2>6
<1>2. CASE ~(gPc["main"] = "store" /\ self["main"] = s /\ from["main"] = f)
  BY <1>2 DEF Due
<1> QED BY <1>1, <1>2

LEMMA FindArcGmon == ASSUME GmonInv, NEW w \in GWho, Profile!FindArc(w) PROVE GmonInv'
<1> DEFINE k == fn[w]
           I == {j \in 1 .. Len(entries[k].arcs) : entries[k].arcs[j].from = from[w]}
           r == IF I # {} THEN Profile!Max(I) ELSE 0
<1>1. /\ gRunning = w /\ gPc[w] = "arc"
      /\ UNCHANGED <<entries, gRunning, self, from, fn, old, needInit, armed, timer, brk, slab,
                     wild, calls, torn>>
  BY DEF Profile!FindArc, Profile!At, Profile!mem
<1>2. /\ arc \in [GWho -> Nat] /\ gPc \in [GWho -> Spot] /\ from \in [GWho -> Funcs]
      /\ fn \in [GWho -> Nat]
  BY DEF GmonInv, GTypes
<1>3. k # 0 /\ k \in DOMAIN entries /\ entries[k].self = self[w]
  <2>1. k # 0 BY <1>1 DEF GmonInv, Walks
  <2> QED BY <1>1, <2>1, FoundEntry
<1>4. /\ DOMAIN entries[k].arcs = 1 .. Len(entries[k].arcs) /\ Len(entries[k].arcs) \in Nat
  BY <1>3, EntryIs DEF GmonInv
<1>5. arc' = [arc EXCEPT ![w] = r]
  BY DEF Profile!FindArc, Profile!SelectLastInSeq
<1>6. r \in 0 .. Len(entries[k].arcs) /\ (r # 0 => r \in I) /\ (r = 0 => I = {})
  BY <1>4, LastIs
<1> HIDE DEF r
<1>7. arc' \in [GWho -> Nat] /\ arc'[w] = r /\ \A v \in GWho \ {w} : arc'[v] = arc[v]
  BY <1>2, <1>4, <1>5, <1>6
<1> DEFINE p == IF r = 0 THEN "check" ELSE "load"
<1>8. p \in Spot /\ p # "out" /\ gPc' = [gPc EXCEPT ![w] = p]
  BY <1>7 DEF Profile!FindArc, Profile!Goes, Spot
<1>15. \A s, f \in Funcs : Due(s, f)' = Due(s, f)
  <2>1. gPc'[w] = p /\ p # "store" /\ \A v \in GWho \ {w} : gPc'[v] = gPc[v]
    BY <1>2, <1>8
  <2> QED BY <1>1, <1>7, <2>1 DEF Due, GWho, Profile!Who
<1>9. /\ Counts' /\ Recorded' /\ Tally' /\ gPc' \in [GWho -> Spot] /\ gPc'[w] = p
      /\ \A v \in GWho \ {w} : gPc'[v] = gPc[v]
      /\ gPc'["isr"] # "out" => gRunning' = "isr"
      /\ IsFiniteSet(Profile!Arcs)'
      /\ \A l, f : Doubled(l, f)' = Doubled(l, f)
  BY <1>1, <1>8, <1>15, InnerStep
<1>10. GTypes' BY <1>1, <1>7, <1>9 DEF GmonInv, GTypes
<1>11. Sampler' BY <1>1, <1>9 DEF GmonInv, Sampler, GWho, Profile!Who
<1>12. Walks'
  <2>1. ASSUME NEW v \in GWho
        PROVE  /\ gPc'[v] # "out" /\ fn'[v] # 0 => entries'[fn'[v]].self = self'[v]
               /\ gPc'[v] = "arc" => fn'[v] # 0
               /\ gPc'[v] \in {"load", "store"} => Found(v)'
    <3>1. CASE v = w
      <4>1. r # 0 => r \in DOMAIN entries[k].arcs /\ entries[k].arcs[r].from = from[w]
        BY <1>4, <1>6
      <4>2. k # 0 BY <1>1, <1>2 DEF GmonInv, Walks
      <4> QED BY <1>1, <1>3, <1>7, <1>9, <3>1, <4>1, <4>2 DEF Found
    <3>2. CASE v # w
      BY <1>1, <1>7, <1>9, <3>2 DEF GmonInv, Walks, Found
    <3> QED BY <3>1, <3>2
  <2> QED BY <2>1 DEF Walks
<1>13. Loaded'
  BY <1>1, <1>7, <1>9 DEF GmonInv, Loaded, GWho, Profile!Who
<1>14. Doubles'
  <2>1. ASSUME NEW l \in DOMAIN entries, NEW f \in Funcs
        PROVE  /\ Adding("isr", l, f)' => Doubled(l, f) = {}
               /\ Adding("main", l, f)' => Cardinality(Doubled(l, f)) <= 1
    <3>1. r = 0 => Doubled(k, from[w]) = {} BY <1>4, <1>6 DEF Doubled
    <3>2. \A v \in GWho : Adding(v, l, f)' =>
            Adding(v, l, f) \/ (v = w /\ l = k /\ f = from[w] /\ r = 0)
      BY <1>1, <1>9 DEF Adding
    <3>3. Adding("isr", l, f) => Doubled(l, f) = {} BY DEF GmonInv, Doubles
    <3>4. Adding("main", l, f) => Cardinality(Doubled(l, f)) <= 1 BY DEF GmonInv, Doubles
    <3>5. Cardinality({}) = 0 BY FS_EmptySet
    <3> QED BY <3>1, <3>2, <3>3, <3>4, <3>5 DEF GWho, Profile!Who
  <2> QED BY <1>1, <1>9, <2>1 DEF GmonInv, Doubles
<1> QED BY <1>9, <1>10, <1>11, <1>12, <1>13, <1>14 DEF GmonInv

LEMMA LoadGmon == ASSUME GmonInv, NEW w \in GWho, Profile!LoadCount(w) PROVE GmonInv'
<1>1. /\ gRunning = w /\ gPc[w] = "load" /\ gPc' = [gPc EXCEPT ![w] = "store"]
      /\ old' = [old EXCEPT ![w] = entries[fn[w]].arcs[arc[w]].count]
      /\ UNCHANGED <<entries, gRunning, self, from, fn, arc, needInit, armed, timer, brk, slab,
                     wild, calls, torn>>
  BY DEF Profile!LoadCount, Profile!At, Profile!mem, Profile!Goes
<1>2. old \in [GWho -> Nat] /\ fn \in [GWho -> Nat] BY DEF GmonInv, GTypes
<1>3. Found(w) /\ fn[w] \in DOMAIN entries
  BY <1>1, <1>2 DEF GmonInv, GTypes, Walks, Found
<1>4. entries[fn[w]].arcs[arc[w]].count \in Nat BY <1>3, EntryIs DEF GmonInv, Found
<1>5. /\ old' \in [GWho -> Nat] /\ old'[w] = entries[fn[w]].arcs[arc[w]].count
      /\ \A v \in GWho \ {w} : old'[v] = old[v]
  BY <1>1, <1>2, <1>4
<1>6. "store" \in Spot BY DEF Spot
<1>14. \A s, f \in Funcs : Due(s, f)' = Due(s, f)
  <2>1. gPc'[w] = "store" /\ \A v \in GWho \ {w} : gPc'[v] = gPc[v]
    BY <1>1, PlaceMoves DEF GmonInv
  <2> DEFINE c == entries[fn[w]].arcs[arc[w]].count
  <2>2. c \in Nat /\ old'[w] = c BY <1>4, <1>5
  <2> HIDE DEF c
  <2>3. c - c = 0 BY <2>2
  <2> QED BY <1>1, <1>5, <2>1, <2>2, <2>3 DEF Due, GWho, Profile!Who, c
<1>7. /\ Counts' /\ Recorded' /\ Tally' /\ gPc' \in [GWho -> Spot] /\ gPc'[w] = "store"
      /\ \A v \in GWho \ {w} : gPc'[v] = gPc[v]
      /\ gPc'["isr"] # "out" => gRunning' = "isr"
      /\ IsFiniteSet(Profile!Arcs)'
      /\ \A l, f : Doubled(l, f)' = Doubled(l, f)
  BY <1>1, <1>6, <1>14, InnerStep
<1>8. GTypes' BY <1>1, <1>5, <1>7 DEF GmonInv, GTypes
<1>9. Sampler' BY <1>1, <1>7 DEF GmonInv, Sampler, GWho, Profile!Who
<1>10. Walks' BY <1>1, <1>3, <1>7 DEF GmonInv, Walks, Found
<1>11. Loaded' BY <1>1, <1>4, <1>5, <1>7 DEF GmonInv, Loaded, GWho, Profile!Who
<1>12. \A v \in GWho : \A l, f : Adding(v, l, f)' => Adding(v, l, f) BY <1>1, <1>7 DEF Adding
<1>13. Doubles' BY <1>1, <1>7, <1>12 DEF GmonInv, Doubles, GWho, Profile!Who
<1> QED BY <1>7, <1>8, <1>9, <1>10, <1>11, <1>13 DEF GmonInv

\* The memory a slab is made of.
LEMMA AllocateTypes ==
  ASSUME GTypes, NEW n \in {1, 2}, Profile!mcount_allocate(n)
  PROVE  /\ slab' \in 0 .. SlabUnits - 1 /\ brk' \in 0 .. HeapUnits
         /\ wild' \subseteq {"list", "histogram", "bucket"}
<1>1. slab \in 0 .. SlabUnits - 1 /\ brk \in 0 .. HeapUnits
      /\ wild \subseteq {"list", "histogram", "bucket"}
  BY DEF GTypes
<1> DEFINE first == slab < 1
           second == n = 2 /\ (IF first THEN SlabUnits - 1 ELSE slab - 1) < 1
           some == (IF first THEN 1 ELSE 0) + (IF second THEN 1 ELSE 0)
<1>2. some \in 0 .. 2 OBVIOUS
<1>3. CASE first \/ second
  <2>1. /\ slab' = IF n = 1 \/ second THEN SlabUnits - 1 ELSE SlabUnits - 2
        /\ Profile!Sbrk(SlabUnits * some, "list")
    BY <1>3 DEF Profile!mcount_allocate
  <2>2. slab' \in 0 .. SlabUnits - 1 BY <1>1, <1>3, <2>1, GmonConstants
  <2>3. SlabUnits * some \in Nat
    <3> HIDE DEF some
    <3> QED BY <1>2, GmonConstants
  <2> DEFINE amount == SlabUnits * some
  <2>4. Profile!Sbrk(amount, "list") BY <2>1
  <2>5. amount \in Nat BY <2>3
  <2> HIDE DEF amount
  <2>6. brk' \in 0 .. HeapUnits /\ wild' \subseteq {"list", "histogram", "bucket"}
    <3>1. \/ brk + amount <= HeapUnits /\ brk' = brk + amount /\ wild' = wild
          \/ brk' = brk /\ wild' = wild \cup {"list"}
      BY <2>4 DEF Profile!Sbrk
    <3>2. brk' \in 0 .. HeapUnits BY <1>1, <2>5, <3>1, GmonConstants
    <3>3. wild' \subseteq {"list", "histogram", "bucket"} BY <1>1, <3>1
    <3> QED BY <3>2, <3>3
  <2> QED BY <2>2, <2>6
<1>4. CASE ~(first \/ second)
  <2>1. slab' = slab - n /\ brk' = brk /\ wild' = wild BY <1>4 DEF Profile!mcount_allocate
  <2>2. slab' \in 0 .. SlabUnits - 1 BY <1>1, <1>4, <2>1, GmonConstants
  <2> QED BY <1>1, <2>1, <2>2
<1> QED BY <1>3, <1>4

\* The steps of __mcount_record before the lists: the sampler's flag.
LEMMA RecordPath ==
  ASSUME GmonInv, NEW w \in GWho, NEW p \in {"clear", "sample", "record"}, gRunning = w,
         gPc[w] \in {"check", "clear", "sample"}, gPc' = [gPc EXCEPT ![w] = p],
         UNCHANGED <<entries, gRunning, self, from, fn, arc, old, timer, slab, calls, torn>>,
         needInit' \in BOOLEAN, armed' \in 0 .. 2, brk' \in 0 .. HeapUnits,
         wild' \subseteq {"list", "histogram", "bucket"}, Sampler'
  PROVE  GmonInv'
<1>1. p \in Spot /\ p # "out" /\ gPc[w] # "out" BY DEF Spot
<1>8. \A s, f \in Funcs : Due(s, f)' = Due(s, f)
  <2>1. gPc'[w] = p /\ \A v \in GWho \ {w} : gPc'[v] = gPc[v]
    BY PlaceMoves DEF GmonInv
  <2> QED BY <2>1 DEF Due, GWho, Profile!Who
<1>2. /\ Counts' /\ Recorded' /\ Tally' /\ gPc' \in [GWho -> Spot] /\ gPc'[w] = p
      /\ \A v \in GWho \ {w} : gPc'[v] = gPc[v]
      /\ gPc'["isr"] # "out" => gRunning' = "isr"
      /\ IsFiniteSet(Profile!Arcs)'
      /\ \A l, f : Doubled(l, f)' = Doubled(l, f)
  BY <1>1, <1>8, InnerStep
<1>3. GTypes' BY <1>2 DEF GmonInv, GTypes
<1>4. Walks' BY <1>1, <1>2 DEF GmonInv, Walks, Found
<1>5. Loaded' BY <1>2 DEF GmonInv, Loaded, GWho, Profile!Who
<1>6. \A v \in GWho : \A l, f : Adding(v, l, f)' => Adding(v, l, f) BY <1>2 DEF Adding
<1>7. Doubles' BY <1>2, <1>6 DEF GmonInv, Doubles, GWho, Profile!Who
<1> QED BY <1>2, <1>3, <1>4, <1>5, <1>7 DEF GmonInv

LEMMA CheckGmon == ASSUME GmonInv, NEW w \in GWho, Profile!CheckInit(w) PROVE GmonInv'
<1> DEFINE p == IF needInit THEN "clear" ELSE "record"
<1>1. /\ gRunning = w /\ gPc[w] = "check" /\ gPc' = [gPc EXCEPT ![w] = p]
      /\ UNCHANGED <<entries, gRunning, self, from, fn, arc, old, needInit, armed, timer, brk, slab,
                     wild, calls, torn>>
  BY DEF Profile!CheckInit, Profile!At, Profile!mem, Profile!local, Profile!Goes
<1>2. gPc'[w] = p /\ \A v \in GWho \ {w} : gPc'[v] = gPc[v]
  BY <1>1, PlaceMoves DEF GmonInv
<1>3. Sampler' BY <1>1, <1>2 DEF GmonInv, GTypes, Sampler, GWho, Profile!Who
<1> QED BY <1>1, <1>3, RecordPath DEF GmonInv, GTypes

LEMMA ClearGmon == ASSUME GmonInv, NEW w \in GWho, Profile!ClearInit(w) PROVE GmonInv'
<1>1. /\ gRunning = w /\ gPc[w] = "clear" /\ gPc' = [gPc EXCEPT ![w] = "sample"]
      /\ needInit' = FALSE
      /\ UNCHANGED <<entries, gRunning, self, from, fn, arc, old, armed, timer, brk, slab, wild,
                     calls, torn>>
  BY DEF Profile!ClearInit, Profile!At, Profile!mem, Profile!local, Profile!Goes
<1>2. gPc'[w] = "sample" /\ \A v \in GWho \ {w} : gPc'[v] = gPc[v]
  BY <1>1, PlaceMoves DEF GmonInv
<1>3. Sampler' BY <1>1, <1>2 DEF GmonInv, GTypes, Sampler, GWho, Profile!Who
<1> QED BY <1>1, <1>3, RecordPath DEF GmonInv, GTypes

LEMMA SampleGmon == ASSUME GmonInv, NEW w \in GWho, Profile!PcsampleInit(w) PROVE GmonInv'
<1>1. /\ gRunning = w /\ gPc[w] = "sample" /\ gPc' = [gPc EXCEPT ![w] = "record"]
      /\ UNCHANGED <<entries, gRunning, self, from, fn, arc, old, timer, slab, calls, torn>>
  BY DEF Profile!PcsampleInit, Profile!At, Profile!local, Profile!Goes
<1>2. gPc'[w] = "record" /\ \A v \in GWho \ {w} : gPc'[v] = gPc[v]
  BY <1>1, PlaceMoves DEF GmonInv
<1>3. /\ brk \in 0 .. HeapUnits /\ wild \subseteq {"list", "histogram", "bucket"}
      /\ armed \in 0 .. 2 /\ timer \in BOOLEAN
      /\ gPc["isr"] # "out" => gRunning = "isr"
  BY DEF GmonInv, GTypes
<1>4. CASE timer
  <2>1. needInit' = FALSE /\ armed' = armed + 1 /\ Profile!Sbrk(Buckets, "histogram")
    BY <1>4 DEF Profile!PcsampleInit
  <2>2. armed \in 0 .. 1 /\ (w = "isr" => armed = 0)
    BY <1>1, <1>3 DEF GmonInv, Sampler, GWho, Profile!Who
  <2>3. Sampler'
    BY <1>1, <1>2, <1>3, <1>4, <2>1, <2>2 DEF Sampler, GWho, Profile!Who
  <2>4. \/ brk + Buckets <= HeapUnits /\ brk' = brk + Buckets /\ wild' = wild
        \/ brk' = brk /\ wild' = wild \cup {"histogram"}
    BY <2>1 DEF Profile!Sbrk
  <2>5. brk' \in 0 .. HeapUnits BY <1>3, <2>4, GmonConstants
  <2>6. wild' \subseteq {"list", "histogram", "bucket"} BY <1>3, <2>4
  <2>7. needInit' \in BOOLEAN BY <2>1
  <2>8. armed' \in 0 .. 2 BY <2>1, <2>2
  <2> QED BY <1>1, <2>3, <2>5, <2>6, <2>7, <2>8, RecordPath
<1>5. CASE ~timer
  <2>1. needInit' = TRUE /\ armed' = armed /\ brk' = brk /\ wild' = wild
    BY <1>5 DEF Profile!PcsampleInit
  <2>2. armed = 0 BY <1>3, <1>5 DEF GmonInv, Sampler
  <2>3. Sampler' BY <2>1, <2>2 DEF Sampler
  <2> QED BY <1>1, <1>3, <2>1, <2>3, RecordPath
<1> QED BY <1>4, <1>5

\* Steps of the clock and between main() and the handler.
LEMMA OutsideGmon ==
  ASSUME GmonInv, UNCHANGED <<entries, gPc, self, from, fn, arc, old, needInit, armed, brk, slab,
                              calls, torn>>,
         timer' \in BOOLEAN, timer => timer', gRunning' \in GWho,
         gPc["isr"] # "out" => gRunning' = "isr",
         wild' \subseteq {"list", "histogram", "bucket"}
  PROVE  GmonInv'
<1>1. /\ Profile!Arcs' = Profile!Arcs /\ Profile!Count' = Profile!Count
      /\ \A s, f : Profile!Copies(s, f)' = Profile!Copies(s, f)
  BY SameEntries
<1>2. GTypes' BY <1>1 DEF GmonInv, GTypes
<1>3. Sampler' /\ Walks' /\ Loaded' BY DEF GmonInv, Sampler, Walks, Loaded, Found
<1>4. Doubles' BY DEF GmonInv, Doubles, Doubled, Adding
<1>5. \A s, f : Busy(s, f)' = Busy(s, f) BY DEF Busy, Inside
<1>6. Counts' /\ Recorded' BY <1>1, <1>5 DEF GmonInv, Counts, Recorded
<1>7. Tally' BY <1>1, <1>5 DEF GmonInv, Tally, DueTorn, Exact, Due
<1> QED BY <1>2, <1>3, <1>4, <1>6, <1>7 DEF GmonInv

LEMMA OtherGmon ==
  ASSUME GmonInv,
         \/ Profile!StartTimer \/ Profile!Interrupt \/ Profile!Return \/ UNCHANGED Profile!vars
         \/ \E ea : Profile!Pcsample(ea)
  PROVE  GmonInv'
<1>0. /\ timer \in BOOLEAN /\ gRunning \in GWho /\ wild \subseteq {"list", "histogram", "bucket"}
      /\ gPc["isr"] # "out" => gRunning = "isr"
  BY DEF GmonInv, GTypes
<1>1. CASE Profile!StartTimer
  BY <1>0, <1>1, OutsideGmon DEF Profile!StartTimer, Profile!local, Profile!mem
<1>2. CASE Profile!Interrupt
  BY <1>0, <1>2, OutsideGmon DEF Profile!Interrupt, Profile!local, Profile!mem, GWho, Profile!Who
<1>3. CASE Profile!Return
  BY <1>0, <1>3, OutsideGmon DEF Profile!Return, Profile!At, Profile!local, Profile!mem, GWho,
     Profile!Who
<1>4. CASE UNCHANGED Profile!vars
  BY <1>0, <1>4, OutsideGmon DEF Profile!vars, Profile!local, Profile!mem
<1>5. ASSUME NEW ea, Profile!Pcsample(ea) PROVE GmonInv'
  <2>1. wild' = wild \/ wild' = wild \cup {"bucket"} BY <1>5 DEF Profile!Pcsample
  <2> QED BY <1>0, <1>5, <2>1, OutsideGmon DEF Profile!Pcsample, Profile!local
<1> QED BY <1>1, <1>2, <1>3, <1>4, <1>5

\* A call begins: its function is looked for.
LEMMA McountGmon ==
  ASSUME GmonInv, NEW w \in GWho, NEW s \in Funcs, NEW f \in Funcs, Profile!Mcount(w, s, f)
  PROVE  GmonInv'
<1> DEFINE I == {i \in 1 .. Len(entries) : entries[i].self = s}
           r == IF I # {} THEN Profile!Max(I) ELSE 0
<1>1. /\ gRunning = w /\ gPc[w] = "out" /\ calls' = [calls EXCEPT ![<<s, f>>] = @ + 1]
      /\ self' = [self EXCEPT ![w] = s] /\ from' = [from EXCEPT ![w] = f]
      /\ fn' = [fn EXCEPT ![w] = r]
      /\ gPc' = [gPc EXCEPT ![w] = IF fn'[w] = 0 THEN "check" ELSE "arc"]
      /\ UNCHANGED <<entries, gRunning, arc, old, needInit, armed, timer, brk, slab, wild, torn>>
  BY DEF Profile!Mcount, Profile!At, Profile!Goes, Profile!mem, Profile!SelectLastInSeq
<1>2. /\ gPc \in [GWho -> Spot] /\ self \in [GWho -> Funcs] /\ from \in [GWho -> Funcs]
      /\ fn \in [GWho -> Nat] /\ calls \in [Funcs \X Funcs -> Nat] /\ entries \in Seq(EntryT)
      /\ \A v \in GWho : fn[v] <= Len(entries)
  BY DEF GmonInv, GTypes
<1>3. r \in 0 .. Len(entries) /\ (r # 0 => r \in I)
  <2>1. Len(entries) \in Nat BY <1>2
  <2> QED BY <2>1, LastIs
<1>4. r # 0 => entries[r].self = s BY <1>3
<1> HIDE DEF r
<1>5. fn' \in [GWho -> Nat] /\ fn'[w] = r /\ \A v \in GWho \ {w} : fn'[v] = fn[v]
  BY <1>1, <1>2, <1>3
<1> DEFINE p == IF r = 0 THEN "check" ELSE "arc"
<1>6. /\ gPc' \in [GWho -> Spot] /\ gPc'[w] = p /\ \A v \in GWho \ {w} : gPc'[v] = gPc[v]
  BY <1>1, <1>2, <1>5 DEF Spot
<1>7. /\ self' \in [GWho -> Funcs] /\ self'[w] = s /\ \A v \in GWho \ {w} : self'[v] = self[v]
      /\ from' \in [GWho -> Funcs] /\ from'[w] = f /\ \A v \in GWho \ {w} : from'[v] = from[v]
  BY <1>1, <1>2
<1>8. /\ calls' \in [Funcs \X Funcs -> Nat]
      /\ \A a, b \in Funcs : calls'[<<a, b>>] = IF a = s /\ b = f THEN calls[<<a, b>>] + 1
                                               ELSE calls[<<a, b>>]
  <2>1. \A a, b \in Funcs : <<a, b>> \in Funcs \X Funcs /\ (<<a, b>> = <<s, f>> <=> a = s /\ b = f)
    OBVIOUS
  <2>2. calls[<<s, f>>] + 1 \in Nat BY <1>2, <2>1
  <2>3. calls' = [calls EXCEPT ![<<s, f>>] = calls[<<s, f>>] + 1] BY <1>1
  <2> QED BY <1>2, <2>1, <2>2, <2>3
<1>9. /\ Profile!Arcs' = Profile!Arcs /\ Profile!Count' = Profile!Count
      /\ \A a, b : Profile!Copies(a, b)' = Profile!Copies(a, b)
  BY <1>1, SameEntries
<1>10. p \in {"check", "arc"} /\ (p = "check" => r = 0) /\ (p = "arc" => r # 0) OBVIOUS
<1> HIDE DEF p
<1>11. GTypes'
  <2>1. gPc'["isr"] # "out" => gRunning' = "isr"
    BY <1>1, <1>6 DEF GmonInv, GTypes, GWho, Profile!Who
  <2>2. \A v \in GWho : fn'[v] <= Len(entries') BY <1>1, <1>2, <1>3, <1>5
  <2> QED BY <1>1, <1>5, <1>6, <1>7, <1>8, <1>9, <2>1, <2>2 DEF GmonInv, GTypes
<1>12. Sampler' BY <1>1, <1>6, <1>10 DEF GmonInv, Sampler, GWho, Profile!Who
<1>13. Walks'
  BY <1>1, <1>4, <1>5, <1>6, <1>7, <1>10 DEF GmonInv, Walks, Found
<1>14. Loaded'
  BY <1>1, <1>5, <1>6, <1>10 DEF GmonInv, Loaded, GWho, Profile!Who
<1>15. Doubles'
  <2>1. \A k \in DOMAIN entries : k # 0 BY <1>2
  <2>2. \A v \in GWho : \A k \in DOMAIN entries : \A b : Adding(v, k, b)' => Adding(v, k, b)
    BY <1>5, <1>6, <1>7, <1>10, <2>1 DEF Adding
  <2>3. \A k, b : Doubled(k, b)' = Doubled(k, b) BY <1>1 DEF Doubled
  <2> QED BY <1>1, <2>2, <2>3 DEF GmonInv, Doubles, GWho, Profile!Who
<1>16. ASSUME NEW a \in Funcs, NEW b \in Funcs
       PROVE  Busy(a, b) \in Nat /\ Busy(a, b)' = IF a = s /\ b = f THEN Busy(a, b) + 1 ELSE Busy(a, b)
  <2>1. \A v \in GWho \ {w} : Inside(v, a, b)' = Inside(v, a, b) BY <1>6, <1>7 DEF Inside
  <2>2. Inside(w, a, b) = 0 BY <1>1 DEF Inside
  <2>3. Inside(w, a, b)' = IF a = s /\ b = f THEN 1 ELSE 0 BY <1>6, <1>7, <1>10 DEF Inside
  <2>4. Inside("main", a, b) \in Nat /\ Inside("isr", a, b) \in Nat BY DEF Inside
  <2> QED BY <2>1, <2>2, <2>3, <2>4 DEF Busy, GWho, Profile!Who
<1>17. Counts'
  <2>1. ASSUME NEW a \in Funcs, NEW b \in Funcs
        PROVE  Sum(Profile!Count, Profile!Copies(a, b)) + Busy(a, b)' <= calls'[<<a, b>>]
    <3>1. /\ Sum(Profile!Count, Profile!Copies(a, b)) + Busy(a, b) <= calls[<<a, b>>]
          /\ calls[<<a, b>>] \in Nat
      BY <1>2 DEF GmonInv, Counts
    <3>2. Sum(Profile!Count, Profile!Copies(a, b)) \in Nat BY CopiesAre, SumAny DEF GmonInv
    <3> QED BY <1>8, <1>16, <3>1, <3>2
  <2> QED BY <1>9, <2>1 DEF Counts
<1>18. Recorded'
  <2>1. ASSUME NEW a \in Funcs, NEW b \in Funcs, calls'[<<a, b>>] > Busy(a, b)'
        PROVE  Profile!Copies(a, b) # {}
    <3>1. calls[<<a, b>>] \in Nat BY <1>2
    <3>2. calls[<<a, b>>] > Busy(a, b) BY <1>8, <1>16, <2>1, <3>1
    <3> QED BY <3>2 DEF GmonInv, Recorded
  <2> QED BY <1>9, <2>1 DEF Recorded
<1>19. \A a, b \in Funcs : Due(a, b)' = Due(a, b)
  BY <1>1, <1>5, <1>6, <1>7, <1>10 DEF Due, GWho, Profile!Who
<1>20. Tally'
  <2>1. ASSUME NEW a \in Funcs, NEW b \in Funcs
        PROVE  Sum(Profile!Count, Profile!Copies(a, b)) + Busy(a, b)' + torn[<<a, b>>] =
                 calls'[<<a, b>>] + Due(a, b)
    <3>1. /\ Sum(Profile!Count, Profile!Copies(a, b)) + Busy(a, b) + torn[<<a, b>>] =
               calls[<<a, b>>] + Due(a, b)
          /\ calls[<<a, b>>] \in Nat /\ torn[<<a, b>>] \in Nat
      BY <1>2 DEF GmonInv, GTypes, Tally, Exact
    <3>2. Sum(Profile!Count, Profile!Copies(a, b)) \in Nat BY CopiesAre, SumAny DEF GmonInv
    <3>3. Due(a, b) \in Int BY DueIs
    <3> QED BY <1>8, <1>16, <3>1, <3>2, <3>3
  <2>2. Exact' BY <1>1, <1>9, <1>19, <2>1 DEF Exact
  <2>3. DueTorn' BY <1>1, <1>19 DEF GmonInv, Tally, DueTorn
  <2> QED BY <2>2, <2>3 DEF Tally
<1> QED BY <1>11, <1>12, <1>13, <1>14, <1>15, <1>17, <1>18, <1>20 DEF GmonInv

LEMMA ExceptKeepsSeq ==
  ASSUME NEW S, NEW q \in Seq(S), NEW i \in 1 .. Len(q), NEW e \in S
  PROVE  /\ [q EXCEPT ![i] = e] \in Seq(S) /\ Len([q EXCEPT ![i] = e]) = Len(q)
         /\ DOMAIN [q EXCEPT ![i] = e] = 1 .. Len(q)
OBVIOUS

\* What storing a count does to the lists.
LEMMA StoreEffect ==
  ASSUME GmonInv, NEW w \in GWho, Profile!StoreCount(w)
  PROVE  /\ entries' \in Seq(EntryT) /\ DOMAIN entries' = DOMAIN entries
         /\ Len(entries') = Len(entries)
         /\ \A k \in DOMAIN entries :
              /\ entries'[k].self = entries[k].self
              /\ DOMAIN entries'[k].arcs = DOMAIN entries[k].arcs
              /\ \A j \in DOMAIN entries[k].arcs :
                   /\ entries'[k].arcs[j].from = entries[k].arcs[j].from
                   /\ entries'[k].arcs[j].count =
                        IF k = fn[w] /\ j = arc[w] THEN old[w] + 1 ELSE entries[k].arcs[j].count
<1> DEFINE K == fn[w]
           J == arc[w]
           e == entries[K]
           a == e.arcs[J]
           a2 == [a EXCEPT !.count = old[w] + 1]
           as2 == [e.arcs EXCEPT ![J] = a2]
           e2 == [e EXCEPT !.arcs = as2]
<1>1. gPc[w] = "store" /\ entries' = [entries EXCEPT ![K] = e2]
  BY DEF Profile!StoreCount, Profile!At
<1>2. Found(w) /\ fn[w] # 0 BY <1>1 DEF GmonInv, Walks, Found
<1>3. K \in DOMAIN entries BY <1>1, <1>2, FoundEntry
<1>4. /\ e \in EntryT /\ e.arcs \in Seq(ArcT) /\ J \in 1 .. Len(e.arcs) /\ a \in ArcT
      /\ DOMAIN e.arcs = 1 .. Len(e.arcs)
  BY <1>2, <1>3, EntryIs DEF GmonInv, Found
<1>5. old[w] + 1 \in Nat \ {0}
  <2>1. old[w] \in Nat BY DEF GmonInv, GTypes
  <2> QED BY <2>1
<1>6. a2 \in ArcT /\ a2.from = a.from /\ a2.count = old[w] + 1 BY <1>4, <1>5 DEF ArcT
<1> HIDE DEF a2
<1>7. /\ as2 \in Seq(ArcT) /\ DOMAIN as2 = DOMAIN e.arcs /\ as2[J] = a2
      /\ \A j \in DOMAIN e.arcs : j # J => as2[j] = e.arcs[j]
  BY <1>4, <1>6, ExceptKeepsSeq
<1> HIDE DEF as2
<1>8. e2 \in EntryT /\ e2.self = e.self /\ e2.arcs = as2 BY <1>4, <1>7 DEF EntryT
<1> HIDE DEF e2
<1>9. entries \in Seq(EntryT) /\ DOMAIN entries = 1 .. Len(entries) /\ K \in 1 .. Len(entries)
  BY <1>3 DEF GmonInv, GTypes
<1>10. /\ entries' \in Seq(EntryT) /\ Len(entries') = Len(entries)
       /\ DOMAIN entries' = DOMAIN entries
  BY <1>1, <1>8, <1>9, ExceptKeepsSeq
<1>11. entries'[K] = e2 /\ \A k \in DOMAIN entries : k # K => entries'[k] = entries[k]
  BY <1>1, <1>9
<1>12. ASSUME NEW k \in DOMAIN entries
       PROVE  /\ entries'[k].self = entries[k].self
              /\ DOMAIN entries'[k].arcs = DOMAIN entries[k].arcs
              /\ \A j \in DOMAIN entries[k].arcs :
                   /\ entries'[k].arcs[j].from = entries[k].arcs[j].from
                   /\ entries'[k].arcs[j].count =
                        IF k = K /\ j = J THEN old[w] + 1 ELSE entries[k].arcs[j].count
  <2>1. CASE k = K
    <3>1. entries'[k].self = e.self /\ entries'[k].arcs = as2 BY <1>8, <1>11, <2>1
    <3>2. ASSUME NEW j \in DOMAIN e.arcs
          PROVE  /\ as2[j].from = e.arcs[j].from
                 /\ as2[j].count = IF j = J THEN old[w] + 1 ELSE e.arcs[j].count
      <4>1. CASE j = J BY <1>6, <1>7, <4>1
      <4>2. CASE j # J BY <1>7, <4>2
      <4> QED BY <4>1, <4>2
    <3> QED BY <1>7, <2>1, <3>1, <3>2
  <2>2. CASE k # K
    <3>1. entries'[k] = entries[k] BY <1>11, <2>2
    <3> QED BY <2>2, <3>1
  <2> QED BY <2>1, <2>2
<1> QED BY <1>10, <1>12

\* A caller leaves: it is no longer inside.
LEMMA LeavesBusy ==
  ASSUME GmonInv, NEW w \in GWho, gPc[w] # "out", gPc' = [gPc EXCEPT ![w] = "out"],
         UNCHANGED <<self, from>>, NEW a \in Funcs, NEW b \in Funcs
  PROVE  /\ Busy(a, b) \in Nat /\ Busy(a, b)' \in Nat
         /\ Busy(a, b)' = IF a = self[w] /\ b = from[w] THEN Busy(a, b) - 1 ELSE Busy(a, b)
<1>1. gPc'[w] = "out" /\ \A v \in GWho \ {w} : gPc'[v] = gPc[v] BY PlaceMoves DEF GmonInv
<1>2. \A v \in GWho \ {w} : Inside(v, a, b)' = Inside(v, a, b) BY <1>1 DEF Inside
<1>3. Inside(w, a, b) = IF a = self[w] /\ b = from[w] THEN 1 ELSE 0 BY DEF Inside
<1>4. Inside(w, a, b)' = 0 BY <1>1 DEF Inside
<1>5. Inside("main", a, b) \in {0, 1} /\ Inside("isr", a, b) \in {0, 1} BY DEF Inside
<1>6. Inside("main", a, b)' \in {0, 1} /\ Inside("isr", a, b)' \in {0, 1} BY DEF Inside
<1> QED BY <1>2, <1>3, <1>4, <1>5, <1>6 DEF Busy, GWho, Profile!Who

LEMMA StoreSets ==
  ASSUME GmonInv, NEW w \in GWho, Profile!StoreCount(w)
  PROVE  LET x == <<fn[w], arc[w]>> IN
         /\ Profile!Arcs' = Profile!Arcs /\ x \in Profile!Copies(self[w], from[w])
         /\ \A s, f : /\ Profile!Copies(s, f)' = Profile!Copies(s, f)
                      /\ x \in Profile!Copies(s, f) => s = self[w] /\ f = from[w]
         /\ \A c \in Profile!Arcs :
              Profile!Count'[c] = IF c = x THEN old[w] + 1 ELSE Profile!Count[c]
<1> DEFINE x == <<fn[w], arc[w]>>
<1>1. /\ DOMAIN entries' = DOMAIN entries
      /\ \A k \in DOMAIN entries :
           /\ entries'[k].self = entries[k].self
           /\ DOMAIN entries'[k].arcs = DOMAIN entries[k].arcs
           /\ \A j \in DOMAIN entries[k].arcs :
                /\ entries'[k].arcs[j].from = entries[k].arcs[j].from
                /\ entries'[k].arcs[j].count =
                     IF k = fn[w] /\ j = arc[w] THEN old[w] + 1 ELSE entries[k].arcs[j].count
  BY StoreEffect
<1>2. Profile!Arcs' = Profile!Arcs
  <2>1. Profile!Arcs' = UNION {{k} \X DOMAIN entries'[k].arcs : k \in DOMAIN entries'}
    BY DEF Profile!Arcs
  <2>2. \A c : c \in Profile!Arcs' <=>
                 \E k \in DOMAIN entries : \E j \in DOMAIN entries[k].arcs : c = <<k, j>>
    BY <1>1, <2>1
  <2> QED BY <2>2, ArcsAre
<1>3. ASSUME NEW c \in Profile!Arcs
      PROVE  /\ entries'[c[1]].self = entries[c[1]].self
             /\ entries'[c[1]].arcs[c[2]].from = entries[c[1]].arcs[c[2]].from
             /\ Profile!Count'[c] = IF c = x THEN old[w] + 1 ELSE Profile!Count[c]
  <2>1. PICK k \in DOMAIN entries : \E j \in DOMAIN entries[k].arcs : c = <<k, j>> BY ArcsAre
  <2>2. PICK j \in DOMAIN entries[k].arcs : c = <<k, j>> BY <2>1
  <2>3. Profile!Count'[c] = entries'[c[1]].arcs[c[2]].count BY <1>2 DEF Profile!Count
  <2>4. Profile!Count[c] = entries[c[1]].arcs[c[2]].count BY DEF Profile!Count
  <2>5. c = x <=> k = fn[w] /\ j = arc[w] BY <2>2
  <2> QED BY <1>1, <2>2, <2>3, <2>4, <2>5
<1>4. \A s, f : Profile!Copies(s, f)' = Profile!Copies(s, f) BY <1>2, <1>3 DEF Profile!Copies
<1>5. gPc[w] = "store" BY DEF Profile!StoreCount, Profile!At
<1>6. Found(w) BY <1>5 DEF GmonInv, Walks
<1>7. fn[w] \in DOMAIN entries /\ entries[fn[w]].self = self[w]
  BY <1>5, <1>6, FoundEntry DEF Found
<1>8. x \in Profile!Arcs BY <1>6, <1>7, ArcsAre DEF Found
<1>9. x[1] = fn[w] /\ x[2] = arc[w] OBVIOUS
<1> HIDE DEF x
<1>10. x \in Profile!Copies(self[w], from[w]) BY <1>6, <1>7, <1>8, <1>9 DEF Profile!Copies, Found
<1>11. \A s, f : x \in Profile!Copies(s, f) => s = self[w] /\ f = from[w]
  BY <1>6, <1>7, <1>9 DEF Profile!Copies, Found
<1> QED BY <1>2, <1>3, <1>4, <1>10, <1>11 DEF x

LEMMA StoreGmon == ASSUME GmonInv, NEW w \in GWho, Profile!StoreCount(w) PROVE GmonInv'
<1> DEFINE x == <<fn[w], arc[w]>>
           stored == entries[fn[w]].arcs[arc[w]].count
           cuts == Profile!CutsIn(w)
           here(a, b) == a = self[w] /\ b = from[w]
<1>1. /\ gRunning = w /\ gPc[w] = "store" /\ gPc' = [gPc EXCEPT ![w] = "out"]
      /\ UNCHANGED <<gRunning, self, from, fn, arc, old, needInit, armed, timer, brk, slab, wild,
                     calls>>
  BY DEF Profile!StoreCount, Profile!At, Profile!mem, Profile!local, Profile!Goes
<1>2. gPc'[w] = "out" /\ \A v \in GWho \ {w} : gPc'[v] = gPc[v]
  BY <1>1, PlaceMoves DEF GmonInv
<1>3. /\ entries' \in Seq(EntryT) /\ DOMAIN entries' = DOMAIN entries
      /\ Len(entries') = Len(entries)
      /\ \A k \in DOMAIN entries :
           /\ entries'[k].self = entries[k].self
           /\ DOMAIN entries'[k].arcs = DOMAIN entries[k].arcs
           /\ \A j \in DOMAIN entries[k].arcs :
                /\ entries'[k].arcs[j].from = entries[k].arcs[j].from
                /\ entries'[k].arcs[j].count =
                     IF k = fn[w] /\ j = arc[w] THEN old[w] + 1 ELSE entries[k].arcs[j].count
  BY StoreEffect
<1>4. /\ Profile!Arcs' = Profile!Arcs /\ x \in Profile!Copies(self[w], from[w])
      /\ \A s, f : /\ Profile!Copies(s, f)' = Profile!Copies(s, f)
                   /\ x \in Profile!Copies(s, f) => s = self[w] /\ f = from[w]
      /\ \A c \in Profile!Arcs :
           Profile!Count'[c] = IF c = x THEN old[w] + 1 ELSE Profile!Count[c]
  BY StoreSets
<1> HIDE DEF x, stored
<1>14. /\ torn' \in [Funcs \X Funcs -> Nat]
       /\ \A a, b \in Funcs : torn'[<<a, b>>] = torn[<<a, b>>] + IF cuts /\ here(a, b) THEN 1 ELSE 0
  <2>1. /\ torn \in [Funcs \X Funcs -> Nat] /\ self[w] \in Funcs /\ from[w] \in Funcs
        /\ torn' = IF cuts THEN [torn EXCEPT ![<<self[w], from[w]>>] = @ + 1] ELSE torn
    BY DEF GmonInv, GTypes, Profile!StoreCount
  <2> HIDE DEF cuts
  <2>2. CASE cuts
    <3>1. torn' = [torn EXCEPT ![<<self[w], from[w]>>] = torn[<<self[w], from[w]>>] + 1]
      BY <2>1, <2>2
    <3>2. torn[<<self[w], from[w]>>] + 1 \in Nat BY <2>1
    <3>3. \A a, b \in Funcs : <<a, b>> = <<self[w], from[w]>> <=> here(a, b) OBVIOUS
    <3> QED BY <2>1, <2>2, <3>1, <3>2, <3>3
  <2>3. CASE ~cuts BY <2>1, <2>3
  <2> QED BY <2>2, <2>3
<1>5. GTypes'
  <2>1. gPc' \in [GWho -> Spot] BY <1>1 DEF GmonInv, GTypes, Spot
  <2>2. gPc'["isr"] # "out" => gRunning' = "isr" BY <1>1, <1>2 DEF GmonInv, GTypes, GWho, Profile!Who
  <2>3. torn' \in [Funcs \X Funcs -> Nat] BY <1>14
  <2> QED BY <1>1, <1>3, <1>4, <2>1, <2>2, <2>3 DEF GmonInv, GTypes
<1>6. Sampler' BY <1>1, <1>2 DEF GmonInv, Sampler, GWho, Profile!Who
<1>7. \A v \in GWho : gPc[v] # "out" /\ fn[v] # 0 => fn[v] \in DOMAIN entries
  BY FoundEntry
<1>8. Walks'
  <2>1. ASSUME NEW v \in GWho
        PROVE  /\ gPc'[v] # "out" /\ fn'[v] # 0 => entries'[fn'[v]].self = self'[v]
               /\ gPc'[v] = "arc" => fn'[v] # 0
               /\ gPc'[v] \in {"load", "store"} => Found(v)'
    <3>1. CASE v = w BY <1>2, <3>1
    <3>2. CASE v # w
      <4>1. gPc'[v] = gPc[v] BY <1>2, <3>2
      <4>2. gPc[v] \in {"load", "store"} => Found(v) BY DEF GmonInv, Walks
      <4> QED BY <1>1, <1>3, <1>7, <4>1, <4>2 DEF GmonInv, Walks, Found
    <3> QED BY <3>1, <3>2
  <2> QED BY <2>1 DEF Walks
<1>9. Loaded'
  <2>1. CASE w = "main"
    <3>1. gPc["isr"] = "out" BY <1>1, <2>1 DEF GmonInv, GTypes
    <3> QED BY <1>2, <2>1, <3>1 DEF Loaded, GWho, Profile!Who
  <2>2. CASE w = "isr"
    <3>1. SUFFICES ASSUME gPc["main"] = "store"
                   PROVE  old["main"] <= entries'[fn["main"]].arcs[arc["main"]].count
      BY <1>1, <1>2, <2>2 DEF Loaded, GWho, Profile!Who
    <3> DEFINE k == fn["main"]
               j == arc["main"]
    <3>2. "main" \in GWho BY DEF GWho, Profile!Who
    <3>3. Found("main") BY <3>1, <3>2 DEF GmonInv, Walks
    <3>4. k \in DOMAIN entries /\ j \in DOMAIN entries[k].arcs
      BY <1>7, <3>1, <3>2, <3>3 DEF Found
    <3>5. old["main"] <= entries[k].arcs[j].count /\ old["main"] \in Nat
      BY <3>1, <3>2 DEF GmonInv, Loaded, GTypes
    <3>6. entries[k].arcs[j].count \in Nat BY <3>4, EntryIs DEF GmonInv
    <3>7. old[w] = entries[fn[w]].arcs[arc[w]].count BY <1>1, <2>2 DEF GmonInv, Loaded
    <3>8. entries'[k].arcs[j].count =
            IF k = fn[w] /\ j = arc[w] THEN old[w] + 1 ELSE entries[k].arcs[j].count
      BY <1>3, <3>4
    <3> QED BY <3>5, <3>6, <3>7, <3>8
  <2> QED BY <2>1, <2>2 DEF GWho, Profile!Who
<1>10. Doubles'
  <2>1. \A k \in DOMAIN entries : \A f : Doubled(k, f)' = Doubled(k, f) BY <1>3 DEF Doubled
  <2>2. \A v \in GWho : \A k, f : Adding(v, k, f)' => Adding(v, k, f) BY <1>1, <1>2 DEF Adding
  <2> QED BY <1>3, <2>1, <2>2 DEF GmonInv, Doubles, GWho, Profile!Who
<1>11. ASSUME NEW a \in Funcs, NEW b \in Funcs
       PROVE  /\ Busy(a, b) \in Nat /\ Busy(a, b)' \in Nat
              /\ Busy(a, b)' = IF a = self[w] /\ b = from[w] THEN Busy(a, b) - 1 ELSE Busy(a, b)
  BY <1>1, LeavesBusy
<1>15. stored \in Nat /\ old[w] \in Nat /\ old[w] <= stored /\ (w = "isr" => old[w] = stored)
  <2>1. x \in Profile!Arcs BY <1>4 DEF Profile!Copies
  <2>2. Profile!Count[x] = stored /\ Profile!Count[x] \in Nat
    <3>1. self[w] \in Funcs /\ from[w] \in Funcs BY DEF GmonInv, GTypes
    <3> QED BY <2>1, <3>1, CopiesAre DEF GmonInv, x, stored
  <2>3. old[w] \in Nat BY DEF GmonInv, GTypes
  <2>4. (w = "isr" => old[w] = stored) /\ (w = "main" => old[w] <= stored)
    BY <1>1 DEF GmonInv, Loaded, stored
  <2> QED BY <2>2, <2>3, <2>4 DEF GWho, Profile!Who
<1>12. ASSUME NEW a \in Funcs, NEW b \in Funcs
       PROVE  /\ Sum(Profile!Count, Profile!Copies(a, b)) \in Nat
              /\ Sum(Profile!Count', Profile!Copies(a, b)) =
                   Sum(Profile!Count, Profile!Copies(a, b))
                     + IF here(a, b) THEN (old[w] + 1) - stored ELSE 0
  <2> DEFINE S == Profile!Copies(a, b)
  <2>1. S \subseteq Profile!Arcs /\ IsFiniteSet(S)
        /\ \A c \in Profile!Arcs : Profile!Count[c] \in Nat \ {0}
                                  /\ Profile!Count[c] = entries[c[1]].arcs[c[2]].count
    BY CopiesAre DEF GmonInv
  <2>2. \A c \in S : Profile!Count[c] \in Nat /\ Profile!Count'[c] \in Nat BY <1>4, <1>15, <2>1
  <2> HIDE DEF S
  <2>3. Sum(Profile!Count, S) \in Nat BY <2>1, <2>2, SumAny
  <2>4. CASE here(a, b)
    <3>1. x \in S BY <1>4, <2>4 DEF S
    <3>2. \A c \in S \ {x} : Profile!Count[c] = Profile!Count'[c] BY <1>4, <2>1
    <3>3. Sum(Profile!Count', S) = Sum(Profile!Count, S) - Profile!Count[x] + Profile!Count'[x]
      BY <2>1, <2>2, <3>1, <3>2, SumChange
    <3>4. Profile!Count[x] = stored BY <2>1, <3>1 DEF x, stored
    <3>5. Profile!Count'[x] = old[w] + 1 BY <1>4, <2>1, <3>1
    <3> QED BY <1>15, <2>3, <2>4, <3>3, <3>4, <3>5 DEF S
  <2>5. CASE ~here(a, b)
    <3>1. x \notin S BY <1>4, <2>5 DEF S
    <3>2. \A c \in S : Profile!Count[c] = Profile!Count'[c] BY <1>4, <2>1, <3>1
    <3>3. Sum(Profile!Count', S) = Sum(Profile!Count, S) BY <2>1, <2>2, <3>2, SumAlike
    <3> QED BY <2>3, <2>5, <3>3 DEF S
  <2> QED BY <2>4, <2>5
<1>16. Counts'
  <2>1. ASSUME NEW a \in Funcs, NEW b \in Funcs
        PROVE  Sum(Profile!Count', Profile!Copies(a, b)) + Busy(a, b)' <= calls[<<a, b>>]
    <3>1. Sum(Profile!Count, Profile!Copies(a, b)) + Busy(a, b) <= calls[<<a, b>>]
          /\ calls[<<a, b>>] \in Nat
      BY DEF GmonInv, Counts, GTypes
    <3> HIDE DEF here
    <3>2. Busy(a, b)' = IF here(a, b) THEN Busy(a, b) - 1 ELSE Busy(a, b) BY <1>11 DEF here
    <3> QED BY <1>11, <1>12, <1>15, <3>1, <3>2
  <2> QED BY <1>1, <1>4, <2>1 DEF Counts
<1>17. ASSUME NEW a \in Funcs, NEW b \in Funcs
       PROVE  /\ w = "main" /\ here(a, b) => Due(a, b) = stored - old[w] /\ Due(a, b)' = 0
              /\ ~(w = "main" /\ here(a, b)) =>
                    Due(a, b)' = Due(a, b) + IF cuts /\ here(a, b) THEN 1 ELSE 0
  <2>0. Due(a, b) \in Nat BY DueIs
  <2>1. CASE w = "main"
    <3>1. Due(a, b)' = 0 BY <1>2, <2>1 DEF Due
    <3>2. Due(a, b) = IF here(a, b) THEN stored - old[w] ELSE 0 BY <1>1, <2>1 DEF Due, stored
    <3>3. ~cuts BY <2>1 DEF Profile!CutsIn
    <3> QED BY <2>1, <3>1, <3>2, <3>3
  <2>2. CASE w = "isr"
    <3> DEFINE k == fn["main"]
               j == arc["main"]
               main(c, d) == gPc["main"] = "store" /\ self["main"] = c /\ from["main"] = d
    <3>1. "main" \in GWho /\ gPc'["main"] = gPc["main"] BY <1>2, <2>2 DEF GWho, Profile!Who
    <3>2. CASE ~main(a, b)
      <4>1. Due(a, b) = 0 /\ Due(a, b)' = 0 BY <1>1, <3>1, <3>2 DEF Due
      <4>2. ~(cuts /\ here(a, b))
        <5>1. SUFFICES ASSUME cuts, here(a, b) PROVE FALSE OBVIOUS
        <5>2. gPc["main"] = "store" /\ k = fn[w] /\ j = arc[w] BY <5>1 DEF Profile!CutsIn
        <5>3. Found("main") /\ Found(w) BY <1>1, <3>1, <5>2 DEF GmonInv, Walks
        <5>4. self["main"] = self[w] /\ from["main"] = from[w]
          BY <1>1, <3>1, <5>2, <5>3 DEF GmonInv, Walks, Found
        <5> QED BY <3>2, <5>1, <5>2, <5>4
      <4> QED BY <2>2, <4>1, <4>2
    <3>3. CASE main(a, b)
      <4>1. Found("main") BY <3>1, <3>3 DEF GmonInv, Walks
      <4>2. k \in DOMAIN entries /\ j \in DOMAIN entries[k].arcs
        BY <1>7, <3>1, <3>3, <4>1 DEF Found
      <4>3. entries'[k].arcs[j].count =
              IF k = fn[w] /\ j = arc[w] THEN old[w] + 1 ELSE entries[k].arcs[j].count
        BY <1>3, <4>2
      <4>4. /\ Due(a, b) = entries[k].arcs[j].count - old["main"]
            /\ Due(a, b)' = entries'[k].arcs[j].count - old["main"]
        BY <1>1, <3>1, <3>3 DEF Due
      <4>5. old["main"] \in Nat /\ entries[k].arcs[j].count \in Nat
        BY <3>1, <4>2, EntryIs DEF GmonInv, GTypes
      <4>6. CASE k = fn[w] /\ j = arc[w]
        <5>1. cuts BY <2>2, <3>3, <4>6 DEF Profile!CutsIn
        <5>2. here(a, b)
          <6>1. Found(w) BY <1>1 DEF GmonInv, Walks
          <6>2. entries[k].self = self["main"] /\ entries[k].arcs[j].from = from["main"]
            BY <3>1, <3>3, <4>1 DEF GmonInv, Walks, Found
          <6>3. entries[fn[w]].self = self[w] /\ entries[fn[w]].arcs[arc[w]].from = from[w]
            BY <1>1, <6>1 DEF GmonInv, Walks, Found
          <6> QED BY <3>3, <4>6, <6>2, <6>3
        <5>3. entries'[k].arcs[j].count = entries[k].arcs[j].count + 1
          BY <1>15, <2>2, <4>3, <4>6 DEF stored
        <5> HIDE DEF cuts, here
        <5> QED BY <2>2, <4>4, <4>5, <5>1, <5>2, <5>3
      <4>7. CASE ~(k = fn[w] /\ j = arc[w])
        <5>1. ~cuts BY <4>7 DEF Profile!CutsIn
        <5>2. Due(a, b)' = Due(a, b) BY <4>3, <4>4, <4>7
        <5> HIDE DEF cuts
        <5> QED BY <2>0, <2>2, <5>1, <5>2
      <4> QED BY <4>6, <4>7
    <3> QED BY <3>2, <3>3
  <2> QED BY <2>1, <2>2 DEF GWho, Profile!Who
<1>18. Tally'
  <2>1. ASSUME NEW a \in Funcs, NEW b \in Funcs
        PROVE  /\ Due(a, b)' <= torn'[<<a, b>>]
               /\ Sum(Profile!Count', Profile!Copies(a, b)) + Busy(a, b)' + torn'[<<a, b>>] =
                    calls[<<a, b>>] + Due(a, b)'
    <3> DEFINE sum == Sum(Profile!Count, Profile!Copies(a, b))
               lost1 == torn[<<a, b>>]
               lost2 == torn'[<<a, b>>]
               made == calls[<<a, b>>]
               due1 == Due(a, b)
               due2 == Due(a, b)'
               busy1 == Busy(a, b)
               busy2 == Busy(a, b)'
    <3>1. /\ due1 <= lost1 /\ sum + busy1 + lost1 = made + due1
          /\ made \in Nat /\ lost1 \in Nat /\ due1 \in Nat /\ sum \in Nat
      BY <1>12, DueIs DEF GmonInv, Tally, DueTorn, Exact, GTypes
    <3>2. cuts => w = "isr" BY DEF Profile!CutsIn
    <3>3. w = "main" \/ w = "isr" BY DEF GWho, Profile!Who
    <3>4. lost2 = lost1 + IF cuts /\ here(a, b) THEN 1 ELSE 0 BY <1>14
    <3>5. busy1 \in Nat /\ busy2 = IF here(a, b) THEN busy1 - 1 ELSE busy1 BY <1>11
    <3> DEFINE sum2 == Sum(Profile!Count', Profile!Copies(a, b))
    <3>6. sum2 = sum + IF here(a, b) THEN (old[w] + 1) - stored ELSE 0 BY <1>12
    <3>7. /\ w = "main" /\ here(a, b) => due1 = stored - old[w] /\ due2 = 0
          /\ ~(w = "main" /\ here(a, b)) => due2 = due1 + IF cuts /\ here(a, b) THEN 1 ELSE 0
      BY <1>17
    <3> HIDE DEF sum, sum2, lost1, lost2, made, due1, due2, busy1, busy2, cuts, here
    <3>8. due2 <= lost2 /\ sum2 + busy2 + lost2 = made + due2
      <4>1. CASE w = "main" /\ here(a, b)
        BY <1>15, <3>1, <3>2, <3>4, <3>5, <3>6, <3>7, <4>1
      <4>2. CASE w = "isr" /\ here(a, b)
        BY <1>15, <3>1, <3>4, <3>5, <3>6, <3>7, <4>2
      <4>3. CASE ~here(a, b)
        BY <3>1, <3>4, <3>5, <3>6, <3>7, <4>3
      <4> QED BY <3>3, <4>1, <4>2, <4>3
    <3> QED BY <3>8 DEF sum2, lost2, made, due2, busy2
  <2> QED BY <1>1, <1>4, <2>1 DEF Tally, DueTorn, Exact
<1>13. Recorded'
  <2>1. ASSUME NEW a \in Funcs, NEW b \in Funcs, calls[<<a, b>>] > Busy(a, b)'
        PROVE  Profile!Copies(a, b) # {}
    <3>1. CASE a = self[w] /\ b = from[w] BY <1>4, <3>1
    <3>2. CASE ~(a = self[w] /\ b = from[w])
      BY <1>11, <2>1, <3>2 DEF GmonInv, Recorded
    <3> QED BY <3>1, <3>2
  <2> QED BY <1>1, <1>4, <2>1 DEF Recorded
<1> QED BY <1>5, <1>6, <1>8, <1>9, <1>10, <1>13, <1>16, <1>18 DEF GmonInv

\* Where a record is made: in a new entry, or at the head of a function's arcs.
NewAt(w) == IF fn[w] = 0 THEN <<Len(entries) + 1, 1>> ELSE <<fn[w], Len(entries[fn[w]].arcs) + 1>>

LEMMA AppendIs ==
  ASSUME NEW S, NEW q \in Seq(S), NEW e \in S
  PROVE  /\ Append(q, e) \in Seq(S) /\ Len(Append(q, e)) = Len(q) + 1
         /\ DOMAIN Append(q, e) = 1 .. Len(q) + 1 /\ Append(q, e)[Len(q) + 1] = e
         /\ \A i \in 1 .. Len(q) : Append(q, e)[i] = q[i]
OBVIOUS

LEMMA RecordEffect ==
  ASSUME GmonInv, NEW w \in GWho, Profile!Record(w)
  PROVE  LET K == NewAt(w)[1]
             J == NewAt(w)[2] IN
         /\ entries' \in Seq(EntryT) /\ Len(entries') >= Len(entries)
         /\ DOMAIN entries' = DOMAIN entries \cup {K}
         /\ J \in DOMAIN entries'[K].arcs /\ NewAt(w) \notin Profile!Arcs /\ NewAt(w) = <<K, J>>
         /\ entries'[K].self = self[w]
         /\ entries'[K].arcs[J].from = from[w] /\ entries'[K].arcs[J].count = 1
         /\ \A k \in DOMAIN entries :
              /\ entries'[k].self = entries[k].self
              /\ DOMAIN entries'[k].arcs = DOMAIN entries[k].arcs \cup (IF k = K THEN {J} ELSE {})
              /\ \A j \in DOMAIN entries[k].arcs : entries'[k].arcs[j] = entries[k].arcs[j]
         /\ K \in DOMAIN entries => K = fn[w]
         /\ K \notin DOMAIN entries => DOMAIN entries'[K].arcs = {J} /\ K > Len(entries)
<1> DEFINE K == NewAt(w)[1]
           J == NewAt(w)[2]
           a == Profile!NewArc(w)
<1>1. a \in ArcT /\ a.from = from[w] /\ a.count = 1
  <2>1. from[w] \in Funcs BY DEF GmonInv, GTypes
  <2> QED BY <2>1 DEF Profile!NewArc, ArcT
<1>2. entries \in Seq(EntryT) /\ Len(entries) \in Nat /\ DOMAIN entries = 1 .. Len(entries)
      /\ self[w] \in Funcs
  BY DEF GmonInv, GTypes
<1>3. gPc[w] = "record" BY DEF Profile!Record, Profile!At
<1> HIDE DEF a
<1>4. CASE fn[w] = 0
  <2> DEFINE e == [self |-> self[w], arcs |-> <<a>>]
  <2>1. K = Len(entries) + 1 /\ J = 1 /\ NewAt(w) = <<K, J>> BY <1>4 DEF NewAt
  <2>2. <<a>> \in Seq(ArcT) /\ DOMAIN <<a>> = {1} /\ <<a>>[1] = a BY <1>1
  <2>3. e \in EntryT /\ e.self = self[w] /\ e.arcs = <<a>> BY <1>2, <2>2 DEF EntryT
  <2>4. entries' = Append(entries, e) BY <1>4 DEF Profile!Record, a
  <2> HIDE DEF e, K, J
  <2>5. /\ entries' \in Seq(EntryT) /\ Len(entries') = Len(entries) + 1
        /\ DOMAIN entries' = 1 .. Len(entries) + 1 /\ entries'[Len(entries) + 1] = e
        /\ \A i \in 1 .. Len(entries) : entries'[i] = entries[i]
    BY <1>2, <2>3, <2>4, AppendIs
  <2>6. DOMAIN entries' = DOMAIN entries \cup {K} /\ K \notin DOMAIN entries
        /\ K > Len(entries) /\ Len(entries') >= Len(entries)
    BY <1>2, <2>1, <2>5
  <2>7. entries'[K].self = self[w] /\ entries'[K].arcs = <<a>> BY <2>1, <2>3, <2>5
  <2>8. entries'[K].arcs[J] = a /\ DOMAIN entries'[K].arcs = {J} BY <2>1, <2>2, <2>7
  <2>9. NewAt(w) \notin Profile!Arcs BY <2>1, <2>6, ArcsAre
  <2>10. ASSUME NEW k \in DOMAIN entries
         PROVE  /\ entries'[k].self = entries[k].self
                /\ DOMAIN entries'[k].arcs = DOMAIN entries[k].arcs \cup (IF k = K THEN {J} ELSE {})
                /\ \A j \in DOMAIN entries[k].arcs : entries'[k].arcs[j] = entries[k].arcs[j]
    <3>1. entries'[k] = entries[k] /\ k # K BY <1>2, <2>5, <2>6
    <3> QED BY <3>1
  <2> QED BY <1>1, <2>1, <2>5, <2>6, <2>7, <2>8, <2>9, <2>10 DEF K, J
<1>5. CASE fn[w] # 0
  <2> DEFINE e == entries[fn[w]]
             as2 == Append(e.arcs, a)
             e2 == [e EXCEPT !.arcs = as2]
  <2>1. fn[w] \in DOMAIN entries /\ e.self = self[w] BY <1>3, <1>5, FoundEntry
  <2>2. K = fn[w] /\ J = Len(e.arcs) + 1 /\ NewAt(w) = <<K, J>> BY <1>5 DEF NewAt
  <2>3. /\ e \in EntryT /\ e.arcs \in Seq(ArcT) /\ DOMAIN e.arcs = 1 .. Len(e.arcs)
        /\ Len(e.arcs) \in Nat
    BY <2>1, EntryIs DEF GmonInv
  <2>4. /\ as2 \in Seq(ArcT) /\ DOMAIN as2 = 1 .. Len(e.arcs) + 1
        /\ as2[Len(e.arcs) + 1] = a /\ \A j \in 1 .. Len(e.arcs) : as2[j] = e.arcs[j]
    BY <1>1, <2>3, AppendIs
  <2>5. entries' = [entries EXCEPT ![fn[w]] = e2] BY <1>5 DEF Profile!Record, a
  <2> HIDE DEF as2
  <2>6. e2 \in EntryT /\ e2.self = e.self /\ e2.arcs = as2 BY <2>3, <2>4 DEF EntryT
  <2> HIDE DEF e2, K, J
  <2>7. /\ entries' \in Seq(EntryT) /\ Len(entries') = Len(entries)
        /\ DOMAIN entries' = DOMAIN entries
    BY <1>2, <2>1, <2>5, <2>6, ExceptKeepsSeq
  <2>8. entries'[K] = e2 /\ \A k \in DOMAIN entries : k # K => entries'[k] = entries[k]
    BY <1>2, <2>1, <2>2, <2>5
  <2>9. J \notin DOMAIN e.arcs /\ DOMAIN as2 = DOMAIN e.arcs \cup {J} /\ as2[J] = a
    <3>1. \A n \in Nat : n + 1 \notin 1 .. n /\ 1 .. n + 1 = (1 .. n) \cup {n + 1} OBVIOUS
    <3> HIDE DEF e
    <3> QED BY <2>2, <2>3, <2>4, <3>1
  <2>10. NewAt(w) \notin Profile!Arcs BY <2>2, <2>9, ArcsAre
  <2>11. ASSUME NEW k \in DOMAIN entries
         PROVE  /\ entries'[k].self = entries[k].self
                /\ DOMAIN entries'[k].arcs = DOMAIN entries[k].arcs \cup (IF k = K THEN {J} ELSE {})
                /\ \A j \in DOMAIN entries[k].arcs : entries'[k].arcs[j] = entries[k].arcs[j]
    <3>1. CASE k = K
      <4>1. entries[k] = e /\ entries'[k] = e2 BY <2>2, <2>8, <3>1
      <4> HIDE DEF e
      <4> QED BY <2>3, <2>4, <2>6, <2>9, <3>1, <4>1
    <3>2. CASE k # K BY <2>8, <3>2
    <3> QED BY <3>1, <3>2
  <2>12. Len(entries') >= Len(entries) BY <1>2, <2>7
  <2>13. K \in DOMAIN entries /\ K = fn[w] BY <2>1, <2>2
  <2>14. entries'[K].self = self[w] /\ entries'[K].arcs = as2 BY <2>1, <2>6, <2>8
  <2>15. J \in DOMAIN entries'[K].arcs /\ entries'[K].arcs[J] = a BY <2>9, <2>14
  <2>16. DOMAIN entries' = DOMAIN entries \cup {K} BY <2>7, <2>13
  <2> HIDE DEF e
  <2> QED BY <1>1, <2>2, <2>7, <2>10, <2>11, <2>12, <2>13, <2>14, <2>15, <2>16 DEF K, J
<1> QED BY <1>4, <1>5

LEMMA RecordSets ==
  ASSUME GmonInv, NEW w \in GWho, Profile!Record(w)
  PROVE  LET x == NewAt(w) IN
         /\ Profile!Arcs' = Profile!Arcs \cup {x} /\ x \notin Profile!Arcs
         /\ Profile!Count'[x] = 1
         /\ \A c \in Profile!Arcs : Profile!Count'[c] = Profile!Count[c]
         /\ \A s, f : Profile!Copies(s, f)' =
                        Profile!Copies(s, f) \cup (IF s = self[w] /\ f = from[w] THEN {x} ELSE {})
<1> DEFINE x == NewAt(w)
           K == NewAt(w)[1]
           J == NewAt(w)[2]
<1>1. /\ DOMAIN entries' = DOMAIN entries \cup {K}
      /\ J \in DOMAIN entries'[K].arcs /\ NewAt(w) \notin Profile!Arcs /\ NewAt(w) = <<K, J>>
      /\ entries'[K].self = self[w]
      /\ entries'[K].arcs[J].from = from[w] /\ entries'[K].arcs[J].count = 1
      /\ \A k \in DOMAIN entries :
           /\ entries'[k].self = entries[k].self
           /\ DOMAIN entries'[k].arcs = DOMAIN entries[k].arcs \cup (IF k = K THEN {J} ELSE {})
           /\ \A j \in DOMAIN entries[k].arcs : entries'[k].arcs[j] = entries[k].arcs[j]
      /\ K \notin DOMAIN entries => DOMAIN entries'[K].arcs = {J}
  BY RecordEffect
<1> HIDE DEF K, J
<1>2. \A c : c \in Profile!Arcs' <=>
               \E k \in DOMAIN entries' : \E j \in DOMAIN entries'[k].arcs : c = <<k, j>>
  BY DEF Profile!Arcs
<1>3. Profile!Arcs' = Profile!Arcs \cup {x}
  <2>1. ASSUME NEW c \in Profile!Arcs' PROVE c \in Profile!Arcs \cup {x}
    <3>1. PICK k \in DOMAIN entries' : \E j \in DOMAIN entries'[k].arcs : c = <<k, j>> BY <1>2
    <3>2. PICK j \in DOMAIN entries'[k].arcs : c = <<k, j>> BY <3>1
    <3>3. CASE k \in DOMAIN entries /\ j \in DOMAIN entries[k].arcs BY <3>2, <3>3, ArcsAre
    <3>4. CASE ~(k \in DOMAIN entries /\ j \in DOMAIN entries[k].arcs)
      <4>1. k = K /\ j = J BY <1>1, <3>2, <3>4
      <4> QED BY <1>1, <3>2, <4>1
    <3> QED BY <3>3, <3>4
  <2>2. ASSUME NEW c \in Profile!Arcs PROVE c \in Profile!Arcs'
    <3>1. PICK k \in DOMAIN entries : \E j \in DOMAIN entries[k].arcs : c = <<k, j>> BY ArcsAre
    <3>2. PICK j \in DOMAIN entries[k].arcs : c = <<k, j>> BY <3>1
    <3>3. k \in DOMAIN entries' /\ j \in DOMAIN entries'[k].arcs BY <1>1
    <3> QED BY <1>2, <3>2, <3>3
  <2>3. x \in Profile!Arcs' BY <1>1, <1>2
  <2> QED BY <2>1, <2>2, <2>3
<1>4. \A c \in Profile!Arcs' : Profile!Count'[c] = entries'[c[1]].arcs[c[2]].count
  BY DEF Profile!Count
<1>5. x[1] = K /\ x[2] = J BY DEF K, J
<1> HIDE DEF x
<1>6. Profile!Count'[x] = 1 BY <1>1, <1>3, <1>4, <1>5
<1>7. ASSUME NEW c \in Profile!Arcs
      PROVE  /\ Profile!Count'[c] = Profile!Count[c]
             /\ entries'[c[1]].self = entries[c[1]].self
             /\ entries'[c[1]].arcs[c[2]].from = entries[c[1]].arcs[c[2]].from
  <2>1. PICK k \in DOMAIN entries : \E j \in DOMAIN entries[k].arcs : c = <<k, j>> BY ArcsAre
  <2>2. PICK j \in DOMAIN entries[k].arcs : c = <<k, j>> BY <2>1
  <2>3. c[1] = k /\ c[2] = j BY <2>2
  <2>4. Profile!Count[c] = entries[c[1]].arcs[c[2]].count BY DEF Profile!Count
  <2>5. Profile!Count'[c] = entries'[c[1]].arcs[c[2]].count BY <1>3, <1>4
  <2> QED BY <1>1, <2>2, <2>3, <2>4, <2>5
<1>8. ASSUME NEW s, NEW f
      PROVE  Profile!Copies(s, f)' =
               Profile!Copies(s, f) \cup (IF s = self[w] /\ f = from[w] THEN {x} ELSE {})
  <2>1. Profile!Copies(s, f)' = {c \in Profile!Arcs' : /\ entries'[c[1]].self = s
                                                       /\ entries'[c[1]].arcs[c[2]].from = f}
    BY DEF Profile!Copies
  <2>2. Profile!Copies(s, f) = {c \in Profile!Arcs : /\ entries[c[1]].self = s
                                                     /\ entries[c[1]].arcs[c[2]].from = f}
    BY DEF Profile!Copies
  <2>3. x \in Profile!Copies(s, f)' <=> s = self[w] /\ f = from[w]
    BY <1>1, <1>3, <1>5, <2>1
  <2>4. \A c \in Profile!Arcs : c \in Profile!Copies(s, f)' <=> c \in Profile!Copies(s, f)
    BY <1>3, <1>7, <2>1, <2>2
  <2> QED BY <1>1, <1>3, <2>1, <2>2, <2>3, <2>4 DEF x
<1> QED BY <1>1, <1>3, <1>6, <1>7, <1>8 DEF x

LEMMA RecordGmon == ASSUME GmonInv, NEW w \in GWho, Profile!Record(w) PROVE GmonInv'
<1> DEFINE x == NewAt(w)
           K == NewAt(w)[1]
           J == NewAt(w)[2]
<1>1. /\ gRunning = w /\ gPc[w] = "record" /\ gPc' = [gPc EXCEPT ![w] = "out"]
      /\ UNCHANGED <<gRunning, self, from, fn, arc, old, needInit, armed, timer, calls, torn>>
  BY DEF Profile!Record, Profile!At, Profile!local, Profile!Goes
<1>2. gPc'[w] = "out" /\ \A v \in GWho \ {w} : gPc'[v] = gPc[v]
  BY <1>1, PlaceMoves DEF GmonInv
<1>3. /\ entries' \in Seq(EntryT) /\ Len(entries') >= Len(entries)
      /\ DOMAIN entries' = DOMAIN entries \cup {K}
      /\ entries'[K].arcs[J].from = from[w]
      /\ \A k \in DOMAIN entries :
           /\ entries'[k].self = entries[k].self
           /\ DOMAIN entries'[k].arcs = DOMAIN entries[k].arcs \cup (IF k = K THEN {J} ELSE {})
           /\ \A j \in DOMAIN entries[k].arcs : entries'[k].arcs[j] = entries[k].arcs[j]
      /\ K \in DOMAIN entries => K = fn[w]
      /\ K \notin DOMAIN entries => DOMAIN entries'[K].arcs = {J} /\ K > Len(entries)
  BY RecordEffect
<1>4. /\ Profile!Arcs' = Profile!Arcs \cup {x} /\ x \notin Profile!Arcs
      /\ Profile!Count'[x] = 1
      /\ \A c \in Profile!Arcs : Profile!Count'[c] = Profile!Count[c]
      /\ \A s, f : Profile!Copies(s, f)' =
                     Profile!Copies(s, f) \cup (IF s = self[w] /\ f = from[w] THEN {x} ELSE {})
  BY RecordSets
<1> HIDE DEF x, K, J
<1>5. GTypes'
  <2>1. gPc' \in [GWho -> Spot] BY <1>1 DEF GmonInv, GTypes, Spot
  <2>2. gPc'["isr"] # "out" => gRunning' = "isr" BY <1>1, <1>2 DEF GmonInv, GTypes, GWho, Profile!Who
  <2>3. /\ slab' \in 0 .. SlabUnits - 1 /\ brk' \in 0 .. HeapUnits
        /\ wild' \subseteq {"list", "histogram", "bucket"}
    <3>1. Profile!mcount_allocate(1) \/ Profile!mcount_allocate(2) BY DEF Profile!Record
    <3> QED BY <3>1, AllocateTypes DEF GmonInv
  <2>4. IsFiniteSet(Profile!Arcs') BY <1>4, FS_AddElement DEF GmonInv, GTypes
  <2>5. \A v \in GWho : fn[v] <= Len(entries')
    <3>1. /\ fn \in [GWho -> Nat] /\ entries \in Seq(EntryT)
          /\ \A v \in GWho : fn[v] <= Len(entries)
      BY DEF GmonInv, GTypes
    <3>2. Len(entries) \in Nat /\ Len(entries') \in Nat BY <1>3, <3>1
    <3> QED BY <1>3, <3>1, <3>2
  <2> QED BY <1>1, <1>3, <2>1, <2>2, <2>3, <2>4, <2>5 DEF GmonInv, GTypes
<1>6. Sampler' BY <1>1, <1>2 DEF GmonInv, Sampler, GWho, Profile!Who
<1>7. \A v \in GWho : gPc[v] # "out" /\ fn[v] # 0 => fn[v] \in DOMAIN entries
  BY FoundEntry
<1>8. Walks'
  <2>1. ASSUME NEW v \in GWho
        PROVE  /\ gPc'[v] # "out" /\ fn'[v] # 0 => entries'[fn'[v]].self = self'[v]
               /\ gPc'[v] = "arc" => fn'[v] # 0
               /\ gPc'[v] \in {"load", "store"} => Found(v)'
    <3>1. CASE v = w BY <1>2, <3>1
    <3>2. CASE v # w
      <4>1. gPc'[v] = gPc[v] BY <1>2, <3>2
      <4>2. gPc[v] \in {"load", "store"} => Found(v) BY DEF GmonInv, Walks
      <4> QED BY <1>1, <1>3, <1>7, <4>1, <4>2 DEF GmonInv, Walks, Found
    <3> QED BY <3>1, <3>2
  <2> QED BY <2>1 DEF Walks
<1>9. Loaded'
  <2>1. ASSUME NEW v \in GWho, gPc'[v] = "store"
        PROVE  /\ gPc[v] = "store"
               /\ entries'[fn[v]].arcs[arc[v]].count = entries[fn[v]].arcs[arc[v]].count
    <3>1. gPc[v] = "store" BY <1>2, <2>1
    <3>2. Found(v) BY <3>1 DEF GmonInv, Walks
    <3>3. fn[v] \in DOMAIN entries /\ arc[v] \in DOMAIN entries[fn[v]].arcs
      BY <1>7, <3>1, <3>2 DEF Found
    <3> QED BY <1>3, <3>1, <3>3
  <2> QED BY <1>1, <2>1 DEF GmonInv, Loaded, GWho, Profile!Who
<1>10. Doubles'
  <2>0. \A v \in GWho : \A k, f : Adding(v, k, f)' => Adding(v, k, f) /\ v # w
    BY <1>1, <1>2 DEF Adding
  <2>1. ASSUME NEW k \in DOMAIN entries, NEW f \in Funcs, ~(k = K /\ f = from[w])
        PROVE  Doubled(k, f)' = Doubled(k, f)
    BY <1>3, <2>1 DEF Doubled
  <2>2. ASSUME NEW k \in DOMAIN entries, NEW f \in Funcs, k = K, f = from[w]
        PROVE  Doubled(k, f)' = Doubled(k, f) \cup {J} /\ Adding(w, k, f)
    BY <1>1, <1>3, <2>2 DEF Doubled, Adding
  <2>3. ASSUME NEW k \in DOMAIN entries', NEW f \in Funcs
        PROVE  /\ IsFiniteSet(Doubled(k, f)') /\ Cardinality(Doubled(k, f)') <= 2
               /\ Adding("isr", k, f)' => Doubled(k, f)' = {}
               /\ Adding("main", k, f)' => Cardinality(Doubled(k, f)') <= 1
    <3>1. CASE k \in DOMAIN entries /\ ~(k = K /\ f = from[w])
      BY <2>0, <2>1, <3>1 DEF GmonInv, Doubles, GWho, Profile!Who
    <3>2. CASE k \in DOMAIN entries /\ k = K /\ f = from[w]
      <4> DEFINE D == Doubled(k, f)
      <4>1. IsFiniteSet(D) /\ Cardinality(D) \in Nat
        BY <3>2, FS_CardinalityType DEF GmonInv, Doubles
      <4>2. Doubled(k, f)' = D \cup {J} /\ Adding(w, k, f) BY <2>2, <3>2
      <4>3. IsFiniteSet(D \cup {J}) /\ Cardinality(D \cup {J}) <= Cardinality(D) + 1
        <5> HIDE DEF D
        <5>1. Cardinality(D \cup {J}) = IF J \in D THEN Cardinality(D) ELSE Cardinality(D) + 1
          BY <4>1, FS_AddElement
        <5>2. IsFiniteSet(D \cup {J}) BY <4>1, FS_AddElement
        <5> QED BY <4>1, <5>1, <5>2
      <4>4. /\ Adding("isr", k, f) => D = {}
            /\ Adding("main", k, f) => Cardinality(D) <= 1
        BY <3>2 DEF GmonInv, Doubles
      <4>5. Cardinality({}) = 0 BY FS_EmptySet
      <4>6. CASE w = "isr"
        <5>1. Cardinality(D) = 0 BY <4>2, <4>4, <4>5, <4>6
        <5>2. ~Adding("isr", k, f)' BY <2>0, <4>6 DEF GWho, Profile!Who
        <5>3. Cardinality(Doubled(k, f)') <= 1
          <6>1. Cardinality(D \cup {J}) \in Nat BY <4>3, FS_CardinalityType
          <6> QED BY <4>2, <4>3, <5>1, <6>1
        <5>4. Cardinality(Doubled(k, f)') <= 2
          <6>1. Cardinality(D \cup {J}) \in Nat BY <4>3, FS_CardinalityType
          <6> QED BY <4>2, <5>3, <6>1
        <5> QED BY <4>2, <4>3, <5>2, <5>3, <5>4
      <4>7. CASE w = "main"
        <5>1. gPc["isr"] = "out" BY <1>1, <4>7 DEF GmonInv, GTypes
        <5>2. ~Adding("isr", k, f)' BY <2>0, <5>1 DEF GWho, Profile!Who, Adding
        <5>3. ~Adding("main", k, f)' BY <2>0, <4>7 DEF GWho, Profile!Who
        <5>4. Cardinality(D) <= 1 BY <4>2, <4>4, <4>7
        <5>5. Cardinality(Doubled(k, f)') <= 2
          <6>1. Cardinality(D \cup {J}) \in Nat BY <4>3, FS_CardinalityType
          <6> QED BY <4>1, <4>2, <4>3, <5>4, <6>1
        <5> QED BY <4>2, <4>3, <5>2, <5>3, <5>5
      <4> QED BY <4>6, <4>7 DEF GWho, Profile!Who
    <3>3. CASE k \notin DOMAIN entries
      <4>1. k = K /\ DOMAIN entries'[k].arcs = {J} /\ K > Len(entries) BY <1>3, <3>3
      <4>2. Doubled(k, f)' \in SUBSET {J} BY <4>1 DEF Doubled
      <4>3. IsFiniteSet({J}) /\ Cardinality({J}) = 1 BY FS_Singleton
      <4>4. IsFiniteSet(Doubled(k, f)') /\ Cardinality(Doubled(k, f)') <= 1
        BY <4>2, <4>3, FS_Subset
      <4>5. Cardinality(Doubled(k, f)') \in Nat BY <4>4, FS_CardinalityType
      <4>6. Cardinality(Doubled(k, f)') <= 2 BY <4>4, <4>5
      <4>7. \A v \in GWho : ~Adding(v, k, f)
        <5>1. \A v \in GWho : fn[v] \in Nat /\ fn[v] <= Len(entries) BY DEF GmonInv, GTypes
        <5>2. entries \in Seq(EntryT) /\ Len(entries) \in Nat BY DEF GmonInv, GTypes
        <5>3. entries' \in Seq(EntryT) /\ k \in Nat BY <1>3, <2>3, SMTT(20)
        <5>4. \A v \in GWho : fn[v] # k BY <4>1, <5>1, <5>2, <5>3
        <5> QED BY <5>4 DEF Adding
      <4>8. ~Adding("isr", k, f)' /\ ~Adding("main", k, f)'
        BY <2>0, <4>7 DEF GWho, Profile!Who
      <4> QED BY <4>4, <4>6, <4>8
    <3> QED BY <1>3, <3>1, <3>2, <3>3
  <2> QED BY <2>3 DEF Doubles
<1>11. ASSUME NEW a \in Funcs, NEW b \in Funcs
       PROVE  /\ Busy(a, b) \in Nat /\ Busy(a, b)' \in Nat
              /\ Busy(a, b)' = IF a = self[w] /\ b = from[w] THEN Busy(a, b) - 1 ELSE Busy(a, b)
  <2>1. gPc[w] # "out" BY <1>1
  <2> QED BY <1>1, <2>1, LeavesBusy
<1>12. ASSUME NEW a \in Funcs, NEW b \in Funcs
       PROVE  /\ Sum(Profile!Count', Profile!Copies(a, b)') + Busy(a, b)' =
                   Sum(Profile!Count, Profile!Copies(a, b)) + Busy(a, b)
              /\ Sum(Profile!Count', Profile!Copies(a, b)') + Busy(a, b)' <= calls[<<a, b>>]
  <2> DEFINE S == Profile!Copies(a, b)
  <2>1. S \subseteq Profile!Arcs /\ IsFiniteSet(S)
        /\ \A c \in Profile!Arcs : Profile!Count[c] \in Nat \ {0}
                                  /\ Profile!Count[c] = entries[c[1]].arcs[c[2]].count
    BY CopiesAre DEF GmonInv
  <2>2. calls[<<a, b>>] \in Nat BY DEF GmonInv, GTypes
  <2>3. Sum(Profile!Count, S) + Busy(a, b) <= calls[<<a, b>>] BY DEF GmonInv, Counts
  <2>4. \A c \in S : /\ Profile!Count[c] \in Nat /\ Profile!Count'[c] \in Nat
                     /\ Profile!Count[c] = Profile!Count'[c]
    BY <1>4, <2>1
  <2>5. Profile!Copies(a, b)' = S \cup (IF a = self[w] /\ b = from[w] THEN {x} ELSE {})
    BY <1>4
  <2> HIDE DEF S
  <2>6. Sum(Profile!Count', S) = Sum(Profile!Count, S) /\ Sum(Profile!Count, S) \in Nat
    BY <2>1, <2>4, SumAlike, SumAny
  <2>7. CASE a = self[w] /\ b = from[w]
    <3>1. x \notin S BY <1>4, <2>1
    <3>2. \A c \in S \cup {x} : Profile!Count'[c] \in Nat BY <1>4, <2>4
    <3>3. Sum(Profile!Count', S \cup {x}) = Sum(Profile!Count', S) + 1
      <4>1. Profile!Count'[x] = 1 BY <1>4
      <4>2. Sum(Profile!Count', S \cup {x}) = Sum(Profile!Count', S) + Profile!Count'[x]
        BY <2>1, <3>1, <3>2, SumMore
      <4> QED BY <4>1, <4>2
    <3>4. Profile!Copies(a, b)' = S \cup {x} BY <2>5, <2>7
    <3>5. Busy(a, b)' = Busy(a, b) - 1 BY <1>11, <2>7
    <3>6. Sum(Profile!Count', Profile!Copies(a, b)') = Sum(Profile!Count, S) + 1
      BY <2>6, <3>3, <3>4
    <3> QED BY <1>11, <2>2, <2>3, <2>6, <3>5, <3>6 DEF S
  <2>8. CASE ~(a = self[w] /\ b = from[w])
    <3>1. Profile!Copies(a, b)' = S BY <2>5, <2>8
    <3>2. Busy(a, b)' = Busy(a, b) BY <1>11, <2>8
    <3> QED BY <2>3, <2>6, <3>1, <3>2 DEF S
  <2> QED BY <2>7, <2>8
<1>16. Counts' BY <1>1, <1>12 DEF Counts
<1>13. Recorded'
  <2>1. ASSUME NEW a \in Funcs, NEW b \in Funcs, calls[<<a, b>>] > Busy(a, b)'
        PROVE  Profile!Copies(a, b)' # {}
    <3>1. CASE a = self[w] /\ b = from[w] BY <1>4, <3>1
    <3>2. CASE ~(a = self[w] /\ b = from[w])
      BY <1>4, <1>11, <2>1, <3>2 DEF GmonInv, Recorded
    <3> QED BY <3>1, <3>2
  <2> QED BY <1>1, <2>1 DEF Recorded
<1>14. ASSUME NEW a \in Funcs, NEW b \in Funcs PROVE Due(a, b)' = Due(a, b)
  <2>1. gPc'["main"] = "store" => gPc["main"] = "store" BY <1>2 DEF GWho, Profile!Who
  <2>2. gPc["main"] = "store" => gPc'["main"] = "store"
    BY <1>1, <1>2 DEF GWho, Profile!Who
  <2>3. gPc["main"] = "store" =>
          entries'[fn["main"]].arcs[arc["main"]].count = entries[fn["main"]].arcs[arc["main"]].count
    <3>1. SUFFICES ASSUME gPc["main"] = "store"
                   PROVE  entries'[fn["main"]].arcs[arc["main"]].count =
                            entries[fn["main"]].arcs[arc["main"]].count
      OBVIOUS
    <3>2. "main" \in GWho BY DEF GWho, Profile!Who
    <3>3. Found("main") BY <3>1, <3>2 DEF GmonInv, Walks
    <3>4. fn["main"] \in DOMAIN entries /\ arc["main"] \in DOMAIN entries[fn["main"]].arcs
      BY <1>7, <3>1, <3>2, <3>3 DEF Found
    <3> QED BY <1>3, <3>4
  <2> QED BY <1>1, <2>1, <2>2, <2>3 DEF Due
<1>15. Tally'
  <2>1. ASSUME NEW a \in Funcs, NEW b \in Funcs
        PROVE  Sum(Profile!Count', Profile!Copies(a, b)') + Busy(a, b)' + torn[<<a, b>>] =
                 calls[<<a, b>>] + Due(a, b)
    <3>1. /\ Sum(Profile!Count, Profile!Copies(a, b)) + Busy(a, b) + torn[<<a, b>>] =
               calls[<<a, b>>] + Due(a, b)
          /\ calls[<<a, b>>] \in Nat /\ torn[<<a, b>>] \in Nat
      BY DEF GmonInv, GTypes, Tally, Exact
    <3>2. Sum(Profile!Count, Profile!Copies(a, b)) \in Nat BY CopiesAre, SumAny DEF GmonInv
    <3>3. Sum(Profile!Count', Profile!Copies(a, b)') + Busy(a, b)' =
            Sum(Profile!Count, Profile!Copies(a, b)) + Busy(a, b)
      BY <1>12
    <3>4. Due(a, b) \in Int BY DueIs
    <3> QED BY <3>1, <3>2, <3>3, <3>4
  <2>2. Exact' BY <1>1, <1>14, <2>1 DEF Exact
  <2>3. DueTorn' BY <1>1, <1>14 DEF GmonInv, Tally, DueTorn
  <2> QED BY <2>2, <2>3 DEF Tally
<1> QED BY <1>5, <1>6, <1>8, <1>9, <1>10, <1>13, <1>15, <1>16 DEF GmonInv

LEMMA GmonStarts == Profile!Init => GmonInv
<1>1. SUFFICES ASSUME Profile!Init PROVE GmonInv OBVIOUS
<1>2. /\ entries = <<>> /\ gRunning = "main" /\ gPc = [w \in GWho |-> "out"]
      /\ self \in [GWho -> Funcs] /\ from = self /\ fn = [w \in GWho |-> 0]
      /\ arc = [w \in GWho |-> 0] /\ old = [w \in GWho |-> 0] /\ needInit = TRUE /\ armed = 0
      /\ timer \in BOOLEAN /\ brk = 0 /\ slab = 0 /\ wild = {}
      /\ calls = [a \in Funcs \X Funcs |-> 0] /\ torn = calls
  BY <1>1 DEF Profile!Init, GWho
<1>3. DOMAIN entries = {} /\ Len(entries) = 0 /\ entries \in Seq(EntryT) BY <1>2
<1>4. Profile!Arcs = {} BY <1>3 DEF Profile!Arcs
<1>5. calls \in [Funcs \X Funcs -> Nat] /\ \A s, f \in Funcs : calls[<<s, f>>] = 0
      /\ torn = calls
  BY <1>2
<1>6. GTypes
  <2>1. slab \in 0 .. SlabUnits - 1 /\ brk \in 0 .. HeapUnits BY <1>2, GmonConstants
  <2>2. gPc \in [GWho -> Spot] BY <1>2 DEF Spot
  <2>3. /\ fn \in [GWho -> Nat] /\ arc \in [GWho -> Nat] /\ old \in [GWho -> Nat]
        /\ \A v \in GWho : fn[v] <= Len(entries)
    BY <1>2, <1>3
  <2>4. IsFiniteSet(Profile!Arcs) BY <1>4, FS_EmptySet
  <2>5. gPc["isr"] # "out" => gRunning = "isr" BY <1>2 DEF GWho, Profile!Who
  <2>6. gRunning \in GWho /\ armed \in 0 .. 2 BY <1>2 DEF GWho, Profile!Who
  <2>7. needInit \in BOOLEAN /\ wild \subseteq {"list", "histogram", "bucket"} BY <1>2
  <2> QED BY <1>2, <1>3, <1>5, <2>1, <2>2, <2>3, <2>4, <2>5, <2>6, <2>7 DEF GTypes
<1>7. Sampler BY <1>2 DEF Sampler
<1>8. Walks /\ Loaded BY <1>2 DEF Walks, Loaded, GWho, Profile!Who
<1>9. Doubles BY <1>3 DEF Doubles
<1>10. ASSUME NEW s \in Funcs, NEW f \in Funcs PROVE Busy(s, f) = 0
  BY <1>2 DEF Busy, Inside, GWho, Profile!Who
<1>11. ASSUME NEW s \in Funcs, NEW f \in Funcs PROVE Profile!Copies(s, f) = {}
  BY <1>4 DEF Profile!Copies
<1>12. Counts
  <2>1. \A s, f \in Funcs : Sum(Profile!Count, Profile!Copies(s, f)) = 0 BY <1>11, SumEmpty
  <2>2. \A s, f \in Funcs :
          Sum(Profile!Count, Profile!Copies(s, f)) + Busy(s, f) <= calls[<<s, f>>]
    <3> TAKE s, f \in Funcs
    <3>1. Sum(Profile!Count, Profile!Copies(s, f)) = 0 BY <2>1
    <3>2. Busy(s, f) = 0 BY <1>10
    <3>3. calls[<<s, f>>] = 0 BY <1>5
    <3> QED BY <3>1, <3>2, <3>3
  <2> QED BY <2>2 DEF Counts
<1>13. Recorded BY <1>5, <1>10 DEF Recorded
<1>14. Tally
  <2>1. ASSUME NEW s \in Funcs, NEW f \in Funcs
        PROVE  /\ Due(s, f) <= torn[<<s, f>>]
               /\ Sum(Profile!Count, Profile!Copies(s, f)) + Busy(s, f) + torn[<<s, f>>] =
                    calls[<<s, f>>] + Due(s, f)
    <3>1. Sum(Profile!Count, Profile!Copies(s, f)) = 0 BY <1>11, SumEmpty
    <3>2. Due(s, f) = 0 BY <1>2 DEF Due, GWho, Profile!Who
    <3>3. Busy(s, f) = 0 /\ calls[<<s, f>>] = 0 /\ torn[<<s, f>>] = 0 BY <1>5, <1>10
    <3> QED BY <3>1, <3>2, <3>3
  <2> QED BY <2>1 DEF Tally, DueTorn, Exact
<1> QED BY <1>6, <1>7, <1>8, <1>9, <1>12, <1>13, <1>14 DEF GmonInv

LEMMA GmonSteps == GmonInv /\ [Profile!Next]_Profile!vars => GmonInv'
<1>1. SUFFICES ASSUME GmonInv, [Profile!Next]_Profile!vars PROVE GmonInv' OBVIOUS
<1>2. ASSUME NEW w \in GWho, NEW s \in Funcs, NEW f \in Funcs, Profile!Mcount(w, s, f)
      PROVE  GmonInv'
  BY <1>1, <1>2, McountGmon
<1>3. ASSUME NEW w \in GWho,
             \/ Profile!FindArc(w) \/ Profile!LoadCount(w) \/ Profile!StoreCount(w)
             \/ Profile!CheckInit(w) \/ Profile!ClearInit(w) \/ Profile!PcsampleInit(w)
             \/ Profile!Record(w)
      PROVE  GmonInv'
  BY <1>1, <1>3, FindArcGmon, LoadGmon, StoreGmon, CheckGmon, ClearGmon, SampleGmon, RecordGmon
<1>4. CASE \/ Profile!StartTimer \/ Profile!Interrupt \/ Profile!Return \/ UNCHANGED Profile!vars
           \/ \E ea : Profile!Pcsample(ea)
  BY <1>1, <1>4, OtherGmon
<1> QED BY <1>1, <1>2, <1>3, <1>4 DEF Profile!Next, GWho

\* Who is inside mcount, as a number of callers.
LEMMA BusyIs ==
  ASSUME NEW s, NEW f
  PROVE  Cardinality({w \in GWho : gPc[w] # "out" /\ self[w] = s /\ from[w] = f}) = Busy(s, f)
<1> DEFINE S == {w \in GWho : gPc[w] # "out" /\ self[w] = s /\ from[w] = f}
<1>1. \A w : w \in S <=> w \in GWho /\ Inside(w, s, f) = 1 BY DEF Inside
<1>2. GWho = {"main", "isr"} BY DEF GWho, Profile!Who
<1>3. \A w : Inside(w, s, f) \in {0, 1} BY DEF Inside
<1> HIDE DEF S
<1>4. CASE Inside("main", s, f) = 0 /\ Inside("isr", s, f) = 0
  <2>1. S = {} BY <1>1, <1>2, <1>4
  <2> QED BY <1>4, <2>1, FS_EmptySet DEF S, Busy
<1>5. CASE Inside("main", s, f) = 1 /\ Inside("isr", s, f) = 0
  <2>1. S = {"main"} BY <1>1, <1>2, <1>5
  <2>2. Cardinality(S) = 1 BY <2>1, FS_Singleton
  <2> QED BY <1>5, <2>2 DEF S, Busy
<1>6. CASE Inside("main", s, f) = 0 /\ Inside("isr", s, f) = 1
  <2>1. S = {"isr"} BY <1>1, <1>2, <1>6
  <2>2. Cardinality(S) = 1 BY <2>1, FS_Singleton
  <2> QED BY <1>6, <2>2 DEF S, Busy
<1>7. CASE Inside("main", s, f) = 1 /\ Inside("isr", s, f) = 1
  <2>1. S = {"main"} \cup {"isr"} BY <1>1, <1>2, <1>7
  <2>2. IsFiniteSet({"main"}) /\ Cardinality({"main"}) = 1 BY FS_Singleton
  <2>3. Cardinality(S) = 2 BY <2>1, <2>2, FS_AddElement
  <2> QED BY <1>7, <2>3 DEF S, Busy
<1> QED BY <1>3, <1>4, <1>5, <1>6, <1>7

LEMMA GmonSound ==
  GmonInv => Profile!TypeOK /\ Profile!EveryArcCounted /\ Profile!CopiesComeFromRaces
<1>1. SUFFICES ASSUME GmonInv
               PROVE  Profile!TypeOK /\ Profile!EveryArcCounted /\ Profile!CopiesComeFromRaces
  OBVIOUS
<1>2. Profile!TypeOK
  <2>1. \A w \in GWho : fn[w] \in 0 .. Len(entries)
    <3>1. fn \in [GWho -> Nat] /\ entries \in Seq(EntryT) /\ \A w \in GWho : fn[w] <= Len(entries)
      BY <1>1 DEF GmonInv, GTypes
    <3> QED BY <3>1
  <2> QED BY <1>1, <2>1 DEF GmonInv, GTypes, Profile!TypeOK, GWho, Spot
<1>3. ASSUME NEW s \in Funcs, NEW f \in Funcs
      PROVE  LET made == calls[<<s, f>>]
                 inside == Profile!Cardinality({w \in GWho : gPc[w] # "out" /\ self[w] = s /\ from[w] = f})
                 known == Profile!Counted(s, f) + inside
             IN  /\ known <= made /\ made <= known + torn[<<s, f>>]
                 /\ gPc["main"] # "store" => made = known + torn[<<s, f>>]
                 /\ made > inside => Profile!Counted(s, f) > 0
  <2> DEFINE S == Profile!Copies(s, f)
  <2>1. S \subseteq Profile!Arcs /\ IsFiniteSet(S)
        /\ \A c \in Profile!Arcs : Profile!Count[c] \in Nat \ {0}
                                  /\ Profile!Count[c] = entries[c[1]].arcs[c[2]].count
    BY <1>1, CopiesAre DEF GmonInv
  <2>2. calls[<<s, f>>] \in Nat /\ torn[<<s, f>>] \in Nat BY <1>1 DEF GmonInv, GTypes
  <2>10. /\ Sum(Profile!Count, S) + Busy(s, f) + torn[<<s, f>>] = calls[<<s, f>>] + Due(s, f)
         /\ Due(s, f) \in Nat /\ (gPc["main"] # "store" => Due(s, f) = 0)
    <3>1. gPc["main"] # "store" => Due(s, f) = 0 BY DEF Due
    <3> QED BY <1>1, <3>1, DueIs DEF GmonInv, Tally, Exact
  <2>3. Profile!Counted(s, f) = Sum(Profile!Count, S) BY DEF Profile!Counted, Sum
  <2>4. /\ Sum(Profile!Count, S) + Busy(s, f) <= calls[<<s, f>>]
        /\ calls[<<s, f>>] > Busy(s, f) => S # {}
    BY <1>1 DEF GmonInv, Counts, Recorded
  <2>5. Busy(s, f) \in Nat BY DEF Busy, Inside
  <2>6. \A c \in S : Profile!Count[c] \in Nat \ {0} BY <2>1
  <2> HIDE DEF S
  <2>7. Sum(Profile!Count, S) \in Nat BY <2>1, <2>6, SumAny
  <2>8. S # {} => Sum(Profile!Count, S) > 0
    <3>1. SUFFICES ASSUME S # {} PROVE Sum(Profile!Count, S) > 0 OBVIOUS
    <3>2. PICK c \in S : TRUE BY <3>1
    <3>3. Sum(Profile!Count, S) = Profile!Count[c] + Sum(Profile!Count, S \ {c})
      BY <2>1, <2>6, SumAny
    <3>4. IsFiniteSet(S \ {c}) BY <2>1, FS_RemoveElement
    <3>5. Sum(Profile!Count, S \ {c}) \in Nat BY <2>6, <3>4, SumAny
    <3>6. Profile!Count[c] \in Nat \ {0} BY <2>6
    <3> QED BY <3>3, <3>5, <3>6
  <2>9. Profile!Cardinality({w \in GWho : gPc[w] # "out" /\ self[w] = s /\ from[w] = f}) = Busy(s, f)
    BY BusyIs, SameCount
  <2> QED BY <2>2, <2>3, <2>4, <2>5, <2>7, <2>8, <2>9, <2>10
<1>4. Profile!EveryArcCounted BY <1>3 DEF Profile!EveryArcCounted, GWho
<1>5. Profile!CopiesComeFromRaces
  BY <1>1, SameCount DEF GmonInv, Doubles, Doubled, Profile!CopiesComeFromRaces
<1> QED BY <1>2, <1>4, <1>5

-----------------------------------------------------------------------------
(***************************************************************************)
(* The log.  Before the drivers are there main() is alone, and a handler   *)
(* is never interrupted by another: whoever has found space in one of      *)
(* these cases still has it when the character is written.                 *)
(***************************************************************************)
LogInv ==
  /\ Port!TypeOK
  /\ todo \in Seq({"print", "send"})
  /\ \A w \in Port!Who : lAt[w] # "idle" => left[w] >= 1
  /\ stage = "boot" => lRunning = "main" /\ lost = {}
  /\ lAt["isr"] # "idle" => lRunning = "isr"
  /\ stage = "boot" /\ lAt["main"] = "put" => fifo < Depth
  /\ lAt["isr"] = "put" => fifo < Depth
  /\ lAt["main"] = "put" /\ ~filled => fifo < Depth
  /\ "isr" \notin lost

LEMMA LogConstants ==
  /\ Levels \subseteq 0 .. 4 /\ Depth \in Nat \ {0} /\ MsgLen \in Nat \ {0}
  /\ Interval \in Nat /\ Ticks \in Nat \ {0}
BY ResourcesAssumption DEF ResourcesAssumption, Port!LogAssumption

LEMMA LogStarts == Port!Init => LogInv
<1>1. SUFFICES ASSUME Port!Init PROVE LogInv OBVIOUS
<1>2. todo \in Seq({"print", "send"}) BY <1>1 DEF Port!Init
<1>3. Port!TypeOK
  <2>1. /\ lAt \in [Port!Who -> {"idle", "test", "put"}] /\ left \in [Port!Who -> 0 .. MsgLen]
    BY <1>1, LogConstants DEF Port!Init
  <2>2. fifo \in 0 .. Depth /\ sysClkCount \in 0 .. Interval /\ alarm \in 0 .. Ticks
        /\ since \in 0 .. Interval + 1
    BY <1>1, LogConstants DEF Port!Init
  <2> QED BY <1>1, <2>1, <2>2 DEF Port!Init, Port!TypeOK, Port!Who
<1> QED BY <1>1, <1>2, <1>3 DEF Port!Init, LogInv, Port!Who

LEMMA StartsLog ==
  ASSUME LogInv, NEW w \in Port!Who, Port!Starts(w)
  PROVE  /\ lAt' \in [Port!Who -> {"idle", "test", "put"}] /\ left' \in [Port!Who -> 0 .. MsgLen]
         /\ lAt'[w] = "test" /\ left'[w] >= 1
         /\ \A v \in Port!Who \ {w} : lAt'[v] = lAt[v] /\ left'[v] = left[v]
<1>1. lAt \in [Port!Who -> {"idle", "test", "put"}] /\ left \in [Port!Who -> 0 .. MsgLen]
  BY DEF LogInv, Port!TypeOK
<1>2. MsgLen \in 1 .. MsgLen /\ MsgLen \in 0 .. MsgLen BY LogConstants
<1> QED BY <1>1, <1>2 DEF Port!Starts

LEMMA TestLog == ASSUME LogInv, NEW w \in Port!Who, Port!Test(w) PROVE LogInv'
<1>1. lAt \in [Port!Who -> {"idle", "test", "put"}] BY DEF LogInv, Port!TypeOK
<1> QED BY <1>1, LogConstants DEF LogInv, Port!TypeOK, Port!Test, Port!Who, Port!clock

LEMMA PutLog == ASSUME LogInv, NEW w \in Port!Who, Port!Put(w) PROVE LogInv'
<1>0. lAt \in [Port!Who -> {"idle", "test", "put"}] /\ left \in [Port!Who -> 0 .. MsgLen]
      /\ fifo \in 0 .. Depth /\ lost \subseteq Port!Who /\ filled \in BOOLEAN
  BY DEF LogInv, Port!TypeOK
<1>1. left[w] \in 1 .. MsgLen BY <1>0, LogConstants DEF LogInv, Port!Put
<1>2. /\ left' \in [Port!Who -> 0 .. MsgLen] /\ lAt' \in [Port!Who -> {"idle", "test", "put"}]
      /\ left'[w] = left[w] - 1 /\ lAt'[w] = (IF left[w] = 1 THEN "idle" ELSE "test")
      /\ \A v \in Port!Who \ {w} : lAt'[v] = lAt[v] /\ left'[v] = left[v]
  BY <1>0, <1>1, LogConstants DEF Port!Put
<1>3. /\ fifo' \in 0 .. Depth /\ lost' \subseteq Port!Who
      /\ fifo < Depth => lost' = lost
      /\ lost' \subseteq lost \cup {w}
  BY <1>0, LogConstants DEF Port!Put
<1>4. /\ UNCHANGED <<level, stage, lRunning, todo, sysClkCount, alarm, since, late>>
      /\ lRunning = w /\ lAt[w] = "put" /\ filled' = (w = "isr" \/ filled)
  BY DEF Port!Put, Port!clock
<1>5. Port!TypeOK'
  <2>1. filled' \in BOOLEAN BY <1>0, <1>4
  <2> QED BY <1>2, <1>3, <1>4, <2>1 DEF LogInv, Port!TypeOK
<1>6. \A v \in Port!Who : lAt'[v] # "idle" => left'[v] >= 1
  BY <1>1, <1>2, LogConstants DEF LogInv
<1>7. /\ lAt'["isr"] # "put"
      /\ lAt'["main"] = "put" => w = "isr" /\ lAt["main"] = "put"
  BY <1>2, <1>4 DEF LogInv, Port!Who
<1>8. lAt'["main"] = "put" /\ ~filled' => fifo' < Depth BY <1>4, <1>7
<1>9. w = "isr" => fifo < Depth BY <1>4 DEF LogInv
<1>10. stage' = "boot" /\ lAt'["main"] = "put" => fifo' < Depth BY <1>4, <1>7 DEF LogInv
<1> QED BY <1>0, <1>2, <1>3, <1>4, <1>5, <1>6, <1>7, <1>8, <1>9, <1>10 DEF LogInv, Port!Who

LEMMA IfIs == \A b \in BOOLEAN : Port!If(b) \in Seq({"print", "send"})
<1>1. <<"print">> \in Seq({"print", "send"}) /\ <<>> \in Seq({"print", "send"}) OBVIOUS
<1> QED BY <1>1 DEF Port!If

LEMMA MainLog ==
  ASSUME LogInv, Port!Boot \/ Port!SysInit \/ Port!Write PROVE LogInv'
<1>1. /\ lRunning = "main" /\ lAt["main"] = "idle"
      /\ UNCHANGED <<level, lRunning, todo, fifo, lost, filled, sysClkCount, alarm, since, late>>
      /\ Port!Starts("main") \/ UNCHANGED <<lAt, left>>
      /\ stage' \in {stage, "up"}
  BY DEF Port!Boot, Port!SysInit, Port!Write, Port!clock
<1>2. CASE Port!Starts("main")
  <2>1. /\ lAt' \in [Port!Who -> {"idle", "test", "put"}] /\ left' \in [Port!Who -> 0 .. MsgLen]
        /\ lAt'["main"] = "test" /\ left'["main"] >= 1
        /\ \A v \in Port!Who \ {"main"} : lAt'[v] = lAt[v] /\ left'[v] = left[v]
    BY <1>2, StartsLog DEF Port!Who
  <2> QED BY <1>1, <2>1 DEF LogInv, Port!TypeOK, Port!Who
<1>3. CASE UNCHANGED <<lAt, left>>
  BY <1>1, <1>3 DEF LogInv, Port!TypeOK, Port!Who
<1> QED BY <1>1, <1>2, <1>3

LEMMA TimerLog == ASSUME LogInv, Port!TimerIrq PROVE LogInv'
<1>1. /\ lRunning = "main" /\ stage = "up" /\ lRunning' = "isr"
      /\ UNCHANGED <<level, stage, lAt, left, fifo, lost, filled>>
  BY DEF Port!TimerIrq
<1>2. todo' \in Seq({"print", "send"})
  <2>1. todo' = Port!If(Port!Beats) \o Port!If(Port!AlarmOn /\ alarm = 1) BY DEF Port!TimerIrq
  <2>2. Port!Beats \in BOOLEAN /\ (Port!AlarmOn /\ alarm = 1) \in BOOLEAN
    BY DEF Port!Beats, Port!AlarmOn, Port!SysClkOn
  <2>3. Port!If(Port!Beats) \in Seq({"print", "send"})
        /\ Port!If(Port!AlarmOn /\ alarm = 1) \in Seq({"print", "send"})
    BY <2>2, IfIs
  <2> QED BY <2>1, <2>3
<1>3. sysClkCount' \in 0 .. Interval
  BY LogConstants DEF LogInv, Port!TypeOK, Port!TimerIrq, Port!Beat
<1>4. alarm' \in 0 .. Ticks
  BY LogConstants DEF LogInv, Port!TypeOK, Port!TimerIrq, Port!Rearm
<1>5. since' \in 0 .. Interval + 1
  BY LogConstants DEF LogInv, Port!TypeOK, Port!TimerIrq
<1>6. late' \in BOOLEAN
  BY DEF LogInv, Port!TypeOK, Port!TimerIrq, Port!Beats, Port!SysClkOn
<1> QED BY <1>1, <1>2, <1>3, <1>4, <1>5, <1>6 DEF LogInv, Port!TypeOK, Port!Who

LEMMA UartLog == ASSUME LogInv, Port!UartIrq PROVE LogInv'
<1>1. todo' \in Seq({"print", "send"})
  <2>1. todo' = Port!If(Port!IsrOn) \o <<"send">> BY DEF Port!UartIrq
  <2>2. Port!IsrOn \in BOOLEAN BY DEF Port!IsrOn
  <2> QED BY <2>1, <2>2, IfIs
<1> QED BY <1>1 DEF LogInv, Port!TypeOK, Port!Who, Port!UartIrq, Port!clock

LEMMA IsrLog ==
  ASSUME LogInv, Port!Report \/ Port!Send \/ Port!Return \/ Port!HostReads PROVE LogInv'
<1>1. CASE Port!Report
  <2>1. /\ lAt' \in [Port!Who -> {"idle", "test", "put"}] /\ left' \in [Port!Who -> 0 .. MsgLen]
        /\ lAt'["isr"] = "test" /\ left'["isr"] >= 1
        /\ \A v \in Port!Who \ {"isr"} : lAt'[v] = lAt[v] /\ left'[v] = left[v]
    BY <1>1, StartsLog DEF Port!Report, Port!Who
  <2>2. todo' \in Seq({"print", "send"}) BY <1>1 DEF LogInv, Port!Report
  <2> QED BY <1>1, <2>1, <2>2 DEF LogInv, Port!TypeOK, Port!Who, Port!Report, Port!clock
<1>2. CASE Port!Send
  <2>1. todo' \in Seq({"print", "send"}) BY <1>2 DEF LogInv, Port!Send
  <2>2. fifo' \in 0 .. Depth BY <1>2, LogConstants DEF LogInv, Port!TypeOK, Port!Send
  <2> QED BY <1>2, <2>1, <2>2 DEF LogInv, Port!TypeOK, Port!Who, Port!Send, Port!clock
<1>3. CASE Port!Return
  BY <1>3 DEF LogInv, Port!TypeOK, Port!Who, Port!Return, Port!clock
<1>4. CASE Port!HostReads
  BY <1>4, LogConstants DEF LogInv, Port!TypeOK, Port!Who, Port!HostReads, Port!clock
<1> QED BY <1>1, <1>2, <1>3, <1>4

LEMMA LogSteps == LogInv /\ [Port!Next]_Port!vars => LogInv'
<1>1. SUFFICES ASSUME LogInv, [Port!Next]_Port!vars PROVE LogInv' OBVIOUS
<1>2. CASE Port!Isr
  BY <1>1, <1>2, IsrLog, TestLog, PutLog DEF Port!Isr, Port!Who
<1>3. CASE Port!Main \/ Port!Boot \/ Port!Write
  BY <1>1, <1>3, MainLog, TestLog, PutLog DEF Port!Main, Port!Who
<1>4. CASE Port!TimerIrq \/ Port!UartIrq \/ Port!HostReads
  BY <1>1, <1>4, TimerLog, UartLog, IsrLog
<1>5. CASE UNCHANGED Port!vars
  BY <1>1, <1>5 DEF LogInv, Port!TypeOK, Port!Who, Port!vars, Port!clock
<1> QED BY <1>1, <1>2, <1>3, <1>4, <1>5 DEF Port!Next

LEMMA LogSound == LogInv => Port!TypeOK /\ Port!LossNeedsAnInterrupt
BY DEF LogInv, Port!LossNeedsAnInterrupt

-----------------------------------------------------------------------------
(***************************************************************************)
(* The printers' digits.  Words are bytes: a number has up to three digits *)
(* in each base, so that what DigitCount's recursion and Reads' compute    *)
(* is found in a few steps.                                                *)
(***************************************************************************)
Byte  == 0 .. 255
Bases == {8, 10, 16}

\* A division by a base takes a digit off.
LEMMA TakesOneOff ==
  ASSUME NEW b \in Bases, NEW x \in Byte
  PROVE  /\ x \div b \in 0 .. x
         /\ x \div b = 0 <=> x < b
         /\ x \div b < b <=> x < b * b
         /\ x \div b < b * b
<1>1. CASE b = 8 BY <1>1 DEF Byte
<1>2. CASE b = 10 BY <1>2 DEF Byte
<1>3. CASE b = 16 BY <1>3 DEF Byte
<1>. QED BY <1>1, <1>2, <1>3 DEF Bases

Places(v, b) == IF v < b THEN 1 ELSE IF v < b * b THEN 2 ELSE 3

LEMMA Within ==
  \A v \in Int : \A x \in 0 .. v : \A y \in 0 .. x : y \in 0 .. v
OBVIOUS

LEMMA DigitCountIs ==
  ASSUME NEW v \in Byte, NEW b \in Bases
  PROVE  Printer!DigitCount(v, b) = Places(v, b)
<1>. DEFINE fits(f) == f = [x \in 0 .. v |-> IF x \div b = 0 THEN 1 ELSE 1 + f[x \div b]]
            g == [x \in 0 .. v |-> Places(x, b)]
            h == CHOOSE f : fits(f)
<1>0. 0 .. v \subseteq Byte /\ b \in Nat BY DEF Byte, Bases
<1>1. fits(g)
  <2>1. ASSUME NEW x \in 0 .. v
        PROVE  Places(x, b) = IF x \div b = 0 THEN 1 ELSE 1 + g[x \div b]
    <3>1. x \in Byte BY <1>0
    <3>2. x \div b \in 0 .. x BY <3>1, TakesOneOff
    <3>5. x \div b \in 0 .. v
      <4>1. v \in Int BY DEF Byte
      <4>. QED BY <4>1, <3>2, Within
    <3>3. g[x \div b] = Places(x \div b, b) BY <3>5
    <3>4. x \div b \in Int BY <3>2
    <3>6. /\ x \div b = 0 <=> x < b
          /\ x \div b < b <=> x < b * b
          /\ x \div b < b * b
      BY <3>1, TakesOneOff
    <3>. DEFINE y == x \div b
    <3>. HIDE DEF y
    <3>7. Places(x, b) = IF y = 0 THEN 1 ELSE 1 + Places(y, b)
      <4>1. y = 0 => x < b BY <3>6 DEF y
      <4>2. y # 0 => ~(x < b) BY <3>6 DEF y
      <4>3. /\ y < b <=> x < b * b
            /\ y < b * b
            /\ y \in Int
        BY <3>6, <3>4 DEF y
      <4>. QED BY <4>1, <4>2, <4>3 DEF Places
    <3>. QED BY <3>3, <3>7 DEF y
  <2>. QED BY <2>1
<1>2. fits(h) BY <1>1
<1>3. Printer!DigitCount(v, b) = h[v] BY DEF Printer!DigitCount
<1>. HIDE DEF h
<1>4. \A x \in 0 .. v : h[x] = IF x \div b = 0 THEN 1 ELSE 1 + h[x \div b] BY <1>2
<1>. HIDE DEF fits
<1>5. v \in 0 .. v BY DEF Byte
<1>. DEFINE u == v \div b
            t == u \div b
<1>6. u \in 0 .. v /\ u \in Byte BY <1>5, TakesOneOff, <1>0 DEF Byte
<1>7. t \in 0 .. v /\ t \in Byte
  <2>1. t \in 0 .. u BY <1>6, TakesOneOff
  <2>3. v \in Int BY DEF Byte
  <2>2. t \in 0 .. v BY <2>1, <2>3, <1>6, Within
  <2>. QED BY <2>2, <1>0
<1>8. /\ h[v] = IF u = 0 THEN 1 ELSE 1 + h[u]
      /\ h[u] = IF t = 0 THEN 1 ELSE 1 + h[t]
      /\ h[t] = IF t \div b = 0 THEN 1 ELSE 1 + h[t \div b]
  BY <1>4, <1>5, <1>6, <1>7
<1>9. /\ u = 0 <=> v < b
      /\ u < b <=> v < b * b
      /\ u < b * b
  BY TakesOneOff
<1>10. /\ t = 0 <=> u < b
       /\ t < b <=> u < b * b
  BY <1>6, TakesOneOff
<1>11. t \div b = 0 <=> t < b BY <1>7, TakesOneOff
<1>. HIDE DEF u, t
<1>. QED BY <1>3, <1>8, <1>9, <1>10, <1>11 DEF Places

\* The digit at place k of n.
At(v, b, n, k) == (v % b^(n - k + 1)) \div b^(n - k)

LEMMA RowIn8 ==
  ASSUME NEW v \in Byte, NEW n
  PROVE  /\ n = 1 /\ v < 8 => At(v, 8, n, 1) = v /\ v < 8^n
         /\ n = 2 /\ v < 64 => /\ At(v, 8, n, 1) = v \div 8 /\ At(v, 8, n, 2) = v % 8
                              /\ v < 8^n /\ 8^(n - 1) = 8
         /\ n = 3 => /\ At(v, 8, n, 1) = v \div 64 /\ At(v, 8, n, 2) = (v % 64) \div 8
                    /\ At(v, 8, n, 3) = v % 8 /\ v < 8^n /\ 8^(n - 1) = 64
<1>1. CASE n = 1 BY <1>1 DEF At, Byte
<1>2. CASE n = 2 BY <1>2 DEF At, Byte
<1>3. CASE n = 3 BY <1>3 DEF At, Byte
<1>. QED BY <1>1, <1>2, <1>3

LEMMA RowIn10 ==
  ASSUME NEW v \in Byte, NEW n
  PROVE  /\ n = 1 /\ v < 10 => At(v, 10, n, 1) = v /\ v < 10^n
         /\ n = 2 /\ v < 100 => /\ At(v, 10, n, 1) = v \div 10 /\ At(v, 10, n, 2) = v % 10
                              /\ v < 10^n /\ 10^(n - 1) = 10
         /\ n = 3 => /\ At(v, 10, n, 1) = v \div 100 /\ At(v, 10, n, 2) = (v % 100) \div 10
                    /\ At(v, 10, n, 3) = v % 10 /\ v < 10^n /\ 10^(n - 1) = 100
<1>1. CASE n = 1 BY <1>1 DEF At, Byte
<1>2. CASE n = 2 BY <1>2 DEF At, Byte
<1>3. CASE n = 3 BY <1>3 DEF At, Byte
<1>. QED BY <1>1, <1>2, <1>3

LEMMA RowIn16 ==
  ASSUME NEW v \in Byte, NEW n
  PROVE  /\ n = 1 /\ v < 16 => At(v, 16, n, 1) = v /\ v < 16^n
         /\ n = 2 /\ v < 256 => /\ At(v, 16, n, 1) = v \div 16 /\ At(v, 16, n, 2) = v % 16
                              /\ v < 16^n /\ 16^(n - 1) = 16
         /\ n = 3 => /\ At(v, 16, n, 1) = v \div 256 /\ At(v, 16, n, 2) = (v % 256) \div 16
                    /\ At(v, 16, n, 3) = v % 16 /\ v < 16^n /\ 16^(n - 1) = 256
<1>1. CASE n = 1 BY <1>1 DEF At, Byte
<1>2. CASE n = 2 BY <1>2 DEF At, Byte
<1>3. CASE n = 3 BY <1>3 DEF At, Byte
<1>. QED BY <1>1, <1>2, <1>3

LEMMA RowIs ==
  ASSUME NEW v \in Byte, NEW b \in Bases
  PROVE  LET n == Places(v, b) IN
         /\ n \in {1, 2, 3}
         /\ \A k \in 1 .. n : At(v, b, n, k) \in 0 .. b - 1
         /\ n = 1 => At(v, b, n, 1) = v
         /\ n = 2 => At(v, b, n, 1) * b + At(v, b, n, 2) = v
         /\ n = 3 => (At(v, b, n, 1) * b + At(v, b, n, 2)) * b + At(v, b, n, 3) = v
         /\ At(v, b, n, 1) = 0 => v = 0
         /\ v < b^n
         /\ n = 1 \/ b^(n - 1) <= v
<1>0. v \in 0 .. 255 BY DEF Byte
<1>1. CASE b = 8
  <2>. DEFINE n == Places(v, b)
  <2>1. n = IF v < 8 THEN 1 ELSE IF v < 64 THEN 2 ELSE 3 BY <1>1 DEF Places
  <2>. HIDE DEF n
  <2>2. CASE n = 1
    <3>1. v < 8 BY <2>1, <2>2, <1>0
    <3>2. At(v, 8, n, 1) = v /\ v < 8^n BY <3>1, <2>2, RowIn8
    <3>. QED BY <3>1, <3>2, <2>2, <1>1, <1>0 DEF n
  <2>3. CASE n = 2
    <3>1. 8 <= v /\ v < 64 BY <2>1, <2>3, <1>0
    <3>2. /\ At(v, 8, n, 1) = v \div 8 /\ At(v, 8, n, 2) = v % 8
          /\ v < 8^n /\ 8^(n - 1) = 8
      BY <3>1, <2>3, RowIn8
    <3>3. v \div 8 \in 1 .. 8 - 1 /\ v % 8 \in 0 .. 8 - 1 /\ (v \div 8) * 8 + (v % 8) = v
      BY <3>1, <1>0
    <3>. QED BY <3>1, <3>2, <3>3, <2>3, <1>1, <1>0 DEF n
  <2>4. CASE n = 3
    <3>1. 64 <= v BY <2>1, <2>4, <1>0
    <3>2. /\ At(v, 8, n, 1) = v \div 64 /\ At(v, 8, n, 2) = (v % 64) \div 8
          /\ At(v, 8, n, 3) = v % 8 /\ v < 8^n /\ 8^(n - 1) = 64
      BY <2>4, RowIn8
    <3>3. /\ v \div 64 \in 1 .. 8 - 1 /\ (v % 64) \div 8 \in 0 .. 8 - 1
          /\ v % 8 \in 0 .. 8 - 1
          /\ ((v \div 64) * 8 + ((v % 64) \div 8)) * 8 + (v % 8) = v
      BY <3>1, <1>0
    <3>. QED BY <3>1, <3>2, <3>3, <2>4, <1>1, <1>0 DEF n
  <2>. QED BY <2>1, <2>2, <2>3, <2>4
<1>2. CASE b = 10
  <2>. DEFINE n == Places(v, b)
  <2>1. n = IF v < 10 THEN 1 ELSE IF v < 100 THEN 2 ELSE 3 BY <1>2 DEF Places
  <2>. HIDE DEF n
  <2>2. CASE n = 1
    <3>1. v < 10 BY <2>1, <2>2, <1>0
    <3>2. At(v, 10, n, 1) = v /\ v < 10^n BY <3>1, <2>2, RowIn10
    <3>. QED BY <3>1, <3>2, <2>2, <1>2, <1>0 DEF n
  <2>3. CASE n = 2
    <3>1. 10 <= v /\ v < 100 BY <2>1, <2>3, <1>0
    <3>2. /\ At(v, 10, n, 1) = v \div 10 /\ At(v, 10, n, 2) = v % 10
          /\ v < 10^n /\ 10^(n - 1) = 10
      BY <3>1, <2>3, RowIn10
    <3>3. v \div 10 \in 1 .. 10 - 1 /\ v % 10 \in 0 .. 10 - 1 /\ (v \div 10) * 10 + (v % 10) = v
      BY <3>1, <1>0
    <3>. QED BY <3>1, <3>2, <3>3, <2>3, <1>2, <1>0 DEF n
  <2>4. CASE n = 3
    <3>1. 100 <= v BY <2>1, <2>4, <1>0
    <3>2. /\ At(v, 10, n, 1) = v \div 100 /\ At(v, 10, n, 2) = (v % 100) \div 10
          /\ At(v, 10, n, 3) = v % 10 /\ v < 10^n /\ 10^(n - 1) = 100
      BY <2>4, RowIn10
    <3>3. /\ v \div 100 \in 1 .. 10 - 1 /\ (v % 100) \div 10 \in 0 .. 10 - 1
          /\ v % 10 \in 0 .. 10 - 1
          /\ ((v \div 100) * 10 + ((v % 100) \div 10)) * 10 + (v % 10) = v
      BY <3>1, <1>0
    <3>. QED BY <3>1, <3>2, <3>3, <2>4, <1>2, <1>0 DEF n
  <2>. QED BY <2>1, <2>2, <2>3, <2>4
<1>3. CASE b = 16
  <2>. DEFINE n == Places(v, b)
  <2>1. n = IF v < 16 THEN 1 ELSE IF v < 256 THEN 2 ELSE 3 BY <1>3 DEF Places
  <2>. HIDE DEF n
  <2>2. CASE n = 1
    <3>1. v < 16 BY <2>1, <2>2, <1>0
    <3>2. At(v, 16, n, 1) = v /\ v < 16^n BY <3>1, <2>2, RowIn16
    <3>. QED BY <3>1, <3>2, <2>2, <1>3, <1>0 DEF n
  <2>3. CASE n = 2
    <3>1. 16 <= v /\ v < 256 BY <2>1, <2>3, <1>0
    <3>2. /\ At(v, 16, n, 1) = v \div 16 /\ At(v, 16, n, 2) = v % 16
          /\ v < 16^n /\ 16^(n - 1) = 16
      BY <3>1, <2>3, RowIn16
    <3>3. v \div 16 \in 1 .. 16 - 1 /\ v % 16 \in 0 .. 16 - 1 /\ (v \div 16) * 16 + (v % 16) = v
      BY <3>1, <1>0
    <3>. QED BY <3>1, <3>2, <3>3, <2>3, <1>3, <1>0 DEF n
  <2>4. CASE n = 3
    <3>. QED BY <2>1, <2>4, <1>0
  <2>. QED BY <2>1, <2>2, <2>3, <2>4
<1>. QED BY <1>1, <1>2, <1>3 DEF Bases

\* What a glyph is worth as a digit.
Worth(g) == CHOOSE k \in 0 .. 15 : g \in {Printer!Lower[k + 1], Printer!Upper[k + 1]}

LEMMA GlyphsDiffer ==
  \A j, k \in 0 .. 15 :
    /\ Printer!Lower[j + 1] = Printer!Lower[k + 1] => j = k
    /\ Printer!Upper[j + 1] = Printer!Upper[k + 1] => j = k
    /\ Printer!Lower[j + 1] = Printer!Upper[k + 1] => j = k
BY DEF Printer!Lower, Printer!Upper

LEMMA WorthIs ==
  \A k \in 0 .. 15 : Worth(Printer!Lower[k + 1]) = k /\ Worth(Printer!Upper[k + 1]) = k
<1>. TAKE k \in 0 .. 15
<1>1. Worth(Printer!Lower[k + 1]) = k BY GlyphsDiffer DEF Worth
<1>2. Worth(Printer!Upper[k + 1]) = k BY GlyphsDiffer DEF Worth
<1>. QED BY <1>1, <1>2

\* A row of digits reads as the function that takes them in one by one.
TakesIn(p, s, b, m) ==
  /\ Len(s) = m /\ p = [k \in 0 .. m |-> p[k]]
  /\ p[0] = 0 /\ \A k \in 1 .. m : p[k] = p[k - 1] * b + Worth(s[k])

LEMMA ReadsIs ==
  ASSUME NEW s, NEW b, NEW p, NEW m \in Nat, TakesIn(p, s, b, m)
  PROVE  Printer!Reads(s, b) = p[m]
<1>. DEFINE fits(r) == r = [k \in 0 .. Len(s) |-> IF k = 0 THEN 0 ELSE r[k - 1] * b + Worth(s[k])]
            h == CHOOSE r : fits(r)
<1>0. /\ Len(s) = m /\ p = [k \in 0 .. m |-> p[k]]
      /\ p[0] = 0 /\ \A k \in 1 .. m : p[k] = p[k - 1] * b + Worth(s[k])
  BY DEF TakesIn
<1>1. fits(p)
  <2>1. \A k \in 0 .. m : p[k] = IF k = 0 THEN 0 ELSE p[k - 1] * b + Worth(s[k])
    <3>. TAKE k \in 0 .. m
    <3>1. CASE k = 0 BY <3>1, <1>0
    <3>2. CASE k # 0
      <4>1. k \in 1 .. m BY <3>2
      <4>. QED BY <4>1, <3>2, <1>0
    <3>. QED BY <3>1, <3>2
  <2>. QED BY <2>1, <1>0
<1>2. fits(h) BY <1>1
<1>3. Printer!Reads(s, b) = h[Len(s)] BY DEF Printer!Reads, Worth
<1>. HIDE DEF h
<1>4. \A k \in 0 .. m : h[k] = IF k = 0 THEN 0 ELSE h[k - 1] * b + Worth(s[k]) BY <1>2, <1>0
<1>. HIDE DEF fits
<1>. DEFINE Odd == {k \in 0 .. m : h[k] # p[k]}
<1>5. Odd = {}
  <2>1. SUFFICES ASSUME Odd # {} PROVE FALSE OBVIOUS
  <2>2. Odd \in SUBSET Nat OBVIOUS
  <2>. HIDE DEF Odd
  <2>3. PICK k \in Odd : \A j \in Odd : k <= j BY <2>1, <2>2, HasLowest
  <2>4. k \in 0 .. m /\ h[k] # p[k] BY <2>3 DEF Odd
  <2>5. k # 0 BY <2>4, <1>4, <1>0
  <2>6. k - 1 \in 0 .. m /\ k \in 1 .. m BY <2>4, <2>5
  <2>7. k - 1 \notin Odd BY <2>3, <2>6
  <2>8. h[k - 1] = p[k - 1] BY <2>6, <2>7 DEF Odd
  <2>9. h[k] = h[k - 1] * b + Worth(s[k]) BY <2>4, <2>5, <1>4
  <2>. QED BY <2>4, <2>6, <2>8, <2>9, <1>0
<1>. HIDE DEF Odd
<1>6. h[m] = p[m]
  <2>1. m \in 0 .. m OBVIOUS
  <2>. QED BY <2>1, <1>5 DEF Odd
<1>. QED BY <1>3, <1>6, <1>0

RowFrom(s, v, b, n, z) ==
  /\ n = Places(v, b) /\ Len(s) = z + n
  /\ \A k \in 1 .. z : Worth(s[k]) = 0
  /\ \A k \in 1 .. n : Worth(s[z + k]) = At(v, b, n, k)

LEMMA RowReads ==
  ASSUME NEW v \in Byte, NEW b \in Bases, NEW n, NEW z \in Nat, NEW s, RowFrom(s, v, b, n, z)
  PROVE  Printer!Reads(s, b) = v
<1>. DEFINE a1 == At(v, b, n, 1)
            a2 == At(v, b, n, 2)
            a3 == At(v, b, n, 3)
<1>0. /\ n = Places(v, b) /\ Len(s) = z + n
      /\ \A k \in 1 .. z : Worth(s[k]) = 0
      /\ \A k \in 1 .. n : Worth(s[z + k]) = At(v, b, n, k)
  BY DEF RowFrom
<1>1. /\ n \in {1, 2, 3} /\ b \in Int /\ v \in Int
      /\ \A k \in 1 .. n : At(v, b, n, k) \in Int
  <2>1. b \in Int /\ v \in Int BY DEF Byte, Bases
  <2>2. n \in {1, 2, 3} /\ \A k \in 1 .. n : At(v, b, n, k) \in 0 .. b - 1 BY <1>0, RowIs
  <2>3. 0 .. b - 1 \subseteq Int BY <2>1
  <2>. QED BY <2>1, <2>2, <2>3
<1>2. /\ a1 \in Int
      /\ n = 1 => a1 = v
      /\ n = 2 => a1 * b + a2 = v /\ a2 \in Int
      /\ n = 3 => (a1 * b + a2) * b + a3 = v /\ a2 \in Int /\ a3 \in Int
  BY <1>0, <1>1, RowIs
<1>3. /\ Worth(s[z + 1]) = a1
      /\ n >= 2 => Worth(s[z + 2]) = a2
      /\ n = 3 => Worth(s[z + 3]) = a3
  BY <1>0, <1>1
<1>. HIDE DEF a1, a2, a3
<1>. DEFINE m == z + n
            p == [k \in 0 .. m |-> IF k <= z THEN 0 ELSE IF k = m THEN v
                                   ELSE IF k = z + 1 THEN a1 ELSE a1 * b + a2]
<1>4. m \in Nat BY <1>1
<1>5. p[0] = 0 BY <1>4
<1>6. \A k \in 1 .. m : p[k] = p[k - 1] * b + Worth(s[k])
  <2>. TAKE k \in 1 .. m
  <2>1. k - 1 \in 0 .. m /\ k \in 0 .. m BY <1>4
  <2>. DEFINE q == IF k - 1 <= z THEN 0 ELSE IF k = z + 2 THEN a1 ELSE a1 * b + a2
  <2>2. p[k - 1] = q BY <2>1, <1>1
  <2>3. p[k] = IF k <= z THEN 0 ELSE IF k = m THEN v ELSE IF k = z + 1 THEN a1 ELSE a1 * b + a2
    BY <2>1
  <2>4. CASE k <= z
    <3>1. k \in 1 .. z /\ k - 1 <= z BY <2>4
    <3>. QED BY <3>1, <2>2, <2>3, <1>0, <1>1
  <2>5. CASE k = z + 1
    <3>1. q = 0 BY <2>5
    <3>2. p[k] = a1 BY <2>3, <2>5, <1>1, <1>2
    <3>3. Worth(s[k]) = a1 BY <1>3, <2>5
    <3>4. p[k - 1] * b = 0 BY <3>1, <2>2, <1>1
    <3>. QED BY <3>2, <3>3, <3>4, <1>2
  <2>6. CASE k = z + 2
    <3>0. n >= 2 BY <2>6, <1>1
    <3>1. q = a1 BY <2>6
    <3>2. p[k] = a1 * b + a2 BY <2>3, <2>6, <1>1, <1>2, <3>0
    <3>3. Worth(s[k]) = a2 BY <1>3, <2>6, <3>0
    <3>. QED BY <3>1, <3>2, <3>3, <2>2
  <2>7. CASE k = z + 3
    <3>0. n = 3 BY <2>7, <1>1
    <3>1. q = a1 * b + a2 BY <2>7
    <3>2. p[k] = (a1 * b + a2) * b + a3 BY <2>3, <2>7, <1>2, <3>0
    <3>3. Worth(s[k]) = a3 BY <1>3, <2>7, <3>0
    <3>. QED BY <3>1, <3>2, <3>3, <2>2
  <2>8. k <= z \/ k = z + 1 \/ k = z + 2 \/ k = z + 3 BY <1>1
  <2>. QED BY <2>4, <2>5, <2>6, <2>7, <2>8
<1>7. p[m] = v BY <1>1, <1>4
<1>8. p = [k \in 0 .. m |-> p[k]] OBVIOUS
<1>9. Len(s) = m BY <1>0
<1>. HIDE DEF p, m
<1>11. TakesIn(p, s, b, m) BY <1>5, <1>6, <1>8, <1>9 DEF TakesIn
<1>10. Printer!Reads(s, b) = p[m] BY <1>4, <1>11, ReadsIs
<1>. QED BY <1>7, <1>10

LEMMA NeedIn8 ==
  ASSUME NEW v \in Byte, NEW n \in 1 .. 8, 8^n > v, n = 1 \/ 8^(n - 1) <= v
  PROVE  n = Places(v, 8)
<1>0. v \in 0 .. 255 BY DEF Byte
<1>1. CASE n = 1
  <2>1. 8^n = 8 BY <1>1
  <2>. QED BY <2>1, <1>0, <1>1 DEF Places
<1>2. CASE n = 2
  <2>1. 8^n = 64 /\ 8^(n - 1) = 8 BY <1>2
  <2>. QED BY <2>1, <1>0, <1>2 DEF Places
<1>3. CASE n = 3
  <2>1. 8^(n - 1) = 64 BY <1>3
  <2>. QED BY <2>1, <1>0, <1>3 DEF Places
<1>4. CASE n = 4
  <2>1. 8^(n - 1) = 512 BY <1>4
  <2>. QED BY <2>1, <1>0, <1>4
<1>5. CASE n = 5
  <2>1. 8^(n - 1) = 4096 BY <1>5
  <2>. QED BY <2>1, <1>0, <1>5
<1>6. CASE n = 6
  <2>1. 8^(n - 1) = 32768 BY <1>6
  <2>. QED BY <2>1, <1>0, <1>6
<1>7. CASE n = 7
  <2>1. 8^(n - 1) = 262144 BY <1>7
  <2>. QED BY <2>1, <1>0, <1>7
<1>8. CASE n = 8
  <2>1. 8^(n - 1) = 2097152 BY <1>8
  <2>. QED BY <2>1, <1>0, <1>8
<1>. QED BY <1>1, <1>2, <1>3, <1>4, <1>5, <1>6, <1>7, <1>8

LEMMA NeedIn10 ==
  ASSUME NEW v \in Byte, NEW n \in 1 .. 8, 10^n > v, n = 1 \/ 10^(n - 1) <= v
  PROVE  n = Places(v, 10)
<1>0. v \in 0 .. 255 BY DEF Byte
<1>1. CASE n = 1
  <2>1. 10^n = 10 BY <1>1
  <2>. QED BY <2>1, <1>0, <1>1 DEF Places
<1>2. CASE n = 2
  <2>1. 10^n = 100 /\ 10^(n - 1) = 10 BY <1>2
  <2>. QED BY <2>1, <1>0, <1>2 DEF Places
<1>3. CASE n = 3
  <2>1. 10^(n - 1) = 100 BY <1>3
  <2>. QED BY <2>1, <1>0, <1>3 DEF Places
<1>4. CASE n = 4
  <2>1. 10^(n - 1) = 1000 BY <1>4
  <2>. QED BY <2>1, <1>0, <1>4
<1>5. CASE n = 5
  <2>1. 10^(n - 1) = 10000 BY <1>5
  <2>. QED BY <2>1, <1>0, <1>5
<1>6. CASE n = 6
  <2>1. 10^(n - 1) = 100000 BY <1>6
  <2>. QED BY <2>1, <1>0, <1>6
<1>7. CASE n = 7
  <2>1. 10^(n - 1) = 1000000 BY <1>7
  <2>. QED BY <2>1, <1>0, <1>7
<1>8. CASE n = 8
  <2>1. 10^(n - 1) = 10000000 BY <1>8
  <2>. QED BY <2>1, <1>0, <1>8
<1>. QED BY <1>1, <1>2, <1>3, <1>4, <1>5, <1>6, <1>7, <1>8

LEMMA NeedIn16 ==
  ASSUME NEW v \in Byte, NEW n \in 1 .. 8, 16^n > v, n = 1 \/ 16^(n - 1) <= v
  PROVE  n = Places(v, 16)
<1>0. v \in 0 .. 255 BY DEF Byte
<1>1. CASE n = 1
  <2>1. 16^n = 16 BY <1>1
  <2>. QED BY <2>1, <1>0, <1>1 DEF Places
<1>2. CASE n = 2
  <2>1. 16^n = 256 /\ 16^(n - 1) = 16 BY <1>2
  <2>. QED BY <2>1, <1>0, <1>2 DEF Places
<1>3. CASE n = 3
  <2>1. 16^(n - 1) = 256 BY <1>3
  <2>. QED BY <2>1, <1>0, <1>3 DEF Places
<1>4. CASE n = 4
  <2>1. 16^(n - 1) = 4096 BY <1>4
  <2>. QED BY <2>1, <1>0, <1>4
<1>5. CASE n = 5
  <2>1. 16^(n - 1) = 65536 BY <1>5
  <2>. QED BY <2>1, <1>0, <1>5
<1>6. CASE n = 6
  <2>1. 16^(n - 1) = 1048576 BY <1>6
  <2>. QED BY <2>1, <1>0, <1>6
<1>7. CASE n = 7
  <2>1. 16^(n - 1) = 16777216 BY <1>7
  <2>. QED BY <2>1, <1>0, <1>7
<1>8. CASE n = 8
  <2>1. 16^(n - 1) = 268435456 BY <1>8
  <2>. QED BY <2>1, <1>0, <1>8
<1>. QED BY <1>1, <1>2, <1>3, <1>4, <1>5, <1>6, <1>7, <1>8

LEMMA NeedIs ==
  ASSUME NEW v \in Byte, NEW b \in Bases
  PROVE  Places(v, b) = CHOOSE n \in 1 .. 8 : b^n > v /\ (n = 1 \/ b^(n - 1) <= v)
<1>1. Places(v, b) \in 1 .. 8 /\ b^Places(v, b) > v
      /\ (Places(v, b) = 1 \/ b^(Places(v, b) - 1) <= v)
  <2>. DEFINE n == Places(v, b)
  <2>1. n \in {1, 2, 3} /\ v < b^n /\ (n = 1 \/ b^(n - 1) <= v) BY RowIs
  <2>2. b^n > v <=> v < b^n OBVIOUS
  <2>. HIDE DEF n
  <2>. QED BY <2>1, <2>2 DEF n
<1>2. ASSUME NEW n \in 1 .. 8, b^n > v /\ (n = 1 \/ b^(n - 1) <= v)
      PROVE  n = Places(v, b)
  <2>1. CASE b = 8 BY <2>1, <1>2, NeedIn8
  <2>2. CASE b = 10 BY <2>2, <1>2, NeedIn10
  <2>3. CASE b = 16 BY <2>3, <1>2, NeedIn16
  <2>. QED BY <2>1, <2>2, <2>3 DEF Bases
<1>. DEFINE fit(n) == b^n > v /\ (n = 1 \/ b^(n - 1) <= v)
<1>3. fit(Places(v, b)) BY <1>1
<1>4. \A n \in 1 .. 8 : fit(n) => n = Places(v, b) BY <1>2
<1>. HIDE DEF fit
<1>5. Places(v, b) = CHOOSE n \in 1 .. 8 : fit(n) BY <1>1, <1>3, <1>4
<1>. QED BY <1>5 DEF fit

-----------------------------------------------------------------------------
(***************************************************************************)
(* A printed number: p blanks, or p zeros, beside the sign, then digits.   *)
(***************************************************************************)
Glyphs == Printer!Chars \cup Printer!ToSet(Printer!Lower) \cup Printer!ToSet(Printer!Upper)
          \cup {Printer!Blank, "-"}

LEMMA GlyphsAre ==
  /\ Printer!Blank \in Glyphs /\ "-" \in Glyphs /\ "0" \in Glyphs
  /\ \A k \in 0 .. 15 : /\ Printer!Lower[k + 1] \in Glyphs /\ Printer!Upper[k + 1] \in Glyphs
                        /\ Printer!Lower[k + 1] # Printer!Blank /\ Printer!Upper[k + 1] # Printer!Blank
                        /\ Printer!Lower[k + 1] # "-" /\ Printer!Upper[k + 1] # "-"
  /\ Worth("0") = 0
<1>1. DOMAIN Printer!Lower = 1 .. 16 /\ DOMAIN Printer!Upper = 1 .. 16
  BY DEF Printer!Lower, Printer!Upper
<1>2. \A k \in 0 .. 15 : k + 1 \in 1 .. 16 OBVIOUS
<1>3. \A k \in 0 .. 15 : Printer!Lower[k + 1] \in Glyphs /\ Printer!Upper[k + 1] \in Glyphs
  BY <1>1, <1>2 DEF Glyphs, Printer!ToSet
<1>4. \A k \in 0 .. 15 : /\ Printer!Lower[k + 1] # Printer!Blank /\ Printer!Upper[k + 1] # Printer!Blank
                         /\ Printer!Lower[k + 1] # "-" /\ Printer!Upper[k + 1] # "-"
  <2>. TAKE k \in 0 .. 15
  <2>5. /\ Printer!Lower[k + 1] \in {"0", "1", "2", "3", "4", "5", "6", "7", "8", "9",
                                      "a", "b", "c", "d", "e", "f"}
        /\ Printer!Upper[k + 1] \in {"0", "1", "2", "3", "4", "5", "6", "7", "8", "9",
                                      "A", "B", "C", "D", "E", "F"}
    BY DEF Printer!Lower, Printer!Upper
  <2>1. Printer!Lower[k + 1] # Printer!Blank BY <2>5, Zenon DEF Printer!Blank
  <2>2. Printer!Upper[k + 1] # Printer!Blank BY <2>5, Zenon DEF Printer!Blank
  <2>3. Printer!Lower[k + 1] # "-" BY DEF Printer!Lower
  <2>4. Printer!Upper[k + 1] # "-" BY DEF Printer!Upper
  <2>. QED BY <2>1, <2>2, <2>3, <2>4
<1>5. Printer!Lower[1] = "0" BY DEF Printer!Lower
<1>6. Worth("0") = 0
  <2>1. 0 \in 0 .. 15 /\ 0 + 1 = 1 OBVIOUS
  <2>. QED BY <2>1, <1>5, WorthIs
<1>7. Printer!Blank \in Glyphs /\ "-" \in Glyphs BY DEF Glyphs
<1>8. "0" \in Glyphs BY DEF Glyphs, Printer!Chars
<1>. QED BY <1>3, <1>4, <1>6, <1>7, <1>8

\* The text o of the number v in base b, s signs, p characters before it.
Printed(o, v, b, s, p, zeros) ==
  LET n      == Places(v, b)
      blanks == IF zeros THEN 0 ELSE p
  IN /\ o \in Seq(Glyphs) /\ Len(o) = p + s + n
     /\ \A k \in 1 .. blanks : o[k] = Printer!Blank
     /\ s = 1 => o[blanks + 1] = "-"
     /\ \A k \in 1 .. p - blanks : o[blanks + s + k] = "0"
     /\ \A k \in 1 .. n : o[p + s + k] \in {Printer!Lower[At(v, b, n, k) + 1],
                                            Printer!Upper[At(v, b, n, k) + 1]}

LEMMA FillIs ==
  ASSUME NEW c \in Glyphs, NEW r \in Int
  PROVE  /\ Printer!alt_log_repchar(c, r) \in Seq(Glyphs)
         /\ Len(Printer!alt_log_repchar(c, r)) = IF r < 0 THEN 0 ELSE r
         /\ \A k \in 1 .. r : Printer!alt_log_repchar(c, r)[k] = c
<1>. DEFINE p == IF r < 0 THEN 0 ELSE r
<1>1. 1 .. r = 1 .. p /\ p \in Nat OBVIOUS
<1>2. Printer!alt_log_repchar(c, r) = [k \in 1 .. p |-> c] BY <1>1 DEF Printer!alt_log_repchar
<1>. QED BY <1>1, <1>2

LEMMA DigitsAre ==
  ASSUME NEW v \in Byte, NEW b \in Bases, NEW g, g \in {Printer!Lower, Printer!Upper},
         NEW n, n = Places(v, b)
  PROVE  LET o == Printer!Digits(v, b, g)
         IN  /\ o \in Seq(Glyphs) /\ Len(o) = n
             /\ \A k \in 1 .. n : o[k] = g[At(v, b, n, k) + 1]
<1>0. n \in {1, 2, 3} /\ \A k \in 1 .. n : At(v, b, n, k) \in 0 .. b - 1 BY RowIs
<1>1. Printer!Digits(v, b, g) = [k \in 1 .. n |-> g[At(v, b, n, k) + 1]]
  <2>1. Printer!DigitCount(v, b) = n BY DigitCountIs
  <2>. QED BY <2>1 DEF Printer!Digits, At
<1>2. 0 .. b - 1 \subseteq 0 .. 15
  <2>1. CASE b = 8 BY <2>1
  <2>2. CASE b = 10 BY <2>2
  <2>3. CASE b = 16 BY <2>3
  <2>. QED BY <2>1, <2>2, <2>3 DEF Bases
<1>3. \A k \in 1 .. n : g[At(v, b, n, k) + 1] \in Glyphs
  BY <1>0, <1>2, GlyphsAre
<1>4. n \in Nat BY <1>0
<1>5. [k \in 1 .. n |-> g[At(v, b, n, k) + 1]] \in Seq(Glyphs) BY <1>3, <1>4
<1>. QED BY <1>1, <1>4, <1>5

LEMMA Joined ==
  ASSUME NEW e \in Seq(Glyphs), NEW f \in Seq(Glyphs)
  PROVE  /\ e \o f \in Seq(Glyphs) /\ Len(e \o f) = Len(e) + Len(f)
         /\ \A k \in 1 .. Len(e) : (e \o f)[k] = e[k]
         /\ \A k \in 1 .. Len(f) : (e \o f)[Len(e) + k] = f[k]
<1>1. Len(e) \in Nat /\ Len(f) \in Nat OBVIOUS
<1>2. /\ e \o f \in Seq(Glyphs) /\ Len(e \o f) = Len(e) + Len(f)
      /\ \A k \in 1 .. Len(e) + Len(f) : (e \o f)[k] = IF k <= Len(e) THEN e[k] ELSE f[k - Len(e)]
  BY ConcatProperties
<1>. QED BY <1>1, <1>2

LEMMA IntegerIsPrinted ==
  ASSUME NEW x \in Byte, NEW b \in Bases, NEW signed \in BOOLEAN, NEW upper \in BOOLEAN,
         fmtLeadingZero \in BOOLEAN, fmtBeforeDecimal \in Int,
         NEW v, v = IF signed /\ x >= 128 THEN 256 - x ELSE x,
         NEW s, s = IF signed /\ x >= 128 THEN 1 ELSE 0,
         NEW p, p = IF fmtBeforeDecimal - Places(v, b) - s < 0 THEN 0
                    ELSE fmtBeforeDecimal - Places(v, b) - s
  PROVE  Printed(Printer!Integer(x, b, signed, upper), v, b, s, p, fmtLeadingZero)
<1>. DEFINE g == IF upper THEN Printer!Upper ELSE Printer!Lower
            n == Places(v, b)
            digits == Printer!Digits(v, b, g)
            sign == IF s = 1 THEN <<"-">> ELSE <<>>
            r == fmtBeforeDecimal - n - s
            zeros == Printer!alt_log_repchar("0", r)
            blanks == Printer!alt_log_repchar(Printer!Blank, r)
            o == Printer!Integer(x, b, signed, upper)
<1>1. v \in Byte /\ s \in {0, 1} BY DEF Byte
<1>2. n \in {1, 2, 3} /\ \A k \in 1 .. n : At(v, b, n, k) \in 0 .. b - 1 BY <1>1, RowIs
<1>3. /\ digits \in Seq(Glyphs) /\ Len(digits) = n
      /\ \A k \in 1 .. n : digits[k] = g[At(v, b, n, k) + 1]
  BY <1>1, DigitsAre
<1>4. sign \in Seq(Glyphs) /\ Len(sign) = s /\ (s = 1 => sign[1] = "-")
  BY <1>1, GlyphsAre
<1>5. r \in Int /\ p = (IF r < 0 THEN 0 ELSE r) /\ p \in Nat BY <1>1, <1>2
<1>6. /\ zeros \in Seq(Glyphs) /\ Len(zeros) = p /\ (\A k \in 1 .. p : zeros[k] = "0")
      /\ blanks \in Seq(Glyphs) /\ Len(blanks) = p
      /\ \A k \in 1 .. p : blanks[k] = Printer!Blank
  <2>1. 1 .. p = 1 .. r BY <1>5
  <2>. HIDE DEF r
  <2>2. /\ zeros \in Seq(Glyphs) /\ Len(zeros) = (IF r < 0 THEN 0 ELSE r)
        /\ \A k \in 1 .. r : zeros[k] = "0"
    BY <1>5, FillIs, GlyphsAre
  <2>3. /\ blanks \in Seq(Glyphs) /\ Len(blanks) = (IF r < 0 THEN 0 ELSE r)
        /\ \A k \in 1 .. r : blanks[k] = Printer!Blank
    BY <1>5, FillIs, GlyphsAre
  <2>. HIDE DEF zeros, blanks
  <2>. QED BY <2>1, <2>2, <2>3, <1>5
<1>7. o = IF fmtLeadingZero THEN (sign \o zeros) \o digits ELSE (blanks \o sign) \o digits
  <2>1. 2^(8 - 1) = 128 /\ 2^8 = 256 OBVIOUS
  <2>2. /\ (signed /\ x >= 2^(8 - 1)) <=> s = 1
        /\ v = IF signed /\ x >= 2^(8 - 1) THEN 2^8 - x ELSE x
    BY <2>1 DEF Byte
  <2>3. DEFINE neg == signed /\ x >= 2^(8 - 1)
  <2>4. /\ digits = Printer!Digits(IF neg THEN 2^8 - x ELSE x, b, g)
        /\ sign = IF neg THEN <<"-">> ELSE <<>>
    BY <2>2
  <2>5. r = fmtBeforeDecimal - Len(digits) - Len(sign) BY <1>3, <1>4
  <2>. HIDE DEF digits, sign
  <2>. QED BY <2>4, <2>5 DEF Printer!Integer
<1>. HIDE DEF digits, sign, zeros, blanks, o, g, n, r
<1>8. \A k \in 1 .. n : digits[k] \in {Printer!Lower[At(v, b, n, k) + 1], Printer!Upper[At(v, b, n, k) + 1]}
  BY <1>3 DEF g
<1>0. s \in Nat /\ p \in Nat /\ n \in Nat BY <1>1, <1>2, <1>5
<1>9. CASE fmtLeadingZero
  <2>1. o = (sign \o zeros) \o digits BY <1>7, <1>9
  <2>. DEFINE h == sign \o zeros
  <2>2. /\ h \in Seq(Glyphs) /\ Len(h) = s + p
        /\ \A k \in 1 .. s : h[k] = sign[k]
        /\ \A k \in 1 .. p : h[s + k] = zeros[k]
    <3>1. /\ h \in Seq(Glyphs) /\ Len(h) = Len(sign) + Len(zeros)
          /\ \A k \in 1 .. Len(sign) : h[k] = sign[k]
          /\ \A k \in 1 .. Len(zeros) : h[Len(sign) + k] = zeros[k]
      BY <1>4, <1>6, Joined
    <3>. HIDE DEF h
    <3>. QED BY <3>1, <1>4, <1>6
  <2>3. /\ o \in Seq(Glyphs) /\ Len(o) = (s + p) + n
        /\ \A k \in 1 .. s + p : o[k] = h[k]
        /\ \A k \in 1 .. n : o[(s + p) + k] = digits[k]
    <3>. HIDE DEF h
    <3>1. /\ h \o digits \in Seq(Glyphs) /\ Len(h \o digits) = Len(h) + Len(digits)
          /\ \A k \in 1 .. Len(h) : (h \o digits)[k] = h[k]
          /\ \A k \in 1 .. Len(digits) : (h \o digits)[Len(h) + k] = digits[k]
      BY <2>2, <1>3, Joined
    <3>2. o = h \o digits BY <2>1 DEF h
    <3>. QED BY <3>1, <3>2, <2>2, <1>3
  <2>. HIDE DEF h
  <2>4. s = 1 => o[1] = "-"
    <3>1. SUFFICES ASSUME s = 1 PROVE o[1] = "-" OBVIOUS
    <3>2. 1 \in 1 .. s /\ 1 \in 1 .. s + p BY <3>1, <1>0
    <3>3. o[1] = h[1] /\ h[1] = sign[1] BY <3>2, <2>2, <2>3
    <3>. QED BY <3>1, <3>3, <1>4
  <2>5. \A k \in 1 .. p : o[s + k] = "0"
    <3>. TAKE k \in 1 .. p
    <3>1. s + k \in 1 .. s + p BY <1>0
    <3>. QED BY <3>1, <2>2, <2>3, <1>6
  <2>6. \A k \in 1 .. n : o[p + s + k] = digits[k]
    <3>1. s + p = p + s BY <1>0
    <3>. QED BY <3>1, <2>3
  <2>7. /\ p - 0 = p /\ 0 + s = s /\ 0 + 1 = 1 /\ (s + p) + n = p + s + n
        /\ \A k \in 1 .. 0 : o[k] = Printer!Blank
    BY <1>0
  <2>8. \A k \in 1 .. p - 0 : o[0 + s + k] = "0" BY <2>5, <2>7
  <2>9. s = 1 => o[0 + 1] = "-" BY <2>4
  <2>10. \A k \in 1 .. n : o[p + s + k] \in {Printer!Lower[At(v, b, n, k) + 1], Printer!Upper[At(v, b, n, k) + 1]}
    BY <2>6, <1>8
  <2>. QED BY <2>3, <2>7, <2>8, <2>9, <2>10, <1>9 DEF Printed, o, n
<1>10. CASE ~fmtLeadingZero
  <2>1. o = (blanks \o sign) \o digits BY <1>7, <1>10
  <2>. DEFINE h == blanks \o sign
  <2>2. /\ h \in Seq(Glyphs) /\ Len(h) = p + s
        /\ \A k \in 1 .. p : h[k] = blanks[k]
        /\ \A k \in 1 .. s : h[p + k] = sign[k]
    <3>1. /\ h \in Seq(Glyphs) /\ Len(h) = Len(blanks) + Len(sign)
          /\ \A k \in 1 .. Len(blanks) : h[k] = blanks[k]
          /\ \A k \in 1 .. Len(sign) : h[Len(blanks) + k] = sign[k]
      BY <1>4, <1>6, Joined
    <3>. HIDE DEF h
    <3>. QED BY <3>1, <1>4, <1>6
  <2>3. /\ o \in Seq(Glyphs) /\ Len(o) = (p + s) + n
        /\ \A k \in 1 .. p + s : o[k] = h[k]
        /\ \A k \in 1 .. n : o[(p + s) + k] = digits[k]
    <3>. HIDE DEF h
    <3>1. /\ h \o digits \in Seq(Glyphs) /\ Len(h \o digits) = Len(h) + Len(digits)
          /\ \A k \in 1 .. Len(h) : (h \o digits)[k] = h[k]
          /\ \A k \in 1 .. Len(digits) : (h \o digits)[Len(h) + k] = digits[k]
      BY <2>2, <1>3, Joined
    <3>2. o = h \o digits BY <2>1 DEF h
    <3>. QED BY <3>1, <3>2, <2>2, <1>3
  <2>. HIDE DEF h
  <2>4. s = 1 => o[p + 1] = "-"
    <3>1. SUFFICES ASSUME s = 1 PROVE o[p + 1] = "-" OBVIOUS
    <3>2. 1 \in 1 .. s /\ p + 1 \in 1 .. p + s BY <3>1, <1>0
    <3>3. o[p + 1] = h[p + 1] BY <3>2, <2>3
    <3>4. h[p + 1] = sign[1] BY <3>2, <2>2
    <3>. QED BY <3>1, <3>3, <3>4, <1>4
  <2>5. \A k \in 1 .. p : o[k] = Printer!Blank
    <3>. TAKE k \in 1 .. p
    <3>1. k \in 1 .. p + s BY <1>0
    <3>. QED BY <3>1, <2>2, <2>3, <1>6
  <2>7. \A k \in 1 .. p - p : o[p + s + k] = "0" BY <1>0
  <2>10. \A k \in 1 .. n : o[p + s + k] \in {Printer!Lower[At(v, b, n, k) + 1], Printer!Upper[At(v, b, n, k) + 1]}
    BY <2>3, <1>8
  <2>. QED BY <2>3, <2>4, <2>5, <2>7, <2>10, <1>10 DEF Printed, o, n
<1>. QED BY <1>9, <1>10

\* alt_log_printf and alt_printf print the same number in hexadecimal.
LEMMA HexIsDigits ==
  ASSUME NEW v \in Byte PROVE Printer!Hex(v) = Printer!Digits(v, 16, Printer!Lower)
<1>. DEFINE n == Places(v, 16)
            nibble(k) == (v \div 16^k) % 16
            tops == {k \in 0 .. (8 \div 4) - 1 : nibble(k) # 0}
            top == CHOOSE k \in tops : \A j \in tops : j <= k
<1>0. v \in 0 .. 255 /\ 16 \in Bases BY DEF Byte, Bases
<1>1. Printer!Digits(v, 16, Printer!Lower) = [k \in 1 .. n |-> Printer!Lower[At(v, 16, n, k) + 1]]
  <2>1. Printer!DigitCount(v, 16) = n BY <1>0, DigitCountIs
  <2>. QED BY <2>1 DEF Printer!Digits, At
<1>2. Printer!Hex(v) = IF v = 0 THEN <<"0">>
                       ELSE [j \in 1 .. top + 1 |-> Printer!Lower[nibble(top + 1 - j) + 1]]
  BY DEF Printer!Hex
<1>3. nibble(0) = v % 16 /\ nibble(1) = (v \div 16) % 16 /\ 0 .. (8 \div 4) - 1 = {0, 1}
  <2>1. 16^0 = 1 /\ 16^1 = 16 /\ (8 \div 4) - 1 = 1 OBVIOUS
  <2>. QED BY <2>1, <1>0
<1>4. /\ n = 1 => At(v, 16, n, 1) = v
      /\ n = 2 => At(v, 16, n, 1) = v \div 16 /\ At(v, 16, n, 2) = v % 16
  <2>1. n = 1 => v < 16 BY <1>0 DEF Places
  <2>2. n = 2 => v < 256 BY <1>0
  <2>. HIDE DEF n
  <2>. QED BY <2>1, <2>2, RowIn16
<1>5. CASE v = 0
  <2>1. n = 1 BY <1>5 DEF Places
  <2>2. Printer!Lower[0 + 1] = "0" BY DEF Printer!Lower
  <2>. HIDE DEF n
  <2>3. [k \in 1 .. n |-> Printer!Lower[At(v, 16, n, k) + 1]] = <<"0">> BY <2>1, <2>2, <1>4, <1>5
  <2>. QED BY <2>3, <1>1, <1>2, <1>5
<1>6. CASE v # 0 /\ v < 16
  <2>1. n = 1 BY <1>6 DEF Places
  <2>2. nibble(0) = v /\ nibble(1) = 0 BY <1>0, <1>3, <1>6
  <2>. HIDE DEF nibble, n
  <2>3. tops = {0} BY <2>2, <1>3, <1>6
  <2>. HIDE DEF tops
  <2>4. top = 0 BY <2>3
  <2>. HIDE DEF top
  <2>5. [j \in 1 .. top + 1 |-> Printer!Lower[nibble(top + 1 - j) + 1]]
        = [k \in 1 .. n |-> Printer!Lower[At(v, 16, n, k) + 1]]
    <3>1. 1 .. top + 1 = {1} /\ 1 .. n = {1} /\ top + 1 - 1 = 0 BY <2>4, <2>1
    <3>. QED BY <3>1, <2>1, <2>2, <1>4
  <2>. QED BY <2>5, <1>1, <1>2, <1>6
<1>7. CASE 16 <= v
  <2>1. n = 2 BY <1>0, <1>7 DEF Places
  <2>2. nibble(0) = v % 16 /\ nibble(1) = v \div 16 /\ nibble(1) # 0 BY <1>0, <1>3, <1>7
  <2>. HIDE DEF nibble, n
  <2>3. 1 \in tops /\ tops \subseteq {0, 1} BY <2>2, <1>3
  <2>. HIDE DEF tops
  <2>4. top = 1
    <3>1. \A j \in tops : j <= 1 BY <2>3
    <3>2. \A k \in tops : (\A j \in tops : j <= k) => k = 1
      BY <2>3
    <3>. QED BY <3>1, <3>2, <2>3
  <2>. HIDE DEF top
  <2>5. [j \in 1 .. top + 1 |-> Printer!Lower[nibble(top + 1 - j) + 1]]
        = [k \in 1 .. n |-> Printer!Lower[At(v, 16, n, k) + 1]]
    <3>1. 1 .. top + 1 = {1, 2} /\ 1 .. n = {1, 2} /\ top + 1 - 1 = 1 /\ top + 1 - 2 = 0 BY <2>4, <2>1
    <3>. QED BY <3>1, <2>1, <2>2, <1>4
  <2>6. v # 0 BY <1>7
  <2>. QED BY <2>5, <2>6, <1>1, <1>2
<1>. QED BY <1>5, <1>6, <1>7, <1>0

-----------------------------------------------------------------------------
\* What a text made of blanks, a sign, zeros and digits reads as.
Blanks(zeros, p) == IF zeros THEN 0 ELSE p

\* Its blanks, its sign, its length and its value.
Legible(o, v, b, s, p, q) ==
  /\ Printer!Cardinality({k \in DOMAIN o : o[k] = Printer!Blank}) = q
  /\ \A k \in 1 .. q : o[k] = Printer!Blank
  /\ s = 1 => o[q + s] = "-"
  /\ Len(o) = p + s + Places(v, b)
  /\ Len(SubSeq(o, (q + s) + 1, Len(o))) = (p - q) + Places(v, b)
  /\ Printer!Reads(SubSeq(o, (q + s) + 1, Len(o)), b) = v

LEMMA PrintedReads ==
  ASSUME NEW o, NEW v \in Byte, NEW b \in Bases, NEW s \in {0, 1}, NEW p \in Nat,
         NEW zeros \in BOOLEAN, Printed(o, v, b, s, p, zeros)
  PROVE  Legible(o, v, b, s, p, Blanks(zeros, p))
<1>. DEFINE n == Places(v, b)
            q == Blanks(zeros, p)
            d == SubSeq(o, (q + s) + 1, Len(o))
            m == p - q
            glyph(k) == {Printer!Lower[At(v, b, n, k) + 1], Printer!Upper[At(v, b, n, k) + 1]}
<1>1. n \in {1, 2, 3} /\ \A k \in 1 .. n : At(v, b, n, k) \in 0 .. b - 1 BY RowIs
<1>2. 0 .. b - 1 \subseteq 0 .. 15
  <2>1. CASE b = 8 BY <2>1
  <2>2. CASE b = 10 BY <2>2
  <2>3. CASE b = 16 BY <2>3
  <2>. QED BY <2>1, <2>2, <2>3 DEF Bases
<1>q. q = IF zeros THEN 0 ELSE p BY DEF Blanks
<1>. HIDE DEF q
<1>3. /\ o \in Seq(Glyphs) /\ Len(o) = p + s + n
      /\ \A k \in 1 .. q : o[k] = Printer!Blank
      /\ s = 1 => o[q + 1] = "-"
      /\ \A k \in 1 .. m : o[q + s + k] = "0"
      /\ \A k \in 1 .. n : o[p + s + k] \in glyph(k)
  BY <1>q DEF Printed
<1>4. q \in Nat /\ m \in Nat /\ q + m = p BY <1>q
<1>. HIDE DEF n, m
<1>5. /\ "0" # Printer!Blank /\ "-" # Printer!Blank /\ Worth("0") = 0
      /\ \A k \in 1 .. n : \A e \in glyph(k) : e # Printer!Blank /\ Worth(e) = At(v, b, n, k)
  <2>1. "0" # Printer!Blank BY Zenon DEF Printer!Blank
  <2>2. "-" # Printer!Blank BY Zenon DEF Printer!Blank
  <2>3. \A k \in 1 .. n : At(v, b, n, k) \in 0 .. 15 BY <1>1, <1>2
  <2>. QED BY <2>1, <2>2, <2>3, GlyphsAre, WorthIs
<1>. HIDE DEF glyph
<1>6. {k \in DOMAIN o : o[k] = Printer!Blank} = 1 .. q
  <2>1. ASSUME NEW k \in 1 .. Len(o), k > q PROVE o[k] # Printer!Blank
    <3>1. CASE k <= q + s
      <4>1. s = 1 /\ k = q + 1 BY <3>1, <2>1, <1>4
      <4>. QED BY <4>1, <1>3, <1>5
    <3>2. CASE k > q + s /\ k <= q + s + m
      <4>1. k - (q + s) \in 1 .. m /\ q + s + (k - (q + s)) = k BY <3>2, <2>1, <1>4, <1>3, <1>1
      <4>. QED BY <4>1, <1>3, <1>5
    <3>3. CASE k > q + s + m
      <4>1. k - (p + s) \in 1 .. n /\ p + s + (k - (p + s)) = k BY <3>3, <2>1, <1>4, <1>3, <1>1
      <4>2. o[k] \in glyph(k - (p + s)) BY <4>1, <1>3
      <4>. QED BY <4>1, <4>2, <1>5
    <3>4. k \in Int /\ q + s \in Int /\ q + s + m \in Int BY <1>4
    <3>. QED BY <3>1, <3>2, <3>3, <3>4
  <2>2. DOMAIN o = 1 .. Len(o) /\ Len(o) \in Nat BY <1>3
  <2>3. 1 .. q \subseteq 1 .. Len(o) BY <1>1, <1>3, <1>4
  <2>4. \A k \in 1 .. Len(o) : k > q <=> k \notin 1 .. q BY <1>4
  <2>. QED BY <2>1, <2>2, <2>3, <2>4, <1>3
<1>7. Printer!Cardinality({k \in DOMAIN o : o[k] = Printer!Blank}) = q
  <2>1. Cardinality(1 .. q) = q
    <3>1. 1 \in Int /\ q \in Int BY <1>4
    <3>2. Cardinality(1 .. q) = IF 1 > q THEN 0 ELSE q - 1 + 1 BY <3>1, FS_Interval
    <3>. QED BY <3>2, <1>4
  <2>. QED BY <2>1, <1>6, SameCount
<1>8. /\ Len(d) = m + n
      /\ \A k \in 1 .. m + n : d[k] = o[(q + s) + k]
  <2>1. (q + s) + 1 \in Int /\ Len(o) \in Int /\ Len(o) - ((q + s) + 1) + 1 = m + n /\ (q + s) + 1 <= Len(o)
    BY <1>1, <1>3, <1>4
  <2>2. \A k \in (q + s) + 1 .. Len(o) : k \in 1 .. Len(o) /\ o[k] \in Glyphs
    BY <1>3, <1>4
  <2>3. /\ Len(d) = (IF (q + s) + 1 <= Len(o) THEN Len(o) - ((q + s) + 1) + 1 ELSE 0)
        /\ \A i \in 1 .. Len(o) - ((q + s) + 1) + 1 : d[i] = o[(q + s) + 1 + i - 1]
    BY <2>1, <2>2, SubSeqProperties
  <2>4. \A i \in 1 .. m + n : (q + s) + 1 + i - 1 = (q + s) + i BY <1>4
  <2>. QED BY <2>1, <2>3, <2>4
<1>. HIDE DEF d
<1>9. \A k \in 1 .. m : Worth(d[k]) = 0
  <2>. TAKE k \in 1 .. m
  <2>1. k \in 1 .. m + n BY <1>1, <1>4
  <2>2. d[k] = "0" BY <2>1, <1>8, <1>3
  <2>. QED BY <2>2, <1>5
<1>10. \A k \in 1 .. n : Worth(d[m + k]) = At(v, b, n, k)
  <2>. TAKE k \in 1 .. n
  <2>1. m + k \in 1 .. m + n /\ (q + s) + (m + k) = p + s + k BY <1>1, <1>4
  <2>2. d[m + k] \in glyph(k) BY <2>1, <1>8, <1>3
  <2>. QED BY <2>2, <1>5
<1>11. Printer!Reads(d, b) = v
  <2>1. n = Places(v, b) BY DEF n
  <2>2. RowFrom(d, v, b, n, m) BY <2>1, <1>8, <1>9, <1>10 DEF RowFrom
  <2>. QED BY <2>2, <1>4, RowReads
<1>. QED BY <1>3, <1>7, <1>8, <1>11 DEF n, m, d, q, Legible

-----------------------------------------------------------------------------
(***************************************************************************)
(* The printers.  Between formats both are between conversions, and a      *)
(* format both understand brings neither a width nor a leading zero        *)
(* (Together); a number just printed is doIntegerPrint's (Numbers).        *)
(***************************************************************************)
PTypes ==
  /\ state \in {"chars", "first", "other"} /\ inFormat \in BOOLEAN /\ common \in BOOLEAN
  /\ fmtLeadingZero \in BOOLEAN /\ fmtSigned \in BOOLEAN /\ afterDot \in BOOLEAN
  /\ fmtBase \in Bases /\ fmtCase \in BOOLEAN /\ (fmtCase => fmtBase = 16)
  /\ fmtBeforeDecimal \in -1 .. MaxWidth /\ arg \in Values \cup {0}
  /\ did \in {"none", "plain", "int", "char", "str"}
  /\ out \in Seq(Glyphs) /\ altOut \in Seq(Glyphs)

Fresh == state # "chars" => fmtBase = 10 /\ fmtSigned /\ ~fmtCase

Numbers == did = "int" => out = Printer!Integer(arg, fmtBase, fmtSigned, fmtCase)

Together ==
  common => /\ state \in {"chars", "first"} /\ (inFormat <=> state = "first")
            /\ state = "first" => ~fmtLeadingZero /\ fmtBeforeDecimal = -1
            /\ out = altOut

PrintInv == PTypes /\ Fresh /\ Numbers /\ Together

LEMMA PrintConstants == Values \subseteq Byte /\ MaxWidth \in Nat
<1>1. 2^8 - 1 = 255 OBVIOUS
<1>. QED BY <1>1, ResourcesAssumption DEF ResourcesAssumption, Printer!PrintfAssumption, Byte

LEMMA PrintStarts == Printer!Init => PrintInv
<1>1. SUFFICES ASSUME Printer!Init PROVE PrintInv OBVIOUS
<1>2. out \in Seq(Glyphs) /\ altOut \in Seq(Glyphs) /\ out = altOut BY <1>1 DEF Printer!Init
<1>3. fmtBeforeDecimal \in -1 .. MaxWidth BY <1>1, PrintConstants DEF Printer!Init
<1>. QED BY <1>1, <1>2, <1>3
     DEF Printer!Init, PrintInv, PTypes, Fresh, Numbers, Together, Bases

LEMMA StrIs ==
  ASSUME NEW v \in Byte
  PROVE  Printer!Str(v) \in Seq(Glyphs) /\ Len(Printer!Str(v)) \in Nat
<1>1. v % 3 \in Nat BY DEF Byte
<1>2. "s" \in Glyphs BY DEF Glyphs, Printer!Chars
<1>. QED BY <1>1, <1>2 DEF Printer!Str

LEMMA HexTyped == ASSUME NEW v \in Byte PROVE Printer!Hex(v) \in Seq(Glyphs)
<1>1. 16 \in Bases BY DEF Bases
<1>. QED BY <1>1, HexIsDigits, DigitsAre

LEMMA IntegerTyped ==
  ASSUME PTypes, NEW x \in Byte, NEW b \in Bases, NEW signed \in BOOLEAN, NEW upper \in BOOLEAN
  PROVE  Printer!Integer(x, b, signed, upper) \in Seq(Glyphs)
<1>. DEFINE v == IF signed /\ x >= 128 THEN 256 - x ELSE x
            s == IF signed /\ x >= 128 THEN 1 ELSE 0
            r == fmtBeforeDecimal - Places(v, b) - s
            p == IF r < 0 THEN 0 ELSE r
<1>1. fmtLeadingZero \in BOOLEAN /\ fmtBeforeDecimal \in Int BY PrintConstants DEF PTypes
<1>2. Printed(Printer!Integer(x, b, signed, upper), v, b, s, p, fmtLeadingZero)
  BY <1>1, IntegerIsPrinted
<1>. QED BY <1>2 DEF Printed

\* Blanks before a text.
LEMMA PaddedTyped ==
  ASSUME NEW r \in Int, NEW t \in Seq(Glyphs)
  PROVE  /\ Printer!alt_log_repchar(Printer!Blank, r) \o t \in Seq(Glyphs)
         /\ r <= 0 => Printer!alt_log_repchar(Printer!Blank, r) \o t = t
<1>1. Printer!alt_log_repchar(Printer!Blank, r) \in Seq(Glyphs) BY FillIs, GlyphsAre
<1>2. r <= 0 => Printer!alt_log_repchar(Printer!Blank, r) = <<>>
  <2>1. r <= 0 => 1 .. r = {} OBVIOUS
  <2>. QED BY <2>1 DEF Printer!alt_log_repchar
<1>. QED BY <1>1, <1>2, ConcatProperties, ConcatEmptySeq

LEMMA AltTyped ==
  ASSUME NEW c \in Printer!Chars, NEW v \in Values, Printer!AltChar(c, v)
  PROVE  altOut' \in Seq(Glyphs) /\ inFormat' \in BOOLEAN
<1>1. c \in Glyphs /\ v \in Byte BY PrintConstants DEF Glyphs
<1>2. "c" \in Glyphs BY DEF Glyphs, Printer!Chars
<1>3. <<c>> \in Seq(Glyphs) /\ <<"c">> \in Seq(Glyphs) /\ <<>> \in Seq(Glyphs) BY <1>1, <1>2
<1>4. Printer!Hex(v) \in Seq(Glyphs) /\ Printer!Str(v) \in Seq(Glyphs) BY <1>1, HexTyped, StrIs
<1>. QED BY <1>3, <1>4 DEF Printer!AltChar

LEMMA AltIs ==
  ASSUME NEW c, NEW v, Printer!AltChar(c, v)
  PROVE  /\ inFormat' <=> (~inFormat /\ c = "%")
         /\ ~inFormat => altOut' = IF c = "%" THEN <<>> ELSE <<c>>
         /\ inFormat => /\ c = "%" => altOut' = <<c>>
                        /\ c = "c" => altOut' = <<"c">>
                        /\ c = "x" => altOut' = Printer!Hex(v)
                        /\ c = "s" => altOut' = Printer!Str(v)
                        /\ c = "q" => altOut' = <<>>
BY DEF Printer!AltChar

\* What a character does to the state machine while it converts nothing.
LEMMA QuietRead ==
  ASSUME PrintInv, NEW c \in Printer!Chars, NEW v \in Values, Printer!Read(c, v),
         \/ Printer!PlainChar(c) \/ Printer!Percent(c) \/ Printer!LeadingZero(c)
         \/ Printer!PercentPercent(c) \/ Printer!Width(c) \/ Printer!Modifier(c)
  PROVE  PrintInv'
<1>1. Printer!AltChar(c, v) /\ arg' = v
      /\ common' = (common /\ (inFormat => c \in {"%", "x", "c", "s", "q"}))
  BY DEF Printer!Read
<1>2. altOut' \in Seq(Glyphs) /\ inFormat' \in BOOLEAN BY <1>1, AltTyped
<1>3. c \in Glyphs /\ <<c>> \in Seq(Glyphs) BY DEF Glyphs
<1>4. arg' \in Values \cup {0} /\ common' \in BOOLEAN BY <1>1 DEF PrintInv, PTypes
<1>5. CASE Printer!PlainChar(c)
  <2>1. /\ state = "chars" /\ c # "%" /\ out' = <<c>> /\ did' = "plain" /\ state' = state
        /\ UNCHANGED <<fmtLeadingZero, fmtBase, fmtSigned, fmtCase, fmtBeforeDecimal, afterDot>>
    BY <1>5 DEF Printer!PlainChar, Printer!Prints, Printer!format
  <2>2. PTypes' BY <2>1, <1>2, <1>3, <1>4 DEF PrintInv, PTypes
  <2>3. Together' BY <2>1, <1>1, AltIs DEF PrintInv, Together
  <2>. QED BY <2>1, <2>2, <2>3 DEF PrintInv, Fresh, Numbers
<1>6. CASE Printer!Percent(c)
  <2>1. /\ state = "chars" /\ c = "%" /\ out' = <<>> /\ did' = "none" /\ state' = "first"
        /\ fmtLeadingZero' = FALSE /\ fmtBase' = 10 /\ fmtSigned' = TRUE /\ fmtCase' = FALSE
        /\ fmtBeforeDecimal' = -1 /\ afterDot' = FALSE
    BY <1>6 DEF Printer!Percent, Printer!Silent, Printer!Prints
  <2>2. PTypes'
    <3>1. fmtBeforeDecimal' \in -1 .. MaxWidth BY <2>1, PrintConstants
    <3>2. out' \in Seq(Glyphs) BY <2>1
    <3>. QED BY <2>1, <3>1, <3>2, <1>2, <1>4 DEF PrintInv, PTypes, Bases
  <2>3. Together' BY <2>1, <1>1, AltIs DEF PrintInv, Together
  <2>. QED BY <2>1, <2>2, <2>3 DEF PrintInv, Fresh, Numbers
<1>7. CASE Printer!LeadingZero(c)
  <2>1. /\ state = "first" /\ c = "0" /\ out' = <<>> /\ did' = "none" /\ state' = "other"
        /\ fmtLeadingZero' = TRUE
        /\ UNCHANGED <<fmtBase, fmtSigned, fmtCase, fmtBeforeDecimal, afterDot>>
    BY <1>7 DEF Printer!LeadingZero, Printer!Silent, Printer!Prints
  <2>2. PTypes'
    <3>2. out' \in Seq(Glyphs) BY <2>1
    <3>. QED BY <2>1, <3>2, <1>2, <1>4 DEF PrintInv, PTypes
  <2>3. Together' BY <2>1, <1>1 DEF PrintInv, Together
  <2>. QED BY <2>1, <2>2, <2>3 DEF PrintInv, Fresh, Numbers
<1>8. CASE Printer!PercentPercent(c)
  <2>1. /\ state = "first" /\ c = "%" /\ out' = <<c>> /\ did' = "plain" /\ state' = "chars"
        /\ UNCHANGED <<fmtLeadingZero, fmtBase, fmtSigned, fmtCase, fmtBeforeDecimal, afterDot>>
    BY <1>8 DEF Printer!PercentPercent, Printer!Prints, Printer!format
  <2>2. PTypes' BY <2>1, <1>2, <1>3, <1>4 DEF PrintInv, PTypes
  <2>3. Together' BY <2>1, <1>1, AltIs DEF PrintInv, Together
  <2>. QED BY <2>1, <2>2, <2>3 DEF PrintInv, Fresh, Numbers
<1>9. CASE Printer!Width(c)
  <2>. DEFINE w == (IF fmtBeforeDecimal < 0 THEN 0 ELSE fmtBeforeDecimal * 10) + Printer!Figure[c]
  <2>1. /\ Printer!Letter(c) /\ c \in DOMAIN Printer!Figure /\ (afterDot \/ w <= MaxWidth)
        /\ (afterDot => fmtBeforeDecimal' = fmtBeforeDecimal)
        /\ (~afterDot => fmtBeforeDecimal' = w)
        /\ out' = <<>> /\ did' = "none" /\ state' = "other"
        /\ UNCHANGED <<fmtLeadingZero, fmtBase, fmtSigned, fmtCase, afterDot>>
    BY <1>9 DEF Printer!Width, Printer!Silent, Printer!Prints
  <2>2. c \in {"0", "1", "5"} BY <2>1 DEF Printer!Figure
  <2>3. Printer!Figure[c] \in Nat BY <2>2 DEF Printer!Figure
  <2>4. fmtBeforeDecimal' \in -1 .. MaxWidth
    <3>1. fmtBeforeDecimal \in -1 .. MaxWidth /\ afterDot \in BOOLEAN BY DEF PrintInv, PTypes
    <3>2. w \in Int /\ w >= 0 BY <3>1, <2>3, PrintConstants
    <3>. HIDE DEF w
    <3>. QED BY <3>1, <3>2, <2>1, PrintConstants
  <2>5. out' \in Seq(Glyphs) BY <2>1
  <2>6. PTypes' BY <2>1, <2>4, <2>5, <1>2, <1>4 DEF PrintInv, PTypes
  <2>7. state # "chars" BY <2>1 DEF Printer!Letter
  <2>8. ~common' BY <2>2, <2>7, <1>1 DEF PrintInv, Together
  <2>. QED BY <2>1, <2>6, <2>7, <2>8 DEF PrintInv, Fresh, Numbers, Together
<1>10. CASE Printer!Modifier(c)
  <2>1. /\ Printer!Letter(c) /\ c \in {".", "l"} /\ afterDot' = (afterDot \/ c = ".")
        /\ out' = <<>> /\ did' = "none" /\ state' = "other"
        /\ UNCHANGED <<fmtLeadingZero, fmtBase, fmtSigned, fmtCase, fmtBeforeDecimal>>
    BY <1>10 DEF Printer!Modifier, Printer!Silent, Printer!Prints
  <2>5. out' \in Seq(Glyphs) /\ afterDot' \in BOOLEAN BY <2>1
  <2>6. PTypes' BY <2>1, <2>5, <1>2, <1>4 DEF PrintInv, PTypes
  <2>7. state # "chars" BY <2>1 DEF Printer!Letter
  <2>8. ~common' BY <2>1, <2>7, <1>1 DEF PrintInv, Together
  <2>. QED BY <2>1, <2>6, <2>7, <2>8 DEF PrintInv, Fresh, Numbers, Together
<1>. QED BY <1>5, <1>6, <1>7, <1>8, <1>9, <1>10

\* doIntegerPrint does not read the state it is printed in, but the width and the zero.
LEMMA SameInteger ==
  ASSUME NEW x, NEW b, NEW signed, NEW upper,
         fmtLeadingZero' = fmtLeadingZero, fmtBeforeDecimal' = fmtBeforeDecimal
  PROVE  Printer!Integer(x, b, signed, upper)' = Printer!Integer(x, b, signed, upper)
BY DEF Printer!Integer

LEMMA ConvertPrint ==
  ASSUME PrintInv, NEW c \in Printer!Chars, NEW v \in Values, Printer!Read(c, v),
         Printer!Convert(c, v)
  PROVE  PrintInv'
<1>1. /\ Printer!AltChar(c, v) /\ arg' = v
      /\ common' = (common /\ (inFormat => c \in {"%", "x", "c", "s", "q"}))
  BY DEF Printer!Read
<1>2. altOut' \in Seq(Glyphs) /\ inFormat' \in BOOLEAN BY <1>1, AltTyped
<1>3. c \in Glyphs /\ <<"c">> \in Seq(Glyphs) BY DEF Glyphs, Printer!Chars
<1>4. arg' \in Values \cup {0} /\ common' \in BOOLEAN BY <1>1 DEF PrintInv, PTypes
<1>5. v \in Byte BY PrintConstants
<1>6. /\ Printer!Letter(c) /\ c \notin DOMAIN Printer!Figure \cup {".", "l"} /\ state' = "chars"
      /\ fmtSigned' = (fmtSigned /\ c \notin {"u", "o", "x", "X"})
      /\ fmtBase' = (CASE c = "o" -> 8 [] c \in {"x", "X"} -> 16 [] OTHER -> fmtBase)
      /\ fmtCase' = (fmtCase \/ c = "X")
      /\ UNCHANGED <<fmtLeadingZero, fmtBeforeDecimal, afterDot>>
  BY DEF Printer!Convert
<1>7. /\ c \in {"d", "u", "o", "x", "X"}
           => out' = Printer!Integer(v, fmtBase', fmtSigned', fmtCase') /\ did' = "int"
      /\ c = "c" => /\ out' = Printer!alt_log_repchar(Printer!Blank, fmtBeforeDecimal - 1) \o <<"c">>
                    /\ did' = "char"
      /\ c = "s" => /\ out' = Printer!alt_log_repchar(Printer!Blank, fmtBeforeDecimal - Len(Printer!Str(v)))
                              \o Printer!Str(v)
                    /\ did' = "str"
      /\ c \notin {"d", "u", "o", "x", "X", "c", "s"} => out' = <<>> /\ did' = "none"
  BY DEF Printer!Convert, Printer!Prints, Printer!Silent
<1>8. state # "chars" /\ fmtBase = 10 /\ fmtSigned = TRUE /\ fmtCase = FALSE
  BY <1>6 DEF Printer!Letter, PrintInv, PTypes, Fresh
<1>9. /\ fmtBase' \in Bases /\ fmtSigned' \in BOOLEAN /\ fmtCase' \in BOOLEAN
      /\ fmtCase' => fmtBase' = 16
  BY <1>6, <1>8 DEF Bases
<1>10. PTypes BY DEF PrintInv
<1>11. fmtBeforeDecimal \in Int BY <1>10, PrintConstants DEF PTypes
<1>12. out' \in Seq(Glyphs) /\ did' \in {"none", "int", "char", "str"}
  <2>1. CASE c \in {"d", "u", "o", "x", "X"}
    <3>1. Printer!Integer(v, fmtBase', fmtSigned', fmtCase') \in Seq(Glyphs)
      BY <1>5, <1>9, <1>10, IntegerTyped
    <3>. QED BY <2>1, <3>1, <1>7
  <2>2. CASE c = "c"
    <3>1. fmtBeforeDecimal - 1 \in Int BY <1>11
    <3>2. Printer!alt_log_repchar(Printer!Blank, fmtBeforeDecimal - 1) \o <<"c">> \in Seq(Glyphs)
      BY <3>1, <1>3, PaddedTyped
    <3>. QED BY <2>2, <3>2, <1>7
  <2>3. CASE c = "s"
    <3>1. fmtBeforeDecimal - Len(Printer!Str(v)) \in Int /\ Printer!Str(v) \in Seq(Glyphs)
      BY <1>5, <1>11, StrIs
    <3>2. Printer!alt_log_repchar(Printer!Blank, fmtBeforeDecimal - Len(Printer!Str(v)))
            \o Printer!Str(v) \in Seq(Glyphs)
      BY <3>1, PaddedTyped
    <3>. QED BY <2>3, <3>2, <1>7
  <2>4. CASE c \notin {"d", "u", "o", "x", "X", "c", "s"}
    <3>1. <<>> \in Seq(Glyphs) OBVIOUS
    <3>. QED BY <2>4, <3>1, <1>7
  <2>. QED BY <2>1, <2>2, <2>3, <2>4
<1>13. PTypes' BY <1>2, <1>4, <1>6, <1>9, <1>10, <1>12 DEF PTypes
<1>14. Fresh' BY <1>6 DEF Fresh
<1>15. Numbers'
  <2>1. SUFFICES ASSUME did' = "int"
                 PROVE  out' = Printer!Integer(arg, fmtBase, fmtSigned, fmtCase)'
    BY DEF Numbers
  <2>2. c \in {"d", "u", "o", "x", "X"} BY <2>1, <1>7
  <2>3. out' = Printer!Integer(v, fmtBase', fmtSigned', fmtCase') BY <2>2, <1>7
  <2>4. fmtLeadingZero' = fmtLeadingZero /\ fmtBeforeDecimal' = fmtBeforeDecimal BY <1>6
  <2>. QED BY <2>3, <2>4, <1>1 DEF Printer!Integer
<1>16. Together'
  <2>1. SUFFICES ASSUME common' = TRUE PROVE out' = altOut' /\ ~inFormat'
    BY <1>6, <1>13 DEF Together, PTypes
  <2>2. /\ common /\ state = "first" /\ inFormat /\ ~fmtLeadingZero /\ fmtBeforeDecimal = -1
        /\ c \in {"%", "x", "c", "s", "q"}
    BY <2>1, <1>1, <1>8, <1>10 DEF PrintInv, Together, PTypes
  <2>3. c # "%" BY <2>2, <1>6 DEF Printer!Letter
  <2>4. ~inFormat' BY <2>2, <1>1, AltIs
  <2>5. CASE c = "x"
    <3>1. out' = Printer!Integer(v, 16, FALSE, FALSE)
      BY <2>5, <1>6, <1>7, <1>8
    <3>. DEFINE digits == Printer!Digits(v, 16, Printer!Lower)
    <3>2. Printer!Integer(v, 16, FALSE, FALSE)
          = (Printer!alt_log_repchar(Printer!Blank, -1 - Len(digits) - Len(<<>>)) \o <<>>) \o digits
      BY <2>2 DEF Printer!Integer
    <3>3. digits \in Seq(Glyphs)
      <4>1. 16 \in Bases BY DEF Bases
      <4>. QED BY <4>1, <1>5, DigitsAre
    <3>. HIDE DEF digits
    <3>4. -1 - Len(digits) - Len(<<>>) \in Int /\ -1 - Len(digits) - Len(<<>>) <= 0 BY <3>3
    <3>5. <<>> \in Seq(Glyphs) OBVIOUS
    <3>6. Printer!alt_log_repchar(Printer!Blank, -1 - Len(digits) - Len(<<>>)) \o <<>> = <<>>
      BY <3>4, <3>5, PaddedTyped
    <3>7. <<>> \o digits = digits BY <3>3, ConcatEmptySeq
    <3>8. Printer!Hex(v) = digits BY <1>5, HexIsDigits DEF digits
    <3>9. altOut' = Printer!Hex(v) BY <2>2, <2>5, <1>1, AltIs
    <3>. QED BY <3>1, <3>2, <3>6, <3>7, <3>8, <3>9, <2>4
  <2>6. CASE c = "c"
    <3>1. fmtBeforeDecimal - 1 \in Int /\ fmtBeforeDecimal - 1 <= 0 BY <2>2
    <3>2. Printer!alt_log_repchar(Printer!Blank, fmtBeforeDecimal - 1) \o <<"c">> = <<"c">>
      BY <3>1, <1>3, PaddedTyped
    <3>3. altOut' = <<"c">> BY <2>2, <2>6, <1>1, AltIs
    <3>. QED BY <3>2, <3>3, <2>4, <2>6, <1>7
  <2>7. CASE c = "s"
    <3>0. Printer!Str(v) \in Seq(Glyphs) /\ Len(Printer!Str(v)) \in Nat BY <1>5, StrIs
    <3>1. /\ fmtBeforeDecimal - Len(Printer!Str(v)) \in Int
          /\ fmtBeforeDecimal - Len(Printer!Str(v)) <= 0
      BY <2>2, <3>0
    <3>2. Printer!alt_log_repchar(Printer!Blank, fmtBeforeDecimal - Len(Printer!Str(v)))
            \o Printer!Str(v) = Printer!Str(v)
      BY <3>0, <3>1, PaddedTyped
    <3>3. altOut' = Printer!Str(v) BY <2>2, <2>7, <1>1, AltIs
    <3>. QED BY <3>2, <3>3, <2>4, <2>7, <1>7
  <2>8. CASE c = "q"
    <3>1. altOut' = <<>> BY <2>2, <2>8, <1>1, AltIs
    <3>. QED BY <3>1, <2>4, <2>8, <1>7
  <2>. QED BY <2>2, <2>3, <2>5, <2>6, <2>7, <2>8
<1>. QED BY <1>13, <1>14, <1>15, <1>16 DEF PrintInv

LEMMA PrintSteps == PrintInv /\ [Printer!Next]_Printer!vars => PrintInv'
<1>. SUFFICES ASSUME PrintInv, [Printer!Next]_Printer!vars PROVE PrintInv' OBVIOUS
<1>1. CASE Printer!End
  <2>1. /\ state' = "chars" /\ inFormat' = FALSE /\ common' = TRUE
        /\ out' = <<>> /\ altOut' = <<>> /\ did' = "none" /\ arg' = 0
        /\ UNCHANGED <<fmtLeadingZero, fmtBase, fmtSigned, fmtCase, fmtBeforeDecimal, afterDot>>
    BY <1>1 DEF Printer!End, Printer!format
  <2>2. out' \in Seq(Glyphs) /\ altOut' \in Seq(Glyphs) /\ out' = altOut' BY <2>1
  <2>. QED BY <2>1, <2>2 DEF PrintInv, PTypes, Fresh, Numbers, Together
<1>2. ASSUME NEW c \in Printer!Chars, NEW v \in Values, Printer!Read(c, v) PROVE PrintInv'
  <2>1. CASE Printer!Convert(c, v) BY <1>2, <2>1, ConvertPrint
  <2>2. CASE \/ Printer!PlainChar(c) \/ Printer!Percent(c) \/ Printer!LeadingZero(c)
             \/ Printer!PercentPercent(c) \/ Printer!Width(c) \/ Printer!Modifier(c)
    BY <1>2, <2>2, QuietRead
  <2>. QED BY <1>2, <2>1, <2>2 DEF Printer!Read, Printer!LogChar
<1>3. CASE UNCHANGED Printer!vars
  <2>1. /\ UNCHANGED <<state, fmtLeadingZero, fmtBase, fmtSigned, fmtCase, fmtBeforeDecimal, afterDot>>
        /\ UNCHANGED <<inFormat, out, altOut, did, arg, common>>
    BY <1>3 DEF Printer!vars, Printer!format
  <2>2. PTypes' /\ Fresh' /\ Together' BY <2>1 DEF PrintInv, PTypes, Fresh, Together
  <2>3. Numbers'
    <3>1. did' = "int" => out' = Printer!Integer(arg, fmtBase, fmtSigned, fmtCase)
      BY <2>1 DEF PrintInv, Numbers
    <3>. QED BY <3>1, <2>1 DEF Numbers, Printer!Integer
  <2>. QED BY <2>2, <2>3 DEF PrintInv
<1>. QED BY <1>1, <1>2, <1>3 DEF Printer!Next

LEMMA PrintSound == PrintInv => Printer!TypeOK /\ Printer!NumbersReadBack /\ Printer!PrintersAgree
<1>. SUFFICES ASSUME PrintInv
              PROVE  Printer!TypeOK /\ Printer!NumbersReadBack /\ Printer!PrintersAgree
  OBVIOUS
<1>1. Printer!TypeOK
  <2>1. out \in Seq(Glyphs) /\ altOut \in Seq(Glyphs) BY DEF PrintInv, PTypes
  <2>2. \A s \in Seq(Glyphs) : Printer!ToSet(s) \subseteq Glyphs BY DEF Printer!ToSet
  <2>3. Printer!ToSet(out) \cup Printer!ToSet(altOut) \subseteq Glyphs BY <2>1, <2>2
  <2>. QED BY <2>3 DEF Printer!TypeOK, PrintInv, PTypes, Bases, Glyphs
<1>2. Printer!PrintersAgree BY DEF Printer!PrintersAgree, PrintInv, Together
<1>3. Printer!NumbersReadBack
  <2>1. SUFFICES ASSUME did = "int" PROVE Printer!NumbersReadBack BY DEF Printer!NumbersReadBack
  <2>2. /\ arg \in Byte /\ fmtBase \in Bases /\ fmtSigned \in BOOLEAN /\ fmtCase \in BOOLEAN
        /\ fmtLeadingZero \in BOOLEAN /\ fmtBeforeDecimal \in Int
        /\ out = Printer!Integer(arg, fmtBase, fmtSigned, fmtCase)
    <3>1. 0 \in Byte BY DEF Byte
    <3>. QED BY <3>1, <2>1, PrintConstants DEF PrintInv, PTypes, Numbers
  <2>. DEFINE neg == fmtSigned /\ arg >= 128
              v == IF neg THEN 256 - arg ELSE arg
              s == IF neg THEN 1 ELSE 0
              n == Places(v, fmtBase)
              r == fmtBeforeDecimal - n - s
              p == IF r < 0 THEN 0 ELSE r
              q == Blanks(fmtLeadingZero, p)
              digits == SubSeq(out, (q + s) + 1, Len(out))
              blanks == Printer!Cardinality({k \in DOMAIN out : out[k] = Printer!Blank})
  <2>3. v \in Byte /\ s \in {0, 1} BY <2>2 DEF Byte
  <2>4. Printed(out, v, fmtBase, s, p, fmtLeadingZero) BY <2>2, IntegerIsPrinted
  <2>5. n \in {1, 2, 3} BY <2>2, <2>3, RowIs
  <2>. HIDE DEF n, v
  <2>6. r \in Int /\ p \in Nat BY <2>2, <2>3, <2>5
  <2>. HIDE DEF r, s
  <2>7. n = Places(v, fmtBase) BY DEF n
  <2>8. /\ blanks = q
        /\ \A k \in 1 .. q : out[k] = Printer!Blank
        /\ s = 1 => out[q + s] = "-"
        /\ Len(out) = p + s + n
        /\ Len(digits) = (p - q) + n
        /\ Printer!Reads(digits, fmtBase) = v
    <3>. HIDE DEF p
    <3>1. Legible(out, v, fmtBase, s, p, Blanks(fmtLeadingZero, p))
      BY <2>2, <2>3, <2>4, <2>6, PrintedReads
    <3>. QED BY <3>1, <2>7 DEF Legible
  <2>9. n = CHOOSE k \in 1 .. 8 : fmtBase^k > v /\ (k = 1 \/ fmtBase^(k - 1) <= v)
    BY <2>2, <2>3, <2>7, NeedIs
  <2>10. /\ Len(out) >= fmtBeforeDecimal
         /\ Len(digits) = n \/ (fmtLeadingZero /\ q = 0 /\ Len(out) = fmtBeforeDecimal)
         /\ q > 0 => Len(out) = fmtBeforeDecimal
    <3>. HIDE DEF digits, blanks
    <3>. QED BY <2>2, <2>3, <2>5, <2>6, <2>8 DEF r, Blanks
  <2>11. 2^(8 - 1) = 128 /\ 2^8 = 256 OBVIOUS
  <2>. DEFINE Neg == fmtSigned /\ arg >= 2^(8 - 1)
              Value == IF Neg THEN 2^8 - arg ELSE arg
              Ahead == blanks + (IF Neg THEN 1 ELSE 0)
              Rest == SubSeq(out, Ahead + 1, Len(out))
              Need == CHOOSE k \in 1 .. 8 : fmtBase^k > Value /\ (k = 1 \/ fmtBase^(k - 1) <= Value)
  <2>12. (Neg <=> s = 1) /\ Value = v /\ (IF Neg THEN 1 ELSE 0) = s BY <2>11 DEF v, s
  <2>. HIDE DEF blanks, Neg, Value
  <2>13. Ahead = q + s /\ Need = n BY <2>8, <2>9, <2>12
  <2>14. Rest = digits BY <2>13
  <2>. HIDE DEF Ahead, Rest, Need, digits, q
  <2>16. /\ \A k \in 1 .. blanks : out[k] = Printer!Blank
         /\ Neg => out[Ahead] = "-"
         /\ Printer!Reads(Rest, fmtBase) = Value
         /\ Len(out) >= fmtBeforeDecimal
         /\ Len(Rest) = Need \/ (fmtLeadingZero /\ blanks = 0 /\ Len(out) = fmtBeforeDecimal)
         /\ blanks > 0 => Len(out) = fmtBeforeDecimal
    BY <2>8, <2>10, <2>12, <2>13, <2>14
  <2>. QED BY <2>16 DEF Printer!NumbersReadBack, blanks, Neg, Value, Ahead, Rest, Need
<1>. QED BY <1>1, <1>2, <1>3

-----------------------------------------------------------------------------
(***************************************************************************)
(* Together.                                                               *)
(***************************************************************************)
RecordsInv ==
  /\ unit = "gmon" => GmonInv
  /\ unit = "print" => PrintInv
  /\ unit = "log" => LogInv

LEMMA RecordsStart == MCInit => RecordsInv
  BY GmonStarts, PrintStarts, LogStarts DEF MCInit, RecordsInv

LEMMA RecordsSteps == RecordsInv /\ [MCNext]_mcVars => RecordsInv'
<1>. SUFFICES ASSUME RecordsInv, [MCNext]_mcVars PROVE RecordsInv' OBVIOUS
<1>1. UNCHANGED unit BY DEF MCNext, mcVars
<1>2. unit = "gmon" => GmonInv /\ [Profile!Next]_Profile!vars
  BY DEF RecordsInv, MCNext, mcVars, gmonVars, Profile!vars, Profile!local, Profile!mem
<1>3. unit = "print" => PrintInv /\ [Printer!Next]_Printer!vars
  BY DEF RecordsInv, MCNext, mcVars, printVars, Printer!vars, Printer!format
<1>4. unit = "log" => LogInv /\ [Port!Next]_Port!vars
  BY DEF RecordsInv, MCNext, mcVars, logVars, Port!vars, Port!clock
<1>. QED BY <1>1, <1>2, <1>3, <1>4, GmonSteps, PrintSteps, LogSteps DEF RecordsInv

\* No call is counted twice, and what is missing from the counts are the handler's
\* calls that cut into main()'s increment of the same count, no more and no fewer,
\* for any functions and any room for arcs; a number printed reads back as its
\* argument, for any bytes and any field width, and both printers print it alike;
\* a character is lost only by main(), and only where a handler has written between
\* its test for space and its write, for any FIFO and any interval.
THEOREM RecordsStayTrue == MCSpec => []RecordsTrue
<1>1. RecordsInv => RecordsTrue
  BY GmonSound, PrintSound, LogSound DEF RecordsInv, RecordsTrue
<1>. QED BY <1>1, RecordsStart, RecordsSteps, PTL DEF MCSpec
=============================================================================
