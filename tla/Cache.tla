----------------------------- MODULE Cache -----------------------------
(***************************************************************************)
(* The HAL's cache calls on a processor with a data cache (direct mapped,  *)
(* written back) and an instruction cache, beside a device that reads and  *)
(* writes memory.  The program hands a region to the device, gets uncached *)
(* memory, or runs code it has written; its handlers use everything else   *)
(* meanwhile, between any two instructions of a flush.  Data is abstracted *)
(* to whether a copy of a byte is the one written last (fresh).            *)
(***************************************************************************)
EXTENDS Integers, FiniteSets

CONSTANTS
  NLines, LineSize,  \* memory: lines of LineSize bytes
  DLines, ILines,    \* lines in the data and the instruction cache
  Starts, Lens,      \* the regions the program asks about
  WholeLines         \* what the device fills is whole lines

CacheAssumption ==
  /\ NLines \in Nat /\ LineSize \in Nat \ {0} /\ DLines \in Nat /\ ILines \in Nat \ {0}
  /\ Starts \subseteq Nat /\ Lens \subseteq Nat

Lines == 0 .. NLines - 1
Cells == 0 .. NLines * LineSize - 1
LineOf(a) == a \div LineSize
Bytes(L) == {a \in Cells : LineOf(a) \in L}

VARIABLES
  dcache, dirty,         \* the lines in the data cache, the unwritten ones
  icache,                \* the lines in the instruction cache
  dFresh, iFresh, mFresh, \* bytes whose copy in each place is the last one
  phase, use,            \* what the program does with its region, and for what
  start, len, i          \* the region, and the address a flush has come to

caches == <<dcache, dirty, icache, dFresh, iFresh, mFresh>>
vars   == <<caches, phase, use, start, len, i>>

Init ==
  /\ dcache = {} /\ dirty = {} /\ icache = {}
  /\ dFresh = {} /\ iFresh = {} /\ mFresh = Cells
  /\ phase = "idle" /\ use = "none" /\ start = 0 /\ len = 0 /\ i = 0

Block  == {a \in Cells : start <= a /\ a < start + len}
\* What the program and its handlers may touch now through the cache, and fetch.
Others == IF phase = "idle" THEN Cells ELSE Cells \ Block
Code   == IF phase = "runs" THEN Cells ELSE Others

(***************************************************************************)
(* The processor.                                                          *)
(***************************************************************************)
\* The lines that leave the cache for line l.
Victims(cache, n, l) == {k \in cache : k % n = l % n} \ {l}

\* Memory once the lines L are written to it.
Written(L) == (mFresh \ Bytes(L)) \cup (dFresh \cap Bytes(L))

Load(a) ==
  LET l == LineOf(a)  out == Victims(dcache, DLines, l)  m == Written(out \cap dirty) IN
  /\ DLines > 0 /\ a \in Others /\ l \notin dcache
  /\ dcache' = (dcache \ out) \cup {l} /\ dirty' = dirty \ out
  /\ mFresh' = m /\ dFresh' = (dFresh \ Bytes(out)) \cup (m \cap Bytes({l}))
  /\ UNCHANGED <<icache, iFresh, phase, use, start, len, i>>

\* A store to a line that is not cached loads it first.
Store(a) ==
  /\ a \in Others /\ (DLines = 0 \/ LineOf(a) \in dcache)
  /\ IF DLines = 0 THEN mFresh' = mFresh \cup {a} /\ UNCHANGED <<dFresh, dirty>>
     ELSE /\ dirty' = dirty \cup {LineOf(a)}
          /\ dFresh' = dFresh \cup {a} /\ mFresh' = mFresh \ {a}
  /\ iFresh' = iFresh \ {a}
  /\ UNCHANGED <<dcache, icache, phase, use, start, len, i>>

Fetch(a) ==
  LET l == LineOf(a)  out == Victims(icache, ILines, l) IN
  /\ a \in Code /\ l \notin icache
  /\ icache' = (icache \ out) \cup {l}
  /\ iFresh' = (iFresh \ Bytes(out)) \cup (mFresh \cap Bytes({l}))
  /\ UNCHANGED <<dcache, dirty, dFresh, mFresh, phase, use, start, len, i>>

\* flushda, flushd, initda: lines leave the data cache, written back or not.
Leave(L) == dcache' = dcache \ L /\ dirty' = dirty \ L /\ dFresh' = dFresh \ Bytes(L)
WriteBack(L) == Leave(L) /\ mFresh' = Written(L \cap dirty)
Discard(L)   == Leave(L) /\ UNCHANGED mFresh

(***************************************************************************)
(* The calls.                                                              *)
(***************************************************************************)

\* NIOS2_DCACHE_LINE_SIZE, zero when there is no data cache.
Step == IF DLines = 0 THEN 0 ELSE LineSize

Call(p, u, s, n) ==
  /\ phase = "idle"
  /\ phase' = p /\ use' = u /\ start' = s /\ len' = n /\ i' = s
  /\ UNCHANGED caches

Returns(p) == phase' = p /\ UNCHANGED <<dcache, dirty, dFresh, mFresh, i>>

\* alt_uncached_malloc asks for whole lines.
AlignedSize(n) == ((n + LineSize - 1) \div LineSize) * LineSize

Publish(s, n) == Call("flush", "publish", s, n)
Program(s, n) == Call("flush", "code", s, n)
LoadCode      == Call("flush_all", "code", 0, NLines * LineSize)
Collect(s, n) == Call("discard", "collect", s, n)
UncachedMalloc(s, n) ==
  s % LineSize = 0 /\ Call("flush", "uncached", s, AlignedSize(n))

\* The line after the last whole one is forgotten.
BugLeft(step, end) == i < end

\* Whether a flush with lines of size step has an address left.
Left(step, end) == i < end \/ (i - step < end /\ start % step # 0)

\* Where a call of alt_dcache_flush leads.
After(u) == CASE u = "code" -> "iflush" [] u = "uncached" -> "uncached" [] OTHER -> "device"

\* alt_dcache_flush, a line a step.
Flush ==
  /\ phase = "flush"
  /\ IF DLines > 0 /\ Left(Step, start + len)
     THEN WriteBack({LineOf(i)} \cap dcache) /\ i' = i + Step /\ UNCHANGED phase
     ELSE Returns(After(use))
  /\ UNCHANGED <<icache, iFresh, use, start, len>>

\* alt_dcache_flush_no_writeback: the loop is there without a cache too.
NoWriteback ==
  /\ phase = "discard"
  /\ IF i < start + len \/ (Step > 0 /\ Left(Step, start + len))
     THEN Discard({LineOf(i)} \cap dcache) /\ i' = i + Step /\ UNCHANGED phase
     ELSE Returns("device")
  /\ UNCHANGED <<icache, iFresh, use, start, len>>

\* alt_dcache_flush_all: an index a step, whichever line is there.
FlushAll ==
  /\ phase = "flush_all"
  /\ IF i < DLines * LineSize
     THEN WriteBack({k \in dcache : k % DLines = LineOf(i)}) /\ i' = i + LineSize /\ UNCHANGED phase
     ELSE Returns("iflush")
  /\ UNCHANGED <<icache, iFresh, use, start, len>>

\* "The most we would ever need to flush" is the cache's size.
Capped(n) == IF n > ILines * LineSize THEN ILines * LineSize ELSE n

\* alt_icache_flush, all its lines in a step; its end flushes the pipeline.
IFlush ==
  LET end == start + Capped(len)
      lines == (end - start + LineSize - 1) \div LineSize
      last == start + (IF start % LineSize = 0 THEN lines - 1 ELSE lines) * LineSize
      out == {k \in icache : \E l \in LineOf(start) .. LineOf(last) : k % ILines = l % ILines}
  IN
  /\ phase = "iflush" /\ phase' = "runs"
  /\ icache' = icache \ out /\ iFresh' = iFresh \ Bytes(out)
  /\ UNCHANGED <<dcache, dirty, dFresh, mFresh, use, start, len, i>>

(***************************************************************************)
(* What the region was for.                                                *)
(***************************************************************************)
\* The device writes the whole region.
DeviceFills ==
  /\ phase = "device" /\ use = "collect" /\ phase' = "idle"
  /\ mFresh' = mFresh \cup Block /\ dFresh' = dFresh \ Block /\ iFresh' = iFresh \ Block
  /\ UNCHANGED <<dcache, dirty, icache, use, start, len, i>>

\* The device, or the processor past its cache, writes uncached memory.
Bypass(a) ==
  /\ phase = "uncached" /\ a \in Block
  /\ mFresh' = mFresh \cup {a} /\ dFresh' = dFresh \ {a} /\ iFresh' = iFresh \ {a}
  /\ UNCHANGED <<dcache, dirty, icache, phase, use, start, len, i>>

\* The device is done reading, the code was run, the memory is freed.
Finished ==
  /\ phase \in {"device", "uncached", "runs"} /\ use # "collect" /\ phase' = "idle"
  /\ UNCHANGED <<caches, use, start, len, i>>

Asks == {r \in Starts \X Lens : r[1] + r[2] <= NLines * LineSize}

Next ==
  \/ \E a \in Cells : Load(a) \/ Store(a) \/ Fetch(a) \/ Bypass(a)
  \/ \E r \in Asks :
       \/ Publish(r[1], r[2]) \/ Program(r[1], r[2]) \/ UncachedMalloc(r[1], r[2])
       \/ /\ WholeLines => r[1] % LineSize = 0 /\ r[2] % LineSize = 0
          /\ Collect(r[1], r[2])
  \/ LoadCode \/ Flush \/ NoWriteback \/ FlushAll \/ IFlush
  \/ DeviceFills \/ Finished

\* A call goes on whenever no handler runs.
Spec == Init /\ [][Next]_vars /\ WF_vars(Flush \/ NoWriteback \/ FlushAll \/ IFlush)

--------------------------------------------------------------------------
\* The type invariant.
TypeOK ==
  /\ dirty \subseteq dcache /\ dcache \subseteq Lines /\ icache \subseteq Lines
  /\ \A k, l \in dcache : k % DLines = l % DLines => k = l
  /\ dFresh \subseteq Bytes(dcache) /\ iFresh \subseteq Bytes(icache) /\ mFresh \subseteq Cells
  /\ phase \in {"idle", "flush", "flush_all", "discard", "iflush", "device", "uncached", "runs"}
  /\ use \in {"none", "publish", "collect", "code", "uncached"}
  /\ start \in Nat /\ len \in Nat /\ start + len <= NLines * LineSize
  /\ i \in 0 .. (NLines + DLines + 1) * LineSize

\* "Any dirty lines in the data cache are written back to memory" (alt_cache.h:58):
\* while a device reads the region, or it is used past the cache, memory holds
\* the last value of each of its bytes, whatever shares lines with it.
MemoryIsFresh == phase \in {"device", "uncached"} /\ use # "collect" => Block \subseteq mFresh

\* What the processor reads through the cache is the last value written: no
\* line with the device's bytes is stale, no line written last is lost, and
\* uncached data has no line in common with other data (alt_uncached_malloc.c:49).
ReadsFresh ==
  \A a \in Others : IF LineOf(a) \in dcache THEN a \in dFresh ELSE a \in mFresh

\* Code that was written runs as written once both caches are flushed.
RunsFresh ==
  phase = "runs" => \A a \in Block : IF LineOf(a) \in icache THEN a \in iFresh ELSE a \in mFresh

\* A discard of a region leaves alone every line the region has no byte of.
OtherLinesKept ==
  phase = "device" =>
    \A a \in Cells \ Bytes({LineOf(b) : b \in Block}) :
      IF LineOf(a) \in dcache THEN a \in dFresh ELSE a \in mFresh

\* Every flush returns.
FlushReturns == phase \in {"flush", "discard"} ~> phase \notin {"flush", "discard"}
=============================================================================
