---------------------------- MODULE MCMining ----------------------------
(***************************************************************************)
(* What mining rests on besides the interrupts: the search over the nonces *)
(* (NonceSearch), the words the cores are fed (Layout, Padding), the       *)
(* target and the verdict (Target), the search on the PC (PcMiner, with    *)
(* the returned array intact and not) and the addresses (Bus).  A          *)
(* behaviour is one of them; the variables of the others stay as           *)
(* they are.                                                               *)
(***************************************************************************)
EXTENDS NonceSearch

CONSTANTS
  Teams,                                    \* bound: the sets of cores at work together, for Bus
  Started, MaxTries,                        \* of Layout
  Lengths, Chars,                           \* of Padding
  Exponents, Mantissas, Places, Values,     \* of Target
  Radix, Filed, Solutions                   \* of PcMiner

VARIABLES
  unit,                                                     \* what runs
  mem, header, nounce, pc, next, stage, fed, tries,         \* Layout's
  fn, l, msg, block, i, number, place,                      \* Padding's
  bits, hash, file, tool, pcVerdict,                        \* Target's, PC side
  target, stray, words, digest, fw, index, fwVerdict,       \* and firmware
  winners, counter, bytes, hashed, tried, step, printed,    \* PcMiner's
  team, working, requests, count, flags, main, isr          \* Bus's

layoutVars  == <<mem, header, nounce, pc, next, stage, fed, tries>>
paddingVars == <<fn, l, msg, block, i, number, place>>
targetVars  == <<bits, hash, file, tool, pcVerdict,
                 target, stray, words, digest, fw, index, fwVerdict>>
pcVars      == <<winners, counter, bytes, hashed, tried, step, printed>>
busVars     == <<team, working, requests, count, flags, main, isr>>
mcVars      == <<unit, searchVars, layoutVars, paddingVars, targetVars, pcVars, busVars>>

-----------------------------------------------------------------------------
\* Every core starts above the only winner.
MCStart == [c \in Core |-> 3 + c * ((NonceSpan - 3) \div NCores)]

\* The mantissa of the header in mining.c, a small and a large one.
MCMantissas == {<<62, 2, 6>>, <<1, 0, 0>>, <<255, 255, 127>>}

\* Winners at both ends, at the carries between the bytes, or nowhere.
MCSolutions == {{}, {0}, {2, 40}, {3}, {8, 9}, {26, 40}, {27}, {40}, {79}, {80}, {79, 80}}

Layout == INSTANCE Layout

Padding == INSTANCE Padding WITH pc <- place

Target == INSTANCE Target WITH pc <- tool, mem <- words

Pc == INSTANCE PcMiner
        WITH pc <- step, nounce <- counter, Winners <- Solutions, Intact <- TRUE
PcStack == INSTANCE PcMiner
             WITH pc <- step, nounce <- counter, Winners <- Solutions, Intact <- FALSE

Bus == INSTANCE Bus

ASSUME InstancesAssumption ==
  /\ Layout!StartedAssumption /\ Padding!LengthsAssumption /\ Target!BitsAssumption
  /\ Pc!RadixAssumption /\ PcStack!RadixAssumption /\ Bus!TeamsAssumption

-----------------------------------------------------------------------------
NoLayout  == /\ mem = 0 /\ header = 0 /\ nounce = 0 /\ pc = 0 /\ next = 0 /\ stage = 0
             /\ fed = 0 /\ tries = 0
NoPadding == fn = 0 /\ l = 0 /\ msg = 0 /\ block = 0 /\ i = 0 /\ number = 0 /\ place = 0
NoTarget  == /\ bits = 0 /\ hash = 0 /\ file = 0 /\ tool = 0 /\ pcVerdict = 0 /\ target = 0
             /\ stray = 0 /\ words = 0 /\ digest = 0 /\ fw = 0 /\ index = 0 /\ fwVerdict = 0
NoPc      == /\ winners = 0 /\ counter = 0 /\ bytes = 0 /\ hashed = 0 /\ tried = 0
             /\ step = "off" /\ printed = 0
NoBus     == /\ team = {} /\ working = {} /\ requests = {} /\ count = 0 /\ flags = 0
             /\ main = 0 /\ isr = 0

MCInit ==
  /\ Init
  /\ \/ unit = "search"  /\ NoLayout /\ NoPadding /\ NoTarget /\ NoPc /\ NoBus
     \/ unit = "layout"  /\ Layout!Init  /\ NoPadding /\ NoTarget /\ NoPc /\ NoBus
     \/ unit = "padding" /\ Padding!Init /\ NoLayout /\ NoTarget /\ NoPc /\ NoBus
     \/ unit = "target"  /\ Target!Init  /\ NoLayout /\ NoPadding /\ NoPc /\ NoBus
     \/ unit = "pc"      /\ Pc!Init      /\ NoLayout /\ NoPadding /\ NoTarget /\ NoBus
     \/ unit = "pcStack" /\ PcStack!Init /\ NoLayout /\ NoPadding /\ NoTarget /\ NoBus
     \/ unit = "bus"     /\ Bus!Init     /\ NoLayout /\ NoPadding /\ NoTarget /\ NoPc

SearchNext(c) ==
  /\ unit = "search" /\ Examine(c)
  /\ UNCHANGED <<unit, layoutVars, paddingVars, targetVars, pcVars, busVars>>
LayoutNext ==
  /\ unit = "layout" /\ Layout!Next
  /\ UNCHANGED <<unit, searchVars, paddingVars, targetVars, pcVars, busVars>>
PaddingNext ==
  /\ unit = "padding" /\ Padding!Next
  /\ UNCHANGED <<unit, searchVars, layoutVars, targetVars, pcVars, busVars>>
TargetNext ==
  /\ unit = "target" /\ Target!Next
  /\ UNCHANGED <<unit, searchVars, layoutVars, paddingVars, pcVars, busVars>>
PcNext ==
  /\ \/ unit = "pc" /\ Pc!Next
     \/ unit = "pcStack" /\ PcStack!Next
  /\ UNCHANGED <<unit, searchVars, layoutVars, paddingVars, targetVars, busVars>>
BusNext(A) ==
  /\ unit = "bus" /\ A
  /\ UNCHANGED <<unit, searchVars, layoutVars, paddingVars, targetVars, pcVars>>

MCNext ==
  \/ \E c \in Core : SearchNext(c)
  \/ LayoutNext \/ PaddingNext \/ TargetNext \/ PcNext \/ BusNext(Bus!Next)

\* As in NonceSearch, PcMiner and Bus.
MCSpec ==
  /\ MCInit /\ [][MCNext]_mcVars
  /\ \A c \in Core : WF_mcVars(SearchNext(c))
  /\ WF_mcVars(PcNext) /\ WF_mcVars(BusNext(Bus!Cpu))

-----------------------------------------------------------------------------
\* Every block a core is fed is the one the standard calls for, header, mark and
\* length, whatever the handlers of the other cores write.
BlocksAreStandard ==
  /\ unit = "layout" => Layout!TypeOK /\ Layout!BlocksAreStandard /\ Layout!TargetKept
  /\ unit = "padding" => Padding!TypeOK /\ Padding!PadsLikeTheStandard /\ Padding!ClearsAll

\* The firmware and the PC tools compute the same target from a header's bits and
\* give the same verdict on a hash, and the PC's search reports what it tried.
PcToolsAgree ==
  /\ unit = "target"  => Target!TypeOK /\ Target!TargetIsBits /\ Target!VerdictIsOrder
  /\ unit = "pc"      => Pc!TypeOK /\ Pc!SearchesInOrder /\ Pc!HeaderFollows
  /\ unit = "pcStack" => PcStack!TypeOK /\ PcStack!HeaderFollows

\* Every access of the firmware reaches the register or the word it means, and no
\* access that starts a core meets it at work or with its request standing.
AccessesLand == unit = "bus" => Bus!TypeOK /\ Bus!EveryAccessLands /\ Bus!StartsIdle

\* The search finds a winner if there is one, the search on the PC ends, and every
\* handler clears the core that raised its line: no line asks for ever.
SearchesGoOn ==
  /\ unit = "search" => FindsWinner
  /\ unit = "pc" \/ unit = "pcStack" => Pc!Ends
  /\ unit = "bus" => Bus!RequestsFall
=============================================================================
