-------------------------------- MODULE Bus --------------------------------
(***************************************************************************)
(* The addresses main() and the handlers use, as the linker knows them     *)
(* from system.h, against the address decoder and the interrupt mapper of  *)
(* the generated interconnect: the firmware and the FPGA were built from   *)
(* these two descriptions separately.  The data carried is left out; a     *)
(* core is started by the write that reaches its control register, and     *)
(* its request falls by the write that reaches its clear register.         *)
(***************************************************************************)
EXTENDS Integers, Sequences, FiniteSets

CONSTANT Teams   \* bound: the sets of cores at work together

Cores == 0 .. 9

TeamsAssumption == Teams \subseteq SUBSET Cores

(***************************************************************************)
(* The hardware: a slave answers where the address bits above its span     *)
(* equal its base; each core's request has its line.                       *)
(***************************************************************************)
SDRAM == 10   ONCHIP_1 == 11   ONCHIP_0 == 12   DEBUG == 13   JTAG == 14
Slaves == Cores \cup 10 .. 14   \* each core under its number

From(s) == IF s \in Cores THEN \h40c3800 - \h400 * s
           ELSE <<0, \h4040000, \h4080000, \h40c0800, \h40c3c08>>[s - 9]
Span(s) == IF s \in Cores THEN \h400
           ELSE <<\h4000000, \h40000, \h40000, \h800, 8>>[s - 9]

Decode(a)  == {s \in Slaves : a - (a % Span(s)) = From(s)}
Word(s, a) == (a - From(s)) \div 4
Line(c)    == c + 1

(***************************************************************************)
(* The software's view.                                                    *)
(***************************************************************************)
\* Core 7 is taken for core 6.
BugBASE == [c \in Cores |-> \h40c3800 - \h400 * (IF c = 7 THEN 6 ELSE c)]
SHA_BASE == [c \in Cores |->
  <<\h40c3800, \h40c3400, \h40c3000, \h40c2c00, \h40c2800,
    \h40c2400, \h40c2000, \h40c1c00, \h40c1800, \h40c1400>>[c + 1]]
\* Lines counted from 0.
BugIRQ  == [c \in Cores |-> c]
SHA_IRQ == [c \in Cores |-> <<1, 2, 3, 4, 5, 6, 7, 8, 9, 10>>[c + 1]]
ONCHIP_MEMORY2_1_BASE == \h4040000
ONCHIP_MEMORY2_1_SPAN == 256000

ADDR_CTRL == 8            ADDR_IRQ_CLR == 40
ADDR_BLOCK_START == 16    ADDR_DIGEST_START == 32
STORAGE_SIZE == 48        BLOCK_HEADER_SIZE == 32       SHA_BLOCK_SIZE == 16

Region(c) == ONCHIP_MEMORY2_1_BASE + 4 * STORAGE_SIZE * c
Digest(c) == Region(c) + 4 * BLOCK_HEADER_SIZE

\* An access: its address and what it does there.
At(base, word, what) == [at |-> base + 4 * word, what |-> what]

SHA_Init(base, mem) ==
  <<At(base, ADDR_CTRL, "zero"), At(base, ADDR_IRQ_CLR, "write")>>
  \o [i \in 1 .. 32 |-> IF i % 2 = 1 THEN At(mem, i \div 2, "read")
                        ELSE At(base, ADDR_BLOCK_START + (i \div 2) - 1, "write")]
  \o <<At(base, ADDR_CTRL, "start"), At(base, ADDR_CTRL, "read")>>

read_digest(base, mem) ==
  [i \in 1 .. 16 |-> IF i % 2 = 1 THEN At(base, ADDR_DIGEST_START + (i \div 2), "read")
                     ELSE At(mem, (i \div 2) - 1, "write")]

padding_for_first_hash(mem) == [i \in 1 .. 8 |-> At(mem, i + 7, "write")]
reverse_byte_in_memory(mem) ==
  [i \in 1 .. 16 |-> At(mem, (i - 1) \div 2, IF i % 2 = 1 THEN "read" ELSE "write")]
compareWithTarget(mem) ==
  [i \in 1 .. 16 |-> IF i % 2 = 1 THEN At(mem, 7 - (i \div 2), "read")
                     ELSE At(Region(12), (i \div 2) - 1, "read")]

\* What a handler accesses at its first, second and third call of a hash, and
\* main() when it takes the digest and goes on with the next header.
HandlerAccesses(c) ==
  LET clear == <<At(SHA_BASE[c], ADDR_IRQ_CLR, "write")>>
  IN  << clear \o SHA_Init(SHA_BASE[c], Region(c) + 4 * SHA_BLOCK_SIZE),
         clear \o read_digest(SHA_BASE[c], Digest(c)) \o padding_for_first_hash(Digest(c))
               \o SHA_Init(SHA_BASE[c], Digest(c)),
         clear >>
MainAccesses(c) ==
  read_digest(SHA_BASE[c], Digest(c)) \o reverse_byte_in_memory(Digest(c))
    \o compareWithTarget(Digest(c)) \o <<At(Region(c), 19, "write")>>
    \o SHA_Init(SHA_BASE[c], Region(c))

VARIABLES
  team, working, requests,  \* cores in use, computing, and with their request high
  count, flags,             \* countN, flagN
  main, isr                 \* what each does: <<core, accesses left>>

vars == <<team, working, requests, count, flags, main, isr>>

Idle == <<>>

\* main() has started every core of the team.
Init ==
  /\ team \in Teams /\ working = team /\ requests = {}
  /\ count = [c \in Cores |-> 0] /\ flags = {} /\ main = Idle /\ isr = Idle

(***************************************************************************)
(* The cores and the CPU.                                                  *)
(***************************************************************************)
Complete(c) ==
  /\ c \in working /\ working' = working \ {c} /\ requests' = requests \cup {c}
  /\ UNCHANGED <<team, count, flags, main, isr>>

Pending == {Line(c) : c \in requests}

\* The dispatcher calls the handler registered for the lowest line.
Dispatch(c) ==
  /\ isr = Idle /\ SHA_IRQ[c] \in Pending
  /\ \A i \in Pending : i >= SHA_IRQ[c]
  /\ isr' = <<c, HandlerAccesses(c)[count[c] + 1]>> /\ count' = [count EXCEPT ![c] = (@ + 1) % 3]
  /\ flags' = IF count[c] = 2 THEN flags \cup {c} ELSE flags
  /\ UNCHANGED <<team, working, requests, main>>

Take(c) ==
  /\ isr = Idle /\ Pending = {} /\ main = Idle /\ c \in flags /\ main' = <<c, MainAccesses(c)>>
  /\ UNCHANGED <<team, working, requests, count, flags, isr>>

\* The next access of a job, the cores it meets at one of their registers, and
\* what it does there.
Upcoming(job) == Head(job[2])
Left(job)     == job # Idle /\ job[2] # <<>>

Hit(x, word) == {c \in Cores \cap Decode(x.at) : Word(c, x.at) = word}

Reach(x) ==
  /\ requests' = IF x.what = "write" THEN requests \ Hit(x, ADDR_IRQ_CLR) ELSE requests
  /\ working'  = IF x.what = "start" THEN working \cup Hit(x, ADDR_CTRL) ELSE working

IsrAccess ==
  /\ Left(isr) /\ Reach(Upcoming(isr)) /\ isr' = [isr EXCEPT ![2] = Tail(@)]
  /\ UNCHANGED <<team, count, flags, main>>

IsrReturns ==
  /\ isr # Idle /\ ~Left(isr) /\ isr' = Idle
  /\ UNCHANGED <<team, working, requests, count, flags, main>>

MainAccess ==
  /\ isr = Idle /\ Pending = {} /\ Left(main)
  /\ Reach(Upcoming(main)) /\ main' = [main EXCEPT ![2] = Tail(@)]
  /\ UNCHANGED <<team, count, flags, isr>>

MainNext ==
  /\ isr = Idle /\ Pending = {} /\ main # Idle /\ ~Left(main)
  /\ main' = Idle /\ flags' = flags \ {main[1]}
  /\ UNCHANGED <<team, working, requests, count, isr>>

Cpu  == IsrAccess \/ IsrReturns \/ MainAccess \/ MainNext \/ \E c \in Cores : Dispatch(c) \/ Take(c)
Next == Cpu \/ \E c \in Cores : Complete(c)

Spec == Init /\ [][Next]_vars /\ WF_vars(Cpu)
-----------------------------------------------------------------------------
TypeOK ==
  /\ team \in Teams /\ working \subseteq team /\ requests \subseteq team
  /\ count \in [Cores -> 0 .. 2] /\ flags \subseteq team
  /\ isr # Idle => isr[1] \in team /\ Len(isr[2]) <= 61
  /\ main # Idle => main[1] \in team /\ Len(main[2]) <= 85

\* Every access of the firmware is answered by exactly one slave: the core
\* the job is for, at one of its registers, or the working memory, inside the
\* words it has, at the core's own region or the target.
Lands(c, x) ==
  LET w == Word(ONCHIP_1, x.at)
      slaves == Decode(x.at)
  IN  \/ slaves = {c} /\ Word(c, x.at) \in {8} \cup (16 .. 31) \cup (32 .. 40)
      \/ /\ slaves = {ONCHIP_1} /\ 4 * w < ONCHIP_MEMORY2_1_SPAN
         /\ \/ w - STORAGE_SIZE * c \in 0 .. STORAGE_SIZE - 1
            \/ w - STORAGE_SIZE * 12 \in 0 .. 7
EveryAccessLands == \A job \in {main, isr} : Left(job) => Lands(job[1], Upcoming(job))

\* The core a job's next access starts is not at work, and its last request was
\* cleared: no compression is cut short, and none ends under an old request.
Starts(job) ==
  IF Left(job) /\ Upcoming(job).what = "start" THEN Hit(Upcoming(job), ADDR_CTRL) ELSE {}
StartsIdle == \A job \in {main, isr} : Starts(job) \cap (working \cup requests) = {}

\* Again and again no request is left, and main() goes on: the handler on a
\* line clears the core that raised it, whatever the others ask for.
RequestsFall == []<>(requests = {})
=============================================================================
