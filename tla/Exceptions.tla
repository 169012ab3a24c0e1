----------------------------- MODULE Exceptions -----------------------------
(***************************************************************************)
(* The common exception entry (alt_exception_entry.S with the interrupt    *)
(* test, the multiply emulation and the trap test linked into it), the     *)
(* instruction-related exception API and the fatal ECC entry, under a      *)
(* short program.  An interrupt accepted for a request that falls before   *)
(* the test looks like an instruction's exception and is answered by the   *)
(* registered handler, which may not even learn the cause.                 *)
(***************************************************************************)
EXTENDS Integers

CONSTANTS Length,     \* instructions in the program
          Raises      \* bound: interrupt requests

ExceptionsAssumption == Length \in Nat \ {0} /\ Raises \in Nat

Place == 1 .. Length

\* alt_exception_cause_e, those that occur here
NOT_PRESENT == -1
INTERRUPT == 2            TRAP_INST == 3          UNIMPLEMENTED_INST == 4
ILLEGAL_INST == 5         MISALIGNED_DATA_ADDR == 6
ECC_REGISTER_FILE_ERR == 20

REISSUE_INST == 0         SKIP_INST == 1          \* alt_exception_result_e

CauseOf(kind) == CASE kind = "mul" -> UNIMPLEMENTED_INST
                   [] kind = "trap" -> TRAP_INST
                   [] kind = "illegal" -> ILLEGAL_INST
                   [] kind = "misaligned" -> MISALIGNED_DATA_ADDR

alt_exception_cause_generated_bad_addr(cause) ==
  cause \in {11, MISALIGNED_DATA_ADDR, 7, 14, 15, 17, 21}

VARIABLES
  extraInfo,             \* NIOS2_HAS_EXTRA_EXCEPTION_INFO, from the build on:
                         \* the CPU reports a cause, and bad addresses and
                         \* ECC errors at all
  program, pc, done,     \* the program, its place, completions
  repaired,              \* places whose operand the handler put right
  pie, ipending, raises, \* status.PIE, a request, requests so far
  at,                    \* where the CPU is
  ea, estatus, return,   \* saved at the exception, and 72(sp)
  cause, result,         \* EXCEPTIONS.CAUSE, the handler's answer
  handler,               \* alt_instruction_exception_handler is set
  eccCached, eccMemory,  \* alt_exception_ecc_fatal_handler, in the cache
                         \* and in memory
  eccOver                \* the ECC error has happened

build  == <<extraInfo, program>>
code   == <<build, pc, done, repaired>>
irq    == <<pie, ipending, raises>>
frame  == <<ea, estatus, return, cause>>
ecc    == <<eccCached, eccMemory, eccOver>>
vars   == <<code, irq, at, frame, result, handler, ecc>>

Kinds == {"plain", "mul", "trap", "illegal", "install", "disable"} \cup
           IF extraInfo THEN {"misaligned", "installEcc"} ELSE {}

Init ==
  /\ extraInfo \in BOOLEAN /\ program \in [Place -> Kinds] /\ pc = 1 /\ done = [i \in Place |-> 0]
  /\ repaired = {} /\ pie = TRUE /\ ipending = FALSE /\ raises = 0 /\ at = "run"
  /\ ea = 1 /\ estatus = TRUE /\ return = 1 /\ cause = 0 /\ result = 0
  /\ handler = FALSE /\ eccCached = FALSE /\ eccMemory = FALSE /\ eccOver = FALSE

Running == at = "run" /\ pc \in Place
Here    == program[pc]

(***************************************************************************)
(* The program.                                                            *)
(***************************************************************************)
Completes == pc' = pc + 1 /\ done' = [done EXCEPT ![pc] = @ + 1]

\* The CPU leaves the program for the exception entry; 72(sp) starts as the
\* address of the next instruction.
Saves(why) ==
  /\ ea' = pc + 1 /\ estatus' = pie /\ pie' = FALSE
  /\ return' = pc /\ cause' = why
Excepts(why) ==
  /\ Saves(why) /\ at' = "test"
  /\ UNCHANGED <<code, ipending, raises, result, handler, ecc>>

Plain ==
  /\ Running /\ (Here \in {"plain", "disable"} \/ (Here = "misaligned" /\ pc \in repaired))
  /\ Completes /\ pie' = (pie /\ Here # "disable")
  /\ UNCHANGED <<build, repaired, ipending, raises, at, frame, result, handler, ecc>>

Faults ==
  /\ Running /\ Here \in {"mul", "trap", "illegal", "misaligned"} /\ pc \notin repaired
  /\ Excepts(CauseOf(Here))

alt_instruction_exception_register ==
  /\ Running /\ Here = "install" /\ Completes /\ handler' = TRUE
  /\ UNCHANGED <<build, repaired, irq, at, frame, result, ecc>>

\* alt_ecc_fatal_exception_register: the store reaches the cache ...
EccStore ==
  /\ Running /\ Here = "installEcc" /\ ~eccCached /\ eccCached' = TRUE
  /\ UNCHANGED <<code, irq, at, frame, result, handler, eccMemory, eccOver>>

\* ... and the flush the memory.
EccFlush ==
  /\ Running /\ Here = "installEcc" /\ eccCached /\ eccMemory' = TRUE /\ Completes
  /\ UNCHANGED <<build, repaired, irq, at, frame, result, handler, eccCached, eccOver>>

(***************************************************************************)
(* The hardware: requests come and go, one fatal ECC error.                *)
(***************************************************************************)
Raise ==
  /\ ~ipending /\ raises < Raises /\ ipending' = TRUE /\ raises' = raises + 1
  /\ UNCHANGED <<code, pie, at, frame, result, handler, ecc>>

Withdraw ==
  /\ ipending /\ ipending' = FALSE
  /\ UNCHANGED <<code, pie, raises, at, frame, result, handler, ecc>>

Accept == Running /\ pie /\ ipending /\ Excepts(INTERRUPT)

\* The entry reads the handler with ldwio, past the cache.
EccFatal ==
  /\ extraInfo /\ Running /\ ~eccOver /\ eccOver' = TRUE
  /\ Saves(ECC_REGISTER_FILE_ERR) /\ at' = IF eccMemory THEN "fatal" ELSE "test"
  /\ UNCHANGED <<code, ipending, raises, result, handler, eccCached, eccMemory>>

(***************************************************************************)
(* The exception entry.                                                    *)
(***************************************************************************)
BugIrqTest ==  \* estatus.PIE is not looked at
  /\ at = "test" /\ at' = IF ipending THEN "irq" ELSE "notirq"
  /\ UNCHANGED <<code, irq, frame, result, handler, ecc>>
IrqTest ==
  /\ at = "test" /\ at' = IF estatus /\ ipending THEN "irq" ELSE "notirq"
  /\ UNCHANGED <<code, irq, frame, result, handler, ecc>>

IrqHandler ==
  /\ at = "irq" /\ ipending' = FALSE /\ at' = "exit"
  /\ UNCHANGED <<code, pie, raises, frame, result, handler, ecc>>

\* No interrupt: the return address moves behind the instruction, which is
\* then emulated, broken at, or handed to the API.
NotIrq ==
  /\ at = "notirq" /\ return' = ea
  /\ CASE Here = "mul"  -> at' = "exit" /\ done' = [done EXCEPT ![pc] = @ + 1]
       [] Here = "trap" -> at' = "broken" /\ UNCHANGED done
       [] OTHER         -> at' = "entry" /\ UNCHANGED done
  /\ UNCHANGED <<build, pc, repaired, irq, ea, estatus, cause, result, handler, ecc>>

alt_instruction_exception_entry ==
  /\ at = "entry" /\ at' = IF handler THEN "user" ELSE "hangs"
  /\ cause' = IF extraInfo THEN cause ELSE NOT_PRESENT
  /\ UNCHANGED <<code, irq, ea, estatus, return, result, handler, ecc>>

exception_pc   == ea - 1

\* The registered handler: it puts an operand right where the bad address is
\* valid, skips what cannot be executed and has the rest executed again.
\* Without a cause it looks at the instruction itself.
UserHandler ==
  /\ at = "user" /\ at' = "answered"
  /\ repaired' = IF alt_exception_cause_generated_bad_addr(cause)
                 THEN repaired \cup {exception_pc} ELSE repaired
  /\ result' = IF \/ cause = ILLEGAL_INST
                  \/ cause = NOT_PRESENT /\ exception_pc \in Place
                       /\ program[exception_pc] = "illegal"
               THEN SKIP_INST ELSE REISSUE_INST
  /\ UNCHANGED <<build, pc, done, irq, frame, handler, ecc>>

Answered ==
  /\ at = "answered" /\ at' = "exit"
  /\ return' = IF result # 0 THEN return ELSE ea - 1
  /\ UNCHANGED <<code, irq, ea, estatus, cause, result, handler, ecc>>

Exit ==
  /\ at = "exit" /\ at' = "run" /\ pc' = return /\ pie' = estatus
  /\ UNCHANGED <<build, done, repaired, ipending, raises, frame, result, handler, ecc>>

Program == Plain \/ Faults \/ alt_instruction_exception_register \/ EccStore \/ EccFlush
Entry   == IrqTest \/ IrqHandler \/ NotIrq \/ alt_instruction_exception_entry
             \/ UserHandler \/ Answered \/ Exit
Next    == Program \/ Entry \/ Raise \/ Withdraw \/ Accept \/ EccFatal

\* The CPU executes while it is not stopped; the devices owe nothing.
Fairness == WF_vars(Program \/ Entry \/ Accept)
Spec     == Init /\ [][Next]_vars /\ Fairness
-----------------------------------------------------------------------------
TypeOK ==
  /\ extraInfo \in BOOLEAN /\ program \in [Place -> Kinds] /\ pc \in 1 .. Length + 1 /\ done \in [Place -> 0 .. 1]
  /\ repaired \subseteq Place /\ pie \in BOOLEAN /\ ipending \in BOOLEAN
  /\ raises \in 0 .. Raises
  /\ at \in {"run", "test", "irq", "notirq", "entry", "user", "answered", "exit",
             "hangs", "broken", "fatal"}
  /\ ea \in 1 .. Length + 1 /\ estatus \in BOOLEAN /\ return \in 1 .. Length + 1
  /\ cause \in -1 .. 22 /\ result \in {REISSUE_INST, SKIP_INST}
  /\ handler \in BOOLEAN
  /\ eccCached \in BOOLEAN /\ eccMemory \in BOOLEAN /\ eccOver \in BOOLEAN

\* Whenever the program runs, everything before its place was completed once,
\* or was an illegal instruction the handler skipped, and nothing behind it
\* was begun: neither an interrupt, nor one whose request fell before the
\* test, nor a repaired fault loses or repeats an instruction.
EachOnce ==
  at = "run" => \A i \in Place : done[i] = IF i < pc /\ program[i] # "illegal" THEN 1 ELSE 0

\* The interrupt handlers are entered only for an exception that found
\* interrupts enabled, though a request may wait while they are disabled.
MaskRespected == (at = "irq") => estatus

\* Once the registration of a fatal ECC handler returned, the error reaches it
\* and never the ordinary entry, which would use the cache and the registers.
ErrorIsHandled ==
  eccOver' # eccOver => ((\E i \in 1 .. pc - 1 : program[i] = "installEcc") => at' = "fatal")
FatalReachesHandler == [][ErrorIsHandled]_vars

\* The program comes to its end unless an exception nobody handles stops the
\* CPU: a trap, a fault without a handler, a fatal ECC error.
EndsOrStops == <>(pc > Length \/ at \in {"hangs", "broken", "fatal"})

\* What the comment beside the exit says: an answer of zero skips.
ZeroSkips == [][ (at = "answered" /\ result = 0) => return' = ea ]_vars
=============================================================================
