# TLA+ models of the FPGA Bitcoin miner

The repository holds a Bitcoin miner for a Cyclone V board: ten SHA-256
peripherals written in Verilog on the bus of a Nios II processor, and bare-metal
C firmware, on Altera's HAL, that feeds them block headers, answers their
interrupts and compares double hashes with a target. Beside it there are two
programs for a PC that do the same search. This directory holds TLA+ models of
it, TLC configurations that check them on small instances, and proofs checked by
TLAPS.

Paths below are relative to `src/Project_SHA_2_10core/` unless they begin with
`src/`; `HAL/` and `drivers/` are in `software/FW_2_bsp/`.

## 1. Inventory

| Component | Source | State | Operations | Model |
|---|---|---|---|---|
| Firmware, `main()` | `software/FW_2/mining.c` 299-691 | `nounce0..9`, ten 48-word regions in on-chip memory, the target region | compute the target, write headers, start ten cores, poll ten flags for ever: read digest, compare, report or increment, store, restart, clear flag | `Miner`, `Layout`, `Target` |
| Firmware, handlers | `mining.c` 62-297 | `count0..9`, `flag0..9` | clear the interrupt, count, start the second block, start the second hash, raise the flag | `Miner`, `Layout`, `IrqPath` |
| SHA driver | `software/FW_2/SHA.c` | none; writes registers and regions | `SHA_Init`, `read_digest`, `write_clr_irq`, `Padding_Mem`, `Padding`, `compareWithTarget`, ... | `ShaDriver`, `Padding`, `Target` |
| SHA-256 peripheral | `system/synthesis/submodules/sha256.v` | control, mode, interrupt-enable, block, digest, status and interrupt registers | bus write, completion edge, clear | `Sha256` |
| SHA-256 core | `sha256_core.v`, `sha256_w_mem.v`, `sha256_k_constants.v` beside it | automaton, round counter, chaining value, working registers, 16-word window | start, 64 rounds, add, become ready | `Sha256Ctrl`, `Sha256Core` |
| Testbench | `SHA2/tb_sha256.v` | the test in progress | write a block, start, poll, read, compare | `ShaBench` |
| Interrupt path, restart of the CPU | `altera_irq_clock_crosser.sv`, `HAL/src/alt_irq_entry.S`, `alt_irq_handler.c` | flip-flops on each request, clears in flight | cross, enter, dispatch, clear | `IrqPath` |
| Interrupt masks and registration | `HAL/inc/priv/alt_legacy_irq.h`, `HAL/inc/sys/alt_irq.h`, `HAL/src/alt_iic*.c` | `status.PIE`, `ienable`, `alt_irq_active`, `alt_priority_mask`, `alt_irq[]` | enable, disable, register, become interruptible | `IrqMask` |
| Exceptions | `HAL/src/alt_exception_entry.S`, `alt_instruction_exception_*.c`, `alt_ecc_fatal_*` | saved frame, registered handlers | enter, tell from an interrupt, answer, return | `Exceptions` |
| Address map and interrupt lines | `software/FW_2_bsp/system.h`, `system_mm_interconnect_0_router.sv`, `system_irq_mapper.sv` | - | decode | `Bus` |
| JTAG UART driver, with interrupts | `drivers/src/altera_avalon_jtag_uart_*.c` | two ring buffers, `irq_enable`, `timeout`, `host_inactive` | interrupt routine, alarm, read, write, close, ioctl | `JtagUart` |
| JTAG UART driver, polled | the same files, `ALT_USE_SMALL_DRIVERS` | none | read, write | `JtagPolled` |
| Alarms, system timer | `HAL/src/alt_alarm_start.c`, `alt_tick.c`, `altera_avalon_timer_sc.c` | linked list, tick counter | start, stop, tick | `Alarms` |
| Wall clock | `HAL/src/alt_gettod.c`, `alt_settod.c`, `alt_times.c` | `alt_resettime` | get, set, times | `WallClock` |
| Timestamp timer | `drivers/src/altera_avalon_timer_ts.c` | the timer | start, read in two halves | `Timestamp` |
| Delays | `HAL/src/alt_busy_sleep.c`, `alt_usleep.c` | a register | count down | `BusySleep` |
| Files and devices | `HAL/src/alt_open.c`, `alt_close.c`, `alt_fd_lock.c`, ... | `alt_fd_list`, `alt_max_fd`, device lists | register, open, close, lock, redirect, calls | `Files` |
| Heap, stack check | `HAL/src/alt_sbrk.c`, `alt_stack.h` | `heap_end`, the stack limit | sbrk, push, pop, exception | `Heap` |
| Caches | `HAL/src/alt_?cache_flush*.c`, `alt_uncached_malloc.c`, `alt_load.c` | - | flush, discard, allocate, load | `Cache` |
| Printers, log port | `HAL/src/alt_printf.c`, `alt_log_printf.c` | parser state; the UART's FIFO | format; poll and write | `Printf`, `LogPort` |
| Profiling | `HAL/src/alt_mcount.S`, `alt_gmon.c` | lists of functions and arcs, histogram | record, allocate, sample | `Gmon` |
| PC tools | `src/visual studio/BlockHeader`, `CreateHashBlockHeader` | nonce, header bytes, target | search, compute a target | `PcMiner`, `Target` |

**What this build uses.** The BSP is compiled with `-Os`, with direct drivers,
small drivers, the small C library and the enhanced interrupt interface, for a
Nios II/e: no caches, no hardware multiplier, no report of an exception's cause.
There is neither a system clock nor a timestamp timer, and the only character
device is the JTAG UART. Alarms, clocks, profiling, logging, cache calls, stack
checking and the descriptor pool are therefore code the repository keeps for
other settings. They are modelled with the settings as CONSTANTS, as
their authors would check them; the behaviour of the running miner rests on the
first ten rows and `JtagPolled`.

**How they interact.** `main()` and the handlers run on one processor and share
plain (non-volatile) variables and memory regions. The firmware's handlers do not
nest: the HAL dispatcher runs one after the other, lowest number first, and
returns to `main()` only when it reads no pending interrupt. The cores run on a
clock of their own (75 MHz against 50 MHz), take their block and start bit over
the bus, and raise one level-sensitive interrupt each. A nonce takes three
compressions: INIT on header words 0..15, NEXT on words 16..31, INIT on the
padded first hash in words 32..47. The handler knows only from `count<c>` which of
them has ended. After the third it sets `flag<c>`; `main()` sees the flag,
compares, increments the nonce, stores it in word 19, restarts the core, and
*then* clears the flag. In the HAL, the timer's interrupt walks the alarms, one of
which watches the JTAG UART's host; the UART's interrupt moves characters between
the hardware FIFOs and the buffers that `read` and `write` use; profiling calls
`sbrk` from within any function of any handler.

**What is hard.** Everything the handlers do may fall between two statements of
`main()`, including all three compressions of a core that `main()` has just
restarted. A start is a pulse that a busy core ignores, and `SHA_Init` does not
look. The interrupt is an edge of delayed copies of two status bits, and it may
be set in the cycle in which it is cleared; request and clear each take clocks to
cross. Writing a header overruns into the next region. The HAL shares its masks,
rings, lists and marks between interrupt and foreground with few critical
sections, counts in words that roll over, and must move every interrupt enable
bit back in time. The list, line by line, is `hazards` in `PROJECT.json`.

**What makes each part correct.**

* Core: every digest is the one FIPS 180-4 defines, in both modes, for any chain
  of blocks, also after a message that was broken off.
* Peripheral: only finished digests are visible, ready-and-valid means fresh, one
  interrupt for a compression.
* Driver with peripheral: no start is lost, the digest read is the one due, every
  start is answered by an interrupt.
* Interrupts: each request has one run of its handler, only higher lines nest, the
  CPU lets in what software enabled, the dispatcher returns to `main()`.
* Firmware: the three blocks go in in order and are the standard's, the digest
  compared belongs to the nonce printed, a report is right, no core is lost, every
  core advances, a winner is found.
* Search: no nonce is skipped, whatever the first nonces are.
* Target: firmware and PC compute the same number and the same verdict.
* UART: each direction is a lossless, ordered channel, and calls end.
* Alarms: called at the tick asked for, neither before nor after.
* Files: a descriptor has one owner, a locked device has one descriptor.
* Heap: blocks are disjoint, a collision with the stack is reported.
* Clock and delays: the time set is the time read, a sleep is not too short.
* Profile and log: what is lost is lost to a race that can be named.

## 2. Modules

```
Miner  --implements-->  NonceSearch              MinerProofs, MiningProofs
  | takes for granted
ShaContract  <--implements--  ShaDriver          MinerProofs
                                 |
Sha256Ctrl --+-- Sha256 ---------+-- Sha256Free  PeripheralProofs
             |                   +-- ShaBench    PeripheralProofs
             +-- Sha256Core                      PeripheralProofs
IrqPath   IrqMask                                IrqProofs
Layout    Padding   Target   PcMiner   Bus       MiningProofs
JtagUart, JtagPolled  --implement-->  Channel (twice)     UartProofs
Alarms    --implements-->  AlarmClock            PlatformProofs
Exceptions  Cache                                PlatformProofs
Files     --implements-->  FdPool                ResourcesProofs
Heap                                             ResourcesProofs
Gmon      Printf    LogPort                      RecordsProofs
WallClock Timestamp BusySleep                    (model-checked)
```

One module describes one component. The suites `MCPeripheral`, `MCMining`,
`MCIrq`, `MCUart`, `MCPlatform` and `MCResources` instantiate the components of
one area side by side: the variable `unit`, chosen in the initial state, names the
component a behaviour is of, the variables of the others stay as they are, and the
suite's properties say of each `unit` what its component promises. Where a component
is used in several ways in one run (a UART written to, read from or left alone; a
descriptor table with and without direct drivers), the way is itself a variable,
`use`, chosen in the initial state from the constant `Uses`. Components that
really interact are not put side by side but into one module: firmware,
dispatcher and cores in `Miner`; driver and peripheral in `ShaDriver`; cores,
synchronisers, exception entry and firmware in `IrqPath`; the UART's two hardware
FIFOs, its host, interrupt routine and callers in `JtagUart`.

**The miner**

* **Miner** models `main()`, the ten handlers, the dispatcher and the cores as
  the processor sees them. `pc` is the statement of `main()` that runs next and
  `cur` the core it is at, so the ten copied blocks of the source are one block
  with `cur` from 0 to `NCores - 1`. Its actions are, in order of the code:
  `WriteHeader`, `StartCore`, `PollClear`/`PollSet`, `TakeDigest`, `Found` or
  `NextNounce`, `StoreNounce`, `RestartCore`, `ClearFlag`, and `Spin` after
  `main()` has returned. `EnterIsr`, `ServeIrq`, `ReadAgain` are the dispatcher.
  A handler is one action because no other software runs during it, and because
  all it touches of the hardware is its own idle core (`ShaDriver` looks inside).
  `Finish(c)` is a core that ends its compression. Hashes are symbolic: `Mid`,
  `First(n)`, `Double(n)` for the three right uses of the core and `Garbage` for
  every other.
* **NonceSearch** is the abstract specification: a cursor for each core, a step
  examines the nonce at one cursor, reports it or moves on, modulo the nonce
  space. `Miner` implements it with `cursor <- nounce`, `result <- report`.
* **Layout** has the words of the on-chip memory that `Miner` abstracts: the
  headers written in ascending order, each over the first words of the next
  region, the nonce's bytes, the digest words the handlers store, the target two
  regions further on. It keeps the real addresses and sizes of all ten regions.
* **Target** is the expansion of a header's bits to 32 bytes, once as `main()` and
  `storeTargetIntoMemory` do it and once as the PC tools do, and both comparisons.
  A write outside `target[]` is recorded in `stray`.
* **Padding** is `Padding_Mem` and `Padding` with `getLength`, word by word;
  **PcMiner** the loop of `CreateHashBlockHeader`, with the array
  `blockHeaderHashByte` returns from its own stack either intact or anything.
* **Bus** puts the addresses and line numbers of `system.h` (and the offsets the
  driver adds) on one side and the generated router and interrupt mapper on the
  other; the accesses of `main()` and of the handlers go through both. `Starts` is
  what arrives at a core as a start, whether or not the core is at work.

**The peripheral**

* **Sha256Ctrl** is the automaton of `sha256_core.v` with the round counter;
  **Sha256** adds the wrapper `sha256.v` register by register, one step a clock
  cycle, with a symbolic datapath: a chaining value is the sequence of the mode
  and the blocks absorbed, and `Broken` when a sum mixes two computations.
* **ShaDriver** drives `Sha256` as `SHA.c` does (`DriverInit`, `DriverNext`,
  `DriverSpec`; its names differ from `Miner`'s, since one module proves facts about
  both): every bus access of `SHA_Init`,
  the handler and `read_digest` is a step, with any number of clock cycles in
  between. The compiled program clears the interrupt before the control register,
  the source the other way round (the pointers are not volatile); both orders are
  allowed. It implements **ShaContract**, whose actions are the ones by which
  `Miner` describes a core.
* **Sha256Free** drives `Sha256` with any write in any cycle. **ShaBench** drives
  it as the tasks `single_block_test` and `double_block_test` do, polling the
  status, tests in any order without a reset in between.
* **Sha256Core** is the datapath with words as sets of bit positions, and with it,
  written independently of the code, FIPS 180-4: the full schedule `W` as a
  function of the block and the 64 steps, as recursive functions over any messages.

**Interrupts and exceptions**

* **IrqPath** runs one CPU clock a step: the request of a core, the `Depth`
  flip-flops that carry it over, the exception entry that tests `ipending`, the
  dispatcher that reads it again, the handler's clear on its way back. The CPU may
  stall at any clock. With `Restarts` the CPU alone starts again while the cores
  go on; `stale` remembers the cores that it found computing or waiting. Restarting a
  core and clearing its flag are two steps, in the code's order.
* **IrqMask** has a stack of frames, one for each activation of
  `alt_irq_handler`; the top one runs, one access to `PIE`, `ienable`,
  `alt_irq_active`, `alt_priority_mask` or the table at a time.
* **Exceptions** runs, with or without extra exception information (`extraInfo`,
  chosen initially), a short program whose instructions may be emulated, raise an
  exception or be interrupted; the request may go away between the CPU's decision
  and the test in the entry. The registered handler is external.

**Drivers and HAL services**

* **JtagUart**: one iteration of each copying loop is a step, and a read of an
  index that the other side writes is a step of its own; the interrupt routine
  runs to its end before the foreground goes on, the host interleaves with
  everything. A character is its number in the stream. **JtagPolled** does the same
  for the driver this build compiles. **Channel** is what each direction promises:
  `Put` and `Get` on a queue of consecutive numbers.
* **Alarms** keeps the doubly linked list as two functions `next` and `previous`,
  times modulo `Wrap` with their roll-over flags, and walks the list element by
  element, with callbacks that start and stop alarms in between, their own and
  others; only with `StopsNext` also the very one that `alt_tick` has read as the
  next. It implements
  **AlarmClock**, a countdown for each alarm.
* **Files** has two threads inside `open`, `close`, `ioctl(TIOCEXCL)` at a time;
  `alt_get_fd` and the lock hold a semaphore and are one step, the test for a
  locked device in `open` does not and goes descriptor by descriptor. It implements
  **FdPool**, in which `open` is one atomic grant.
* **Heap** has `main()` and a handler inside `alt_sbrk`, on one stack or with an
  exception stack (`ownStack`, chosen initially), and the stack pointer and its limit
  as they move; `rounded` remembers that an odd end was rounded. **Gmon** has the two
  inside `mcount`, with `torn` the counts a handler stored inside `main()`'s own
  increment of the same count. **LogPort** has the log and the UART's driver at one
  FIFO, with `filled` what has been written since `main()` found space.
* **WallClock** remembers in `over` that a 32-bit number has overflowed, and
  **BusySleep** chooses initially whether the compiler loads its register again
  before every piece (`reloaded`). These two and **Timestamp**, **Cache**, **Printf**
  are short and say in their heads what they model.

Operators whose names begin with `Bug` are not part of a model. Each is a slip
its neighbour could have; `mutants` in `PROJECT.json` says which property notices
it.

## 3. Runs

| Run | Question | Bounds |
|---|---|---|
| `MinerSafety` | With no timing assumption at all: do the dispatcher, `main()` and the cores ever lose a start, mix up blocks, compare the wrong nonce? Is a core lost anywhere but at the clear? Is the firmware a nonce search? | 3 cores, 4 nonces |
| `MinerPrompt` | If flags are cleared promptly, does every core keep working, and is the search fair? | 2 cores, 3 nonces, no winner, so the search never ends |
| `MinerFinds` | Is a winner reported, and does everything come to rest after `main()` has returned? | 2 cores, 4 nonces |
| `MinerDispatch` | Does the dispatcher always return to `main()`? | 2 cores, 3 nonces |
| `MinerSilent` | Without the timing assumption, can a core fall silent? (It can.) | 2 cores, 3 nonces |
| `ShaDriver` | Does driver plus peripheral fulfil the contract, at any alignment of accesses and clock? | real sizes: 64 rounds, 16 words |
| `Peripheral` | What does the peripheral guarantee against any bus master; can polling take a stale status for an answer, and does it end; is the datapath FIPS 180-4? | free: 3 rounds, 2 block words, 2 word values, chains of 2 blocks; testbench: 64 rounds, 16 words, 2 word values; datapath: the testbenches' messages (`Hashed`), both modes, broken off at any block |
| `Mining` | Does the search skip nothing; are the blocks fed the standard's; do firmware and PC agree on target and verdict; does every access land where it is meant, and every start meet a core at rest? | search: 3 cores, 12 nonces, every start above the only winner; layout: all ten regions, cores 4, 5 and 9 started, 2 headers each; padding: 34 lengths around word and block ends, 5 byte values; target: 12 exponents, 3 mantissas, hashes that differ from the target in up to 2 of 6 bytes; PC: bytes of 3 values, 3 nonces in the file, 11 sets of winners, the returned array intact and not; bus: all ten cores, two at work at a time |
| `Irq` | Is each request served once, whatever the clocks it takes to cross, and what of it does a restart of the CPU alone leave intact; who interrupts whom, and is a line's enabling ever lost? | path: 2 cores, 3 flip-flops, a clear of up to 2 clocks, 4 clocks to the test, 5 to the end of a handler, 1 restart of the CPU; masks: 3 lines |
| `Uart` | Are both directions lossless, is a character ever stranded, do calls end? | buffers of 3, FIFOs of 2, calls of 0 to 4 characters (0, 1, 3 for the polled driver), numbers modulo 6, timeout 2 s (3 after ioctl), "never" at 5; uses: writing and closing to a host that takes, reading from one that types with the flags hoisted out of the loop, every call with a host that does nothing |
| `Platform` | Are alarms called at the right tick; are clock, timestamps and sleeps right; does each instruction take effect once; do the cache calls leave anybody with stale bytes? | 3 alarms, counter modulo 5, waits 0 and 3, periods 1 and 4, callbacks that stop any alarm but the next; a tick counter of 32 values for 40 ticks, no clock and 4 tick rates, one of which does not divide the 10 microseconds of a second; counter halves of 4 values; all 7-bit delays, the register reloaded or not; 3 instructions, 2 requests, with and without extra information; 3 memory lines of 2 bytes over 2 cache lines, regions of 1 to 4 bytes from 0 and 1 |
| `Resources` | Are heap blocks disjoint and collisions reported; do descriptors implement the pool; are profile, prints and log true? | heap up to address 20, requests of 3 and 8 bytes, with and without an exception stack; 2 threads, 6 descriptors, with and without the highest kept open, one caller of every call, and the same with direct drivers; 4 calls of 2 functions, slabs of 3 entries, a heap of 20; 8-bit words, 5 arguments, widths to 11; FIFO of 2, messages of 2, all settings of the log's flags |

Each of these runs but `MinerSilent` passes; every property has a mutant that
breaks it. `Mining`, `Uart`, `Platform` and `Resources` say `CHECK_DEADLOCK FALSE`
because something in them really stops: the search reports and a PC tool exits; a
write waits for ever for a host that does nothing when no alarm gives it up; the
bounded numbers of ticks, instructions, calls and messages are used up. Everywhere
else deadlock is checked.

**Why the bounds are enough.** In `Miner` the cores meet in the dispatcher
(which serves the lowest) and in the header writes (core *c* disturbs *c+1*): two
cores show every pair, three show a core that waits behind two. The nonce space
is small enough to wrap, so that intervals run into each other. In `Sha256Free`
the control sees the number of rounds only as "not yet" and "last"; three rounds
let a write fall into the first, an inner and the last round, and two block words
let a block change half way. `ShaDriver` and `ShaBench` keep the real sizes
because the number of clock cycles against the number of accesses is what they are
about. The datapath is deterministic: there the messages are the bound, and the
run goes through every message of the testbenches. In `IrqPath` the flight of a
clear and the depth of the synchroniser are larger than the board's relation needs;
two cores and a restart let a request of the old run cross while the new run clears
and starts. In
`IrqMask` three lines give a handler something higher and something lower. In the
UART, buffers of 3 wrap within one call of 4 characters, FIFOs of 2 are shorter
than the buffers, and 6 numbers are more than both together hold, so a lost or
repeated character is a wrong number. The counter of `Alarms` rolls over within the
longest wait. In `WallClock` the tick counter rolls over after 32 of the 40 ticks,
and `settimeofday`'s product sooner at most rates; what `SetThenGet` and `KeepsPace`
say ends there, by their own words. The requests of 3 bytes leave the heap's end
odd, those of 8 alone do not. The descriptors from 3 on let an open find a hole
below the mark. The two arrangements of the stack, the
regions of the cache calls that begin on and off a line, and the formats up to one
blank more than a number is wide are all there is to tell apart. What is proved
(section 5) holds for any sizes.

**The timing assumption.** `PromptClear` says: the store that clears the flag of
a restarted core is executed before the core's third compression has ended. The
source does not enforce it. `MinerSilent` shows what happens without: an interrupt
taken between the restart and the store keeps the processor in the dispatcher,
which goes on while anything is pending; a handler takes longer than a
compression, so the three compressions of the restarted core are served in one
go, the flag is set, and the store clears it with nobody left to start the core
again. `OnlyClearLosesCore` shows that this is the only place where a core can be
lost. In the build in the repository six instructions lie between the start of
the core and the store (`FW_2.objdump`), at about six processor cycles each; a
compression takes about 70 cycles at 75 MHz, 46 processor cycles, and the
interrupt a few more to arrive. The margin is a few cycles; another compiler
setting, a slower code memory or an additional interrupt source would use it
up. (The JTAG UART is no such source: the BSP takes its small, polled driver.)
Clearing the flag before `SHA_Init` would remove the assumption.

`IrqPath` has another one, `TimingAssumption`, `Body >= Flight + Depth`: the way
the end of the handler is longer than the flight of the clear through the
synchroniser. It is arithmetic on the code (the restore of the frame, `eret`) and
the `SYNCHRONIZER_DEPTH` of the hardware, and `ShaDriver`'s `ReturnCycles` is its
counterpart in the peripheral's clock.

**Fairness.** `Miner`: `WF(Main)` and `WF(Exception)`: the processor does not stop
fetching instructions; `main()` is only enabled while nothing is pending, so its
fairness does not promise that the dispatcher ever returns, which
`DispatcherReturns` checks. `WF(Finish(c))`: a started core ends. This is no
assumption about the hardware: `ShaDriver` checks that the driven peripheral
implements `ShaContract` with its fairness from the clock alone (`WF(Next)`: the
clock ticks; `WF(Cpu)`: the processor makes its next access in the end). The
testbench has the fairness of its clock. `Uart`: the interrupt routine and a call
under way go on; a host that takes, takes; where the host does nothing the timer
ticks once a second. `Platform`: `alt_tick` goes on (weak); a callback that runs
returns, which needs strong fairness because starting or stopping an alarm inside
it are steps of their own; the CPU executes; a flush goes on whenever no handler
runs. Nothing is assumed of applications, threads or devices that may also do
nothing.

## 4. Findings

`MinerSilent` is the one run that fails, as described under *the timing
assumption*: `main()` restarts a core with `SHA_Init` and only then stores its
flag (`mining.c:468`-`471` and the nine copies).

Modelling brought out other places where a comment says one thing and the code
does another. They are outside what the running miner uses, except the restart and
the PC tools, and are no runs of their
own. Each can be reproduced: the module has a constant, or a kind of initial state,
that admits the case, and
the property in the second column states what the comment says. Checking the
module with these values gives the trace. The suites give the constants the values
for which the property holds, or leave the property out.

| Where | Module: constants, property | What happens |
|---|---|---|
| `HAL/src/alt_alarm_start.c:89` | `Alarms`: `Wrap = 5`, `StartWaits = {1, 4}`, `Periods = {1, 3, 4}`; `IsClock` | An alarm started for 0xffffffff ticks adds up to the present tick; no roll-over is noted and it runs at the next one, though `:45` calls it "The time to elapse until the alarm executes". |
| `HAL/src/alt_tick.c:102` | `Alarms`: `StopsNext = TRUE`; `TickEnds` | `alt_tick` has read the next element; a callback that stops just that alarm leaves it pointing to itself, and the walk never ends, in the interrupt. `:61` names no such limit. |
| `HAL/src/alt_dcache_flush_no_writeback.c:65` | `Cache`: `WholeLines = FALSE`; `OtherLinesKept` | For an unaligned region one line more is always dropped, also when it lies wholly behind the region: what was written there is lost. `:59`: "we've got one more line left". |
| the same file, `:54` | `Cache`: `DLines = 0`; `FlushReturns` | Without a data cache the step is `NIOS2_DCACHE_LINE_SIZE`, 0, and the loop does not end; `alt_dcache_flush.c:48` has the test that is missing here. |
| `HAL/src/alt_exception_entry.S:279` | `Exceptions`: initial states with `extraInfo`; `ZeroSkips` | The comment at `:276` says "Return code was 0: Skip."; the code re-issues at 0, as `alt_exceptions.h:95` wants. |
| `HAL/src/alt_fd_lock.c:61` | `Files`: a use with `pinned` FALSE; `Exclusive` | The search for others with the device leaves out the highest descriptor, so a lock is granted although it has the device; `:43` says the lock is granted if there are no others. |
| `HAL/src/alt_release_fd.c:46` | `Files`: a use with `closesStd` TRUE; `LockIsHeld` | Closing a locked stream keeps its lock, with nobody to undo it; `alt_file.h:106`: "A device is unlocked by either calling close()". |
| `HAL/src/alt_write.c:113` | `Files`: a use whose `calls` have `"write"`; `NullDiscards` | The streams start with flags 0, read only; a write to one that stays at `/dev/null` fails with EACCES instead of being discarded as `alt_dev.c:72` says. |
| `HAL/src/alt_mcount.S:120` | `Gmon`: as in `Resources`; `CountsExact` | The count is loaded, incremented and stored with interrupts enabled; what a handler counts in between is lost, although "the number of times this arc is executed is recorded" (`alt_gmon.c:52`). `EveryArcCounted` says that nothing else is. |
| `HAL/src/alt_gmon.c:167` | the same; `SamplerStartedOnce` | `pcsample_need_init` is tested and cleared with interrupts enabled: two histograms, and one alarm in the list twice, although `:153` wants to "cope with reentrancy". |
| `HAL/src/alt_gmon.c:226` | `Gmon`: `TextBytes = 40`; `BucketInside` | The number of buckets is rounded down, the range tested is not: a sample of the last bytes is counted behind the histogram (`:259`). |
| `HAL/src/alt_gmon.c:139` | `Gmon`: `HeapUnits = 4`; `NoWildEntry` | The -1 of an exhausted `sbrk` (`alt_sbrk.c:80`) is taken for an address. |
| `HAL/src/alt_irq_handler.c:143` | `IrqPath`: `Restarts = 1`; `DispatcherServes` | `main()` after a restart clears, in `SHA_Init`, the request of a core of the old run; an exception entered just before finds nothing pending, and the inner loop shifts its mask to 0 and never ends. `RequestsServedOnce` asks for `DispatcherServes` while no restart has found a core at work. |
| `software/FW_2/mining.c:316` | `IrqPath`: `Restarts = 1`; `StartMeetsIdle` without `next \notin stale` | A restarted CPU registers its handlers, with interrupts enabled and the counts at 0, before it has cleared anything: a late interrupt of the old run is counted as the first of the new one, and a core still at work ignores its start. |
| `HAL/inc/priv/alt_legacy_irq.h:94` | `IrqMask`: `IsrOps = TRUE`; `OnlyHigherNests` | `alt_irq_enable` and `alt_irq_disable` write `alt_irq_active` to `ienable` without `alt_priority_mask`: called by an interruptible handler they let lower lines in (`:103`: "to allow higer priority interrupts"). |
| `drivers/src/altera_avalon_jtag_uart_write.c:187` | `JtagUart`: a use with `ops` {"write"}, `host` {"takes"}, `DefaultTimeout = 3`; `EioMeansNotConnected` | One idle second ends the wait and gives EIO, which `:211` explains as "Host not connected", while the driver's own test says connected. |
| the same file, `:183`, and `_read.c:167` | `JtagUart`: a use with `hoisted` TRUE, `host` {}; `SilentHostGivenUp` | `host_inactive` is not volatile; read once, the loop "until host disconnects" does not end. |
| `HAL/src/alt_log_printf.c:98` | `LogPort`; `NothingLost` | Test for space and write are two accesses with interrupts enabled: a handler fills the FIFO in between and the character is lost (`:97`). `LossNeedsAnInterrupt` says that only then it is. |
| the same file, `:471` | `LogPort`; `BeatsEveryInterval` | The heartbeat comes every `ALT_LOG_SYS_CLK_INTERVAL` + 1 ticks, not every one of them (`:465`). |
| `HAL/src/alt_sbrk.c:105` | `Heap`: as in `Resources`; `NoSilentCollision` | After a request that is no multiple of 4 (`alt_gmon.c:227` makes such) the rounded old end is no longer equal to the limit; it is taken for another stack and never moves again (`:99`). `CollisionSeen` says that until then every collision is seen. |
| the same file, `:124` | `Heap`: initial states with `ownStack`; `ReportsOnlyOverflow` | On the exception stack the old limit has just been found equal to the old end, so every extension is reported as an overflow (`:117`). |
| `CreateHashBlockHeader.cpp:149` | `PcMiner`: `Filed = {0, 5, 40}`; `PrintsValid` | The first pass hashes the nonce in the file while `nounce` is 0; a file already solved is reported as "Nounce = 0 is valid" (`:161`). |
| the same file, `:85` | `PcMiner`: `Intact = FALSE`; `PrintsValid` | The array compared is the callee's local one; `time()` runs in between. |
| `HAL/src/alt_settod.c:84` | `WallClock`: `Wrap = 16`, `MaxTicks = 20`, `Rates = {2}`; `SetThenGet` without the bound on the product | `settimeofday` multiplies in 32 bits, `gettimeofday` in 64: after 71 minutes an "immediate call to gettimeofday()" (`:61`) returns something else. |
| `HAL/src/alt_gettod.c:79` | `WallClock`: `Rates = {10}`, `Wrap = 16`, `MaxTicks = 17`; `NeverBack` | When the tick counter rolls over the "current wall clock time" (`:57`) falls back by its range. |
| the same file, `:80` | `WallClock`: `Rates = {3}`, `Wrap = 64`, `MaxTicks = 10`; `NeverBack` | At a rate that does not divide 1000000, 1024 say, the microseconds lag behind the seconds; the clock jumps ahead at every second and falls back soon after. |
| `drivers/src/altera_avalon_timer_ts.c:128` | `Timestamp`; `FullPeriodIsMinusOne` | After a full period `alt_timestamp` returns 0, as `:57` says, not -1, as `:92` says. |
| `HAL/src/alt_busy_sleep.c:107` | `BusySleep`: `Asked = {12}`; `NoRounds` | A delay that is a whole number of pieces leaves 0 for the last loop, which then takes 2^32 turns (`:36`). |
| the same file, `:94` | `BusySleep`: `Asked = {30}`; `NoRounds` | The assembly counts down a register it declares as an input only; if the compiler keeps it across the loop it is 0 for the second piece. `SleepsAsAsked` bounds both, with the rounds counted. |

Two more things worth knowing that violate nothing:

* `Padding_Mem` fills 64 words of a 48-word region. Since headers are written in
  ascending order, each next header repairs the damage; `PipelineInOrder` and
  `BlocksAreStandard` depend on that order.
* Only wrap-around lets a nonce below a core's start be reached; the starts are
  not quite even (`nounce6` is 0x93333333 where an even spacing gives 0x99999999),
  which costs balance and nothing else.

## 5. Proofs

Eight modules hold theorems. Each assumes only the named assumptions on the
constants of its modules, which TLC evaluates on every run, and what the last column
names. Every invariant a passing run checks, and every action property and
refinement but those listed at the end, is stated by a theorem.

| Module | Theorem | Proved, for every value of the constants | Under |
|---|---|---|---|
| `MinerProofs` | `TypeCorrect`, `InductiveInvariant` | `TypeOK` and `IInv` | - |
| | `StartsAreTaken`, `PipelineCorrect`, `ComparisonCorrect`, `ReportCorrect` | `NoStartDropped`, `PipelineInOrder`, `ComparesItsNonce`, `ReportIsWinner` | - |
| | `DigestStable`, `LossOnlyAtClear` | `FlaggedDigestStable`, `OnlyClearLosesCore` | - |
| | `ImplementsSearch` | `SearchSafety`: `Miner` implements `NonceSearch` | - |
| | `PromptClearKeepsCores` | `NoCoreSilent` | `PromptClear` |
| | `DriverInvariant`, `DigestIsDue`, `PulsesAreTaken` | `ReadsDueDigest`, `PulseMeetsIdle` of `ShaDriver` | `ReturnCycles > 0` |
| | `ImplementsContract` | the safety part of `FulfilsContract` | `ReturnCycles > 0` |
| `MiningProofs` | `NothingIsSkipped` | `NothingSkipped` | - |
| | `FedAsTheStandardWants` | `BlocksAreStandard` | - |
| | `ToolsAgree` | `PcToolsAgree` | - |
| | `BusInvariant`, `EveryAccessIsRight`, `CoresStartIdle` | `AccessesLand`; `StartsIdle` of `Bus` | - |
| `PeripheralProofs` | `PeripheralTypeCorrect`, `OneInterruptEach` | `TypeOK`, `OneIrqPerCompression` of `Sha256Free` | - |
| | `DigestAlwaysFinished`, `ReadyDigestIsFresh` | `DigestIsFinished`, `ReadyMeansFresh` | - |
| | `BenchReadsItsDigest` | `BenchReadsDigest` | - |
| | `CoreComputesSha2` | `CoreIsSha2` | 64 rounds |
| `IrqProofs` | `MaskInvariant`, `NestsSoundly`, `TablesAreSound` | `NestingSound`, `TablesSound` | `~IsrOps` |
| | `PathInvariant`, `OneHandlerEach`, `ServedOnce` | `RequestsServedOnce` | - |
| | `NoRequestLost` | `RequestKept`, `StartMeetsIdle` of `IrqPath`; `DispatcherServes` while `stale` is empty | - |
| `UartProofs` | `UartInvariant`, `UartTypeCorrect`, `NothingStranded` | `NeverStranded` | - |
| | `DriverKeepsWord` | `DriverKeepsItsWord` | - |
| | `ChannelsAreLossless` | `ChannelsLossless`: both drivers implement two `Channel`s | - |
| `PlatformProofs` | `AlarmInvariant`, `ListStaysSound` | `ListIsSound` | - |
| | `AlarmsAreAClock` | `IsClock`: `Alarms` implements `AlarmClock` | `Sane` |
| | `EachInstructionOnce`, `EccReachesHandler` | `ExceptionsHandled`; `FatalReachesHandler` of `Exceptions` | - |
| | `CallsKeepFresh` | `CacheFresh` | `WholeLines` |
| `ResourcesProofs` | `HeapInvariant`, `BlocksStayDisjoint` | `BlocksDisjoint` | - |
| | `CollisionsAreReported`, `HeapKeepsItsWord` | `CollisionsReported` | - |
| | `FilesKeepSound` | `FilesSound` | `KeepsStreams` |
| | `DescriptorsAreAPool` | `DescriptorsArePool`: `Files` implements `FdPool` | `KeepsStreams` |
| `RecordsProofs` | `RecordsStayTrue` | `RecordsTrue` | words of 8 bits |

The assumptions in the last column are no conveniences: without each of them section
3 or 4 has the behaviour that breaks the property. `PromptClear` is the timing
assumption; `ReturnCycles > 0` says that a handler needs at least one clock to return;
`IsrOps` is a handler that changes enables while it is interruptible; `Sane` says that
callbacks do not stop the alarm `alt_tick` comes to next and nobody waits 0xffffffff
ticks; `WholeLines` and `KeepsStreams` say that a device fills whole cache lines and
that the program leaves its three streams open. With
a number of rounds other than 64 the datapath is not SHA-2.

**Miner.** None of the invariants is inductive: that the digest compared
is `Double(nounce[cur])` depends on where in its three compressions a core is
while `main()` is elsewhere. `IInv` says so for each core: it is `Busy` with
the compression that `count[c]` names, either running or finished and pending, or
it is `Quiet`; a flag is up only over a quiet core, or at the clear; a quiet,
flagged core shows the double hash of `word19[c]`; regions are whole once written
and `word19[c]` equals `nounce[c]` except between increment and store
(`RegionInv`); the dispatcher holds only interrupts that are still pending. Each
action has a lemma that it preserves `IInv`, one step for each conjunct it can
disturb; the `...Frame` lemmas carry over the cores it leaves alone.
`OnlyClearLosesCore` and the refinement then follow step by step from `IInv`:
only `Found` and `NextNounce` change what `NonceSearch` sees. `NoCoreSilent`
needs one more invariant, that at the clear the restarted core has not finished,
which is where `PromptClear` enters.

**Driver.** The second half of `MinerProofs` says what the peripheral is doing at
every place of the driver's program (`ProgramInv`); while the driver waits that is
one of six phases, from the pulse over the computation to the request seen. That the
handler takes a clock to return is needed so that the cleared request is not seen
again. The refinement of the contract follows from the phases.

**Search and bus.** On a ring "between start and cursor" is an interval of distances:
`Distance` is the way round from the start, and `Skips` says that a winner nearer
than the cursor has been reported. One step lengthens the distance by one, or wraps
it, which needs the start itself to have been examined. `BusInv` says that what a
job has left is a sequence of accesses that land (`JobOf`), that a core whose handler
is about to start it does not work (`HandlerStarts`), and that a flagged core neither
works nor asks, except for the request its last handler is about to clear: so a start
never finds a core at work. That the real addresses decode as meant is arithmetic on
the ten bases and spans.

**Blocks.** `LayoutInv` says which words stand (`HeadersStand`): a header that was
written stays, because its own words behind it spoil only headers written later; the
target stays because it lies behind all of them. `PaddingInv` says that
each byte packed so far is in its place with nothing behind it, then the mark, then
zeros up to the word of the length; the padding branches by the remainders of the
length, which the proof follows.

**Target and PC search.** `TargetInv` gives each array byte by byte: `target[]` as a
function of the exponent, the words stored, the digest before and after its bytes are
reversed, and the file's array, which is rotated. Both comparisons walk from the
highest byte: `SameUpTo` says that what was passed was equal, so the first difference
decides (`SmallerHere`, `NotSmallerHere`). For the PC's search, `HeaderInv` says that
the header holds the number counted, for any radix: the four bytes are the digits of
the quotients, and `Number` puts them together again (`QuotientIs`, `DivDiv`).
`SearchInv` says what has been tried while the returned array is intact and that none
of it won.

**The peripheral.** `ControlInv` (which combinations of state, counter, ready and
valid occur, and what the delayed copies lag behind) and `DataInv` (the chaining
value is whole except in the cycle of the sum, and then valid is off) are proved
apart. The testbench's `BenchInv` adds what has been written of the block, and that
nothing is being computed when its task believes so. The datapath is proved against
the standard's recursive definitions: `CoreInv` says that in round *t* the working
registers are those after *t* rounds and the window holds the schedule's words from
*t* on (`WindowInStep`), and, between blocks, that the chaining value is the hash of
the blocks absorbed. The schedule, the rounds and the hash are recursive functions
over numbers; `Induction` and `Recursion` derive what they need of them from the
library's theorem that a well-founded set has a minimum. `KnownAnswers` rests on
`AnswersAssumption`, which TLC evaluates.

**Interrupts.** The frames of `IrqMask` form a stack of rising priority; the
invariant relates `alt_priority_mask` to the top frame's line, `ienable` to mask
and `alt_irq_active` except in the sections in which one has been written and the
other not yet (`Sections`; that is why `IsrOps` has to be false), and says what each
suspended frame will restore. Of `IrqPath`, `Served` says that what the CPU sees of a
request already served is gone before it looks again: what is left in the
flip-flops fades in fewer clocks than the handler is still busy, which is where
`TimingAssumption` enters; it survives a restart. Of the cores that no restart found
at work, `Kept` adds that each is idle, computes, or waits for its handler with its
request on a solid line of flip-flops.

**UART.** `Inv` goes by owner: each index is moved by one side only, so each side's
snapshot bounds the room or the amount the other has left; `Armed` says where each
interrupt-enable bit is on, or which place of the program is going to turn it on.
`Moves` says what the snapshots still hold when they are used and numbers the
characters on their way in; with it each step of the driver and of the host is a
step of one channel or none. `PolledInv` is the same for the driver without buffers.

**Alarms.** That the list is well formed and that its variables have their types is
inductive only together, with the place of the walk. `ClockInv` adds that the walk
meets every alarm that is due. "Ahead in the list" is said without induction: an
element is in every set that holds the walk's place and that the links leave only
through the head (`Closed`, `Reached`, `Ahead`). `Timed` says what a time and its
roll-over flag stand for. **Exceptions**: `Saved` says what the entry has saved,
`Progress` that everything before the current place took effect once. **Caches**:
the copy the processor would read of a byte is the last one written (`Coherence`),
a flush has dealt with the lines before the address it has come to (`Swept`), which
takes some arithmetic of rounding to lines.

**Heap.** `Alone` says that nobody else is inside `sbrk` once one is past its first
test, `Below` that every block ends at or below `heap_end`; `Marks` and `Guarded`
that the limit of `main()`'s stack, wherever it is kept, is the heap's end except
while `sbrk` moves both, until an odd end is rounded (`rounded`). Even then `heap_end`
stays at or below the limit of memory rounded up (`Top`).

**Files.** `PoolInv` says what a taken descriptor is, `Openers` who is filling it, `PinInv` that while the highest descriptor stays open a
second descriptor of a locked device is one whose `open` has yet to find the lock;
`Paired` counts the opens a driver has seen. The pool's atomic grant is the last step
of `open`, so each step of `Files` is a step of `FdPool` or none.

**Records.** In the profile a walk along a list that a handler overtakes may add an
arc that is there already; `Walks` and `Doubles` bound the copies by what a caller
knows of the arc it looks for, `Loaded` says that what was loaded of a count never
exceeds it, and `Counts` that the sum over an arc's copies with the calls being
counted never exceeds the calls made. `Exact` makes that an equation: what a handler
has counted since `main()` loaded the same count is due to be overwritten (`Due`), is
known in `torn` (`DueTorn`), and is all that will be missing. The lemmas about that
sum are proved for the library's fold over any finite set. `LogInv` says that whoever found space with
interrupts off, or in a handler, still has it at the write, and so has `main()` unless a
handler has written since. `PrintInv` says that a
number just printed is `doIntegerPrint`'s (`Numbers`) and that in formats both
printers know neither a width nor a leading zero is pending (`Together`); blanks or
zeros, sign and digits are then taken apart again (`IntegerIsPrinted`,
`PrintedReads`), for words of a byte, whose numbers have up to three digits in each
base.

**Model-checked only.** Liveness: the fairness parts of `SearchSpec` and
`FulfilsContract`, `WinnerIsFound`, `RestAfterExit`, `DispatcherReturns`,
`BenchTestsEnd`, `SearchesGoOn`, `CallsEnd`, and what `ServicesKeepTime` says comes to
an end. This prover does not reach fairness and ENABLED. `ServicesKeepTime` also holds
the clocks: `StampIsOneMoment`, `SleepsAsAsked`, `SetThenGet` and `KeepsPace` are
model-checked only (the last two multiply and divide by symbolic rates). `Printf`
is proved for 8-bit words, not for any `W`. The properties of section 4, which the
code does not have, are stated and not proved.

## 6. What could be done next

Proofs: the parts of `ServicesKeepTime` that are invariants; `Printf` for any width of
a word, by an induction over the digits like that over the rounds of the datapath.

Models: the testbench's tasks `issue_test`, `hash_block_header` and `mining`;
`alt_remap_uncached`; the console shortcuts and the start-up code; the echo that
`write()` gives the log.

## 7. Not modelled

* Vendor code (processor, interconnect, memories, JTAG UART hardware, PLL, reset
  controllers): the models take ordered, atomic word accesses from it. The UART's
  FIFOs, the timer's counter and the interrupt's synchroniser are modelled as their
  drivers use them; the JTAG UART's and the timer's are marked external.
* `SHA2_v2/` and `src/Testbench_modelSim/`: older copies of the same sources; the
  synthesised ones are modelled.
* Reset of the whole system: it restores the initial state, so it adds no state.
  A reset of the processor alone is in `IrqPath`.
* Of the UART's driver the branches for uC/OS-II and for `IGNORE_FIFO_FULL_ERROR`;
  of the exception entry the emulation of multiplications and of traps.
* `printf` of the C library, `malloc` and its (empty) locks, OpenSSL, reading the
  header's file.
* Exponents of the target outside 3 to 32: firmware and PC do different things there
  (the firmware writes outside `target[]`, which `stray` records; the PC tools write
  elsewhere or throw), and `TargetIsBits` speaks of 3 to 32 only. A string passed to
  `Padding` has at most 55 bytes below 128; the firmware does not call it.
* Liveness of the log: with no host attached a message of a handler polls for ever.
* DMA and flash wrappers, system-call stubs, constructors, Quartus and Eclipse
  products: no state that outlives a call, or nothing of the repository's own.
