---------------------------- MODULE JtagUart ----------------------------
(***************************************************************************)
(* The interrupt driven JTAG UART driver (altera_avalon_jtag_uart_init.c,  *)
(* _read.c, _write.c, _ioctl.c, _fd.c): one foreground thread that reads,  *)
(* writes and closes, the interrupt routine, the alarm that looks for the  *)
(* host once a second, and the host at the other end of the two hardware   *)
(* FIFOs.                                                                  *)
(*                                                                         *)
(* The foreground and the interrupt routine share two circular buffers     *)
(* without a lock.  One iteration of a loop of the code is one step, or    *)
(* several where it reads an index the other side writes and uses it       *)
(* later.  The interrupt routine runs to its end before the foreground     *)
(* goes on; the host interleaves with everything.                          *)
(*                                                                         *)
(* A character is its number in the stream, modulo Span.                   *)
(***************************************************************************)
EXTENDS Integers, Sequences

CONSTANTS
  BufLen,          \* ALTERA_AVALON_JTAG_UART_BUF_LEN: 2048
  FifoLen,         \* depth of each hardware FIFO
  Span,            \* character numbers are taken modulo Span
  IntMax,          \* INT_MAX
  DefaultTimeout,  \* ALTERA_AVALON_JTAG_UART_DEFAULT_TIMEOUT: 10
  Uses             \* the uses made of the driver, records of
                   \* ops:     the calls the foreground makes
                   \* counts:  the lengths it asks for
                   \* args:    the arguments it gives TIOCSTIMEOUT
                   \* host:    what the host does: "types", "takes", "polls"
                   \* hoisted: the compiler reads host_inactive and timeout, which
                   \*          are not volatile, once and not in every turn of a loop

ASSUME BufAssumption     == BufLen \in Nat \ {0, 1}
ASSUME FifoAssumption    == FifoLen \in Nat \ {0}
ASSUME SpanAssumption    == Span \in Nat /\ Span > BufLen + FifoLen
ASSUME TimeoutAssumption == /\ IntMax \in Nat /\ IntMax > 3
                            /\ DefaultTimeout \in 2 .. IntMax - 1
ASSUME UsesAssumption    == \A u \in Uses : /\ u.counts \subseteq Nat /\ u.args \subseteq Int
                                            /\ u.hoisted \in BOOLEAN

VARIABLES
  rx_in, rx_out, rx_buf,   \* receive buffer: filled by the interrupt routine
  tx_in, tx_out, tx_buf,   \* transmit buffer: drained by it
  re, we,                  \* irq_enable, and the control register with it
  timeout, host_inactive,  \* seconds
  alarm,                   \* alt_alarm_start succeeded
  isr,                     \* where the interrupt routine is, and its locals
  at,                      \* where the foreground is
  in, out, n,              \* its snapshots of the indices, and their room
  left, done,              \* characters of the call to go, and gone
  nonblock, ret,           \* O_NONBLOCK; what the last call returned
  late,                    \* the host was given up when the loop was entered
  fifoRx, fifoTx, ac,      \* the hardware: FIFOs, and the activity bit
  sent, typed, seen,       \* numbers of the next character written, typed by
                           \* the host, and read
  use                      \* the use made of the driver; it never changes

rxVars    == <<rx_in, rx_out, rx_buf>>
txVars    == <<tx_in, tx_out, tx_buf>>
hostVars  == <<timeout, host_inactive, alarm, use>>
fgVars    == <<at, in, out, n, left, done, nonblock, ret, late>>
hwVars    == <<fifoRx, fifoTx, ac>>
numVars   == <<sent, typed, seen>>
vars      == <<rxVars, txVars, re, we, hostVars, isr, fgVars, hwVars, numVars>>

Char  == 0 .. Span - 1
Index == 0 .. BufLen - 1

Consecutive(first, len) == [i \in 1 .. len |-> (first + i - 1) % Span]

Used(from, to) == (to + BufLen - from) % BufLen

\* The characters between two indices of a circular buffer.
Queue(buf, from, to) ==
  [i \in 1 .. Used(from, to) |-> buf[(from + i - 1) % BufLen]]

\* RI and WI of the control register: the FIFO holds something, has room.
RI == re /\ fifoRx # << >>
WI == we /\ Len(fifoTx) < FifoLen

IsrOff == [at |-> "off", avail |-> FALSE, wi |-> FALSE, space |-> 0]

\* altera_avalon_jtag_uart_init: without the alarm the driver behaves as if
\* the host were always there.
InitDriver(ok) ==
  /\ timeout = IF ok THEN DefaultTimeout ELSE IntMax
  /\ alarm = ok
  /\ re = TRUE /\ we = FALSE
  /\ host_inactive = 0

Init ==
  /\ \E ok \in BOOLEAN : InitDriver(ok)
  /\ rx_in = 0 /\ rx_out = 0 /\ rx_buf = [i \in Index |-> 0]
  /\ tx_in = 0 /\ tx_out = 0 /\ tx_buf = [i \in Index |-> 0]
  /\ isr = IsrOff
  /\ at = "idle" /\ in = 0 /\ out = 0 /\ n = 0 /\ left = 0 /\ done = 0
  /\ nonblock = FALSE /\ ret = "none" /\ late = FALSE
  /\ fifoRx = << >> /\ fifoTx = << >> /\ ac = FALSE
  /\ sent = 0 /\ typed = 0 /\ seen = 0
  /\ use \in Uses

-----------------------------------------------------------------------------
(***************************************************************************)
(* altera_avalon_jtag_uart_irq.                                            *)
(***************************************************************************)
Interrupt ==
  /\ isr.at = "off" /\ (RI \/ WI)
  /\ isr' = [IsrOff EXCEPT !.at = "control"]
  /\ UNCHANGED <<rxVars, txVars, re, we, hostVars, fgVars, hwVars, numVars>>

\* The outer loop reads the control register, and ends with neither bit set.
IsrControl ==
  /\ isr.at = "control"
  /\ isr' = [at    |-> IF RI THEN "rx" ELSE IF WI THEN "tx" ELSE "off",
             avail |-> RI,
             wi    |-> WI,
             space |-> IF WI THEN FifoLen - Len(fifoTx) ELSE 0]
  /\ UNCHANGED <<rxVars, txVars, re, we, hostVars, fgVars, hwVars, numVars>>

BugRxFull == (rx_in + 1) % BufLen = rx_in

RxFull == (rx_in + 1) % BufLen = rx_out

\* One character from the hardware to the receive buffer.
IsrGet ==
  /\ isr.at = "rx" /\ ~RxFull /\ fifoRx # << >>
  /\ rx_buf' = [rx_buf EXCEPT ![rx_in] = Head(fifoRx)]
  /\ rx_in' = (rx_in + 1) % BufLen
  /\ fifoRx' = Tail(fifoRx)
  /\ isr' = [isr EXCEPT !.avail = Tail(fifoRx) # << >>]
  /\ UNCHANGED <<rx_out, txVars, re, we, hostVars, fgVars, fifoTx, ac, numVars>>

\* The inner loop ends with the buffer full or a read that was not valid; the
\* interrupt is turned off when the last word read announced more characters.
IsrGetEnd ==
  /\ isr.at = "rx" /\ (RxFull \/ fifoRx = << >>)
  /\ re' = (re /\ ~(RxFull /\ isr.avail))
  /\ isr' = [isr EXCEPT !.at = IF isr.wi THEN "tx" ELSE "control"]
  /\ UNCHANGED <<rxVars, txVars, we, hostVars, fgVars, hwVars, numVars>>

\* One character from the transmit buffer to the hardware.
IsrPut ==
  /\ isr.at = "tx" /\ isr.space > 0 /\ tx_out # tx_in
  /\ fifoTx' = Append(fifoTx, tx_buf[tx_out])
  /\ tx_out' = (tx_out + 1) % BufLen
  /\ isr' = [isr EXCEPT !.space = @ - 1]
  /\ UNCHANGED <<rxVars, tx_in, tx_buf, re, we, hostVars, fgVars, fifoRx, ac, numVars>>

\* The test of the room left is the wrong way round.
BugIsrPutEnd ==
  /\ isr.at = "tx" /\ (isr.space = 0 \/ tx_out = tx_in)
  /\ we' = (we /\ isr.space > 0)
  /\ isr' = [isr EXCEPT !.at = "control"]
  /\ UNCHANGED <<rxVars, txVars, re, hostVars, fgVars, hwVars, numVars>>

\* Room left over means nothing more to send: the interrupt is turned off.
IsrPutEnd ==
  /\ isr.at = "tx" /\ (isr.space = 0 \/ tx_out = tx_in)
  /\ we' = (we /\ isr.space = 0)
  /\ isr' = [isr EXCEPT !.at = "control"]
  /\ UNCHANGED <<rxVars, txVars, re, hostVars, fgVars, hwVars, numVars>>

Isr == Interrupt \/ IsrControl \/ IsrGet \/ IsrGetEnd \/ IsrPut \/ IsrPutEnd

\* altera_avalon_jtag_uart_timeout, an alarm: it runs in the timer's interrupt.
Second ==
  /\ isr.at = "off" /\ alarm
  /\ IF ac THEN ac' = FALSE /\ host_inactive' = 0
           ELSE /\ host_inactive' = IF host_inactive < IntMax - 2
                                      THEN host_inactive + 1 ELSE host_inactive
                /\ UNCHANGED ac
  /\ UNCHANGED <<rxVars, txVars, re, we, timeout, alarm, use, isr, fgVars, fifoRx,
                 fifoTx, numVars>>

-----------------------------------------------------------------------------
(***************************************************************************)
(* The foreground.  At rest its locals are zero.                           *)
(***************************************************************************)
Runs(place) == isr.at = "off" /\ at = place

\* The call of an operation; the flags come from the file descriptor.
Call(op, place, lengths) ==
  /\ Runs("idle") /\ op \in use.ops
  /\ at' = place
  /\ left' \in lengths
  /\ nonblock' \in BOOLEAN
  /\ ret' = "none"
  /\ UNCHANGED <<rxVars, txVars, re, we, hostVars, isr, in, out, n, done,
                 late, hwVars, numVars>>

Return(value) ==
  /\ at' = "idle" /\ in' = 0 /\ out' = 0 /\ n' = 0 /\ left' = 0 /\ done' = 0
  /\ nonblock' = FALSE /\ late' = FALSE
  /\ ret' = value

\* What read and write return when they end.
Result(d) == IF d > 0 THEN "some" ELSE IF nonblock THEN "EWOULDBLOCK" ELSE "EIO"

Goto(place) == at' = place /\ UNCHANGED <<in, out, n, left, done, nonblock, ret, late>>

Expired == host_inactive >= timeout

\* Enter a loop that waits for the interrupt routine or for the timeout.
Await(place) ==
  /\ at' = place /\ late' = Expired
  /\ UNCHANGED <<in, out, n, left, done, nonblock, ret>>

TimeUp == IF use.hoisted THEN late ELSE Expired

Smaller(a, b) == IF a < b THEN a ELSE b

(***************************************************************************)
(* altera_avalon_jtag_uart_write.                                          *)
(***************************************************************************)
BugTxRoom(i, o) ==
  IF i < o THEN o - i
  ELSE IF o > 0 THEN BufLen - i
  ELSE BufLen - 1 - i

\* Free slots in one piece: a slot always stays empty.
TxRoom(i, o) ==
  IF i < o THEN o - 1 - i
  ELSE IF o > 0 THEN BufLen - i
  ELSE BufLen - 1 - i

WriteCall == Call("write", "wsnap", use.counts)

WriteSnap ==
  /\ Runs("wsnap") /\ left > 0
  /\ in' = tx_in /\ out' = tx_out
  /\ n' = Smaller(TxRoom(tx_in, tx_out), left)
  /\ at' = IF n' = 0 THEN "wkick" ELSE "wcopy"
  /\ UNCHANGED <<rxVars, txVars, re, we, hostVars, isr, left, done, nonblock,
                 ret, late, hwVars, numVars>>

WriteCopied ==
  /\ Runs("wsnap") /\ left = 0
  /\ Goto("wkick")
  /\ UNCHANGED <<rxVars, txVars, re, we, hostVars, isr, hwVars, numVars>>

\* memcpy into the free slots, which the interrupt routine does not look at.
WriteCopy ==
  /\ Runs("wcopy")
  /\ tx_buf' = [i \in Index |-> IF i \in in .. in + n - 1
                                  THEN (sent + i - in) % Span ELSE tx_buf[i]]
  /\ Goto("wpublish")
  /\ UNCHANGED <<rxVars, tx_in, tx_out, re, we, hostVars, isr, hwVars, numVars>>

WritePublish ==
  /\ Runs("wpublish")
  /\ tx_in' = (in + n) % BufLen
  /\ sent' = (sent + n) % Span
  /\ left' = left - n /\ done' = done + n
  /\ at' = "wsnap"
  /\ UNCHANGED <<rxVars, tx_out, tx_buf, re, we, hostVars, isr, in, out, n,
                 nonblock, ret, late, hwVars, typed, seen>>

\* The write interrupt is only turned on by a call that has to wait.
BugWriteKick ==
  /\ Runs("wkick")
  /\ we' = (we \/ left > 0)
  /\ IF left = 0 \/ nonblock THEN Return(Result(done)) ELSE Await("wwait")
  /\ UNCHANGED <<rxVars, txVars, re, hostVars, isr, hwVars, numVars>>

\* irq_enable |= WE between alt_irq_disable_all and alt_irq_enable_all.
WriteKick ==
  /\ Runs("wkick")
  /\ we' = TRUE
  /\ IF left = 0 \/ nonblock THEN Return(Result(done)) ELSE Await("wwait")
  /\ UNCHANGED <<rxVars, txVars, re, hostVars, isr, hwVars, numVars>>

\* The loop that waits for room or for the host to be given up.
WriteWait ==
  /\ Runs("wwait") /\ (out # tx_out \/ TimeUp)
  /\ Goto("wtest")
  /\ UNCHANGED <<rxVars, txVars, re, we, hostVars, isr, hwVars, numVars>>

\* One second without the host, not the timeout, ends the call.
WriteTest ==
  /\ Runs("wtest")
  /\ IF host_inactive # 0 THEN Return(Result(done)) ELSE Goto("wsnap")
  /\ UNCHANGED <<rxVars, txVars, re, we, hostVars, isr, hwVars, numVars>>

Write == \/ WriteCall \/ WriteSnap \/ WriteCopied \/ WriteCopy \/ WritePublish
         \/ WriteKick \/ WriteWait \/ WriteTest

(***************************************************************************)
(* altera_avalon_jtag_uart_read.                                           *)
(***************************************************************************)

\* Characters to read in one piece.
RxRun(i, o) == IF i >= o THEN i - o ELSE BufLen - o

ReadCall == Call("read", "rsnap", use.counts)

ReadSnap ==
  /\ Runs("rsnap") /\ left > 0 /\ rx_in # rx_out
  /\ in' = rx_in /\ out' = rx_out
  /\ n' = Smaller(RxRun(rx_in, rx_out), left)
  /\ at' = "rcopy"
  /\ UNCHANGED <<rxVars, txVars, re, we, hostVars, isr, left, done, nonblock,
                 ret, late, hwVars, numVars>>

\* memcpy to the caller.  The slots are given back only after it.
ReadCopy ==
  /\ Runs("rcopy")
  /\ left' = left - n /\ done' = done + n
  /\ at' = "rfree"
  /\ UNCHANGED <<rxVars, txVars, re, we, hostVars, isr, in, out, n, nonblock,
                 ret, late, hwVars, numVars>>

ReadFree ==
  /\ Runs("rfree")
  /\ rx_out' = (out + n) % BufLen
  /\ seen' = (seen + n) % Span
  /\ at' = "rsnap"
  /\ UNCHANGED <<rx_in, rx_buf, txVars, re, we, hostVars, isr, in, out, n, left,
                 done, nonblock, ret, late, hwVars, sent, typed>>

\* Nothing left to copy: end the call, or wait.  Its snapshot of rx_in is
\* rx_out when it has to wait.
ReadStop ==
  /\ Runs("rsnap") /\ (left = 0 \/ rx_in = rx_out)
  /\ IF done = 0 /\ (nonblock \/ left = 0) THEN Return(Result(0))
     ELSE /\ in' = rx_in
          /\ at' = IF done > 0 THEN "rarm" ELSE "rwait"
          /\ late' = Expired
          /\ UNCHANGED <<out, n, left, done, nonblock, ret>>
  /\ UNCHANGED <<rxVars, txVars, re, we, hostVars, isr, hwVars, numVars>>

ReadWait ==
  /\ Runs("rwait") /\ (in # rx_in \/ TimeUp)
  /\ Goto("rtest")
  /\ UNCHANGED <<rxVars, txVars, re, we, hostVars, isr, hwVars, numVars>>

ReadTest ==
  /\ Runs("rtest")
  /\ IF in = rx_in THEN Return(Result(0)) ELSE Goto("rsnap")
  /\ UNCHANGED <<rxVars, txVars, re, we, hostVars, isr, hwVars, numVars>>

\* There is room again: irq_enable |= RE with interrupts off.
ReadArm ==
  /\ Runs("rarm")
  /\ re' = TRUE
  /\ Return(Result(done))
  /\ UNCHANGED <<rxVars, txVars, we, hostVars, isr, hwVars, numVars>>

Read == \/ ReadCall \/ ReadSnap \/ ReadCopy \/ ReadFree \/ ReadStop
        \/ ReadWait \/ ReadTest \/ ReadArm

(***************************************************************************)
(* altera_avalon_jtag_uart_close and _ioctl.                               *)
(***************************************************************************)
CloseCall == Call("close", "closing", {0})

CloseTest ==
  /\ Runs("closing")
  /\ IF tx_out = tx_in \/ Expired THEN Return("ok")
     ELSE IF nonblock THEN Return("EWOULDBLOCK")
     ELSE Await("cwait")
  /\ UNCHANGED <<rxVars, txVars, re, we, hostVars, isr, hwVars, numVars>>

CloseWait ==
  /\ Runs("cwait") /\ (tx_out = tx_in \/ TimeUp)
  /\ Return("ok")
  /\ UNCHANGED <<rxVars, txVars, re, we, hostVars, isr, hwVars, numVars>>

\* TIOCSTIMEOUT: out of range means for ever.
SetTimeout ==
  /\ Runs("idle") /\ "ioctl" \in use.ops
  /\ timeout # IntMax
  /\ \E arg \in use.args :
       timeout' = IF arg >= 2 /\ arg < IntMax THEN arg ELSE IntMax - 1
  /\ ret' = "ok"
  /\ UNCHANGED <<rxVars, txVars, re, we, host_inactive, alarm, use, isr, at, in,
                 out, n, left, done, nonblock, late, hwVars, numVars>>

\* A request the driver does not know, or one without the alarm.
RefuseIoctl ==
  /\ Runs("idle") /\ "ioctl" \in use.ops
  /\ ret' = "ENOTTY"
  /\ UNCHANGED <<rxVars, txVars, re, we, hostVars, isr, at, in, out, n, left,
                 done, nonblock, late, hwVars, numVars>>

Foreground == Write \/ Read \/ CloseCall \/ CloseTest \/ CloseWait \/ SetTimeout \/ RefuseIoctl

-----------------------------------------------------------------------------
(***************************************************************************)
(* The host.  Each access of its sets the activity bit.                    *)
(***************************************************************************)
HostTypes ==
  /\ "types" \in use.host
  /\ Len(fifoRx) < FifoLen
  /\ fifoRx' = Append(fifoRx, typed)
  /\ typed' = (typed + 1) % Span
  /\ ac' = TRUE
  /\ UNCHANGED <<rxVars, txVars, re, we, hostVars, isr, fgVars, fifoTx, sent, seen>>

HostTakes ==
  /\ "takes" \in use.host
  /\ fifoTx # << >>
  /\ fifoTx' = Tail(fifoTx)
  /\ ac' = TRUE
  /\ UNCHANGED <<rxVars, txVars, re, we, hostVars, isr, fgVars, fifoRx, numVars>>

HostPolls ==
  /\ "polls" \in use.host
  /\ ac' = TRUE
  /\ UNCHANGED <<rxVars, txVars, re, we, hostVars, isr, fgVars, fifoRx, fifoTx, numVars>>

Next == Isr \/ Second \/ Foreground \/ HostTypes \/ HostTakes \/ HostPolls

Spec == Init /\ [][Next]_vars

\* The processor executes: the interrupt routine, the call in progress.
Running == /\ WF_vars(Isr)
           /\ WF_vars(Foreground /\ at # "idle")

\* ... and the host keeps taking what is sent.
FairSpec == Spec /\ Running /\ WF_vars(HostTakes)

\* ... and the timer ticks.
TickingSpec == Spec /\ Running /\ WF_vars(Second)

-----------------------------------------------------------------------------
(***************************************************************************)
(* Properties.                                                             *)
(***************************************************************************)
Places == {"idle", "wsnap", "wcopy", "wpublish", "wkick", "wwait", "wtest",
           "rsnap", "rcopy", "rfree", "rwait", "rtest", "rarm", "closing", "cwait"}

\* Type correctness.  It includes what the array accesses rely on: the copies
\* of read and write stay inside the buffers.
TypeOK ==
  /\ {rx_in, rx_out, tx_in, tx_out} \subseteq Index
  /\ rx_buf \in [Index -> Char] /\ tx_buf \in [Index -> Char]
  /\ {re, we, alarm, ac, nonblock, late} \subseteq BOOLEAN
  /\ timeout \in 2 .. IntMax /\ host_inactive \in 0 .. IntMax - 2
  /\ isr.at \in {"off", "control", "rx", "tx"} /\ isr.space \in 0 .. FifoLen
  /\ at \in Places
  /\ {in, out} \subseteq Index /\ n \in 0 .. BufLen - 1
  /\ at \in {"wcopy", "wpublish"} => in + n <= BufLen
  /\ at \in {"rcopy", "rfree"} => out + n <= BufLen
  /\ left \in Nat /\ done \in Nat
  /\ Len(fifoRx) <= FifoLen /\ Len(fifoTx) <= FifoLen

\* The interrupt that moves characters out is off only while there are none,
\* or while the write that left them has not yet come to turn it on: no
\* character is stranded in the transmit buffer.
TxNeverStranded ==
  we \/ tx_in = tx_out \/ at \in {"wsnap", "wcopy", "wpublish", "wkick"}

\* The receive interrupt is off only while the receive buffer holds characters
\* for a read to come, or while a read that made room has not yet come to turn
\* it on: the host's characters are not held back for ever.
RxNeverStranded ==
  re \/ rx_in # rx_out \/ done > 0

\* From the write calls to the host, the driver and the FIFO are one channel:
\* no character is lost, repeated, reordered or overwritten, whatever the
\* foreground's snapshots of the indices miss.
TxChannel == INSTANCE Channel WITH
  Batch <- BufLen, next <- sent,
  queue <- fifoTx \o Queue(tx_buf, tx_out, tx_in)
TxIsChannel == TxChannel!Spec

\* From the host to the read calls, likewise.
RxChannel == INSTANCE Channel WITH
  Batch <- BufLen, next <- typed,
  queue <- Queue(rx_buf, rx_out, rx_in) \o fifoRx
RxIsChannel == RxChannel!Spec

\* No character is left behind in either direction for want of an interrupt.
NeverStranded == TxNeverStranded /\ RxNeverStranded

\* Both directions are channels: what goes in comes out, once and in order.
ChannelsLossless == TxIsChannel /\ RxIsChannel

\* What read hands to its caller is the characters next in line, still there
\* when it gives their slots back.
ReadsNextInLine ==
  at \in {"rcopy", "rfree"} =>
    [i \in 1 .. n |-> rx_buf[out + i - 1]] = Consecutive(seen, n)

\* With the timeout out of reach (no alarm, or an argument out of range) the
\* host is never given up: the count of idle seconds stops below it.
NoTimeoutNoGivingUp == timeout >= IntMax - 1 => host_inactive < timeout

\* A host that keeps taking characters lets every write and every close end.
WriteEnds == (at \in {"wwait", "cwait"}) ~> (at = "idle")

\* Characters that reach the FIFO wake a read that waits for them.
ReadWakes == (at = "rwait" /\ fifoRx # << >>) ~> (at # "rwait")

\* With the alarm running, a host that does nothing is given up: every call
\* that waits for it ends.
SilentHostGivenUp == (alarm /\ at # "idle") ~> (at = "idle")

\* "Host not connected" is what the code says of EIO at the end of write; the
\* driver's own notion of it is TIOCGCONNECTED's.
EioMeansNotConnected ==
  [][ret' = "EIO" /\ at = "wtest" => Expired]_vars
=============================================================================
