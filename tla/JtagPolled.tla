--------------------------- MODULE JtagPolled ---------------------------
(***************************************************************************)
(* The small JTAG UART driver, the one this BSP compiles                   *)
(* (ALT_USE_SMALL_DRIVERS): read and write poll the hardware FIFOs, and    *)
(* main() goes no further while they wait.  A character is its number in   *)
(* the stream, modulo Span.                                                *)
(***************************************************************************)
EXTENDS Integers, Sequences

CONSTANTS FifoLen,  \* depth of each hardware FIFO
          Span,     \* character numbers are taken modulo Span
          Counts    \* the lengths asked for

FifoAssumption   == FifoLen \in Nat \ {0}
SpanAssumption   == Span \in Nat /\ Span > FifoLen
CountsAssumption == Counts \subseteq Nat

VARIABLES
  at,              \* where the caller is: idle, write or read
  left, done,      \* characters of the call to go, and gone
  nonblock, ret,   \* O_NONBLOCK; what the last call returned
  fifoRx, fifoTx,  \* the hardware FIFOs
  sent, typed      \* numbers of the next character written, and typed

call == <<at, left, done, nonblock, ret>>
vars == <<call, fifoRx, fifoTx, sent, typed>>

Init ==
  /\ at = "idle" /\ left = 0 /\ done = 0 /\ nonblock = FALSE /\ ret = "none"
  /\ fifoRx = << >> /\ fifoTx = << >>
  /\ sent = 0 /\ typed = 0

Call(op) ==
  /\ at = "idle" /\ at' = op
  /\ left' \in Counts /\ nonblock' \in BOOLEAN
  /\ done' = 0 /\ ret' = "none"
  /\ UNCHANGED <<fifoRx, fifoTx, sent, typed>>

Return(value) ==
  /\ at' = "idle" /\ left' = 0 /\ done' = 0 /\ nonblock' = FALSE /\ ret' = value

Step == left' = left - 1 /\ done' = done + 1 /\ UNCHANGED <<at, nonblock, ret>>

\* Wait for room, whatever the flags say, then write.
WritePut ==
  /\ at = "write" /\ left > 0 /\ Len(fifoTx) < FifoLen
  /\ fifoTx' = Append(fifoTx, sent)
  /\ sent' = (sent + 1) % Span
  /\ Step
  /\ UNCHANGED <<fifoRx, typed>>

WriteEnd ==
  /\ at = "write" /\ left = 0
  /\ Return("all")
  /\ UNCHANGED <<fifoRx, fifoTx, sent, typed>>

ReadGet ==
  /\ at = "read" /\ left > 0 /\ fifoRx # << >>
  /\ fifoRx' = Tail(fifoRx)
  /\ Step
  /\ UNCHANGED <<fifoTx, sent, typed>>

\* All that was asked for, or an empty FIFO once something was read, or one
\* that the caller does not want to wait for.
ReadEnd ==
  /\ at = "read" /\ (left = 0 \/ (fifoRx = << >> /\ (done > 0 \/ nonblock)))
  /\ Return(IF done > 0 THEN "some" ELSE IF nonblock THEN "EWOULDBLOCK" ELSE "EIO")
  /\ UNCHANGED <<fifoRx, fifoTx, sent, typed>>

Driver == WritePut \/ WriteEnd \/ ReadGet \/ ReadEnd

HostTakes ==
  /\ fifoTx # << >> /\ fifoTx' = Tail(fifoTx)
  /\ UNCHANGED <<call, fifoRx, sent, typed>>

HostTypes ==
  /\ Len(fifoRx) < FifoLen
  /\ fifoRx' = Append(fifoRx, typed)
  /\ typed' = (typed + 1) % Span
  /\ UNCHANGED <<call, fifoTx, sent>>

Next == Call("write") \/ Call("read") \/ Driver \/ HostTakes \/ HostTypes

Spec == Init /\ [][Next]_vars

\* A terminal is attached: it takes what is sent and someone types.
FairSpec == Spec /\ WF_vars(Driver) /\ WF_vars(HostTakes) /\ WF_vars(HostTypes)

-----------------------------------------------------------------------------
TypeOK ==
  /\ at \in {"idle", "write", "read"}
  /\ left \in Nat /\ done \in Nat /\ nonblock \in BOOLEAN
  /\ ret \in {"none", "all", "some", "EWOULDBLOCK", "EIO"}
  /\ fifoRx \in Seq(0 .. Span - 1) /\ Len(fifoRx) <= FifoLen
  /\ fifoTx \in Seq(0 .. Span - 1) /\ Len(fifoTx) <= FifoLen

\* The two directions are lossless channels: write returns its count only
\* because it waited for room for every character.
TxChannel == INSTANCE Channel WITH Batch <- 1, next <- sent, queue <- fifoTx
RxChannel == INSTANCE Channel WITH Batch <- 1, next <- typed, queue <- fifoRx
TxIsChannel == TxChannel!Spec
RxIsChannel == RxChannel!Spec

\* "The small version blocks until it has at least one byte available, it
\* then returns as much as is immediately available": a blocking read that
\* asks for something never comes back with nothing.
ReadBlocksForAByte ==
  [][at = "read" /\ at' = "idle" /\ ~nonblock /\ left > 0 => ret' = "some"]_vars

\* With a terminal attached every call ends.  Without one, nothing makes a
\* write end: a printf of main() stops the miner once the FIFO is full.
CallsEnd == (at # "idle") ~> (at = "idle")
=============================================================================
