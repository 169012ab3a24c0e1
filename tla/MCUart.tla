----------------------------- MODULE MCUart -----------------------------
(***************************************************************************)
(* The JTAG UART's two drivers: the interrupt driven one (JtagUart),       *)
(* writing to a host that takes, reading from one that types, and left     *)
(* alone by one that does nothing, and the polling one (JtagPolled).  A    *)
(* behaviour is one of them.  They share their variables: both must        *)
(* be the same two channels.                                               *)
(***************************************************************************)
EXTENDS JtagUart

CONSTANT PolledCounts   \* the lengths the polling driver is asked for

VARIABLE unit   \* what runs

mcVars == <<vars, unit>>

Tx     == [ops |-> {"write", "close"}, counts |-> {1, 4}, args |-> {},
           host |-> {"takes", "polls"}, hoisted |-> FALSE]
Rx     == [ops |-> {"read"}, counts |-> {0, 1, 3}, args |-> {},
           host |-> {"types", "polls"}, hoisted |-> TRUE]
Silent == [ops |-> {"write", "read", "close", "ioctl"}, counts |-> {1, 4}, args |-> {3},
           host |-> {}, hoisted |-> FALSE]

\* The uses of the run.
Exercised == {Tx, Rx, Silent}

Polled == INSTANCE JtagPolled WITH Counts <- PolledCounts

ASSUME PolledAssumption ==
  Polled!FifoAssumption /\ Polled!SpanAssumption /\ Polled!CountsAssumption

\* What the interrupt driven driver has besides.
Rest == <<rxVars, txVars, re, we, hostVars, isr, in, out, n, late, ac, seen>>

OnDriver(A) == unit = "driver" /\ A /\ UNCHANGED unit
OnPolled(A) == unit = "polled" /\ A /\ UNCHANGED <<unit, Rest>>

MCInit == Init /\ (unit = "driver" \/ (unit = "polled" /\ alarm /\ use = Tx))

MCNext == OnDriver(Next) \/ OnPolled(Polled!Next)

\* As in JtagUart (a host takes what is sent; the timer ticks where it does
\* nothing) and in JtagPolled.
MCSpec ==
  /\ MCInit /\ [][MCNext]_mcVars
  /\ WF_mcVars(OnDriver(Isr) \/ OnPolled(Polled!Driver))
  /\ WF_mcVars(at # "idle" /\ OnDriver(Foreground))
  /\ WF_mcVars(OnDriver(HostTakes) \/ OnDriver(use = Silent /\ Second)
                 \/ OnPolled(Polled!HostTakes))
  /\ WF_mcVars(OnPolled(Polled!HostTypes))

-----------------------------------------------------------------------------
\* Reads return what is next in line, the copies stay inside the buffers, and a
\* timeout out of reach never gives the host up.
DriverKeepsItsWord ==
  unit = "driver" => TypeOK /\ ReadsNextInLine /\ NoTimeoutNoGivingUp

\* Calls end: with a host that takes what is sent, when characters come, by the
\* timeout when the host does nothing; and the polling driver's with a terminal,
\* whose reads never come back with nothing.
CallsEnd ==
  /\ unit = "driver" /\ use = Tx     => WriteEnds
  /\ unit = "driver" /\ use = Rx     => ReadWakes
  /\ unit = "driver" /\ use = Silent => SilentHostGivenUp
  /\ unit = "polled" => Polled!CallsEnd
  /\ Polled!ReadBlocksForAByte
=============================================================================
