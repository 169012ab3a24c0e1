-------------------------- MODULE UartProofs ------------------------------
(***************************************************************************)
(* The JTAG UART's two drivers, proved for every buffer, every FIFO depth, *)
(* every length of call, every use of the driver and either way the        *)
(* compiler treats the variables that are not volatile.                    *)
(*                                                                         *)
(* Inv goes by the owners of the interrupt driven driver's variables: the  *)
(* two buffers, the interrupt routine, the foreground, the FIFOs; and      *)
(* Armed, what each interrupt enable may be when it is off.  Moves says    *)
(* what the snapshots of the indices still hold when they are used, and    *)
(* numbers the characters on their way in.  From both, every step of the   *)
(* driver and of the host is a step of the two channels or none.           *)
(***************************************************************************)
EXTENDS MCUart, TLAPS, SequenceTheorems

BufTypes ==
  /\ rx_in \in Index /\ rx_out \in Index /\ rx_buf \in [Index -> Char]
  /\ tx_in \in Index /\ tx_out \in Index /\ tx_buf \in [Index -> Char]

HostTypeOK ==
  /\ re \in BOOLEAN /\ we \in BOOLEAN /\ alarm \in BOOLEAN /\ ac \in BOOLEAN
  /\ timeout \in 2 .. IntMax /\ host_inactive \in 0 .. IntMax - 2 /\ use \in Uses

\* The interrupt routine writes no more than the FIFO had room for.
IsrTypes ==
  /\ isr \in [at : {"off", "control", "rx", "tx"}, avail : BOOLEAN, wi : BOOLEAN,
              space : 0 .. FifoLen]
  /\ isr.at \in {"rx", "tx"} => Len(fifoTx) + isr.space <= FifoLen

FifoTypes ==
  /\ fifoRx \in Seq(Char) /\ Len(fifoRx) <= FifoLen
  /\ fifoTx \in Seq(Char) /\ Len(fifoTx) <= FifoLen
  /\ sent \in Char /\ typed \in Char

\* The snapshots bound the copy that follows them.
FgTypes ==
  /\ at \in Places /\ nonblock \in BOOLEAN /\ late \in BOOLEAN
  /\ in \in Index /\ out \in Index /\ n \in 0 .. BufLen - 1
  /\ left \in Nat /\ done \in Nat
  /\ at \in {"wcopy", "wpublish"} => in + n <= BufLen /\ n <= left
  /\ at = "rcopy" => out + n <= BufLen /\ n <= left /\ n > 0
  /\ at = "rfree" => out + n <= BufLen /\ done > 0

\* A read that has made room is on its way to turn the interrupt on.
Armed ==
  /\ TxNeverStranded
  /\ re \/ rx_in # rx_out \/ (done > 0 /\ at \in {"rfree", "rsnap", "rarm"})
  /\ at \in {"rwait", "rtest"} => done = 0

Inv == BufTypes /\ HostTypeOK /\ IsrTypes /\ FifoTypes /\ FgTypes /\ Armed

-----------------------------------------------------------------------------
(***************************************************************************)
(* The circular buffers.                                                   *)
(***************************************************************************)
LEMMA Modulo ==
  ASSUME NEW i \in Nat
  PROVE  i % BufLen \in Index /\ i % Span \in Char
BY BufAssumption, SpanAssumption, FifoAssumption DEF Index, Char

\* The next index is another one.
LEMMA NextIndex ==
  ASSUME NEW i \in Index
  PROVE  (i + 1) % BufLen \in Index /\ (i + 1) % BufLen # i
<1>1. i \in Nat /\ i < BufLen /\ BufLen \in Nat /\ BufLen > 1
  BY BufAssumption DEF Index
<1>2. (i + 1) % BufLen = IF i + 1 = BufLen THEN 0 ELSE i + 1
  BY <1>1
<1>. QED BY <1>1, <1>2 DEF Index

\* A piece to write leaves a slot empty and ends at the buffer's end at most.
LEMMA TxRoomFits ==
  ASSUME NEW i \in Index, NEW o \in Index
  PROVE  TxRoom(i, o) \in 0 .. BufLen - 1 /\ i + TxRoom(i, o) <= BufLen
BY BufAssumption DEF Index, TxRoom

LEMMA RxRunFits ==
  ASSUME NEW i \in Index, NEW o \in Index
  PROVE  /\ RxRun(i, o) \in Nat /\ o + RxRun(i, o) <= BufLen
         /\ i # o => RxRun(i, o) > 0
         /\ RxRun(i, o) <= BufLen
BY BufAssumption DEF Index, RxRun

-----------------------------------------------------------------------------
LEMMA InitInv == Init => Inv
<1>. SUFFICES ASSUME Init PROVE Inv
  OBVIOUS
<1>1. 0 \in Index /\ 0 \in Char
  BY BufAssumption, SpanAssumption, FifoAssumption DEF Index, Char
<1>2. BufTypes
  BY <1>1 DEF Init, BufTypes
<1>3. /\ re = TRUE /\ we = FALSE /\ alarm \in BOOLEAN /\ host_inactive = 0
      /\ timeout \in 2 .. IntMax /\ use \in Uses
  BY TimeoutAssumption DEF Init, InitDriver
<1>4. HostTypeOK
  <2>1. ac = FALSE
    BY DEF Init
  <2>2. 0 \in 0 .. IntMax - 2
    BY TimeoutAssumption
  <2>. QED BY <1>3, <2>1, <2>2 DEF HostTypeOK
<1>5. fifoRx = << >> /\ fifoTx = << >> /\ isr = IsrOff /\ sent = 0 /\ typed = 0
  BY DEF Init
<1>6. IsrTypes /\ FifoTypes
  BY <1>1, <1>5, FifoAssumption DEF IsrTypes, FifoTypes, IsrOff
<1>7. at = "idle" /\ in = 0 /\ out = 0 /\ n = 0 /\ left = 0 /\ done = 0
  BY DEF Init
<1>8. nonblock = FALSE /\ late = FALSE /\ tx_in = tx_out
  BY DEF Init
<1>9. FgTypes
  <2>1. 0 \in 0 .. BufLen - 1 /\ at \in Places
    BY <1>7, BufAssumption DEF Places
  <2>2. nonblock \in BOOLEAN /\ late \in BOOLEAN
    BY <1>8
  <2>. QED BY <1>1, <1>7, <2>1, <2>2 DEF FgTypes
<1>10. Armed
  BY <1>3, <1>7, <1>8 DEF Armed, TxNeverStranded
<1>. QED BY <1>2, <1>4, <1>6, <1>9, <1>10 DEF Inv

(***************************************************************************)
(* The interrupt routine.                                                  *)
(***************************************************************************)
LEMMA InterruptInv == Inv /\ (Interrupt \/ IsrControl) => Inv'
<1>. SUFFICES ASSUME Inv, Interrupt \/ IsrControl PROVE Inv'
  OBVIOUS
<1>1. UNCHANGED <<rxVars, txVars, re, we, hostVars, fgVars, hwVars, numVars>>
  BY DEF Interrupt, IsrControl
<1>2. BufTypes' /\ HostTypeOK' /\ FifoTypes' /\ FgTypes' /\ Armed'
  BY <1>1 DEF Inv, rxVars, txVars, hostVars, fgVars, hwVars, numVars, BufTypes,
     HostTypeOK, FifoTypes, FgTypes, Armed, TxNeverStranded
<1>3. CASE Interrupt
  <2>1. isr' = [at |-> "control", avail |-> FALSE, wi |-> FALSE, space |-> 0]
    BY <1>3 DEF Interrupt, IsrOff
  <2>2. IsrTypes'
    BY <2>1, FifoAssumption DEF IsrTypes
  <2>. QED BY <1>2, <2>2 DEF Inv
<1>4. CASE IsrControl
  <2>1. isr' = [at    |-> IF RI THEN "rx" ELSE IF WI THEN "tx" ELSE "off",
                avail |-> RI, wi |-> WI,
                space |-> IF WI THEN FifoLen - Len(fifoTx) ELSE 0]
    BY <1>4 DEF IsrControl
  <2>2. RI \in BOOLEAN /\ WI \in BOOLEAN
    BY DEF RI, WI, Inv, HostTypeOK
  <2>3. Len(fifoTx) \in 0 .. FifoLen /\ fifoTx' = fifoTx
    BY <1>1 DEF Inv, FifoTypes, hwVars
  <2>4. IsrTypes'
    BY <2>1, <2>2, <2>3, FifoAssumption DEF IsrTypes
  <2>. QED BY <1>2, <2>4 DEF Inv
<1>. QED BY <1>3, <1>4

LEMMA IsrGetInv == Inv /\ IsrGet => Inv'
<1>. SUFFICES ASSUME Inv, IsrGet PROVE Inv'
  OBVIOUS
<1>1. /\ isr.at = "rx" /\ ~RxFull /\ fifoRx # << >>
      /\ rx_buf' = [rx_buf EXCEPT ![rx_in] = Head(fifoRx)]
      /\ rx_in' = (rx_in + 1) % BufLen /\ fifoRx' = Tail(fifoRx)
      /\ isr' = [isr EXCEPT !.avail = Tail(fifoRx) # << >>]
      /\ UNCHANGED <<rx_out, txVars, re, we, hostVars, fgVars, fifoTx, ac, numVars>>
  BY DEF IsrGet
<1>2. rx_in \in Index /\ rx_in' \in Index /\ rx_in' # rx_out
  BY <1>1, NextIndex DEF Inv, BufTypes, RxFull
<1>3. fifoRx \in Seq(Char) /\ Len(fifoRx) <= FifoLen
  BY DEF Inv, FifoTypes
<1>4. /\ Head(fifoRx) \in Char /\ Tail(fifoRx) \in Seq(Char)
      /\ Len(Tail(fifoRx)) <= FifoLen
  BY <1>1, <1>3, FifoAssumption
<1>5. BufTypes'
  BY <1>1, <1>2, <1>4 DEF Inv, BufTypes, txVars
<1>6. FifoTypes'
  BY <1>1, <1>4 DEF Inv, FifoTypes, numVars
<1>7. IsrTypes'
  BY <1>1 DEF Inv, IsrTypes
<1>8. HostTypeOK' /\ FgTypes'
  BY <1>1 DEF Inv, HostTypeOK, FgTypes, hostVars, fgVars
<1>9. Armed'
  BY <1>1, <1>2 DEF Inv, Armed, TxNeverStranded, txVars, fgVars
<1>. QED BY <1>5, <1>6, <1>7, <1>8, <1>9 DEF Inv

\* Off with the buffer full: a read is to come.
LEMMA IsrGetEndInv == Inv /\ IsrGetEnd => Inv'
<1>. SUFFICES ASSUME Inv, IsrGetEnd PROVE Inv'
  OBVIOUS
<1>1. /\ isr.at = "rx" /\ re' = (re /\ ~(RxFull /\ isr.avail))
      /\ isr' = [isr EXCEPT !.at = IF isr.wi THEN "tx" ELSE "control"]
      /\ UNCHANGED <<rxVars, txVars, we, hostVars, fgVars, hwVars, numVars>>
  BY DEF IsrGetEnd
<1>2. RxFull => rx_in # rx_out
  BY NextIndex DEF Inv, BufTypes, RxFull
<1>3. IsrTypes'
  BY <1>1 DEF Inv, IsrTypes, hwVars
<1>4. BufTypes' /\ FifoTypes' /\ FgTypes'
  BY <1>1 DEF Inv, BufTypes, FifoTypes, FgTypes, rxVars, txVars, fgVars, hwVars, numVars
<1>5. re' \in BOOLEAN
  BY <1>1 DEF Inv, HostTypeOK
<1>6. HostTypeOK'
  BY <1>1, <1>5 DEF Inv, HostTypeOK, hostVars, hwVars
<1>7. Armed'
  BY <1>1, <1>2 DEF Inv, Armed, TxNeverStranded, rxVars, txVars, fgVars
<1>. QED BY <1>3, <1>4, <1>6, <1>7 DEF Inv

LEMMA IsrPutInv == Inv /\ IsrPut => Inv'
<1>. SUFFICES ASSUME Inv, IsrPut PROVE Inv'
  OBVIOUS
<1>1. /\ isr.at = "tx" /\ isr.space > 0 /\ tx_out # tx_in
      /\ fifoTx' = Append(fifoTx, tx_buf[tx_out]) /\ tx_out' = (tx_out + 1) % BufLen
      /\ isr' = [isr EXCEPT !.space = @ - 1]
      /\ UNCHANGED <<rxVars, tx_in, tx_buf, re, we, hostVars, fgVars, fifoRx, ac, numVars>>
  BY DEF IsrPut
<1>2. tx_out' \in Index /\ tx_buf[tx_out] \in Char
  BY <1>1, NextIndex DEF Inv, BufTypes
<1>3. /\ isr.space \in 1 .. FifoLen /\ Len(fifoTx) \in Nat /\ fifoTx \in Seq(Char)
      /\ Len(fifoTx) + isr.space <= FifoLen
  BY <1>1 DEF Inv, IsrTypes, FifoTypes
<1>4. fifoTx' \in Seq(Char) /\ Len(fifoTx') = Len(fifoTx) + 1
  BY <1>1, <1>2, <1>3
<1>5. FifoTypes'
  BY <1>1, <1>3, <1>4, FifoAssumption DEF Inv, FifoTypes, numVars
<1>6. IsrTypes'
  <2>1. isr.space - 1 \in 0 .. FifoLen
    BY <1>3, FifoAssumption
  <2>2. /\ isr' \in [at : {"off", "control", "rx", "tx"}, avail : BOOLEAN,
                     wi : BOOLEAN, space : 0 .. FifoLen]
        /\ isr'.space = isr.space - 1
    BY <1>1, <2>1 DEF Inv, IsrTypes
  <2>. QED BY <1>3, <1>4, <2>2 DEF IsrTypes
<1>7. BufTypes' /\ HostTypeOK' /\ FgTypes'
  BY <1>1, <1>2 DEF Inv, BufTypes, HostTypeOK, FgTypes, rxVars, hostVars, fgVars
<1>8. Armed'
  BY <1>1 DEF Inv, Armed, TxNeverStranded, rxVars, fgVars
<1>. QED BY <1>5, <1>6, <1>7, <1>8 DEF Inv

\* Off with room left over: the transmit buffer is empty.
LEMMA IsrPutEndInv == Inv /\ IsrPutEnd => Inv'
<1>. SUFFICES ASSUME Inv, IsrPutEnd PROVE Inv'
  OBVIOUS
<1>1. /\ isr.space = 0 \/ tx_out = tx_in
      /\ we' = (we /\ isr.space = 0) /\ isr' = [isr EXCEPT !.at = "control"]
      /\ UNCHANGED <<rxVars, txVars, re, hostVars, fgVars, hwVars, numVars>>
  BY DEF IsrPutEnd
<1>2. BufTypes' /\ FifoTypes' /\ FgTypes' /\ IsrTypes'
  BY <1>1 DEF Inv, BufTypes, FifoTypes, FgTypes, IsrTypes, rxVars, txVars, fgVars,
     hwVars, numVars
<1>3. we' \in BOOLEAN
  BY <1>1 DEF Inv, HostTypeOK
<1>4. HostTypeOK'
  BY <1>1, <1>3 DEF Inv, HostTypeOK, hostVars, hwVars
<1>5. Armed'
  BY <1>1 DEF Inv, Armed, TxNeverStranded, rxVars, txVars, fgVars
<1>. QED BY <1>2, <1>4, <1>5 DEF Inv

-----------------------------------------------------------------------------
(***************************************************************************)
(* The foreground: most of its steps change its own variables only.        *)
(***************************************************************************)
LEMMA OwnStep ==
  ASSUME Inv, FgTypes', Armed',
         UNCHANGED <<rxVars, txVars, re, hostVars, isr, hwVars, numVars>>, we' \in BOOLEAN
  PROVE  Inv'
BY DEF Inv, BufTypes, HostTypeOK, IsrTypes, FifoTypes, rxVars, txVars, hostVars,
   hwVars, numVars

LEMMA ReturnTypes == ASSUME NEW v, Return(v) PROVE FgTypes' /\ at' = "idle" /\ done' = 0
<1>1. /\ at' = "idle" /\ in' = 0 /\ out' = 0 /\ n' = 0 /\ left' = 0 /\ done' = 0
      /\ nonblock' = FALSE /\ late' = FALSE
  BY DEF Return
<1>2. 0 \in Index /\ 0 \in 0 .. BufLen - 1
  BY BufAssumption DEF Index
<1>. QED BY <1>1, <1>2 DEF FgTypes, Places

\* A step to a place where no copy is under way.
LEMMA GotoTypes ==
  ASSUME Inv, NEW p \in Places \ {"wcopy", "wpublish", "rcopy", "rfree"}, at' = p,
         UNCHANGED <<in, out, n, left, done, nonblock>>, late' \in BOOLEAN
  PROVE  FgTypes'
BY DEF Inv, FgTypes

LEMMA AwaitTypes ==
  ASSUME Inv, NEW p \in {"wwait", "cwait"}, Await(p)
  PROVE  FgTypes' /\ at' = p /\ done' = done
<1>1. late' \in BOOLEAN
  BY DEF Await, Expired
<1>. QED BY <1>1, GotoTypes DEF Await, Places

LEMMA CallInv ==
  ASSUME Inv, NEW op, NEW p \in {"wsnap", "rsnap", "closing"}, NEW S \in SUBSET Nat,
         Call(op, p, S)
  PROVE  Inv'
<1>1. /\ at = "idle" /\ at' = p /\ left' \in Nat /\ nonblock' \in BOOLEAN
      /\ UNCHANGED <<in, out, n, done, late>>
      /\ UNCHANGED <<rxVars, txVars, re, we, hostVars, isr, hwVars, numVars>>
  BY DEF Call, Runs
<1>2. FgTypes'
  BY <1>1 DEF Inv, FgTypes, Places
<1>3. Armed'
  BY <1>1 DEF Inv, Armed, TxNeverStranded, rxVars, txVars
<1>. QED BY <1>1, <1>2, <1>3, OwnStep DEF Inv, HostTypeOK

LEMMA WriteSnapInv == Inv /\ WriteSnap => Inv'
<1>. SUFFICES ASSUME Inv, WriteSnap PROVE Inv'
  OBVIOUS
<1>. DEFINE room == TxRoom(tx_in, tx_out)
<1>1. /\ at = "wsnap" /\ in' = tx_in /\ out' = tx_out /\ n' = Smaller(room, left)
      /\ at' = (IF n' = 0 THEN "wkick" ELSE "wcopy")
      /\ UNCHANGED <<left, done, nonblock, late>>
      /\ UNCHANGED <<rxVars, txVars, re, we, hostVars, isr, hwVars, numVars>>
  BY DEF WriteSnap, Runs
<1>2. /\ tx_in \in Index /\ tx_out \in Index /\ left \in Nat /\ BufLen \in Nat
      /\ room \in 0 .. BufLen - 1 /\ tx_in + room <= BufLen
  BY TxRoomFits, BufAssumption DEF Inv, BufTypes, FgTypes
<1>. HIDE DEF room
<1>3. n' \in 0 .. BufLen - 1 /\ tx_in + n' <= BufLen /\ n' <= left
  BY <1>1, <1>2 DEF Smaller, Index
<1>4. FgTypes'
  BY <1>1, <1>2, <1>3 DEF Inv, FgTypes, Places
<1>5. Armed'
  BY <1>1 DEF Inv, Armed, TxNeverStranded, rxVars, txVars
<1>. QED BY <1>1, <1>4, <1>5, OwnStep DEF Inv, HostTypeOK

LEMMA WriteCopyInv == Inv /\ WriteCopy => Inv'
<1>. SUFFICES ASSUME Inv, WriteCopy PROVE Inv'
  OBVIOUS
<1>1. /\ at = "wcopy" /\ at' = "wpublish"
      /\ UNCHANGED <<in, out, n, left, done, nonblock, ret, late>>
      /\ UNCHANGED <<rxVars, tx_in, tx_out, re, we, hostVars, isr, hwVars, numVars>>
      /\ tx_buf' = [i \in Index |-> IF i \in in .. in + n - 1
                                      THEN (sent + i - in) % Span ELSE tx_buf[i]]
  BY DEF WriteCopy, Runs, Goto
<1>2. ASSUME NEW i \in Index, i \in in .. in + n - 1 PROVE (sent + i - in) % Span \in Char
  <2>1. sent + i - in \in Nat
    BY <1>2 DEF Inv, FifoTypes, FgTypes, Char, Index
  <2>. QED BY <2>1, Modulo
<1>3. BufTypes'
  <2>1. tx_buf' \in [Index -> Char]
    BY <1>1, <1>2 DEF Inv, BufTypes
  <2>. QED BY <1>1, <2>1 DEF Inv, BufTypes, rxVars
<1>4. FgTypes'
  BY <1>1 DEF Inv, FgTypes, Places
<1>5. HostTypeOK' /\ IsrTypes' /\ FifoTypes'
  BY <1>1 DEF Inv, HostTypeOK, IsrTypes, FifoTypes, hostVars, hwVars, numVars
<1>6. Armed'
  BY <1>1 DEF Inv, Armed, TxNeverStranded, rxVars
<1>. QED BY <1>3, <1>4, <1>5, <1>6 DEF Inv

LEMMA WritePublishInv == Inv /\ WritePublish => Inv'
<1>. SUFFICES ASSUME Inv, WritePublish PROVE Inv'
  OBVIOUS
<1>1. /\ at = "wpublish" /\ at' = "wsnap" /\ tx_in' = (in + n) % BufLen
      /\ sent' = (sent + n) % Span /\ left' = left - n /\ done' = done + n
      /\ UNCHANGED <<rxVars, tx_out, tx_buf, re, we, hostVars, isr, in, out, n,
                     nonblock, ret, late, hwVars, typed, seen>>
  BY DEF WritePublish, Runs
<1>2. /\ in \in Nat /\ n \in Nat /\ sent \in Nat /\ left \in Nat /\ done \in Nat /\ n <= left
  BY <1>1, BufAssumption DEF Inv, FgTypes, FifoTypes, Index, Char
<1>3. tx_in' \in Index /\ sent' \in Char
  <2>1. in + n \in Nat /\ sent + n \in Nat
    BY <1>2
  <2>. QED BY <1>1, <2>1, Modulo
<1>4. left' \in Nat /\ done' \in Nat /\ (done > 0 => done' > 0)
  BY <1>1, <1>2
<1>5. FgTypes'
  BY <1>1, <1>4 DEF Inv, FgTypes, Places
<1>6. BufTypes' /\ HostTypeOK' /\ IsrTypes' /\ FifoTypes'
  BY <1>1, <1>3 DEF Inv, BufTypes, HostTypeOK, IsrTypes, FifoTypes, rxVars, hostVars,
     hwVars
<1>7. Armed'
  BY <1>1, <1>4 DEF Inv, Armed, TxNeverStranded, rxVars
<1>. QED BY <1>5, <1>6, <1>7 DEF Inv

LEMMA WriteKickInv == Inv /\ WriteKick => Inv'
<1>. SUFFICES ASSUME Inv, WriteKick PROVE Inv'
  OBVIOUS
<1>1. /\ at = "wkick" /\ we' = TRUE
      /\ UNCHANGED <<rxVars, txVars, re, hostVars, isr, hwVars, numVars>>
      /\ Return(Result(done)) \/ Await("wwait")
  BY DEF WriteKick, Runs
<1>2. FgTypes' /\ at' \in {"idle", "wwait"}
  BY <1>1, ReturnTypes, AwaitTypes
<1>3. Armed'
  BY <1>1, <1>2 DEF Inv, Armed, TxNeverStranded, rxVars
<1>. QED BY <1>1, <1>2, <1>3, OwnStep

\* The steps of the calls that only go from place to place.
LEMMA MoveInv ==
  ASSUME Inv, UNCHANGED <<rxVars, txVars, re, we, hostVars, isr, hwVars, numVars>>,
         \/ WriteCopied \/ WriteWait \/ WriteTest \/ ReadWait \/ ReadTest
         \/ CloseTest \/ CloseWait
  PROVE  Inv'
<1>1. \/ at = "wsnap" /\ at' = "wkick"
      \/ at \in {"wwait", "wtest", "closing", "cwait"}
           /\ at' \in {"wtest", "wsnap", "idle", "cwait"}
      \/ at \in {"rwait", "rtest"} /\ at' \in {"rtest", "rsnap", "idle"}
  BY ReturnTypes, AwaitTypes
     DEF WriteCopied, WriteWait, WriteTest, ReadWait, ReadTest, CloseTest, CloseWait,
         Runs, Goto, Return, Await
<1>2. \/ FgTypes' /\ at' = "idle" /\ done' = 0
      \/ FgTypes' /\ done' = done
  <2>1. CASE \E v : Return(v)
    BY <2>1, ReturnTypes
  <2>2. CASE Await("cwait")
    BY <2>2, AwaitTypes
  <2>3. CASE \E p \in {"wkick", "wtest", "wsnap", "rtest", "rsnap"} : Goto(p)
    BY <2>3, GotoTypes DEF Goto, Places, Inv, FgTypes
  <2>. QED BY <2>1, <2>2, <2>3
           DEF WriteCopied, WriteWait, WriteTest, ReadWait, ReadTest, CloseTest, CloseWait
<1>3. Armed'
  BY <1>1, <1>2 DEF Inv, Armed, TxNeverStranded, rxVars, txVars
<1>. QED BY <1>2, <1>3, OwnStep DEF Inv, HostTypeOK

LEMMA ReadSnapInv == Inv /\ ReadSnap => Inv'
<1>. SUFFICES ASSUME Inv, ReadSnap PROVE Inv'
  OBVIOUS
<1>. DEFINE run == RxRun(rx_in, rx_out)
<1>1. /\ at = "rsnap" /\ left > 0 /\ rx_in # rx_out
      /\ in' = rx_in /\ out' = rx_out /\ n' = Smaller(run, left) /\ at' = "rcopy"
      /\ UNCHANGED <<left, done, nonblock, late>>
      /\ UNCHANGED <<rxVars, txVars, re, we, hostVars, isr, hwVars, numVars>>
  BY DEF ReadSnap, Runs
<1>2. /\ rx_in \in Index /\ rx_out \in Index /\ left \in Nat /\ BufLen \in Nat
      /\ run \in Nat /\ run > 0 /\ rx_out + run <= BufLen
  BY <1>1, RxRunFits, BufAssumption DEF Inv, BufTypes, FgTypes
<1>3. run <= BufLen - 1
  BY <1>1, BufAssumption DEF RxRun, Index, Inv, BufTypes
<1>. HIDE DEF run
<1>4. n' \in 0 .. BufLen - 1 /\ rx_out + n' <= BufLen /\ n' <= left /\ n' > 0
  BY <1>1, <1>2, <1>3 DEF Smaller, Index
<1>5. FgTypes'
  BY <1>1, <1>2, <1>4 DEF Inv, FgTypes, Places
<1>6. Armed'
  BY <1>1 DEF Inv, Armed, TxNeverStranded, rxVars, txVars
<1>. QED BY <1>1, <1>5, <1>6, OwnStep DEF Inv, HostTypeOK

LEMMA ReadCopyInv == Inv /\ ReadCopy => Inv'
<1>. SUFFICES ASSUME Inv, ReadCopy PROVE Inv'
  OBVIOUS
<1>1. /\ at = "rcopy" /\ at' = "rfree" /\ left' = left - n /\ done' = done + n
      /\ UNCHANGED <<in, out, n, nonblock, late>>
      /\ UNCHANGED <<rxVars, txVars, re, we, hostVars, isr, hwVars, numVars>>
  BY DEF ReadCopy, Runs
<1>2. n \in Nat /\ n > 0 /\ n <= left /\ left \in Nat /\ done \in Nat
  BY <1>1, BufAssumption DEF Inv, FgTypes
<1>3. left' \in Nat /\ done' \in Nat /\ done' > 0
  BY <1>1, <1>2
<1>4. FgTypes'
  BY <1>1, <1>3 DEF Inv, FgTypes, Places
<1>5. Armed'
  BY <1>1, <1>3 DEF Inv, Armed, TxNeverStranded, rxVars, txVars
<1>. QED BY <1>1, <1>4, <1>5, OwnStep DEF Inv, HostTypeOK

LEMMA ReadFreeInv == Inv /\ ReadFree => Inv'
<1>. SUFFICES ASSUME Inv, ReadFree PROVE Inv'
  OBVIOUS
<1>1. /\ at = "rfree" /\ at' = "rsnap" /\ rx_out' = (out + n) % BufLen
      /\ UNCHANGED <<rx_in, rx_buf, txVars, re, we, hostVars, isr, in, out, n, left,
                     done, nonblock, ret, late, hwVars, sent, typed>>
  BY DEF ReadFree, Runs
<1>2. rx_out' \in Index /\ done > 0
  <2>1. out + n \in Nat
    BY BufAssumption DEF Inv, FgTypes, Index
  <2>. QED BY <1>1, <2>1, Modulo DEF Inv, FgTypes
<1>3. FgTypes'
  BY <1>1 DEF Inv, FgTypes, Places
<1>4. BufTypes' /\ HostTypeOK' /\ IsrTypes' /\ FifoTypes'
  BY <1>1, <1>2 DEF Inv, BufTypes, HostTypeOK, IsrTypes, FifoTypes, txVars, hostVars,
     hwVars
<1>5. Armed'
  BY <1>1, <1>2 DEF Inv, Armed, TxNeverStranded, txVars
<1>. QED BY <1>3, <1>4, <1>5 DEF Inv

\* A read that has copied nothing leaves the interrupt as it is; a read that
\* has, comes by "rarm".
LEMMA ReadStopInv == Inv /\ ReadStop => Inv'
<1>. SUFFICES ASSUME Inv, ReadStop PROVE Inv'
  OBVIOUS
<1>1. /\ at = "rsnap"
      /\ UNCHANGED <<rxVars, txVars, re, we, hostVars, isr, hwVars, numVars>>
      /\ \/ done = 0 /\ Return(Result(0))
         \/ /\ in' = rx_in /\ at' = IF done > 0 THEN "rarm" ELSE "rwait"
            /\ late' = Expired /\ UNCHANGED <<out, n, left, done, nonblock>>
  BY DEF ReadStop, Runs
<1>2. CASE done = 0 /\ Return(Result(0))
  <2>1. FgTypes' /\ at' = "idle" /\ done' = 0
    BY <1>2, ReturnTypes
  <2>2. Armed'
    BY <1>1, <1>2, <2>1 DEF Inv, Armed, TxNeverStranded, rxVars, txVars
  <2>. QED BY <1>1, <2>1, <2>2, OwnStep DEF Inv, HostTypeOK
<1>3. CASE /\ in' = rx_in /\ at' = IF done > 0 THEN "rarm" ELSE "rwait"
           /\ late' = Expired /\ UNCHANGED <<out, n, left, done, nonblock>>
  <2>1. late' \in BOOLEAN /\ in' \in Index /\ done \in Nat
    BY <1>3 DEF Expired, Inv, BufTypes, FgTypes
  <2>2. FgTypes'
    BY <1>3, <2>1 DEF Inv, FgTypes, Places
  <2>3. Armed'
    BY <1>1, <1>3, <2>1 DEF Inv, Armed, TxNeverStranded, rxVars, txVars
  <2>. QED BY <1>1, <2>2, <2>3, OwnStep DEF Inv, HostTypeOK
<1>. QED BY <1>1, <1>2, <1>3

LEMMA ReadArmInv == Inv /\ ReadArm => Inv'
<1>. SUFFICES ASSUME Inv, ReadArm PROVE Inv'
  OBVIOUS
<1>1. /\ at = "rarm" /\ re' = TRUE /\ Return(Result(done))
      /\ UNCHANGED <<rxVars, txVars, we, hostVars, isr, hwVars, numVars>>
  BY DEF ReadArm, Runs
<1>2. FgTypes' /\ at' = "idle" /\ done' = 0
  BY <1>1, ReturnTypes
<1>3. BufTypes' /\ HostTypeOK' /\ IsrTypes' /\ FifoTypes'
  BY <1>1 DEF Inv, BufTypes, HostTypeOK, IsrTypes, FifoTypes, rxVars, txVars, hostVars,
     hwVars, numVars
<1>4. Armed'
  BY <1>1, <1>2 DEF Inv, Armed, TxNeverStranded, txVars
<1>. QED BY <1>2, <1>3, <1>4 DEF Inv

-----------------------------------------------------------------------------
(***************************************************************************)
(* ioctl, the alarm, and the host.                                         *)
(***************************************************************************)
LEMMA IoctlInv == Inv /\ (SetTimeout \/ RefuseIoctl) => Inv'
<1>. SUFFICES ASSUME Inv, SetTimeout \/ RefuseIoctl PROVE Inv'
  OBVIOUS
<1>1. /\ UNCHANGED <<rxVars, txVars, re, we, host_inactive, alarm, use, isr, at, in,
                     out, n, left, done, nonblock, late, hwVars, numVars>>
  BY DEF SetTimeout, RefuseIoctl, hostVars
<1>2. timeout' \in 2 .. IntMax
  <2>1. ASSUME NEW arg \in Int
        PROVE  (IF arg >= 2 /\ arg < IntMax THEN arg ELSE IntMax - 1) \in 2 .. IntMax
    BY TimeoutAssumption
  <2>. QED BY <2>1, TimeoutAssumption, UsesAssumption
           DEF SetTimeout, RefuseIoctl, hostVars, Inv, HostTypeOK
<1>3. BufTypes' /\ IsrTypes' /\ FifoTypes' /\ FgTypes' /\ Armed'
  BY <1>1 DEF Inv, BufTypes, IsrTypes, FifoTypes, FgTypes, Armed, TxNeverStranded,
     rxVars, txVars, hwVars, numVars
<1>4. HostTypeOK'
  BY <1>1, <1>2 DEF Inv, HostTypeOK, hwVars
<1>. QED BY <1>3, <1>4 DEF Inv

LEMMA SecondInv == Inv /\ Second => Inv'
<1>. SUFFICES ASSUME Inv, Second PROVE Inv'
  OBVIOUS
<1>1. /\ UNCHANGED <<rxVars, txVars, re, we, timeout, alarm, use, isr, fgVars, fifoRx,
                     fifoTx, numVars>>
  BY DEF Second
<1>2. host_inactive' \in 0 .. IntMax - 2 /\ ac' \in BOOLEAN
  <2>1. host_inactive \in 0 .. IntMax - 2 /\ IntMax \in Nat /\ IntMax > 3 /\ ac \in BOOLEAN
    BY TimeoutAssumption DEF Inv, HostTypeOK
  <2>2. CASE ac
    <3>1. host_inactive' = 0 /\ ac' = FALSE
      BY <2>2 DEF Second
    <3>2. 0 \in 0 .. IntMax - 2
      BY <2>1
    <3>3. ac' \in BOOLEAN
      BY <3>1
    <3>. QED BY <3>1, <3>2, <3>3
  <2>3. CASE ~ac
    <3>1. /\ ac' = ac
          /\ host_inactive' = IF host_inactive < IntMax - 2
                                THEN host_inactive + 1 ELSE host_inactive
      BY <2>3 DEF Second
    <3>2. host_inactive' \in 0 .. IntMax - 2
      BY <2>1, <3>1
    <3>. QED BY <2>1, <3>1, <3>2
  <2>. QED BY <2>2, <2>3
<1>3. BufTypes' /\ IsrTypes' /\ FifoTypes' /\ FgTypes' /\ Armed'
  BY <1>1 DEF Inv, BufTypes, IsrTypes, FifoTypes, FgTypes, Armed, TxNeverStranded,
     rxVars, txVars, fgVars, numVars
<1>4. HostTypeOK'
  BY <1>1, <1>2 DEF Inv, HostTypeOK
<1>. QED BY <1>3, <1>4 DEF Inv

LEMMA HostInv == Inv /\ (HostTypes \/ HostTakes \/ HostPolls) => Inv'
<1>. SUFFICES ASSUME Inv, HostTypes \/ HostTakes \/ HostPolls PROVE Inv'
  OBVIOUS
<1>1. UNCHANGED <<rxVars, txVars, re, we, hostVars, isr, fgVars>> /\ ac' = TRUE /\ sent' = sent
  BY DEF HostTypes, HostTakes, HostPolls, numVars
<1>2. BufTypes' /\ HostTypeOK' /\ FgTypes' /\ Armed'
  BY <1>1 DEF Inv, BufTypes, HostTypeOK, FgTypes, Armed, TxNeverStranded, rxVars,
     txVars, hostVars, fgVars
<1>3. fifoRx \in Seq(Char) /\ fifoTx \in Seq(Char) /\ typed \in Char
  BY DEF Inv, FifoTypes
<1>4. /\ fifoRx' \in Seq(Char) /\ Len(fifoRx') <= FifoLen /\ typed' \in Char
  <2>1. CASE HostTypes
    <3>1. typed + 1 \in Nat
      BY <1>3 DEF Char
    <3>2. (typed + 1) % Span \in Char
      BY <3>1, Modulo
    <3>. QED BY <1>3, <2>1, <3>2, FifoAssumption DEF HostTypes
  <2>2. CASE HostTakes \/ HostPolls
    BY <2>2 DEF HostTakes, HostPolls, numVars, Inv, FifoTypes
  <2>. QED BY <2>1, <2>2
<1>5. /\ fifoTx' \in Seq(Char) /\ Len(fifoTx') <= Len(fifoTx)
  <2>1. CASE HostTakes
    BY <1>3, <2>1 DEF HostTakes
  <2>2. CASE HostTypes \/ HostPolls
    BY <1>3, <2>2 DEF HostTypes, HostPolls
  <2>. QED BY <2>1, <2>2
<1>6. FifoTypes'
  BY <1>1, <1>3, <1>4, <1>5, FifoAssumption DEF Inv, FifoTypes
<1>7. IsrTypes'
  <2>1. Len(fifoTx) \in Nat /\ Len(fifoTx') \in Nat /\ isr.space \in Nat /\ isr' = isr
    BY <1>1, <1>3, <1>5, FifoAssumption DEF Inv, IsrTypes
  <2>. QED BY <1>5, <2>1, FifoAssumption DEF Inv, IsrTypes
<1>. QED BY <1>2, <1>6, <1>7 DEF Inv

LEMMA NextInv == Inv /\ [Next]_vars => Inv'
<1>. SUFFICES ASSUME Inv, [Next]_vars PROVE Inv'
  OBVIOUS
<1>1. CASE UNCHANGED vars
  BY <1>1 DEF vars, Inv, BufTypes, HostTypeOK, IsrTypes, FifoTypes, FgTypes, Armed,
     TxNeverStranded, rxVars, txVars, hostVars, fgVars, hwVars, numVars
<1>2. CASE WriteCall \/ ReadCall \/ CloseCall
  <2>1. use.counts \in SUBSET Nat /\ {0} \in SUBSET Nat
    BY UsesAssumption DEF Inv, HostTypeOK
  <2>. QED BY <1>2, <2>1, CallInv DEF WriteCall, ReadCall, CloseCall
<1>3. CASE \/ WriteCopied \/ WriteWait \/ WriteTest \/ ReadWait \/ ReadTest
           \/ CloseTest \/ CloseWait
  <2>1. UNCHANGED <<rxVars, txVars, re, we, hostVars, isr, hwVars, numVars>>
    BY <1>3 DEF WriteCopied, WriteWait, WriteTest, ReadWait, ReadTest, CloseTest,
       CloseWait
  <2>. QED BY <1>3, <2>1, MoveInv
<1>. QED BY <1>1, <1>2, <1>3, InterruptInv, IsrGetInv, IsrGetEndInv, IsrPutInv,
         IsrPutEndInv, WriteSnapInv, WriteCopyInv, WritePublishInv, WriteKickInv,
         ReadSnapInv, ReadCopyInv, ReadFreeInv, ReadStopInv, ReadArmInv, IoctlInv,
         SecondInv, HostInv DEF Next, Isr, Foreground, Write, Read

-----------------------------------------------------------------------------
(***************************************************************************)
(* The buffers as queues.                                                  *)
(***************************************************************************)
LEMMA Remainder ==
  ASSUME NEW w \in Nat \ {0}, NEW a \in Nat
  PROVE  /\ a < w => a % w = a
         /\ w <= a /\ a < 2 * w => a % w = a - w
         /\ a % w \in 0 .. w - 1
OBVIOUS

LEMMA UsedIs ==
  ASSUME NEW from \in Index, NEW to \in Index
  PROVE  /\ Used(from, to) = IF from <= to THEN to - from ELSE to - from + BufLen
         /\ Used(from, to) \in 0 .. BufLen - 1
<1>1. /\ BufLen \in Nat \ {0} /\ from \in Nat /\ from < BufLen /\ to \in Nat /\ to < BufLen
  BY BufAssumption DEF Index
<1>2. to + BufLen - from \in Nat /\ to + BufLen - from < 2 * BufLen
  BY <1>1
<1>3. CASE from <= to
  <2>1. BufLen <= to + BufLen - from BY <1>1, <1>3
  <2>2. (to + BufLen - from) % BufLen = (to + BufLen - from) - BufLen
    BY <1>1, <1>2, <2>1, Remainder
  <2>. QED BY <1>1, <1>3, <2>2 DEF Used
<1>4. CASE ~(from <= to)
  <2>1. to + BufLen - from < BufLen BY <1>1, <1>4
  <2>2. (to + BufLen - from) % BufLen = to + BufLen - from
    BY <1>1, <1>2, <2>1, Remainder
  <2>. QED BY <1>1, <1>4, <2>2 DEF Used
<1>. QED BY <1>3, <1>4

\* The slot k past an index.
Slot(from, k) == IF from + k < BufLen THEN from + k ELSE from + k - BufLen

LEMMA SlotIs ==
  ASSUME NEW from \in Index, NEW k \in 0 .. BufLen - 1
  PROVE  /\ (from + k) % BufLen = Slot(from, k)
         /\ Slot(from, k) \in Index
<1>1. /\ BufLen \in Nat \ {0} /\ from \in Nat /\ from < BufLen /\ k \in Nat /\ k < BufLen
  BY BufAssumption DEF Index
<1>2. from + k \in Nat /\ from + k < 2 * BufLen
  BY <1>1
<1>3. (from + k) % BufLen = IF from + k < BufLen THEN from + k ELSE from + k - BufLen
  <2>1. CASE from + k < BufLen BY <1>1, <1>2, <2>1, Remainder
  <2>2. CASE ~(from + k < BufLen)
    <3>1. BufLen <= from + k BY <1>1, <2>2
    <3>2. ASSUME NEW a \in Nat, BufLen <= a, a < 2 * BufLen PROVE a % BufLen = a - BufLen
      BY <1>1, <3>2, Remainder
    <3>3. (from + k) % BufLen = (from + k) - BufLen
      BY <1>2, <3>1, <3>2
    <3>. QED BY <1>1, <1>2, <2>2, <3>3
  <2>. QED BY <2>1, <2>2
<1>. QED BY <1>1, <1>3 DEF Slot, Index

LEMMA QueueIs ==
  ASSUME NEW buf \in [Index -> Char], NEW from \in Index, NEW to \in Index
  PROVE  /\ Queue(buf, from, to) \in Seq(Char)
         /\ Len(Queue(buf, from, to)) = Used(from, to)
         /\ \A i \in 1 .. Used(from, to) :
              Queue(buf, from, to)[i] = buf[Slot(from, i - 1)]
<1> DEFINE L == Used(from, to)
<1>1. L \in Nat /\ L <= BufLen - 1 /\ BufLen \in Nat
  BY UsedIs, BufAssumption
<1>2. \A i \in 1 .. L : (from + i - 1) % BufLen = Slot(from, i - 1) /\ Slot(from, i - 1) \in Index
  <2>. SUFFICES ASSUME NEW i \in 1 .. L
                PROVE  (from + i - 1) % BufLen = Slot(from, i - 1) /\ Slot(from, i - 1) \in Index
    OBVIOUS
  <2>1. i - 1 \in 0 .. BufLen - 1 BY <1>1
  <2>2. from + i - 1 = from + (i - 1) BY <1>1 DEF Index
  <2>. QED BY <2>1, <2>2, SlotIs
<1> HIDE DEF L
<1>3. Queue(buf, from, to) = [i \in 1 .. L |-> buf[(from + i - 1) % BufLen]]
  BY DEF Queue, L
<1>4. \A i \in 1 .. L : buf[(from + i - 1) % BufLen] \in Char
  BY <1>2
<1>5. Queue(buf, from, to) \in Seq(Char) BY <1>1, <1>3, <1>4, IsASeq
<1>6. Len(Queue(buf, from, to)) = L BY <1>1, <1>3
<1>7. \A i \in 1 .. L : Queue(buf, from, to)[i] = buf[Slot(from, i - 1)]
  BY <1>2, <1>3
<1>. QED BY <1>5, <1>6, <1>7 DEF L

\* n characters more at the end.
LEMMA IndexAdds ==
  ASSUME NEW from \in Index, NEW to \in Index, NEW d \in Nat, Used(from, to) + d < BufLen
  PROVE  /\ (to + d) % BufLen = Slot(to, d) /\ Slot(to, d) \in Index
         /\ Used(from, Slot(to, d)) = Used(from, to) + d
         /\ \A i \in 1 .. Used(from, to) : \A k \in 0 .. d - 1 : Slot(from, i - 1) # Slot(to, k)
         /\ \A i \in Used(from, to) + 1 .. Used(from, to) + d :
              Slot(from, i - 1) = Slot(to, i - Used(from, to) - 1)
<1>1. /\ BufLen \in Nat \ {0} /\ from \in Nat /\ from < BufLen /\ to \in Nat /\ to < BufLen
  BY BufAssumption DEF Index
<1>2. /\ Used(from, to) = IF from <= to THEN to - from ELSE to - from + BufLen
      /\ Used(from, to) \in 0 .. BufLen - 1
  BY UsedIs
<1>3. d \in 0 .. BufLen - 1 BY <1>1, <1>2
<1>4. (to + d) % BufLen = Slot(to, d) /\ Slot(to, d) \in Index BY <1>3, SlotIs
<1>5. Used(from, Slot(to, d)) = Used(from, to) + d
  <2> DEFINE t == Slot(to, d)
  <2>1. Used(from, t) = IF from <= t THEN t - from ELSE t - from + BufLen
    BY <1>4, UsedIs
  <2>2. t = IF to + d < BufLen THEN to + d ELSE to + d - BufLen BY DEF Slot
  <2> HIDE DEF t
  <2>. QED BY <1>1, <1>2, <1>3, <2>1, <2>2 DEF t
<1>6. \A i \in 1 .. Used(from, to) : \A k \in 0 .. d - 1 : Slot(from, i - 1) # Slot(to, k)
  BY <1>1, <1>2, <1>3 DEF Slot
<1>7. \A i \in Used(from, to) + 1 .. Used(from, to) + d :
        Slot(from, i - 1) = Slot(to, i - Used(from, to) - 1)
  BY <1>1, <1>2, <1>3 DEF Slot
<1>. QED BY <1>4, <1>5, <1>6, <1>7

\* n characters fewer at the front.
LEMMA IndexDrops ==
  ASSUME NEW from \in Index, NEW to \in Index, NEW d \in Nat, d <= Used(from, to)
  PROVE  /\ (from + d) % BufLen = Slot(from, d) /\ Slot(from, d) \in Index
         /\ Used(Slot(from, d), to) = Used(from, to) - d
         /\ \A i \in 1 .. Used(from, to) - d :
              Slot(Slot(from, d), i - 1) = Slot(from, d + i - 1)
<1>1. /\ BufLen \in Nat \ {0} /\ from \in Nat /\ from < BufLen /\ to \in Nat /\ to < BufLen
  BY BufAssumption DEF Index
<1>2. /\ Used(from, to) = IF from <= to THEN to - from ELSE to - from + BufLen
      /\ Used(from, to) \in 0 .. BufLen - 1
  BY UsedIs
<1>3. d \in 0 .. BufLen - 1 BY <1>1, <1>2
<1>4. (from + d) % BufLen = Slot(from, d) /\ Slot(from, d) \in Index BY <1>3, SlotIs
<1>5. Used(Slot(from, d), to) = Used(from, to) - d
  <2> DEFINE t == Slot(from, d)
  <2>1. Used(t, to) = IF t <= to THEN to - t ELSE to - t + BufLen
    BY <1>4, UsedIs
  <2>2. t = IF from + d < BufLen THEN from + d ELSE from + d - BufLen BY DEF Slot
  <2> HIDE DEF t
  <2>. QED BY <1>1, <1>2, <1>3, <2>1, <2>2 DEF t
<1>6. \A i \in 1 .. Used(from, to) - d : Slot(Slot(from, d), i - 1) = Slot(from, d + i - 1)
  BY <1>1, <1>2, <1>3 DEF Slot
<1>. QED BY <1>4, <1>5, <1>6

\* What is between the indices is kept, and the batch s is written behind it.
Behind(new, buf, from, to, s) ==
  /\ \A i \in 1 .. Used(from, to) : new[Slot(from, i - 1)] = buf[Slot(from, i - 1)]
  /\ \A k \in 1 .. Len(s) : new[Slot(to, k - 1)] = s[k]

\* A batch written behind the queue lengthens it by the batch.
LEMMA QueueGrows ==
  ASSUME NEW buf \in [Index -> Char], NEW new \in [Index -> Char],
         NEW from \in Index, NEW to \in Index, NEW s \in Seq(Char),
         Used(from, to) + Len(s) < BufLen, Behind(new, buf, from, to, s)
  PROVE  /\ (to + Len(s)) % BufLen \in Index
         /\ Queue(new, from, (to + Len(s)) % BufLen) = Queue(buf, from, to) \o s
<1> DEFINE d == Len(s)
           t == (to + d) % BufLen
           u == Used(from, to)
           old == Queue(buf, from, to)
           q == Queue(new, from, t)
<1>1. d \in Nat /\ u \in Nat
  BY UsedIs
<1>2. /\ t = Slot(to, d) /\ t \in Index /\ Used(from, t) = u + d
      /\ \A i \in u + 1 .. u + d : Slot(from, i - 1) = Slot(to, i - u - 1)
  BY <1>1, IndexAdds
<1>3. /\ q \in Seq(Char) /\ Len(q) = u + d
      /\ \A i \in 1 .. u + d : q[i] = new[Slot(from, i - 1)]
  <2>1. ASSUME NEW x \in Index
        PROVE  /\ Queue(new, from, x) \in Seq(Char) /\ Len(Queue(new, from, x)) = Used(from, x)
               /\ \A i \in 1 .. Used(from, x) : Queue(new, from, x)[i] = new[Slot(from, i - 1)]
    BY QueueIs
  <2>2. q = Queue(new, from, t)
    OBVIOUS
  <2> HIDE DEF q, t, u, d
  <2>. QED BY <1>2, <2>1, <2>2
<1>4. /\ old \in Seq(Char) /\ Len(old) = u
      /\ \A i \in 1 .. u : old[i] = buf[Slot(from, i - 1)]
  BY QueueIs
<1>5. /\ old \o s \in Seq(Char) /\ Len(old \o s) = u + d
      /\ \A i \in 1 .. u + d : (old \o s)[i] = IF i <= u THEN old[i] ELSE s[i - u]
  BY <1>1, <1>4, ConcatProperties
<1>6. /\ \A i \in 1 .. u : new[Slot(from, i - 1)] = buf[Slot(from, i - 1)]
      /\ \A k \in 1 .. d : new[Slot(to, k - 1)] = s[k]
  BY DEF Behind
<1> HIDE DEF d, t, u, old, q
<1>7. ASSUME NEW i \in 1 .. u + d PROVE q[i] = (old \o s)[i]
  <2>1. CASE i <= u
    BY <1>1, <1>3, <1>4, <1>5, <1>6, <2>1
  <2>2. CASE ~(i <= u)
    <3>1. i \in u + 1 .. u + d /\ i - u \in 1 .. d
      BY <1>1, <2>2
    <3>2. q[i] = new[Slot(to, i - u - 1)]
      BY <1>2, <1>3, <3>1
    <3>3. new[Slot(to, i - u - 1)] = s[i - u]
      BY <1>6, <3>1
    <3>. QED BY <1>5, <2>2, <3>2, <3>3
  <2>. QED BY <2>1, <2>2
<1>8. q = old \o s
  BY <1>3, <1>5, <1>7, SeqEqual
<1>. QED BY <1>2, <1>8 DEF d, t, q, old

\* A batch taken from its front shortens it.
LEMMA QueueShrinks ==
  ASSUME NEW buf \in [Index -> Char], NEW from \in Index, NEW to \in Index,
         NEW d \in Nat, d <= Used(from, to)
  PROVE  /\ (from + d) % BufLen \in Index
         /\ Queue(buf, (from + d) % BufLen, to)
              = SubSeq(Queue(buf, from, to), d + 1, Used(from, to))
<1> DEFINE f == (from + d) % BufLen
           u == Used(from, to)
           old == Queue(buf, from, to)
           q == Queue(buf, f, to)
           r == SubSeq(old, d + 1, u)
<1>1. u \in Nat
  BY UsedIs
<1>2. /\ f = Slot(from, d) /\ f \in Index /\ Used(f, to) = u - d
      /\ \A i \in 1 .. u - d : Slot(f, i - 1) = Slot(from, d + i - 1)
  BY IndexDrops
<1>3. /\ q \in Seq(Char) /\ Len(q) = u - d
      /\ \A i \in 1 .. u - d : q[i] = buf[Slot(f, i - 1)]
  BY <1>2, QueueIs, SMTT(20)
<1>4. /\ old \in Seq(Char) /\ Len(old) = u
      /\ \A i \in 1 .. u : old[i] = buf[Slot(from, i - 1)]
  BY QueueIs
<1>5. d <= u
  OBVIOUS
<1> HIDE DEF f, u, old, q
<1>6. /\ r \in Seq(Char) /\ Len(r) = u - d
      /\ \A i \in 1 .. u - d : r[i] = old[d + i]
  <2>1. d + 1 \in 1 .. u + 1 /\ u \in d + 1 - 1 .. u
    BY <1>1, <1>5
  <2>. QED BY <1>1, <1>4, <1>5, SMTT(20)
<1> HIDE DEF r
<1>7. ASSUME NEW i \in 1 .. u - d PROVE q[i] = r[i]
  <2>1. d + i \in 1 .. u
    BY <1>1, <1>5
  <2>. QED BY <1>2, <1>3, <1>4, <1>6, <2>1, SMTT(20)
<1>8. q = r
  BY <1>3, <1>6, <1>7, SeqEqual
<1>. QED BY <1>2, <1>8 DEF f, q, r, old, u

-----------------------------------------------------------------------------
(***************************************************************************)
(* Numbered characters.                                                    *)
(***************************************************************************)
LEMMA ConsecutiveIs ==
  ASSUME NEW first \in Char, NEW len \in Nat
  PROVE  /\ Consecutive(first, len) \in Seq(Char) /\ Len(Consecutive(first, len)) = len
         /\ \A i \in 1 .. len : Consecutive(first, len)[i] = (first + i - 1) % Span
<1>1. \A i \in 1 .. len : (first + i - 1) % Span \in Char
  <2>. SUFFICES ASSUME NEW i \in 1 .. len PROVE (first + i - 1) % Span \in Char
    OBVIOUS
  <2>1. first + i - 1 \in Nat
    BY DEF Char
  <2>. QED BY <2>1, Modulo
<1>2. Consecutive(first, len) \in Seq(Char)
  BY <1>1, IsASeq DEF Consecutive
<1>. QED BY <1>2 DEF Consecutive

\* Numbers go on where they were taken modulo Span.
LEMMA ModuloAdds ==
  ASSUME NEW a \in Char, NEW b \in Nat, NEW c \in Nat, b + c <= Span
  PROVE  (((a + b) % Span) + c) % Span = (a + b + c) % Span
<1>1. Span \in Nat \ {0} /\ a \in Nat /\ a < Span
  BY SpanAssumption, BufAssumption, FifoAssumption DEF Char
<1>2. ASSUME NEW x \in Nat, x < 2 * Span
      PROVE  x % Span = IF x < Span THEN x ELSE x - Span
  <2>1. CASE x < Span BY <1>1, <2>1, Remainder
  <2>2. CASE ~(x < Span)
    <3>1. Span <= x BY <1>1, <2>2
    <3>2. ASSUME NEW y \in Nat, Span <= y, y < 2 * Span PROVE y % Span = y - Span
      BY <1>1, <3>2, Remainder
    <3>3. x % Span = x - Span
      BY <1>2, <3>1, <3>2
    <3>. QED BY <2>2, <3>3
  <2>. QED BY <2>1, <2>2
<1> DEFINE m == (a + b) % Span
<1>3. m = IF a + b < Span THEN a + b ELSE a + b - Span
  <2>1. a + b \in Nat /\ a + b < 2 * Span
    BY <1>1
  <2>. QED BY <1>1, <2>1, <1>2
<1>4. (a + b + c) % Span = IF a + b + c < Span THEN a + b + c ELSE a + b + c - Span
  <2>1. a + b + c \in Nat /\ a + b + c < 2 * Span
    BY <1>1
  <2>. QED BY <1>1, <2>1, <1>2
<1> HIDE DEF m
<1>5. (m + c) % Span = IF m + c < Span THEN m + c ELSE m + c - Span
  <2>1. m + c \in Nat /\ m + c < 2 * Span
    BY <1>1, <1>3
  <2>. QED BY <1>1, <1>3, <2>1, <1>2
<1>6. (m + c) % Span = (a + b + c) % Span
  BY <1>1, <1>3, <1>4, <1>5
<1>. QED BY <1>6 DEF m

\* A stretch followed by the stretch that goes on from it.
LEMMA ConsecutiveAdds ==
  ASSUME NEW first \in Char, NEW k \in Nat, NEW d \in Nat, k + d <= Span
  PROVE  /\ Consecutive(first, k) \o Consecutive((first + k) % Span, d)
              = Consecutive(first, k + d)
         /\ (((first + k) % Span) + d) % Span = (first + (k + d)) % Span
<1> DEFINE g == (first + k) % Span
           c == Consecutive(first, k)
           e == Consecutive(g, d)
           w == Consecutive(first, k + d)
<1>1. first \in Nat /\ first + k \in Nat /\ g \in Char
  BY Modulo DEF Char
<1>2. /\ c \in Seq(Char) /\ Len(c) = k
      /\ \A i \in 1 .. k : c[i] = (first + i - 1) % Span
  BY ConsecutiveIs
<1>3. /\ w \in Seq(Char) /\ Len(w) = k + d
      /\ \A i \in 1 .. k + d : w[i] = (first + i - 1) % Span
  BY ConsecutiveIs
<1>4. ASSUME NEW x \in Char
      PROVE  /\ Consecutive(x, d) \in Seq(Char) /\ Len(Consecutive(x, d)) = d
             /\ \A i \in 1 .. d : Consecutive(x, d)[i] = (x + i - 1) % Span
  BY ConsecutiveIs
<1>5. \A j \in 0 .. d : (g + j) % Span = (first + k + j) % Span
  <2>. SUFFICES ASSUME NEW j \in 0 .. d PROVE (g + j) % Span = (first + k + j) % Span
    OBVIOUS
  <2>1. j \in Nat /\ k + j <= Span
    BY SpanAssumption
  <2>. QED BY <2>1, ModuloAdds
<1> HIDE DEF g
<1>6. /\ e \in Seq(Char) /\ Len(e) = d
      /\ \A i \in 1 .. d : e[i] = (g + i - 1) % Span
  BY <1>1, <1>4
<1> HIDE DEF c, e, w
<1>7. /\ c \o e \in Seq(Char) /\ Len(c \o e) = k + d
      /\ \A i \in 1 .. k + d : (c \o e)[i] = IF i <= k THEN c[i] ELSE e[i - k]
  BY <1>2, <1>6, ConcatProperties
<1>8. ASSUME NEW i \in 1 .. k + d PROVE (c \o e)[i] = w[i]
  <2>1. CASE i <= k
    <3>1. i \in 1 .. k
      BY <2>1
    <3>. QED BY <1>2, <1>3, <1>7, <2>1, <3>1
  <2>2. CASE ~(i <= k)
    <3>1. i - k \in 1 .. d /\ i - k - 1 \in 0 .. d /\ g \in Nat
      BY <1>1, <2>2 DEF Char
    <3>2. g + (i - k) - 1 = g + (i - k - 1) /\ first + k + (i - k - 1) = first + i - 1
      BY <1>1, <3>1
    <3>3. e[i - k] = (first + i - 1) % Span
      BY <1>5, <1>6, <3>1, <3>2
    <3>. QED BY <1>3, <1>7, <2>2, <3>3
  <2>. QED BY <2>1, <2>2
<1>9. c \o e = w
  BY <1>3, <1>7, <1>8, SeqEqual
<1>10. (g + d) % Span = (first + (k + d)) % Span
  <2>1. d \in 0 .. d /\ first + k + d = first + (k + d)
    BY <1>1
  <2>. QED BY <1>5, <2>1
<1>. QED BY <1>9, <1>10 DEF c, e, w, g

\* Past its first part, a concatenation is its second.
LEMMA SubSeqAfter ==
  ASSUME NEW s \in Seq(Char), NEW t \in Seq(Char)
  PROVE  SubSeq(s \o t, Len(s) + 1, Len(t) + Len(s)) = t
<1> DEFINE st == s \o t
           k == Len(s)
           d == Len(t)
           r == SubSeq(st, k + 1, d + k)
<1>1. /\ k \in Nat /\ d \in Nat
      /\ st \in Seq(Char) /\ Len(st) = k + d
      /\ \A i \in 1 .. k + d : st[i] = IF i <= k THEN s[i] ELSE t[i - k]
  BY ConcatProperties
<1>2. \A i \in k + 1 .. d + k : st[i] \in Char
  BY <1>1
<1> HIDE DEF st
<1>3. /\ r \in Seq(Char) /\ Len(r) = d
      /\ \A i \in 1 .. d : r[i] = st[k + i]
  <2>1. k + 1 \in Int /\ d + k \in Int /\ (d + k) - (k + 1) + 1 = d
        /\ (k + 1 <= d + k \/ d = 0)
    BY <1>1
  <2>2. /\ r \in Seq(Char)
        /\ Len(r) = IF k + 1 <= d + k THEN (d + k) - (k + 1) + 1 ELSE 0
        /\ \A i \in 1 .. (d + k) - (k + 1) + 1 : r[i] = st[(k + 1) + i - 1]
    BY <1>2, <2>1, SubSeqProperties
  <2> HIDE DEF r
  <2>. QED BY <1>1, <2>1, <2>2
<1> HIDE DEF r
<1>4. ASSUME NEW i \in 1 .. d PROVE r[i] = t[i]
  <2>1. k + i \in 1 .. k + d /\ ~(k + i <= k) /\ k + i - k = i
    BY <1>1
  <2>. QED BY <1>1, <1>3, <2>1, SMTT(20)
<1>5. r = t
  BY <1>1, <1>3, <1>4, SeqEqual
<1>. QED BY <1>5 DEF r, st

\* What is left of a stretch when its first d are gone.
LEMMA ConsecutiveDrops ==
  ASSUME NEW first \in Char, NEW k \in Nat, NEW d \in Nat, k + d <= Span
  PROVE  /\ SubSeq(Consecutive(first, k + d), d + 1, k + d)
              = Consecutive((first + d) % Span, k)
         /\ (((first + d) % Span) + k) % Span = (first + (k + d)) % Span
         /\ (first + d) % Span \in Char
<1> DEFINE c == Consecutive(first, d)
           e == Consecutive((first + d) % Span, k)
           w == Consecutive(first, k + d)
<1>1. first + d \in Nat /\ (first + d) % Span \in Char
  BY Modulo DEF Char
<1>2. d + k <= Span /\ d + k = k + d
  BY SpanAssumption
<1>3. c \o e = w /\ (((first + d) % Span) + k) % Span = (first + (k + d)) % Span
  BY <1>2, ConsecutiveAdds
<1>4. c \in Seq(Char) /\ Len(c) = d
  BY ConsecutiveIs
<1>5. e \in Seq(Char) /\ Len(e) = k
  <2>1. ASSUME NEW x \in Char PROVE Consecutive(x, k) \in Seq(Char) /\ Len(Consecutive(x, k)) = k
    BY ConsecutiveIs
  <2>. QED BY <1>1, <2>1
<1> HIDE DEF c, e
<1>6. SubSeq(c \o e, d + 1, k + d) = e
  BY <1>4, <1>5, SubSeqAfter
<1>. QED BY <1>1, <1>3, <1>6 DEF e, w
-----------------------------------------------------------------------------
(***************************************************************************)
(* The contents of the two directions.                                     *)
(***************************************************************************)
RxQueue == Queue(rx_buf, rx_out, rx_in) \o fifoRx
TxQueue == fifoTx \o Queue(tx_buf, tx_out, tx_in)

\* A write's copy goes to free slots behind the queue, and stays there until it
\* is published.
WriteAhead ==
  /\ at \in {"wcopy", "wpublish"} => in = tx_in
  /\ at \in {"wcopy", "wpublish"} => Used(tx_out, tx_in) + n < BufLen
  /\ at \in {"wcopy", "wpublish"} => n > 0
  /\ at = "wpublish" => \A k \in 1 .. n : tx_buf[in + k - 1] = (sent + k - 1) % Span

\* A read's copy is of slots the interrupt routine does not give away.
ReadHeld ==
  /\ at \in {"rcopy", "rfree"} => out = rx_out
  /\ at \in {"rcopy", "rfree"} => n <= Used(rx_out, rx_in)
  /\ at \in {"rcopy", "rfree"} => n > 0

\* The characters typed and not yet read are numbered on from the next to read.
RxNumbers ==
  /\ seen \in Char
  /\ RxQueue = Consecutive(seen, Len(RxQueue))
  /\ typed = (seen + Len(RxQueue)) % Span

Moves == WriteAhead /\ ReadHeld /\ RxNumbers

\* What a step leaves alone.
RxStays == UNCHANGED <<rx_in, rx_out, rx_buf, fifoRx, typed, seen>>
TxStays == UNCHANGED <<tx_in, tx_out, tx_buf, fifoTx, sent>>
FgStays == UNCHANGED <<at, in, out, n>>

\* Few steps touch a direction, and few lead to where a copy is under way.
LEMMA Shape ==
  ASSUME [Next]_vars
  PROVE  /\ RxStays \/ IsrGet \/ ReadFree \/ HostTypes
         /\ TxStays \/ IsrPut \/ WriteCopy \/ WritePublish \/ HostTakes
         /\ \/ FgStays \/ WriteSnap \/ WriteCopy \/ ReadSnap \/ ReadCopy
            \/ at' \notin {"wcopy", "wpublish", "rcopy", "rfree"}
<1>. USE DEF rxVars, txVars, hwVars, numVars, fgVars, RxStays, TxStays, FgStays
<1>1. CASE UNCHANGED vars
  BY <1>1 DEF vars
<1>2. CASE Isr
  BY <1>2 DEF Isr, Interrupt, IsrControl, IsrGet, IsrGetEnd, IsrPut, IsrPutEnd
<1>3. CASE Second \/ SetTimeout \/ RefuseIoctl \/ HostTypes \/ HostTakes \/ HostPolls
  BY <1>3 DEF Second, SetTimeout, RefuseIoctl, HostTypes, HostTakes, HostPolls
<1>4. CASE WriteCall \/ ReadCall \/ CloseCall
  BY <1>4 DEF WriteCall, ReadCall, CloseCall, Call
<1>5. CASE WriteCopied \/ WriteWait \/ WriteTest \/ WriteKick
  <2>1. RxStays /\ TxStays
    BY <1>5 DEF WriteCopied, WriteWait, WriteTest, WriteKick
  <2>2. at' \in {"wkick", "wtest", "idle", "wsnap", "wwait"}
    BY <1>5 DEF WriteCopied, WriteWait, WriteTest, WriteKick, Goto, Return, Await
  <2>. QED BY <2>1, <2>2
<1>6. CASE WriteSnap \/ WriteCopy \/ WritePublish
  BY <1>6 DEF WriteSnap, WriteCopy, WritePublish
<1>7. CASE ReadSnap \/ ReadCopy \/ ReadFree
  BY <1>7 DEF ReadSnap, ReadCopy, ReadFree
<1>8. CASE ReadStop \/ ReadWait \/ ReadTest \/ ReadArm
  <2>1. RxStays /\ TxStays
    BY <1>8 DEF ReadStop, ReadWait, ReadTest, ReadArm
  <2>2. at' \in {"rtest", "idle", "rsnap", "rwait", "rarm"}
    BY <1>8 DEF ReadStop, ReadWait, ReadTest, ReadArm, Goto, Return
  <2>. QED BY <2>1, <2>2
<1>9. CASE CloseTest \/ CloseWait
  <2>1. RxStays /\ TxStays
    BY <1>9 DEF CloseTest, CloseWait
  <2>2. at' \in {"idle", "cwait"}
    BY <1>9 DEF CloseTest, CloseWait, Return, Await
  <2>. QED BY <2>1, <2>2
<1>. QED BY <1>1, <1>2, <1>3, <1>4, <1>5, <1>6, <1>7, <1>8, <1>9
         DEF Next, Foreground, Write, Read

\* The pieces that reads and writes take fit what is there.
LEMMA TxRoomFree ==
  ASSUME NEW i \in Index, NEW o \in Index
  PROVE  Used(o, i) + TxRoom(i, o) < BufLen
BY UsedIs, BufAssumption, SMTT(20) DEF TxRoom, Index

LEMMA RxRunUsed ==
  ASSUME NEW i \in Index, NEW o \in Index
  PROVE  RxRun(i, o) <= Used(o, i)
BY UsedIs, BufAssumption DEF RxRun, Index

\* A character of its own.
LEMMA OneConsecutive == ASSUME NEW c \in Char PROVE Consecutive(c, 1) = <<c>>
<1>1. <<c>> \in Seq(Char) /\ Len(<<c>>) = 1 /\ <<c>>[1] = c
  OBVIOUS
<1>2. c % Span = c /\ c + 1 - 1 = c
  <2>1. Span \in Nat \ {0} /\ c \in Nat /\ c < Span
    BY SpanAssumption, BufAssumption, FifoAssumption DEF Char
  <2>2. ASSUME NEW x \in Nat, x < Span PROVE x % Span = x
    BY <2>1, <2>2, Remainder
  <2>3. c % Span = c
    BY <2>1, <2>2
  <2>4. c + 1 - 1 = c
    BY <2>1
  <2>. QED BY <2>3, <2>4
<1>3. /\ Consecutive(c, 1) \in Seq(Char) /\ Len(Consecutive(c, 1)) = 1
      /\ \A i \in 1 .. 1 : Consecutive(c, 1)[i] = (c + i - 1) % Span
  BY ConsecutiveIs
<1>4. Consecutive(c, 1)[1] = c
  BY <1>2, <1>3
<1>5. \A i \in 1 .. 1 : Consecutive(c, 1)[i] = <<c>>[i]
  BY <1>1, <1>4
<1>. QED BY <1>1, <1>3, <1>5, SeqEqual

\* The first d of a concatenation, when they are of its first part.
LEMMA DropOfConcat ==
  ASSUME NEW s \in Seq(Char), NEW t \in Seq(Char), NEW d \in Nat, d <= Len(s)
  PROVE  SubSeq(s \o t, d + 1, Len(s \o t)) = SubSeq(s, d + 1, Len(s)) \o t
<1> DEFINE st == s \o t
           k == Len(s)
           l == Len(t)
           a == SubSeq(s, d + 1, k)
           r == SubSeq(st, d + 1, k + l)
<1>1. /\ k \in Nat /\ l \in Nat /\ st \in Seq(Char) /\ Len(st) = k + l /\ d <= k
      /\ \A i \in 1 .. k + l : st[i] = IF i <= k THEN s[i] ELSE t[i - k]
  BY ConcatProperties
<1>2. \A i \in 1 .. k : s[i] \in Char
  OBVIOUS
<1>3. \A i \in 1 .. k + l : st[i] \in Char
  BY <1>1
<1> HIDE DEF st, k, l
<1>4. /\ a \in Seq(Char) /\ Len(a) = k - d /\ \A i \in 1 .. k - d : a[i] = s[d + i]
  <2>1. d + 1 \in Int /\ k \in Int /\ k - (d + 1) + 1 = k - d /\ (d + 1 <= k \/ k - d = 0)
    BY <1>1
  <2>2. /\ a \in Seq(Char) /\ Len(a) = IF d + 1 <= k THEN k - (d + 1) + 1 ELSE 0
        /\ \A i \in 1 .. k - (d + 1) + 1 : a[i] = s[(d + 1) + i - 1]
    BY <1>2, <2>1, SubSeqProperties
  <2> HIDE DEF a
  <2>. QED BY <1>1, <2>1, <2>2
<1>5. /\ r \in Seq(Char) /\ Len(r) = k + l - d
      /\ \A i \in 1 .. k + l - d : r[i] = st[d + i]
  <2>1. /\ d + 1 \in Int /\ k + l \in Int /\ k + l - (d + 1) + 1 = k + l - d
        /\ (d + 1 <= k + l \/ k + l - d = 0)
    BY <1>1
  <2>2. /\ r \in Seq(Char) /\ Len(r) = IF d + 1 <= k + l THEN k + l - (d + 1) + 1 ELSE 0
        /\ \A i \in 1 .. k + l - (d + 1) + 1 : r[i] = st[(d + 1) + i - 1]
    BY <1>1, <1>3, <2>1, SubSeqProperties
  <2> HIDE DEF r
  <2>. QED BY <1>1, <2>1, <2>2
<1> HIDE DEF a, r
<1>6. /\ a \o t \in Seq(Char) /\ Len(a \o t) = (k - d) + l
      /\ \A i \in 1 .. (k - d) + l : (a \o t)[i] = IF i <= k - d THEN a[i] ELSE t[i - (k - d)]
  BY <1>4, ConcatProperties DEF l
<1>7. ASSUME NEW i \in 1 .. k + l - d PROVE r[i] = (a \o t)[i]
  <2>1. d + i \in 1 .. k + l /\ (d + i <= k <=> i <= k - d) /\ d + i - k = i - (k - d)
        /\ i \in 1 .. (k - d) + l
    BY <1>1
  <2>2. r[i] = IF d + i <= k THEN s[d + i] ELSE t[d + i - k]
    BY <1>1, <1>5, <2>1
  <2>3. CASE i <= k - d
    <3>1. i \in 1 .. k - d
      BY <2>3
    <3>. QED BY <1>4, <1>6, <2>1, <2>2, <2>3, <3>1
  <2>4. CASE ~(i <= k - d)
    BY <1>6, <2>1, <2>2, <2>4
  <2>. QED BY <2>3, <2>4
<1>8. r = a \o t
  <2>1. Len(r) = Len(a \o t) /\ \A i \in 1 .. Len(r) : r[i] = (a \o t)[i]
    BY <1>1, <1>5, <1>6, <1>7
  <2>. QED BY <1>5, <1>6, <2>1, SeqEqual
<1>. QED BY <1>1, <1>8 DEF r, st, k, l, a

\* The first of a sequence and the rest.
LEMMA HeadAndTail ==
  ASSUME NEW s \in Seq(Char), s # << >>
  PROVE  /\ Len(s) >= 1
         /\ <<Head(s)>> \in Seq(Char) /\ Tail(s) \in Seq(Char)
         /\ s = <<Head(s)>> \o Tail(s)
         /\ Tail(s) = SubSeq(s, 2, Len(s))
<1>1. Len(s) \in Nat /\ Len(s) >= 1
  OBVIOUS
<1>2. 1 \in 1 .. Len(s) /\ Len(s) \in 1 .. Len(s)
  BY <1>1
<1>3. SubSeq(s, 1, Len(s)) = <<s[1]>> \o SubSeq(s, 1 + 1, Len(s))
  BY <1>2, SubSeqRecursiveFirst
<1>4. SubSeq(s, 1, Len(s)) = s
  BY SubSeqFull
<1>5. Tail(s) = SubSeq(s, 2, Len(s))
  BY TailIsSubSeq
<1>6. Head(s) = s[1]
  OBVIOUS
<1>7. 1 + 1 = 2
  OBVIOUS
<1>8. <<Head(s)>> \in Seq(Char) /\ Tail(s) \in Seq(Char)
  BY HeadTailProperties
<1>. QED BY <1>1, <1>3, <1>4, <1>5, <1>6, <1>7, <1>8
-----------------------------------------------------------------------------
(***************************************************************************)
(* What the steps do to the two directions.                                *)
(***************************************************************************)
LEMMA QueueTypes ==
  ASSUME Inv
  PROVE  /\ Queue(rx_buf, rx_out, rx_in) \in Seq(Char)
         /\ Len(Queue(rx_buf, rx_out, rx_in)) = Used(rx_out, rx_in)
         /\ Queue(tx_buf, tx_out, tx_in) \in Seq(Char)
         /\ Len(Queue(tx_buf, tx_out, tx_in)) = Used(tx_out, tx_in)
         /\ Used(rx_out, rx_in) \in 0 .. BufLen - 1 /\ Used(tx_out, tx_in) \in 0 .. BufLen - 1
         /\ RxQueue \in Seq(Char) /\ Len(RxQueue) = Used(rx_out, rx_in) + Len(fifoRx)
         /\ TxQueue \in Seq(Char) /\ Len(TxQueue) = Len(fifoTx) + Used(tx_out, tx_in)
         /\ Len(RxQueue) \in Nat /\ Len(RxQueue) < Span
<1>1. /\ Queue(rx_buf, rx_out, rx_in) \in Seq(Char)
      /\ Len(Queue(rx_buf, rx_out, rx_in)) = Used(rx_out, rx_in)
      /\ Queue(tx_buf, tx_out, tx_in) \in Seq(Char)
      /\ Len(Queue(tx_buf, tx_out, tx_in)) = Used(tx_out, tx_in)
  BY QueueIs DEF Inv, BufTypes
<1>2. Used(rx_out, rx_in) \in 0 .. BufLen - 1 /\ Used(tx_out, tx_in) \in 0 .. BufLen - 1
  BY UsedIs DEF Inv, BufTypes
<1>3. /\ fifoRx \in Seq(Char) /\ fifoTx \in Seq(Char)
      /\ Len(fifoRx) \in Nat /\ Len(fifoRx) <= FifoLen
  BY DEF Inv, FifoTypes
<1>4. /\ RxQueue \in Seq(Char) /\ Len(RxQueue) = Used(rx_out, rx_in) + Len(fifoRx)
      /\ TxQueue \in Seq(Char) /\ Len(TxQueue) = Len(fifoTx) + Used(tx_out, tx_in)
  BY <1>1, <1>3, ConcatProperties DEF RxQueue, TxQueue
<1>5. Len(RxQueue) \in Nat /\ Len(RxQueue) < Span
  BY <1>2, <1>3, <1>4, BufAssumption, FifoAssumption, SpanAssumption
<1>. QED BY <1>1, <1>2, <1>4, <1>5

LEMMA NotFull ==
  ASSUME NEW i \in Index, NEW o \in Index, (i + 1) % BufLen # o
  PROVE  Used(o, i) + 1 < BufLen
<1>1. /\ BufLen \in Nat /\ BufLen > 1 /\ i \in Nat /\ i < BufLen /\ o \in Nat /\ o < BufLen
  BY BufAssumption DEF Index
<1>2. (i + 1) % BufLen = IF i + 1 = BufLen THEN 0 ELSE i + 1
  BY <1>1
<1>3. Used(o, i) = IF o <= i THEN i - o ELSE i - o + BufLen
  BY UsedIs
<1>. QED BY <1>1, <1>2, <1>3

\* A character that the interrupt routine gets goes from the front of one queue
\* to the back of the other.
LEMMA IsrGetKeeps ==
  ASSUME Inv, IsrGet
  PROVE  /\ RxQueue' = RxQueue /\ UNCHANGED <<typed, seen, rx_out>>
         /\ Used(rx_out, rx_in') = Used(rx_out, rx_in) + 1
<1> DEFINE s == <<Head(fifoRx)>>
           q == Queue(rx_buf, rx_out, rx_in)
<1>1. /\ ~RxFull /\ fifoRx # << >>
      /\ rx_buf' = [rx_buf EXCEPT ![rx_in] = Head(fifoRx)]
      /\ rx_in' = (rx_in + 1) % BufLen /\ fifoRx' = Tail(fifoRx)
      /\ UNCHANGED <<rx_out, typed, seen>>
  BY DEF IsrGet, numVars
<1>2. /\ rx_in \in Index /\ rx_out \in Index /\ rx_buf \in [Index -> Char]
      /\ rx_buf' \in [Index -> Char] /\ fifoRx \in Seq(Char)
  BY IsrGetInv DEF Inv, BufTypes, FifoTypes
<1>3. Used(rx_out, rx_in) + 1 < BufLen
  BY <1>1, <1>2, NotFull DEF RxFull
<1>4. /\ s \in Seq(Char) /\ Len(s) = 1 /\ s[1] = Head(fifoRx)
      /\ Tail(fifoRx) \in Seq(Char) /\ fifoRx = s \o Tail(fifoRx)
  BY <1>1, <1>2, HeadAndTail
<1>5. /\ (rx_in + 1) % BufLen = Slot(rx_in, 1)
      /\ Used(rx_out, Slot(rx_in, 1)) = Used(rx_out, rx_in) + 1
      /\ \A i \in 1 .. Used(rx_out, rx_in) : \A k \in 0 .. 1 - 1 :
           Slot(rx_out, i - 1) # Slot(rx_in, k)
  BY <1>2, <1>3, IndexAdds
<1>6. Slot(rx_in, 0) = rx_in
  BY <1>2, BufAssumption DEF Slot, Index
<1>7. ASSUME NEW i \in 1 .. Used(rx_out, rx_in)
      PROVE  rx_buf'[Slot(rx_out, i - 1)] = rx_buf[Slot(rx_out, i - 1)]
  <2>1. Slot(rx_out, i - 1) # rx_in
    <3>1. 0 \in 0 .. 1 - 1
      OBVIOUS
    <3>. QED BY <1>5, <1>6, <3>1
  <2>. QED BY <1>1, <1>2, <2>1
<1> HIDE DEF s
<1>8. \A k \in 1 .. Len(s) : rx_buf'[Slot(rx_in, k - 1)] = s[k]
  <2>. SUFFICES ASSUME NEW k \in 1 .. Len(s) PROVE rx_buf'[Slot(rx_in, k - 1)] = s[k]
    OBVIOUS
  <2>1. k = 1 /\ k - 1 = 0
    BY <1>4
  <2>2. rx_buf'[rx_in] = Head(fifoRx)
    BY <1>1, <1>2
  <2>. QED BY <1>4, <1>6, <2>1, <2>2
<1>9. Queue(rx_buf', rx_out, rx_in') = q \o s
  <2>1. Used(rx_out, rx_in) + Len(s) < BufLen
    BY <1>3, <1>4
  <2>2. Queue(rx_buf', rx_out, (rx_in + Len(s)) % BufLen) = q \o s
    <3>1. Behind(rx_buf', rx_buf, rx_out, rx_in, s)
      BY <1>7, <1>8 DEF Behind
    <3>2. s \in Seq(Char)
      BY <1>4
    <3>. QED BY <1>2, <2>1, <3>1, <3>2, QueueGrows
  <2>. QED BY <1>1, <1>4, <2>2
<1>10. RxQueue' = (q \o s) \o Tail(fifoRx)
  BY <1>1, <1>9 DEF RxQueue
<1>11. (q \o s) \o Tail(fifoRx) = q \o (s \o Tail(fifoRx))
  <2>1. q \in Seq(Char)
    BY QueueTypes
  <2>. QED BY <1>4, <2>1, ConcatAssociative
<1>12. RxQueue = q \o fifoRx
  BY DEF RxQueue
<1>. QED BY <1>1, <1>4, <1>5, <1>10, <1>11, <1>12

\* The slots of a read that ends leave the front of the queue.
LEMMA ReadFreeTakes ==
  ASSUME Inv, ReadHeld, ReadFree
  PROVE  /\ n \in 1 .. Len(RxQueue) /\ n < BufLen
         /\ RxQueue' = SubSeq(RxQueue, n + 1, Len(RxQueue))
         /\ typed' = typed /\ seen' = (seen + n) % Span
<1> DEFINE q == Queue(rx_buf, rx_out, rx_in)
           u == Used(rx_out, rx_in)
<1>1. /\ at = "rfree" /\ rx_out' = (out + n) % BufLen /\ seen' = (seen + n) % Span
      /\ UNCHANGED <<rx_in, rx_buf, fifoRx, typed>>
  BY DEF ReadFree, Runs, hwVars
<1>2. /\ out = rx_out /\ n <= u /\ n > 0 /\ n \in 0 .. BufLen - 1 /\ n \in Nat
  BY <1>1, BufAssumption DEF ReadHeld, Inv, FgTypes
<1>3. /\ rx_in \in Index /\ rx_out \in Index /\ rx_buf \in [Index -> Char]
      /\ fifoRx \in Seq(Char) /\ Len(fifoRx) \in Nat
  BY DEF Inv, BufTypes, FifoTypes
<1>4. q \in Seq(Char) /\ Len(q) = u /\ Len(RxQueue) = u + Len(fifoRx) /\ u \in 0 .. BufLen - 1
  BY QueueTypes
<1>5. Queue(rx_buf, (rx_out + n) % BufLen, rx_in) = SubSeq(q, n + 1, u)
  BY <1>2, <1>3, QueueShrinks
<1>6. RxQueue' = SubSeq(q, n + 1, u) \o fifoRx
  BY <1>1, <1>2, <1>5 DEF RxQueue
<1>7. RxQueue = q \o fifoRx
  BY DEF RxQueue
<1> HIDE DEF q, u
<1>8. SubSeq(RxQueue, n + 1, Len(RxQueue)) = SubSeq(q, n + 1, u) \o fifoRx
  BY <1>2, <1>3, <1>4, <1>7, DropOfConcat
<1>9. n \in 1 .. Len(RxQueue) /\ n < BufLen
  BY <1>2, <1>3, <1>4, BufAssumption
<1>. QED BY <1>1, <1>6, <1>8, <1>9

\* A character that is typed is the next, at the end.
LEMMA HostTypesPuts ==
  ASSUME Inv, HostTypes
  PROVE  /\ RxQueue' = RxQueue \o Consecutive(typed, 1)
         /\ typed' = (typed + 1) % Span
         /\ UNCHANGED <<seen, rx_in, rx_out>>
<1> DEFINE q == Queue(rx_buf, rx_out, rx_in)
<1>1. /\ fifoRx' = Append(fifoRx, typed) /\ typed' = (typed + 1) % Span
      /\ UNCHANGED <<rx_in, rx_out, rx_buf, seen>>
  BY DEF HostTypes, rxVars
<1>2. fifoRx \in Seq(Char) /\ typed \in Char
  BY DEF Inv, FifoTypes
<1>3. Append(fifoRx, typed) = fifoRx \o <<typed>> /\ <<typed>> \in Seq(Char)
  BY <1>2, AppendIsConcat
<1>4. RxQueue' = q \o (fifoRx \o <<typed>>)
  BY <1>1, <1>3 DEF RxQueue
<1>5. RxQueue = q \o fifoRx
  BY DEF RxQueue
<1>6. q \in Seq(Char)
  BY QueueTypes
<1> HIDE DEF q
<1>7. (q \o fifoRx) \o <<typed>> = q \o (fifoRx \o <<typed>>)
  BY <1>2, <1>3, <1>6, ConcatAssociative
<1>. QED BY <1>1, <1>2, <1>4, <1>5, <1>7, OneConsecutive

\* A character that the interrupt routine puts goes from one queue to the other.
LEMMA IsrPutKeeps ==
  ASSUME Inv, IsrPut
  PROVE  /\ TxQueue' = TxQueue /\ UNCHANGED <<sent, tx_in, tx_buf>>
         /\ Used(tx_out', tx_in) = Used(tx_out, tx_in) - 1
<1> DEFINE q == Queue(tx_buf, tx_out, tx_in)
           c == tx_buf[tx_out]
           r == Queue(tx_buf, tx_out', tx_in)
<1>1. /\ tx_out # tx_in /\ fifoTx' = Append(fifoTx, c) /\ tx_out' = (tx_out + 1) % BufLen
      /\ UNCHANGED <<tx_in, tx_buf, sent>>
  BY DEF IsrPut, numVars
<1>2. /\ tx_in \in Index /\ tx_out \in Index /\ tx_buf \in [Index -> Char]
      /\ fifoTx \in Seq(Char) /\ c \in Char
  BY DEF Inv, BufTypes, FifoTypes
<1>3. 1 <= Used(tx_out, tx_in)
  <2>1. Used(tx_out, tx_in) = IF tx_out <= tx_in THEN tx_in - tx_out ELSE tx_in - tx_out + BufLen
    BY <1>2, UsedIs
  <2>. QED BY <1>1, <1>2, <2>1, BufAssumption DEF Index
<1>4. /\ r = SubSeq(q, 1 + 1, Used(tx_out, tx_in))
      /\ Used(tx_out', tx_in) = Used(tx_out, tx_in) - 1
  BY <1>1, <1>2, <1>3, QueueShrinks, IndexDrops
<1>5. /\ q \in Seq(Char) /\ Len(q) = Used(tx_out, tx_in)
      /\ Used(tx_out, tx_in) \in 0 .. BufLen - 1
  BY QueueTypes
<1>6. q[1] = c
  <2>1. 1 \in 1 .. Used(tx_out, tx_in)
    BY <1>3, <1>5
  <2>2. Slot(tx_out, 1 - 1) = tx_out
    BY <1>2, BufAssumption DEF Slot, Index
  <2>3. \A i \in 1 .. Used(tx_out, tx_in) : q[i] = tx_buf[Slot(tx_out, i - 1)]
    BY <1>2, QueueIs
  <2>. QED BY <2>1, <2>2, <2>3
<1> HIDE DEF q, r, c
<1>7. q = <<c>> \o r /\ r \in Seq(Char)
  <2>1. q # << >>
    BY <1>3, <1>5
  <2>2. q = <<Head(q)>> \o Tail(q) /\ Tail(q) = SubSeq(q, 2, Len(q)) /\ Tail(q) \in Seq(Char)
    BY <1>5, <2>1, HeadAndTail
  <2>3. Head(q) = c
    BY <1>5, <1>6, <2>1
  <2>4. r = Tail(q)
    BY <1>4, <1>5, <2>2
  <2>. QED BY <2>2, <2>3, <2>4
<1>8. Append(fifoTx, c) = fifoTx \o <<c>> /\ <<c>> \in Seq(Char)
  BY <1>2, AppendIsConcat
<1>9. (fifoTx \o <<c>>) \o r = fifoTx \o (<<c>> \o r)
  BY <1>2, <1>7, <1>8, ConcatAssociative
<1>10. TxQueue' = Append(fifoTx, c) \o r
  BY <1>1 DEF TxQueue, r
<1>11. TxQueue = fifoTx \o q
  BY DEF TxQueue, q
<1>. QED BY <1>1, <1>4, <1>7, <1>8, <1>9, <1>10, <1>11
\* The slots a write fills, and those in use.
LEMMA SlotsOfWrite ==
  ASSUME Inv, WriteAhead, at \in {"wcopy", "wpublish"}
  PROVE  /\ in = tx_in /\ n \in 1 .. BufLen /\ in + n <= BufLen
         /\ Used(tx_out, tx_in) + n < BufLen
         /\ \A k \in 1 .. n : Slot(tx_in, k - 1) = in + k - 1
         /\ \A i \in 1 .. Used(tx_out, tx_in) :
              Slot(tx_out, i - 1) \in Index /\ Slot(tx_out, i - 1) \notin in .. in + n - 1
<1> DEFINE u == Used(tx_out, tx_in)
<1>1. /\ in = tx_in /\ u + n < BufLen /\ n > 0 /\ in + n <= BufLen /\ n \in Nat
      /\ tx_in \in Index /\ tx_out \in Index
  BY BufAssumption DEF WriteAhead, Inv, FgTypes, BufTypes
<1>2. BufLen \in Nat /\ in \in Nat
  BY <1>1, BufAssumption DEF Index
<1>3. \A k \in 1 .. n : Slot(tx_in, k - 1) = in + k - 1
  BY <1>1, <1>2 DEF Slot
<1>4. \A i \in 1 .. u : \A k \in 0 .. n - 1 : Slot(tx_out, i - 1) # Slot(tx_in, k)
  BY <1>1, IndexAdds
<1>5. u \in 0 .. BufLen - 1
  BY <1>1, UsedIs
<1> HIDE DEF u
<1>6. ASSUME NEW i \in 1 .. u
      PROVE  Slot(tx_out, i - 1) \in Index /\ Slot(tx_out, i - 1) \notin in .. in + n - 1
  <2>1. i - 1 \in 0 .. BufLen - 1
    BY <1>2, <1>5
  <2>2. Slot(tx_out, i - 1) \in Index
    BY <1>1, <2>1, SlotIs
  <2>3. ASSUME NEW x \in in .. in + n - 1 PROVE Slot(tx_out, i - 1) # x
    <3>1. x - in \in 0 .. n - 1 /\ x - in + 1 \in 1 .. n /\ x - in + 1 - 1 = x - in
          /\ in + (x - in + 1) - 1 = x
      BY <1>1, <1>2
    <3>2. Slot(tx_in, x - in) = x
      BY <1>3, <3>1
    <3>. QED BY <1>4, <3>1, <3>2
  <2>. QED BY <2>2, <2>3
<1>7. n \in 1 .. BufLen
  BY <1>1, <1>2
<1>. QED BY <1>1, <1>3, <1>6, <1>7 DEF u

\* The copy leaves the queue as it is, and writes the characters that are next.
LEMMA WriteCopyKeeps ==
  ASSUME Inv, WriteAhead, WriteCopy
  PROVE  /\ TxQueue' = TxQueue /\ sent' = sent /\ WriteAhead'
<1> DEFINE u == Used(tx_out, tx_in)
           q == Queue(tx_buf, tx_out, tx_in)
           r == Queue(tx_buf', tx_out, tx_in)
<1>1. /\ at = "wcopy" /\ at' = "wpublish"
      /\ UNCHANGED <<tx_in, tx_out, in, n, sent, fifoTx>>
      /\ tx_buf' = [i \in Index |-> IF i \in in .. in + n - 1
                                      THEN (sent + i - in) % Span ELSE tx_buf[i]]
  BY DEF WriteCopy, Runs, Goto, numVars, hwVars
<1>2. /\ tx_buf \in [Index -> Char] /\ tx_buf' \in [Index -> Char]
      /\ tx_in \in Index /\ tx_out \in Index
  BY WriteCopyInv DEF Inv, BufTypes
<1>. sent \in Nat
  BY DEF Inv, FifoTypes, Char
<1>3. /\ in = tx_in /\ n \in 1 .. BufLen /\ in + n <= BufLen /\ u + n < BufLen
      /\ \A i \in 1 .. u :
           Slot(tx_out, i - 1) \in Index /\ Slot(tx_out, i - 1) \notin in .. in + n - 1
  BY <1>1, SlotsOfWrite
<1>4. /\ q \in Seq(Char) /\ Len(q) = u
      /\ \A i \in 1 .. u : q[i] = tx_buf[Slot(tx_out, i - 1)]
  BY <1>2, QueueIs
<1>5. /\ r \in Seq(Char) /\ Len(r) = u
      /\ \A i \in 1 .. u : r[i] = tx_buf'[Slot(tx_out, i - 1)]
  BY <1>2, QueueIs
<1> HIDE DEF q, r, u
<1>6. \A i \in 1 .. u : r[i] = q[i]
  BY <1>1, <1>3, <1>4, <1>5
<1>7. r = q
  BY <1>4, <1>5, <1>6, SeqEqual
<1>8. TxQueue' = fifoTx \o r /\ TxQueue = fifoTx \o q
  BY <1>1 DEF TxQueue, q, r
<1>9. \A k \in 1 .. n : tx_buf'[in + k - 1] = (sent + k - 1) % Span
  <2>. SUFFICES ASSUME NEW k \in 1 .. n PROVE tx_buf'[in + k - 1] = (sent + k - 1) % Span
    OBVIOUS
  <2>1. /\ in + k - 1 \in Index /\ in + k - 1 \in in .. in + n - 1
        /\ sent + (in + k - 1) - in = sent + k - 1
    BY <1>2, <1>3, BufAssumption DEF Index
  <2>. QED BY <1>1, <2>1
<1>10. WriteAhead'
  <2>1. u + n < BufLen /\ n > 0 /\ in = tx_in
    BY <1>3
  <2>. QED BY <1>1, <1>9, <2>1 DEF WriteAhead, u
<1>. QED BY <1>1, <1>7, <1>8, <1>10

\* What was written is handed over in one piece.
LEMMA WritePublishPuts ==
  ASSUME Inv, WriteAhead, WritePublish
  PROVE  /\ n \in 1 .. BufLen
         /\ TxQueue' = TxQueue \o Consecutive(sent, n)
         /\ sent' = (sent + n) % Span
<1> DEFINE q == Queue(tx_buf, tx_out, tx_in)
           s == Consecutive(sent, n)
<1>1. /\ at = "wpublish" /\ tx_in' = (in + n) % BufLen /\ sent' = (sent + n) % Span
      /\ UNCHANGED <<tx_out, tx_buf, fifoTx>>
  BY DEF WritePublish, Runs, hwVars
<1>2. /\ tx_buf \in [Index -> Char] /\ tx_in \in Index /\ tx_out \in Index
      /\ sent \in Char /\ fifoTx \in Seq(Char)
  BY DEF Inv, BufTypes, FifoTypes
<1>3. /\ in = tx_in /\ n \in 1 .. BufLen /\ in + n <= BufLen
      /\ Used(tx_out, tx_in) + n < BufLen
      /\ \A k \in 1 .. n : Slot(tx_in, k - 1) = in + k - 1
  BY <1>1, SlotsOfWrite
<1>4. n \in Nat
  BY <1>3
<1>5. /\ s \in Seq(Char) /\ Len(s) = n
      /\ \A k \in 1 .. n : s[k] = (sent + k - 1) % Span
  BY <1>2, <1>4, ConsecutiveIs
<1> HIDE DEF s
<1>6. Behind(tx_buf, tx_buf, tx_out, tx_in, s)
  BY <1>1, <1>3, <1>5 DEF Behind, WriteAhead
<1>7. Used(tx_out, tx_in) + Len(s) < BufLen
  BY <1>3, <1>5
<1>8. Queue(tx_buf, tx_out, (tx_in + Len(s)) % BufLen) = q \o s
  BY <1>2, <1>5, <1>6, <1>7, QueueGrows, SMTT(20)
<1>9. TxQueue' = fifoTx \o (q \o s)
  BY <1>1, <1>3, <1>5, <1>8 DEF TxQueue
<1>10. q \in Seq(Char)
  BY QueueTypes
<1>11. TxQueue = fifoTx \o q
  BY DEF TxQueue
<1> HIDE DEF q
<1>12. (fifoTx \o q) \o s = fifoTx \o (q \o s)
  BY <1>2, <1>5, <1>10, ConcatAssociative
<1>. QED BY <1>1, <1>3, <1>9, <1>11, <1>12 DEF s

\* The host takes the first.
LEMMA HostTakesGets ==
  ASSUME Inv, HostTakes
  PROVE  /\ 1 <= Len(TxQueue)
         /\ TxQueue' = SubSeq(TxQueue, 1 + 1, Len(TxQueue))
         /\ UNCHANGED <<sent, tx_in, tx_out, tx_buf>>
<1> DEFINE q == Queue(tx_buf, tx_out, tx_in)
<1>1. /\ fifoTx # << >> /\ fifoTx' = Tail(fifoTx)
      /\ UNCHANGED <<sent, tx_in, tx_out, tx_buf>>
  BY DEF HostTakes, numVars, txVars
<1>2. fifoTx \in Seq(Char) /\ q \in Seq(Char) /\ Len(q) \in Nat
  BY QueueTypes DEF Inv, FifoTypes
<1>3. TxQueue' = Tail(fifoTx) \o q /\ TxQueue = fifoTx \o q
  BY <1>1 DEF TxQueue
<1> HIDE DEF q
<1>4. Len(fifoTx) >= 1 /\ Len(fifoTx) \in Nat /\ Tail(fifoTx) = SubSeq(fifoTx, 2, Len(fifoTx))
  BY <1>1, <1>2, HeadAndTail
<1>5. SubSeq(fifoTx \o q, 1 + 1, Len(fifoTx \o q)) = SubSeq(fifoTx, 1 + 1, Len(fifoTx)) \o q
  BY <1>2, <1>4, DropOfConcat
<1>6. Len(fifoTx \o q) = Len(fifoTx) + Len(q)
  BY <1>2, ConcatProperties
<1>7. 1 + 1 = 2 /\ 1 <= Len(TxQueue)
  BY <1>2, <1>3, <1>4, <1>6
<1>. QED BY <1>1, <1>3, <1>4, <1>5, <1>7

-----------------------------------------------------------------------------
(***************************************************************************)
(* Every step of the driver and of the host is a step of each channel, or  *)
(* none.                                                                   *)
(***************************************************************************)
LEMMA ChannelsStart ==
  ASSUME Init
  PROVE  Moves /\ TxChannel!Init /\ RxChannel!Init
<1>1. /\ rx_in = 0 /\ rx_out = 0 /\ tx_in = 0 /\ tx_out = 0 /\ at = "idle"
      /\ fifoRx = << >> /\ fifoTx = << >> /\ sent = 0 /\ typed = 0 /\ seen = 0
  BY DEF Init
<1>2. 0 \in Index /\ 0 \in Char /\ 0 \in Nat
  BY BufAssumption, SpanAssumption, FifoAssumption DEF Index, Char
<1>3. Used(0, 0) = 0
  BY <1>2, UsedIs
<1>4. Len(RxQueue) = 0 /\ Len(TxQueue) = 0 /\ RxQueue \in Seq(Char) /\ TxQueue \in Seq(Char)
  <2>1. Inv
    BY InitInv
  <2>. QED BY <1>1, <1>3, <2>1, QueueTypes
<1>5. RxQueue = << >> /\ TxQueue = << >>
  BY <1>4
<1>6. Consecutive(seen, 0) = << >>
  BY <1>1, <1>2, ConsecutiveIs
<1>7. (seen + 0) % Span = 0
  <2>1. Span \in Nat \ {0} /\ seen + 0 = 0
    BY <1>1, SpanAssumption, BufAssumption, FifoAssumption
  <2>2. ASSUME NEW x \in Nat, x < Span PROVE x % Span = x
    BY <2>1, <2>2, Remainder
  <2>3. 0 < Span
    BY <2>1
  <2>. QED BY <2>1, <2>2, <2>3
<1>8. RxNumbers
  BY <1>1, <1>2, <1>4, <1>5, <1>6, <1>7 DEF RxNumbers
<1>9. WriteAhead /\ ReadHeld
  BY <1>1 DEF WriteAhead, ReadHeld
<1>. QED BY <1>1, <1>5, <1>8, <1>9 DEF Moves, TxChannel!Init, RxChannel!Init, TxQueue, RxQueue
\* A step of the receive direction, given that the copy a read makes is held.
LEMMA RxMoves ==
  ASSUME Inv, ReadHeld, RxNumbers, [Next]_vars
  PROVE  /\ RxNumbers'
         /\ [RxChannel!Put \/ RxChannel!Get]_<<RxQueue, typed>>
<1> DEFINE L == Len(RxQueue)
<1>1. /\ RxQueue \in Seq(Char) /\ L \in Nat /\ L < Span /\ seen \in Char
      /\ RxQueue = Consecutive(seen, L) /\ typed = (seen + L) % Span
      /\ L = Used(rx_out, rx_in) + Len(fifoRx)
  BY QueueTypes DEF RxNumbers
<1>2. CASE RxStays
  <2>1. RxQueue' = RxQueue /\ typed' = typed /\ seen' = seen
    BY <1>2 DEF RxStays, RxQueue
  <2>. QED BY <2>1 DEF RxNumbers
<1>3. CASE IsrGet
  <2>1. RxQueue' = RxQueue /\ typed' = typed /\ seen' = seen
    BY <1>3, IsrGetKeeps
  <2>. QED BY <2>1 DEF RxNumbers
<1>4. CASE ReadFree
  <2>1. /\ n \in 1 .. L /\ n < BufLen /\ RxQueue' = SubSeq(RxQueue, n + 1, L)
        /\ typed' = typed /\ seen' = (seen + n) % Span
    BY <1>4, ReadFreeTakes
  <2> DEFINE k == L - n
  <2>2. k \in Nat /\ n \in Nat /\ L = k + n /\ k + n <= Span
    BY <1>1, <2>1, SpanAssumption
  <2> HIDE DEF L, k
  <2>3. /\ SubSeq(Consecutive(seen, k + n), n + 1, k + n) = Consecutive((seen + n) % Span, k)
        /\ (((seen + n) % Span) + k) % Span = (seen + (k + n)) % Span
        /\ (seen + n) % Span \in Char
    BY <1>1, <2>2, ConsecutiveDrops
  <2>4. RxQueue' = Consecutive(seen', k) /\ seen' \in Char /\ typed' = (seen' + k) % Span
    BY <1>1, <2>1, <2>2, <2>3
  <2>5. Len(RxQueue') = k
    BY <2>2, <2>4, ConsecutiveIs
  <2>6. RxNumbers'
    BY <2>4, <2>5 DEF RxNumbers
  <2>7. n \in 1 .. BufLen
    BY <2>1, BufAssumption
  <2>8. RxChannel!Get
    <3>1. n <= Len(RxQueue) /\ RxQueue' = SubSeq(RxQueue, n + 1, Len(RxQueue))
      BY <2>1, <2>2 DEF L
    <3>. QED BY <2>1, <2>7, <3>1 DEF RxChannel!Get, RxQueue
  <2>. QED BY <2>6, <2>8
<1>5. CASE HostTypes
  <2>1. /\ RxQueue' = RxQueue \o Consecutive(typed, 1) /\ typed' = (typed + 1) % Span
        /\ seen' = seen
    BY <1>5, HostTypesPuts
  <2>2. L + 1 <= Span /\ L + 1 \in Nat
    BY <1>1, SpanAssumption
  <2> HIDE DEF L
  <2>3. /\ Consecutive(seen, L) \o Consecutive((seen + L) % Span, 1) = Consecutive(seen, L + 1)
        /\ (((seen + L) % Span) + 1) % Span = (seen + (L + 1)) % Span
    BY <1>1, <2>2, ConsecutiveAdds
  <2>4. RxQueue' = Consecutive(seen, L + 1) /\ typed' = (seen + (L + 1)) % Span
    BY <1>1, <2>1, <2>3
  <2>5. Len(RxQueue') = L + 1
    BY <1>1, <2>2, <2>4, ConsecutiveIs
  <2>6. RxNumbers'
    BY <1>1, <2>1, <2>4, <2>5 DEF RxNumbers
  <2>7. 1 \in 1 .. BufLen
    BY BufAssumption
  <2>8. RxChannel!Put
    BY <2>1, <2>7 DEF RxChannel!Put, RxChannel!Consecutive, Consecutive, RxQueue
  <2>. QED BY <2>6, <2>8
<1>. QED BY <1>2, <1>3, <1>4, <1>5, Shape

\* A step of the transmit direction.
LEMMA TxMoves ==
  ASSUME Inv, WriteAhead, [Next]_vars
  PROVE  [TxChannel!Put \/ TxChannel!Get]_<<TxQueue, sent>>
<1>1. CASE TxStays
  BY <1>1 DEF TxStays, TxQueue
<1>2. CASE IsrPut
  BY <1>2, IsrPutKeeps
<1>3. CASE WriteCopy
  BY <1>3, WriteCopyKeeps
<1>4. CASE WritePublish
  <2>1. /\ n \in 1 .. BufLen /\ TxQueue' = TxQueue \o Consecutive(sent, n)
        /\ sent' = (sent + n) % Span
    BY <1>4, WritePublishPuts
  <2>2. TxChannel!Put
    BY <2>1 DEF TxChannel!Put, TxChannel!Consecutive, Consecutive, TxQueue
  <2>. QED BY <2>2
<1>5. CASE HostTakes
  <2>1. /\ 1 <= Len(TxQueue) /\ TxQueue' = SubSeq(TxQueue, 1 + 1, Len(TxQueue))
        /\ sent' = sent
    BY <1>5, HostTakesGets
  <2>2. 1 \in 1 .. BufLen
    BY BufAssumption
  <2>3. TxChannel!Get
    BY <2>1, <2>2 DEF TxChannel!Get, TxQueue
  <2>. QED BY <2>3
<1>. QED BY <1>1, <1>2, <1>3, <1>4, <1>5, Shape

\* What a copy is of stays so until it ends.
LEMMA ReadStaysHeld ==
  ASSUME Inv, ReadHeld, [Next]_vars
  PROVE  ReadHeld'
<1>1. CASE at' \notin {"rcopy", "rfree"}
  BY <1>1 DEF ReadHeld
<1>2. CASE ReadSnap
  <2>1. /\ out' = rx_out /\ n' = Smaller(RxRun(rx_in, rx_out), left) /\ left > 0
        /\ rx_in # rx_out /\ rx_out' = rx_out /\ rx_in' = rx_in
    BY <1>2 DEF ReadSnap, rxVars
  <2>2. rx_in \in Index /\ rx_out \in Index /\ left \in Nat
    BY DEF Inv, BufTypes, FgTypes
  <2>3. /\ RxRun(rx_in, rx_out) \in Nat /\ RxRun(rx_in, rx_out) > 0
        /\ RxRun(rx_in, rx_out) <= Used(rx_out, rx_in)
        /\ Used(rx_out, rx_in) \in 0 .. BufLen - 1
    BY <2>1, <2>2, RxRunFits, RxRunUsed, UsedIs
  <2>4. n' > 0 /\ n' <= Used(rx_out, rx_in)
    BY <2>1, <2>2, <2>3 DEF Smaller
  <2>. QED BY <2>1, <2>4 DEF ReadHeld
<1>3. CASE ReadCopy
  <2>1. at = "rcopy" /\ UNCHANGED <<out, n, rx_in, rx_out>>
    BY <1>3 DEF ReadCopy, Runs, rxVars
  <2>. QED BY <2>1 DEF ReadHeld
<1>4. CASE FgStays /\ at \in {"rcopy", "rfree"}
  <2>1. CASE RxStays
    BY <1>4, <2>1 DEF FgStays, RxStays, ReadHeld
  <2>2. CASE IsrGet
    <3>1. rx_out' = rx_out /\ Used(rx_out, rx_in') = Used(rx_out, rx_in) + 1
      BY <2>2, IsrGetKeeps
    <3>2. Used(rx_out, rx_in) \in Nat /\ n \in Nat
      BY UsedIs DEF Inv, BufTypes, FgTypes
    <3>. QED BY <1>4, <3>1, <3>2 DEF FgStays, ReadHeld
  <2>3. CASE HostTypes
    BY <1>4, <2>3 DEF HostTypes, rxVars, FgStays, ReadHeld
  <2>4. CASE ReadFree
    BY <1>4, <2>4 DEF ReadFree, Runs, FgStays, ReadHeld
  <2>. QED BY <2>1, <2>2, <2>3, <2>4, Shape
<1>5. CASE WriteSnap \/ WriteCopy
  BY <1>1, <1>5 DEF WriteSnap, WriteCopy, Goto
<1>. QED BY <1>1, <1>2, <1>3, <1>4, <1>5, Shape DEF FgStays

\* What a write has copied stays there until it is published.
LEMMA WriteStaysAhead ==
  ASSUME Inv, WriteAhead, [Next]_vars
  PROVE  WriteAhead'
<1>1. CASE at' \notin {"wcopy", "wpublish"}
  BY <1>1 DEF WriteAhead
<1>2. CASE WriteSnap
  <2>1. /\ in' = tx_in /\ n' = Smaller(TxRoom(tx_in, tx_out), left)
        /\ at' = (IF n' = 0 THEN "wkick" ELSE "wcopy")
        /\ tx_in' = tx_in /\ tx_out' = tx_out
    BY <1>2 DEF WriteSnap, txVars
  <2>2. tx_in \in Index /\ tx_out \in Index /\ left \in Nat
    BY DEF Inv, BufTypes, FgTypes
  <2>3. /\ TxRoom(tx_in, tx_out) \in 0 .. BufLen - 1
        /\ Used(tx_out, tx_in) + TxRoom(tx_in, tx_out) < BufLen
        /\ Used(tx_out, tx_in) \in 0 .. BufLen - 1
    BY <2>2, TxRoomFits, TxRoomFree, UsedIs
  <2>4. Used(tx_out, tx_in) + n' < BufLen /\ n' \in Nat
    BY <2>1, <2>2, <2>3, BufAssumption DEF Smaller
  <2>5. at' \in {"wcopy", "wpublish"} => n' > 0
    BY <2>1, <2>4
  <2>. QED BY <2>1, <2>4, <2>5 DEF WriteAhead
<1>3. CASE WriteCopy
  BY <1>3, WriteCopyKeeps
<1>4. CASE FgStays /\ at \in {"wcopy", "wpublish"}
  <2>1. CASE TxStays
    BY <1>4, <2>1 DEF FgStays, TxStays, WriteAhead
  <2>2. CASE IsrPut
    <3>1. /\ UNCHANGED <<sent, tx_in, tx_buf>>
          /\ Used(tx_out', tx_in) = Used(tx_out, tx_in) - 1
      BY <2>2, IsrPutKeeps
    <3>2. Used(tx_out, tx_in) \in Nat /\ n \in Nat /\ BufLen \in Nat
      BY UsedIs, BufAssumption DEF Inv, BufTypes, FgTypes
    <3>3. Used(tx_out, tx_in) + n < BufLen => Used(tx_out', tx_in) + n < BufLen
      BY <3>1, <3>2
    <3>. QED BY <1>4, <3>1, <3>3 DEF FgStays, WriteAhead
  <2>3. CASE HostTakes
    BY <1>4, <2>3, HostTakesGets DEF FgStays, WriteAhead
  <2>4. CASE WriteCopy
    BY <2>4, WriteCopyKeeps
  <2>5. CASE WritePublish
    BY <1>4, <2>5 DEF WritePublish, Runs, FgStays
  <2>. QED BY <2>1, <2>2, <2>3, <2>4, <2>5, Shape
<1>5. CASE ReadSnap \/ ReadCopy
  BY <1>1, <1>5 DEF ReadSnap, ReadCopy
<1>. QED BY <1>1, <1>2, <1>3, <1>4, <1>5, Shape DEF FgStays

\* A read hands over the characters next in line.
LEMMA MovesInLine ==
  ASSUME Inv, Moves
  PROVE  ReadsNextInLine
<1>. SUFFICES ASSUME at \in {"rcopy", "rfree"}
              PROVE  [i \in 1 .. n |-> rx_buf[out + i - 1]] = Consecutive(seen, n)
  BY DEF ReadsNextInLine
<1> DEFINE q == Queue(rx_buf, rx_out, rx_in)
           u == Used(rx_out, rx_in)
           L == Len(RxQueue)
<1>1. /\ out = rx_out /\ n <= u /\ n > 0 /\ n \in Nat /\ out + n <= BufLen
      /\ rx_in \in Index /\ rx_out \in Index /\ rx_buf \in [Index -> Char]
      /\ seen \in Char /\ fifoRx \in Seq(Char) /\ Len(fifoRx) \in Nat
  BY BufAssumption DEF Moves, ReadHeld, RxNumbers, Inv, FgTypes, BufTypes, FifoTypes
<1>2. RxQueue = Consecutive(seen, L)
  BY DEF Moves, RxNumbers
<1>3. /\ q \in Seq(Char) /\ Len(q) = u /\ u \in 0 .. BufLen - 1 /\ L \in Nat
      /\ L = u + Len(fifoRx)
  BY QueueTypes
<1>4. \A i \in 1 .. u : q[i] = rx_buf[Slot(rx_out, i - 1)]
  BY <1>1, QueueIs
<1>5. RxQueue = q \o fifoRx
  BY DEF RxQueue
<1>6. \A i \in 1 .. L : Consecutive(seen, L)[i] = (seen + i - 1) % Span
  BY <1>1, <1>3, ConsecutiveIs
<1> HIDE DEF q, u, L
<1>7. \A i \in 1 .. u + Len(fifoRx) : (q \o fifoRx)[i] = IF i <= u THEN q[i] ELSE fifoRx[i - u]
  BY <1>1, <1>3, ConcatProperties
<1>8. \A i \in 1 .. n : rx_buf[out + i - 1] = (seen + i - 1) % Span
  <2>. SUFFICES ASSUME NEW i \in 1 .. n PROVE rx_buf[out + i - 1] = (seen + i - 1) % Span
    OBVIOUS
  <2>1. i \in 1 .. u /\ i <= u /\ i \in 1 .. L /\ i \in 1 .. u + Len(fifoRx)
    BY <1>1, <1>3
  <2>2. Slot(rx_out, i - 1) = out + i - 1
    BY <1>1, BufAssumption DEF Slot, Index
  <2>3. q[i] = rx_buf[out + i - 1]
    BY <1>4, <2>1, <2>2
  <2>4. (q \o fifoRx)[i] = q[i]
    BY <1>7, <2>1
  <2>. QED BY <1>2, <1>5, <1>6, <2>1, <2>3, <2>4
<1>. QED BY <1>8 DEF Consecutive
-----------------------------------------------------------------------------
(***************************************************************************)
(* The polling driver has no buffers: what is between its callers and the  *)
(* host are the FIFOs.                                                     *)
(***************************************************************************)
PolledInv ==
  /\ fifoRx \in Seq(Char) /\ fifoTx \in Seq(Char) /\ sent \in Char /\ typed \in Char
  /\ rx_in = 0 /\ rx_out = 0 /\ rx_buf \in [Index -> Char]
  /\ tx_in = 0 /\ tx_out = 0 /\ tx_buf \in [Index -> Char]
  /\ re

LEMMA PolledStarts == Init => PolledInv
<1>. SUFFICES ASSUME Init PROVE PolledInv
  OBVIOUS
<1>1. Inv
  BY InitInv
<1>. QED BY <1>1 DEF Init, InitDriver, Inv, BufTypes, FifoTypes, PolledInv

LEMMA EmptyQueue ==
  ASSUME NEW buf \in [Index -> Char], NEW s \in Seq(Char)
  PROVE  /\ Queue(buf, 0, 0) \o s = s
         /\ s \o Queue(buf, 0, 0) = s
<1>1. 0 \in Index
  BY BufAssumption DEF Index
<1>2. Used(0, 0) = 0
  BY <1>1, BufAssumption, UsedIs DEF Index
<1>3. Queue(buf, 0, 0) \in Seq(Char) /\ Len(Queue(buf, 0, 0)) = 0
  BY <1>1, <1>2, QueueIs
<1>4. Queue(buf, 0, 0) = << >>
  BY <1>3
<1>. QED BY <1>4, ConcatEmptySeq

LEMMA PolledMoves ==
  ASSUME PolledInv, Polled!Next, UNCHANGED Rest
  PROVE  /\ PolledInv'
         /\ [RxChannel!Put \/ RxChannel!Get]_<<RxQueue, typed>>
         /\ [TxChannel!Put \/ TxChannel!Get]_<<TxQueue, sent>>
<1>1. UNCHANGED <<rx_in, rx_out, rx_buf, tx_in, tx_out, tx_buf, re>>
  BY DEF Rest, rxVars, txVars
<1>2. fifoRx \in Seq(Char) /\ fifoTx \in Seq(Char) /\ sent \in Char /\ typed \in Char
  BY DEF PolledInv
<1>3. \/ UNCHANGED <<fifoTx, sent>>
      \/ fifoTx' = Append(fifoTx, sent) /\ sent' = (sent + 1) % Span
      \/ fifoTx # << >> /\ fifoTx' = Tail(fifoTx) /\ sent' = sent
  BY DEF Polled!Next, Polled!Call, Polled!Driver, Polled!WritePut, Polled!WriteEnd,
     Polled!ReadGet, Polled!ReadEnd, Polled!HostTakes, Polled!HostTypes
<1>4. \/ UNCHANGED <<fifoRx, typed>>
      \/ fifoRx' = Append(fifoRx, typed) /\ typed' = (typed + 1) % Span
      \/ fifoRx # << >> /\ fifoRx' = Tail(fifoRx) /\ typed' = typed
  BY DEF Polled!Next, Polled!Call, Polled!Driver, Polled!WritePut, Polled!WriteEnd,
     Polled!ReadGet, Polled!ReadEnd, Polled!HostTakes, Polled!HostTypes
<1>5. \A c \in Char : c + 1 \in Nat /\ (c + 1) % Span \in Char
  <2>. SUFFICES ASSUME NEW c \in Char PROVE c + 1 \in Nat /\ (c + 1) % Span \in Char
    OBVIOUS
  <2>1. c + 1 \in Nat
    BY DEF Char
  <2>. QED BY <2>1, Modulo
<1>6. fifoTx' \in Seq(Char) /\ sent' \in Char
  <2>1. sent' \in Char
    BY <1>2, <1>3, <1>5
  <2>2. fifoTx' \in Seq(Char)
    BY <1>2, <1>3
  <2>. QED BY <2>1, <2>2
<1>7. fifoRx' \in Seq(Char) /\ typed' \in Char
  <2>1. typed' \in Char
    BY <1>2, <1>4, <1>5
  <2>2. fifoRx' \in Seq(Char)
    BY <1>2, <1>4, SMTT(20)
  <2>. QED BY <2>1, <2>2
<1>8. PolledInv'
  BY <1>1, <1>6, <1>7 DEF PolledInv
<1>9. RxQueue = fifoRx /\ TxQueue = fifoTx
  BY EmptyQueue DEF PolledInv, RxQueue, TxQueue
<1>10. RxQueue' = fifoRx' /\ TxQueue' = fifoTx'
  BY <1>8, EmptyQueue DEF PolledInv, RxQueue, TxQueue
<1>11. 1 \in 1 .. BufLen
  BY BufAssumption
<1>12. \A s \in Seq(Char) : \A c \in Char : Append(s, c) = s \o Consecutive(c, 1)
  BY AppendIsConcat, OneConsecutive
<1>13. \A s \in Seq(Char) : s # << >> => 1 <= Len(s) /\ Tail(s) = SubSeq(s, 1 + 1, Len(s))
  BY HeadAndTail
<1>14. [RxChannel!Put \/ RxChannel!Get]_<<RxQueue, typed>>
  <2>1. CASE UNCHANGED <<fifoRx, typed>>
    BY <1>9, <1>10, <2>1
  <2>2. CASE fifoRx' = Append(fifoRx, typed) /\ typed' = (typed + 1) % Span
    <3>1. RxQueue' = RxQueue \o Consecutive(typed, 1)
      BY <1>2, <1>9, <1>10, <1>12, <2>2
    <3>2. RxChannel!Put
      BY <1>11, <2>2, <3>1 DEF RxChannel!Put, RxChannel!Consecutive, Consecutive, RxQueue
    <3>. QED BY <3>2
  <2>3. CASE fifoRx # << >> /\ fifoRx' = Tail(fifoRx) /\ typed' = typed
    <3>1. 1 <= Len(RxQueue) /\ RxQueue' = SubSeq(RxQueue, 1 + 1, Len(RxQueue))
      BY <1>2, <1>9, <1>10, <1>13, <2>3
    <3>2. RxChannel!Get
      BY <1>11, <2>3, <3>1 DEF RxChannel!Get, RxQueue
    <3>. QED BY <3>2
  <2>. QED BY <1>4, <2>1, <2>2, <2>3
<1>15. [TxChannel!Put \/ TxChannel!Get]_<<TxQueue, sent>>
  <2>1. CASE UNCHANGED <<fifoTx, sent>>
    BY <1>9, <1>10, <2>1
  <2>2. CASE fifoTx' = Append(fifoTx, sent) /\ sent' = (sent + 1) % Span
    <3>1. TxQueue' = TxQueue \o Consecutive(sent, 1)
      BY <1>2, <1>9, <1>10, <1>12, <2>2
    <3>2. TxChannel!Put
      BY <1>11, <2>2, <3>1 DEF TxChannel!Put, TxChannel!Consecutive, Consecutive, TxQueue
    <3>. QED BY <3>2
  <2>3. CASE fifoTx # << >> /\ fifoTx' = Tail(fifoTx) /\ sent' = sent
    <3>1. 1 <= Len(TxQueue) /\ TxQueue' = SubSeq(TxQueue, 1 + 1, Len(TxQueue))
      BY <1>2, <1>9, <1>10, <1>13, <2>3
    <3>2. TxChannel!Get
      BY <1>11, <2>3, <3>1 DEF TxChannel!Get, TxQueue
    <3>. QED BY <3>2
  <2>. QED BY <1>3, <2>1, <2>2, <2>3
<1>. QED BY <1>8, <1>14, <1>15

-----------------------------------------------------------------------------
(***************************************************************************)
(* The theorems.                                                           *)
(***************************************************************************)
DriverInv == Inv /\ Moves

LEMMA DriverStarts == Init => DriverInv
BY InitInv, ChannelsStart DEF DriverInv

LEMMA DriverSteps == DriverInv /\ [Next]_vars => DriverInv'
BY NextInv, RxMoves, ReadStaysHeld, WriteStaysAhead DEF DriverInv, Moves

\* Either driver's, whichever runs.
UartInv ==
  /\ unit \in {"driver", "polled"}
  /\ unit = "driver" => DriverInv
  /\ unit = "polled" => PolledInv

RxStep == [RxChannel!Put \/ RxChannel!Get]_<<RxQueue, typed>>
TxStep == [TxChannel!Put \/ TxChannel!Get]_<<TxQueue, sent>>

LEMMA UartStarts == MCInit => UartInv /\ TxChannel!Init /\ RxChannel!Init
BY DriverStarts, PolledStarts, ChannelsStart DEF MCInit, UartInv

LEMMA UartSteps == UartInv /\ [MCNext]_mcVars => UartInv' /\ RxStep /\ TxStep
<1>. SUFFICES ASSUME UartInv, [MCNext]_mcVars PROVE UartInv' /\ RxStep /\ TxStep
  OBVIOUS
<1>1. CASE unit = "driver"
  <2>1. [Next]_vars /\ unit' = unit
    BY <1>1 DEF MCNext, mcVars, OnDriver, OnPolled
  <2>2. DriverInv
    BY <1>1 DEF UartInv
  <2>3. RxStep /\ TxStep
    BY <2>1, <2>2, RxMoves, TxMoves DEF DriverInv, Moves, RxStep, TxStep
  <2>. QED BY <1>1, <2>1, <2>2, <2>3, DriverSteps DEF UartInv
<1>2. CASE unit = "polled"
  <2>1. PolledInv
    BY <1>2 DEF UartInv
  <2>2. CASE UNCHANGED mcVars
    <3>1. UNCHANGED vars /\ unit' = unit
      BY <2>2 DEF mcVars
    <3>2. UNCHANGED <<rx_in, rx_out, rx_buf, tx_in, tx_out, tx_buf, re, fifoRx, fifoTx,
                      sent, typed>>
      BY <3>1 DEF vars, rxVars, txVars, hwVars, numVars
    <3>3. PolledInv'
      BY <2>1, <3>2 DEF PolledInv
    <3>4. RxStep /\ TxStep
      BY <3>2 DEF RxStep, TxStep, RxQueue, TxQueue
    <3>. QED BY <1>2, <3>1, <3>3, <3>4 DEF UartInv
  <2>3. CASE Polled!Next /\ UNCHANGED <<unit, Rest>>
    <3>1. PolledInv' /\ RxStep /\ TxStep
      BY <2>1, <2>3, PolledMoves DEF RxStep, TxStep
    <3>. QED BY <1>2, <2>3, <3>1 DEF UartInv
  <2>. QED BY <1>2, <2>2, <2>3 DEF MCNext, OnDriver, OnPolled
<1>. QED BY <1>1, <1>2 DEF UartInv

THEOREM UartInvariant == MCSpec => []UartInv
BY UartStarts, UartSteps, PTL DEF MCSpec

LEMMA TypesOK == Inv => TypeOK
<1>. SUFFICES ASSUME Inv PROVE TypeOK
  OBVIOUS
<1>1. {re, we, alarm, ac, nonblock, late} \subseteq BOOLEAN
  BY DEF Inv, HostTypeOK, FgTypes
<1>2. isr.at \in {"off", "control", "rx", "tx"} /\ isr.space \in 0 .. FifoLen
  BY DEF Inv, IsrTypes
<1>3. /\ at \in {"wcopy", "wpublish"} => in + n <= BufLen
      /\ at \in {"rcopy", "rfree"} => out + n <= BufLen
      /\ at \in Places /\ {in, out} \subseteq Index /\ n \in 0 .. BufLen - 1
      /\ left \in Nat /\ done \in Nat
  BY DEF Inv, FgTypes
<1>. QED BY <1>1, <1>2, <1>3 DEF Inv, BufTypes, HostTypeOK, FifoTypes, TypeOK

\* Whatever use is made of the driver, every variable of it keeps its type, and
\* every memcpy of read and write stays inside its buffer.
THEOREM UartTypeCorrect == Spec => []TypeOK
BY TypesOK, InitInv, NextInv, PTL DEF Spec

\* What a read hands over is what was typed and is next in line, although the
\* interrupt routine goes on filling the buffer, every copy stays inside its
\* buffer, and a timeout out of reach never gives the host up.
THEOREM DriverKeepsWord == MCSpec => []DriverKeepsItsWord
<1>1. Inv => NoTimeoutNoGivingUp
  BY TimeoutAssumption DEF Inv, HostTypeOK, NoTimeoutNoGivingUp
<1>2. UartInv => DriverKeepsItsWord
  BY <1>1, TypesOK, MovesInLine DEF UartInv, DriverInv, DriverKeepsItsWord
<1>. QED BY <1>2, UartInvariant, PTL

\* Neither direction is ever left with characters waiting, its interrupt off
\* and no call on its way to turn it on.
THEOREM NothingStranded == MCSpec => []NeverStranded
<1>1. Inv => NeverStranded
  BY DEF Inv, Armed, NeverStranded, RxNeverStranded
<1>2. PolledInv => NeverStranded
  BY DEF PolledInv, NeverStranded, TxNeverStranded, RxNeverStranded
<1>3. UartInv => NeverStranded
  BY <1>1, <1>2 DEF UartInv, DriverInv
<1>. QED BY <1>3, UartInvariant, PTL

\* Both drivers implement two channels: what is written reaches the host, and
\* what is typed reaches the reader, every character once and in order,
\* whatever the interrupt routine does between the steps of a call.
THEOREM ChannelsAreLossless == MCSpec => ChannelsLossless
<1>1. UartInv /\ [MCNext]_mcVars
        => [TxChannel!Put \/ TxChannel!Get]_<<fifoTx \o Queue(tx_buf, tx_out, tx_in), sent>>
  BY UartSteps DEF TxStep, TxQueue
<1>2. UartInv /\ [MCNext]_mcVars
        => [RxChannel!Put \/ RxChannel!Get]_<<Queue(rx_buf, rx_out, rx_in) \o fifoRx, typed>>
  BY UartSteps DEF RxStep, RxQueue
<1>3. MCSpec => TxIsChannel
  BY <1>1, UartStarts, UartInvariant, PTL DEF MCSpec, TxIsChannel, TxChannel!Spec
<1>4. MCSpec => RxIsChannel
  BY <1>2, UartStarts, UartInvariant, PTL DEF MCSpec, RxIsChannel, RxChannel!Spec
<1>. QED BY <1>3, <1>4 DEF ChannelsLossless
=============================================================================
