-------------------------- MODULE MetalDevicesProofs --------------------------
(***************************************************************************)
(* freedom-metal's drivers, for every start and every sequence of calls and  *)
(* every value of their constants: where a hart lands when it drops its      *)
(* privilege, whose answers the SPI's transfers return, how interrupts and   *)
(* traps come to their handlers, what the registers of the pins, a UART, a   *)
(* PWM unit, the watchdog, the counters, a CLIC and the regions of memory hold after the calls that *)
(* share them, and what the board's handles name.  The last section puts the *)
(* parts together as metal_devices runs them.                               *)
(***************************************************************************)
EXTENDS MetalDevices, PowersProofs, SequenceTheorems, TLAPS

-----------------------------------------------------------------------------
(* privilege.c.                                                             *)

Status == [MIE : BOOLEAN, MPIE : BOOLEAN, MPP : Privileges]

\* The mode that mret will land in, once mstatus is written.
LandingMode == IF served \in {"csrw mepc", "mret"} THEN "user" ELSE to

PrivIInv ==
    /\ mstatus \in Status /\ local \in Status /\ to \in Privileges /\ enabled \in BOOLEAN
    /\ dpc \in {"before", "csrw mstatus", "csrw mepc", "mret", "landed"}
    /\ dpc = "before" => served = "none"
    /\ dpc # "before" => mstatus.MIE = enabled
    /\ dpc = "csrw mstatus" => local.MIE = enabled /\ served \in {"none", "csrw mstatus"}
    /\ dpc \in {"csrw mepc", "mret"} => mstatus.MPIE = enabled /\ mstatus.MPP = LandingMode
    /\ dpc = "csrw mepc" => served # "mret"
    /\ dpc = "mret" => mepc = IF served = "mret" THEN "here" ELSE "entry"
    /\ LandsAsAsked

\* What the two ways of writing mstatus leave in it.
LEMMA StatusAfter ==
    ASSUME NEW m \in Status, NEW p \in Privileges
    PROVE  /\ Mret(m) = [MIE |-> m.MPIE, MPIE |-> TRUE, MPP |-> "user"]
           /\ [WithPIE(m) EXCEPT !.MPP = p] = [MIE |-> m.MIE, MPIE |-> m.MIE, MPP |-> p]
           /\ Mret([m EXCEPT !.MPIE = m.MIE]) = [MIE |-> m.MIE, MPIE |-> TRUE, MPP |-> "user"]
<1>1. [m EXCEPT !.MPIE = m.MIE] = [MIE |-> m.MIE, MPIE |-> m.MIE, MPP |-> m.MPP]
  BY DEF Status
<1>2. [WithPIE(m) EXCEPT !.MPP = p] = [MIE |-> m.MIE, MPIE |-> m.MIE, MPP |-> p]
  <2>1. WithPIE(m) = [MIE |-> m.MIE, MPIE |-> m.MIE, MPP |-> m.MPP]
    BY <1>1 DEF WithPIE
  <2>2. \A x, y, z : [[MIE |-> x, MPIE |-> y, MPP |-> z] EXCEPT !.MPP = p] = [MIE |-> x, MPIE |-> y, MPP |-> p]
    OBVIOUS
  <2>3. QED
    BY <2>1, <2>2
<1>3. Mret([m EXCEPT !.MPIE = m.MIE]) = [MIE |-> m.MIE, MPIE |-> TRUE, MPP |-> "user"]
  BY <1>1 DEF Mret
<1>4. QED
  BY <1>2, <1>3 DEF Mret

LEMMA PrivStepKeepsIInv ==
    ASSUME PrivIInv, [PrivNext]_privVars
    PROVE  PrivIInv'
<1>0. mstatus \in Status /\ local \in Status /\ to \in Privileges /\ "user" \in Privileges
  BY DEF PrivIInv, Privileges
<1>1. CASE Drop
  BY <1>0, <1>1 DEF Drop, PrivIInv, LandsAsAsked, Status
<1>2. CASE WriteMstatus
  <2>1. mstatus' = [MIE |-> local.MIE, MPIE |-> local.MIE, MPP |-> to]
    BY <1>0, <1>2, StatusAfter DEF WriteMstatus
  <2>2. mstatus' \in Status
    BY <1>0, <2>1 DEF Status
  <2>3. /\ dpc = "csrw mstatus" /\ dpc' = "csrw mepc" /\ served \in {"none", "csrw mstatus"}
        /\ local.MIE = enabled /\ UNCHANGED <<mepc, hartMode, local, to, enabled, served>>
    BY <1>2 DEF WriteMstatus, PrivIInv
  <2>4. mstatus'.MIE = enabled /\ mstatus'.MPIE = enabled /\ mstatus'.MPP = to
    BY <2>1, <2>3
  <2>5. QED
    BY <2>2, <2>3, <2>4 DEF PrivIInv, LandingMode, LandsAsAsked
<1>3. CASE WriteMepc
  BY <1>3 DEF WriteMepc, PrivIInv, LandingMode, LandsAsAsked
<1>4. CASE Land
  <2>1. mstatus' = [MIE |-> mstatus.MPIE, MPIE |-> TRUE, MPP |-> "user"]
    BY <1>0, <1>4, StatusAfter DEF Land
  <2>2. mstatus' \in Status
    BY <1>0, <2>1 DEF Status
  <2>3. /\ dpc = "mret" /\ dpc' = "landed" /\ mstatus.MPIE = enabled
        /\ mepc = (IF served = "mret" THEN "here" ELSE "entry") /\ hartMode' = LandingMode
        /\ UNCHANGED <<mepc, local, to, enabled, served>>
    BY <1>4 DEF Land, PrivIInv
  <2>4. mstatus'.MIE = enabled
    BY <2>1, <2>3
  <2>5. LandsAsAsked'
    BY <2>3, <2>4 DEF LandsAsAsked, LandingMode
  <2>6. QED
    BY <2>2, <2>3, <2>4, <2>5 DEF PrivIInv
<1>5. CASE ServeIrq
  <2>1. mstatus' = [MIE |-> mstatus.MIE, MPIE |-> TRUE, MPP |-> "user"]
    BY <1>0, <1>5, StatusAfter DEF ServeIrq
  <2>2. mstatus.MIE = TRUE /\ mstatus.MIE = enabled
    <3>1. mstatus.MIE \in BOOLEAN
      BY <1>0 DEF Status
    <3>2. mstatus.MIE /\ dpc # "before"
      BY <1>5 DEF ServeIrq
    <3>3. QED
      BY <3>1, <3>2 DEF PrivIInv
  <2>3. mstatus' \in Status
    BY <1>0, <2>1 DEF Status
  <2>4. enabled = TRUE /\ mstatus'.MIE = TRUE /\ mstatus'.MPIE = TRUE /\ mstatus'.MPP = "user"
    BY <2>1, <2>2
  <2>5. dpc' = dpc /\ served' = dpc /\ mepc' = "here" /\ dpc \notin {"before", "landed"}
        /\ UNCHANGED <<hartMode, local, to, enabled>>
    BY <1>5 DEF ServeIrq
  <2>6. LandsAsAsked'
    BY <2>5 DEF LandsAsAsked
  <2>7. dpc = "csrw mstatus" => local'.MIE = enabled'
    BY <2>5 DEF PrivIInv
  <2>8. dpc \in {"csrw mepc", "mret"} => mstatus'.MPIE = enabled' /\ mstatus'.MPP = LandingMode'
    BY <2>4, <2>5 DEF LandingMode
  <2>9. QED
    BY <2>3, <2>4, <2>5, <2>6, <2>7, <2>8 DEF PrivIInv
<1>6. CASE UNCHANGED privVars
  BY <1>6 DEF privVars, PrivIInv, LandingMode, LandsAsAsked
<1>7. QED
  BY <1>1, <1>2, <1>3, <1>4, <1>5, <1>6 DEF PrivNext

(* privilege.c:46-54: from any mstatus and wherever an interrupt comes, the  *)
(* hart lands where it was asked to and in that mode, unless the interrupt's *)
(* mret came after mstatus was written.                                      *)
THEOREM HartLands == PrivSpec => []LandsAsAsked
<1>1. PrivInit => PrivIInv
  BY DEF PrivInit, PrivIInv, LandsAsAsked, Status, Privileges
<1>2. PrivIInv /\ [PrivNext]_privVars => PrivIInv'
  BY PrivStepKeepsIInv
<1>3. PrivIInv => LandsAsAsked
  BY DEF PrivIInv
<1>4. QED
  BY <1>1, <1>2, <1>3, PTL DEF PrivSpec

-----------------------------------------------------------------------------
(* sifive_spi0.c.  The answers that are still to be read, those in the      *)
(* receive FIFO first and then those of the frames that are under way, are  *)
(* one for every transfer that timed out and one for the wait of this call. *)

Frame == [mine : BOOLEAN, wires : {"single", "dual", "other"}, to : {0, 1}]

\* The answer at place k is this call's.
Mine(rx, tx, k) == IF k <= Len(rx) THEN rx[k] ELSE tx[k - Len(rx)].mine

\* w answers awaited, d read, l transfers that timed out, s answers not the call's.
Answers(rx, tx, w, d, l, s) ==
    /\ Len(rx) + Len(tx) = l + w
    /\ s = IF l < d THEN l ELSE d
    /\ \A k \in 1 .. l + w : Mine(rx, tx, k) <=> k + d > l

Waiting == IF stage \in {"poll", "time"} THEN 1 ELSE 0

Spi0TypeOK ==
    /\ rxfifo \in Seq(BOOLEAN) /\ txfifo \in Seq(Frame)
    /\ done \in Nat /\ lag \in Nat /\ stale \in Nat
    /\ xfer \in Configs /\ stage \in {"idle", "send", "poll", "time"}

Spi0IInv ==
    /\ Spi0TypeOK
    /\ Len(rxfifo) + Len(txfifo) = lag + Waiting
    /\ stage # "idle" => hold /\ device = xfer.csid /\ Answers(rxfifo, txfifo, Waiting, done, lag, stale)
    /\ stage \in {"poll", "time"} => done < Bytes(xfer)
    /\ FramesReachTheirDevice /\ TimeoutsShiftAnswers

-----------------------------------------------------------------------------
\* A frame that is shifted leaves the order of the answers as it is.
LEMMA ShiftKeepsAnswers ==
    ASSUME NEW rx \in Seq(BOOLEAN), NEW tx \in Seq(Frame), tx # <<>>
    PROVE  LET rx2 == Append(rx, Head(tx).mine)
               tx2 == Tail(tx)
           IN  /\ rx2 \in Seq(BOOLEAN) /\ tx2 \in Seq(Frame)
               /\ Len(rx2) = Len(rx) + 1 /\ Len(tx2) = Len(tx) - 1
               /\ \A k \in 1 .. Len(rx) + Len(tx) : Mine(rx2, tx2, k) = Mine(rx, tx, k)
<1> DEFINE rx2 == Append(rx, Head(tx).mine)
           tx2 == Tail(tx)
<1>1. Head(tx) = tx[1] /\ tx[1] \in Frame /\ tx[1].mine \in BOOLEAN /\ Len(tx) \in Nat \ {0}
  <2>1. Len(tx) \in Nat \ {0} /\ Head(tx) = tx[1] /\ tx[1] \in Frame
    OBVIOUS
  <2>2. \A f \in Frame : f.mine \in BOOLEAN
    BY DEF Frame
  <2>3. QED
    BY <2>1, <2>2
<1>2. rx2 \in Seq(BOOLEAN) /\ tx2 \in Seq(Frame) /\ Len(rx2) = Len(rx) + 1 /\ Len(tx2) = Len(tx) - 1
  BY <1>1
<1>3. \A k \in 1 .. Len(rx) : rx2[k] = rx[k]
  BY <1>1
<1>4. rx2[Len(rx) + 1] = tx[1].mine
  BY <1>1
<1>5. \A k \in 1 .. Len(tx) - 1 : tx2[k] = tx[k + 1]
  BY <1>1
<1>6. ASSUME NEW k \in 1 .. Len(rx) + Len(tx) PROVE Mine(rx2, tx2, k) = Mine(rx, tx, k)
  <2>0. Len(rx) \in Nat /\ Len(tx) \in Nat /\ k \in Nat
    OBVIOUS
  <2>1. CASE k <= Len(rx)
    BY <1>2, <1>3, <2>0, <2>1 DEF Mine
  <2>2. CASE k = Len(rx) + 1
    BY <1>2, <1>4, <2>0, <2>2 DEF Mine
  <2>3. CASE k > Len(rx) + 1
    <3>1. k - Len(rx2) \in 1 .. Len(tx) - 1 /\ (k - Len(rx2)) + 1 = k - Len(rx)
      BY <1>2, <2>0, <2>3
    <3>2. tx2[k - Len(rx2)] = tx[k - Len(rx)]
      BY <1>5, <3>1
    <3>3. QED
      BY <1>2, <2>0, <2>3, <3>2 DEF Mine
  <2>4. QED
    BY <2>0, <2>1, <2>2, <2>3
<1>7. QED
  BY <1>2, <1>6

\* A frame that is sent is answered last.
LEMMA SendingAwaitsAnswer ==
    ASSUME NEW rx \in Seq(BOOLEAN), NEW tx \in Seq(Frame), NEW d \in Nat, NEW l \in Nat, NEW s \in Nat,
           NEW f \in Frame, f.mine = TRUE, Answers(rx, tx, 0, d, l, s)
    PROVE  Append(tx, f) \in Seq(Frame) /\ Answers(rx, Append(tx, f), 1, d, l, s)
<1> DEFINE tx2 == Append(tx, f)
<1>1. tx2 \in Seq(Frame) /\ Len(tx2) = Len(tx) + 1 /\ tx2[Len(tx) + 1] = f /\ Len(tx) \in Nat /\ Len(rx) \in Nat
  OBVIOUS
<1>2. \A k \in 1 .. Len(tx) : tx2[k] = tx[k]
  OBVIOUS
<1>3. Len(rx) + Len(tx) = l /\ Len(rx) + Len(tx2) = l + 1
  BY <1>1 DEF Answers
<1>4. ASSUME NEW k \in 1 .. l + 1 PROVE Mine(rx, tx2, k) <=> k + d > l
  <2>1. CASE k = l + 1
    <3>1. k > Len(rx) /\ k - Len(rx) = Len(tx) + 1 /\ k + d > l
      BY <1>1, <1>3, <2>1
    <3>2. tx2[k - Len(rx)].mine = TRUE
      BY <1>1, <3>1
    <3>3. QED
      BY <3>1, <3>2, <1>1 DEF Mine
  <2>2. CASE k <= l
    <3>1. Mine(rx, tx, k) <=> k + d > l
      BY <2>2 DEF Answers
    <3>2. k > Len(rx) => k - Len(rx) \in 1 .. Len(tx)
      BY <1>1, <1>3, <2>2
    <3>3. Mine(rx, tx2, k) = Mine(rx, tx, k)
      BY <1>1, <1>2, <3>2 DEF Mine
    <3>4. QED
      BY <3>1, <3>3
  <2>3. QED
    BY <2>1, <2>2
<1>5. QED
  BY <1>1, <1>3, <1>4 DEF Answers

\* An answer that is read is this call's exactly if no other's is left.
LEMMA ReadingTakesFirst ==
    ASSUME NEW rx \in Seq(BOOLEAN), NEW tx \in Seq(Frame), NEW d \in Nat, NEW l \in Nat, NEW s \in Nat,
           rx # <<>>, Answers(rx, tx, 1, d, l, s)
    PROVE  Tail(rx) \in Seq(BOOLEAN) /\ Answers(Tail(rx), tx, 0, d + 1, l, IF Head(rx) THEN s ELSE s + 1)
<1> DEFINE rx2 == Tail(rx)
<1>1. rx2 \in Seq(BOOLEAN) /\ Len(rx2) = Len(rx) - 1 /\ Len(rx) \in Nat \ {0} /\ Len(tx) \in Nat /\ Head(rx) = rx[1]
  OBVIOUS
<1>2. \A k \in 1 .. Len(rx) - 1 : rx2[k] = rx[k + 1]
  OBVIOUS
<1>3. Len(rx) + Len(tx) = l + 1 /\ s = (IF l < d THEN l ELSE d) /\ Len(rx2) + Len(tx) = l + 0
  BY <1>1 DEF Answers
<1>4. Head(rx) <=> 1 + d > l
  <2>1. 1 \in 1 .. l + 1 /\ 1 <= Len(rx)
    BY <1>1
  <2>2. Mine(rx, tx, 1) <=> 1 + d > l
    BY <2>1 DEF Answers
  <2>3. Mine(rx, tx, 1) = rx[1]
    BY <2>1 DEF Mine
  <2>4. QED
    BY <1>1, <2>2, <2>3
<1>5. (IF Head(rx) THEN s ELSE s + 1) = IF l < d + 1 THEN l ELSE d + 1
  <2>1. CASE Head(rx)
    <3>1. 1 + d > l
      BY <1>4, <2>1
    <3>2. s = IF l < d + 1 THEN l ELSE d + 1
      BY <1>3, <3>1
    <3>3. QED
      BY <2>1, <3>2
  <2>2. CASE ~Head(rx)
    <3>1. ~(1 + d > l)
      BY <1>4, <2>2
    <3>2. s + 1 = IF l < d + 1 THEN l ELSE d + 1
      BY <1>3, <3>1
    <3>3. QED
      BY <2>2, <3>2
  <2>3. QED
    BY <2>1, <2>2
<1>6. ASSUME NEW k \in 1 .. l + 0 PROVE Mine(rx2, tx, k) <=> k + (d + 1) > l
  <2>0. k \in Nat /\ k + 1 \in 1 .. l + 1
    OBVIOUS
  <2>1. Mine(rx, tx, k + 1) <=> (k + 1) + d > l
    BY <2>0 DEF Answers
  <2>2. Mine(rx2, tx, k) = Mine(rx, tx, k + 1)
    <3>1. CASE k <= Len(rx2)
      BY <1>1, <1>2, <2>0, <3>1 DEF Mine
    <3>2. CASE k > Len(rx2)
      <4>1. ~(k + 1 <= Len(rx)) /\ ~(k <= Len(rx2)) /\ (k + 1) - Len(rx) = k - Len(rx2)
        BY <1>1, <2>0, <3>2
      <4>2. QED
        BY <4>1 DEF Mine
    <3>3. QED
      BY <1>1, <2>0, <3>1, <3>2
  <2>3. (k + 1) + d > l <=> k + (d + 1) > l
    OBVIOUS
  <2>4. QED
    BY <2>1, <2>2, <2>3
<1>7. QED
  BY <1>1, <1>3, <1>5, <1>6 DEF Answers

\* Nothing that is under way when a call starts is its own.
LEMMA DisowningStartsAgain ==
    ASSUME NEW rx \in Seq(BOOLEAN), NEW tx \in Seq(Frame), NEW l \in Nat, Len(rx) + Len(tx) = l
    PROVE  LET rx2 == [k \in DOMAIN rx |-> FALSE]
               tx2 == [k \in DOMAIN tx |-> [tx[k] EXCEPT !.mine = FALSE]]
           IN  /\ rx2 \in Seq(BOOLEAN) /\ tx2 \in Seq(Frame)
               /\ Len(rx2) + Len(tx2) = l /\ Answers(rx2, tx2, 0, 0, l, 0)
<1> DEFINE rx2 == [k \in DOMAIN rx |-> FALSE]
           tx2 == [k \in DOMAIN tx |-> [tx[k] EXCEPT !.mine = FALSE]]
<1>1. Len(rx) \in Nat /\ DOMAIN rx = 1 .. Len(rx) /\ Len(tx) \in Nat /\ DOMAIN tx = 1 .. Len(tx)
  OBVIOUS
<1>2. rx2 \in Seq(BOOLEAN) /\ Len(rx2) = Len(rx)
  BY <1>1
<1>3. \A k \in 1 .. Len(tx) : tx2[k] \in Frame /\ tx2[k].mine = FALSE
  <2>1. \A f \in Frame : [f EXCEPT !.mine = FALSE] \in Frame /\ [f EXCEPT !.mine = FALSE].mine = FALSE
    BY DEF Frame
  <2>2. \A k \in 1 .. Len(tx) : tx[k] \in Frame /\ tx2[k] = [tx[k] EXCEPT !.mine = FALSE]
    BY <1>1
  <2>3. QED
    BY <2>1, <2>2
<1>4. tx2 \in Seq(Frame) /\ Len(tx2) = Len(tx)
  BY <1>1, <1>3
<1>5. ASSUME NEW k \in 1 .. l + 0 PROVE ~Mine(rx2, tx2, k) /\ ~(k + 0 > l)
  <2>1. k > Len(rx) => k - Len(rx) \in 1 .. Len(tx)
    BY <1>1
  <2>2. ~Mine(rx2, tx2, k)
    BY <1>1, <1>2, <1>3, <2>1 DEF Mine
  <2>3. QED
    BY <2>2
<1>6. 0 = IF l < 0 THEN l ELSE 0
  OBVIOUS
<1>7. \A k \in 1 .. l + 0 : Mine(rx2, tx2, k) <=> k + 0 > l
  BY <1>5
<1>8. Len(rx2) + Len(tx2) = l + 0
  BY <1>1, <1>2, <1>4
<1>9. Answers(rx2, tx2, 0, 0, l, 0)
  BY <1>6, <1>7, <1>8 DEF Answers
<1>10. QED
  BY <1>2, <1>4, <1>8, <1>9

\* What a configuration comes to.
LEMMA ConfigFacts ==
    ASSUME NEW c \in Configs
    PROVE  /\ Bytes(c) \in Nat /\ c.csid \in {0, 1}
           /\ \A k \in Nat : WiresFor(c, k) \in {"single", "dual", "other"}
<1>1. /\ c.protocol \in {"single", "dual", "other"} /\ c.csid \in {0, 1}
      /\ c.cmd \in Nat /\ c.addr \in Nat /\ c.dummy \in Nat /\ c.len \in Nat
  BY SpiBoundsAssumption DEF Configs, Parts
<1>2. Bytes(c) \in Nat
  BY <1>1 DEF Bytes, Header
<1>3. QED
  BY <1>1, <1>2 DEF WiresFor

\* The start: nothing is under way.
LEMMA Spi0Starts == Spi0Init => Spi0IInv
<1>1. SUFFICES ASSUME Spi0Init PROVE Spi0IInv
  OBVIOUS
<1>2. xfer \in Configs
  BY <1>1, SpiBoundsAssumption DEF Spi0Init, Configs, Parts
<1>3. Spi0TypeOK
  BY <1>1, <1>2 DEF Spi0Init, Spi0TypeOK
<1>4. Len(rxfifo) + Len(txfifo) = lag + Waiting
  BY <1>1 DEF Spi0Init, Waiting
<1>5. FramesReachTheirDevice /\ TimeoutsShiftAnswers
  BY <1>1 DEF Spi0Init, FramesReachTheirDevice, TimeoutsShiftAnswers
<1>6. stage = "idle"
  BY <1>1 DEF Spi0Init
<1>7. QED
  BY <1>3, <1>4, <1>5, <1>6 DEF Spi0IInv

\* The unit shifts a frame.
LEMMA ShiftKeepsIInv ==
    ASSUME Spi0IInv, ShiftOut
    PROVE  Spi0IInv'
<1>1. /\ Spi0TypeOK /\ Len(rxfifo) + Len(txfifo) = lag + Waiting /\ txfifo # <<>>
      /\ rxfifo' = Append(rxfifo, Head(txfifo).mine) /\ txfifo' = Tail(txfifo)
      /\ rxfifo \in Seq(BOOLEAN) /\ txfifo \in Seq(Frame)
  BY DEF Spi0IInv, Spi0TypeOK, ShiftOut
<1>2. UNCHANGED <<xfer, stage, done, wires, hold, device, stale, lag>>
  BY DEF ShiftOut, xferVars
<1>3. /\ rxfifo' \in Seq(BOOLEAN) /\ txfifo' \in Seq(Frame)
      /\ Len(rxfifo') = Len(rxfifo) + 1 /\ Len(txfifo') = Len(txfifo) - 1
      /\ \A k \in 1 .. Len(rxfifo) + Len(txfifo) : Mine(rxfifo', txfifo', k) = Mine(rxfifo, txfifo, k)
  BY <1>1, ShiftKeepsAnswers
<1>4. Spi0TypeOK'
  BY <1>1, <1>2, <1>3 DEF Spi0TypeOK
<1>5. Waiting' = Waiting
  BY <1>2 DEF Waiting
<1>6. Len(rxfifo') + Len(txfifo') = Len(rxfifo) + Len(txfifo)
  <2>1. \A a, b, c, d \in Nat : c = a + 1 /\ d = b - 1 => c + d = a + b
    OBVIOUS
  <2>2. Len(rxfifo) \in Nat /\ Len(txfifo) \in Nat /\ Len(rxfifo') \in Nat /\ Len(txfifo') \in Nat
    BY <1>1, <1>3
  <2>3. QED
    BY <1>3, <2>1, <2>2
<1>7. stage # "idle" => Answers(rxfifo', txfifo', Waiting, done, lag, stale)
  BY <1>1, <1>3, <1>6 DEF Answers, Spi0IInv
<1>8. FramesReachTheirDevice'
  <2>1. \A k \in DOMAIN txfifo' : k + 1 \in DOMAIN txfifo /\ txfifo'[k] = txfifo[k + 1]
    BY <1>1
  <2>2. QED
    BY <1>2, <2>1 DEF FramesReachTheirDevice, Spi0IInv
<1>9. TimeoutsShiftAnswers'
  BY <1>2 DEF TimeoutsShiftAnswers, Spi0IInv
<1>10. (stage # "idle" => hold /\ device = xfer.csid) /\ (stage \in {"poll", "time"} => done < Bytes(xfer))
  BY DEF Spi0IInv
<1>11. QED
  BY <1>1, <1>2, <1>4, <1>5, <1>6, <1>7, <1>8, <1>9, <1>10 DEF Spi0IInv

\* A call begins.
LEMMA TransferKeepsIInv ==
    ASSUME Spi0IInv, Transfer
    PROVE  Spi0IInv'
<1>1. /\ rxfifo \in Seq(BOOLEAN) /\ txfifo \in Seq(Frame) /\ stage = "idle" /\ lag \in Nat
      /\ Len(rxfifo) + Len(txfifo) = lag
  BY DEF Spi0IInv, Spi0TypeOK, Transfer, Waiting
<1>2. /\ rxfifo' = [k \in DOMAIN rxfifo |-> FALSE]
      /\ txfifo' = [k \in DOMAIN txfifo |-> [txfifo[k] EXCEPT !.mine = FALSE]]
      /\ done' = 0 /\ stale' = 0 /\ lag' = lag /\ xfer' \in Configs
  BY DEF Transfer, Disown
<1>3. /\ rxfifo' \in Seq(BOOLEAN) /\ txfifo' \in Seq(Frame)
      /\ Len(rxfifo') + Len(txfifo') = lag /\ Answers(rxfifo', txfifo', 0, 0, lag, 0)
  BY <1>1, <1>2, DisowningStartsAgain
<1>4. \/ stage' = "idle" /\ xfer'.protocol = "other"
      \/ stage' = "send" /\ hold' = TRUE /\ device' = xfer'.csid
  BY <1>1 DEF Transfer
<1>5. Spi0TypeOK'
  BY <1>1, <1>2, <1>3, <1>4 DEF Spi0TypeOK
<1>6. FramesReachTheirDevice'
  <2>1. lag = 0 => Len(txfifo') = 0
    <3>1. Len(rxfifo') \in Nat /\ Len(txfifo') \in Nat
      BY <1>3
    <3>2. \A a, b \in Nat : a + b = 0 => b = 0
      OBVIOUS
    <3>3. QED
      BY <1>3, <3>1, <3>2
  <2>2. lag = 0 => DOMAIN txfifo' = {}
    BY <1>3, <2>1
  <2>3. QED
    BY <1>2, <2>2 DEF FramesReachTheirDevice
<1>7. TimeoutsShiftAnswers'
  BY <1>4 DEF TimeoutsShiftAnswers
<1>8. Waiting' = 0 /\ lag + 0 = lag
  BY <1>1, <1>4 DEF Waiting
<1>9. QED
  BY <1>2, <1>3, <1>4, <1>5, <1>6, <1>7, <1>8 DEF Spi0IInv

\* A byte is sent.
LEMMA SendKeepsIInv ==
    ASSUME Spi0IInv, Send
    PROVE  Spi0IInv'
<1> DEFINE f == [mine |-> TRUE, wires |-> WiresFor(xfer, done), to |-> xfer.csid]
<1>1. /\ Spi0TypeOK /\ stage = "send" /\ Len(rxfifo) + Len(txfifo) = lag
      /\ hold /\ device = xfer.csid /\ Answers(rxfifo, txfifo, 0, done, lag, stale)
  BY DEF Spi0IInv, Send, Waiting, Spi0TypeOK
<1>2. /\ rxfifo \in Seq(BOOLEAN) /\ txfifo \in Seq(Frame) /\ lag \in Nat /\ done \in Nat /\ stale \in Nat
      /\ xfer \in Configs
  BY <1>1 DEF Spi0TypeOK
<1>3. /\ txfifo' = Append(txfifo, f) /\ wires' = WiresFor(xfer, done) /\ stage' = "poll"
      /\ done < Bytes(xfer) /\ UNCHANGED <<hold, device, rxfifo, xfer, done, stale, lag>>
  BY DEF Send, SwitchTo
<1>4. f \in Frame /\ f.mine = TRUE
  BY <1>2, ConfigFacts DEF Frame
<1>5. txfifo' \in Seq(Frame) /\ Answers(rxfifo, txfifo', 1, done, lag, stale)
  BY <1>1, <1>2, <1>3, <1>4, SendingAwaitsAnswer
<1>6. Spi0TypeOK'
  BY <1>1, <1>3, <1>5 DEF Spi0TypeOK
<1>7. Waiting' = 1
  BY <1>3 DEF Waiting
<1>8. FramesReachTheirDevice'
  <2>1. lag = 0 => Len(txfifo) = 0
    BY <1>1, <1>2
  <2>2. lag = 0 => \A k \in DOMAIN txfifo' : txfifo'[k] = f
    BY <1>2, <1>3, <1>4, <2>1
  <2>3. QED
    BY <1>1, <1>3, <2>2 DEF FramesReachTheirDevice
<1>9. TimeoutsShiftAnswers'
  BY <1>3 DEF TimeoutsShiftAnswers
<1>10. Len(rxfifo') + Len(txfifo') = lag + 1
  BY <1>3, <1>5 DEF Answers
<1>11. QED
  BY <1>1, <1>3, <1>5, <1>6, <1>7, <1>8, <1>9, <1>10 DEF Spi0IInv

\* An answer is read.
LEMMA PollKeepsIInv ==
    ASSUME Spi0IInv, Poll
    PROVE  Spi0IInv'
<1>1. /\ Spi0TypeOK /\ stage = "poll" /\ rxfifo # <<>>
      /\ hold /\ device = xfer.csid /\ Answers(rxfifo, txfifo, 1, done, lag, stale)
      /\ FramesReachTheirDevice
  BY DEF Spi0IInv, Poll, Answered, Waiting
<1>2. /\ rxfifo \in Seq(BOOLEAN) /\ txfifo \in Seq(Frame) /\ lag \in Nat /\ done \in Nat /\ stale \in Nat
  BY <1>1 DEF Spi0TypeOK
<1>3. /\ rxfifo' = Tail(rxfifo) /\ done' = done + 1 /\ stage' = "send"
      /\ UNCHANGED <<wires, hold, device, txfifo, xfer, lag>>
  BY <1>1 DEF Poll
<1>4. stale' = IF Head(rxfifo) THEN stale ELSE stale + 1
  BY <1>1 DEF Poll
<1>5. rxfifo' \in Seq(BOOLEAN) /\ Answers(rxfifo', txfifo, 0, done', lag, stale')
  BY <1>1, <1>2, <1>3, <1>4, ReadingTakesFirst
<1>6. Spi0TypeOK'
  <2>1. done' \in Nat /\ stale' \in Nat
    <3>1. done + 1 \in Nat /\ stale + 1 \in Nat
      BY <1>2
    <3>2. stale' \in {stale, stale + 1}
      BY <1>4
    <3>3. QED
      BY <1>2, <1>3, <3>1, <3>2
  <2>2. QED
    BY <1>1, <1>3, <1>5, <2>1 DEF Spi0TypeOK
<1>7. Waiting' = 0
  BY <1>3 DEF Waiting
<1>8. FramesReachTheirDevice' /\ TimeoutsShiftAnswers'
  BY <1>1, <1>3 DEF FramesReachTheirDevice, TimeoutsShiftAnswers
<1>9. Len(rxfifo') + Len(txfifo') = lag + 0
  BY <1>3, <1>5 DEF Answers
<1>10. QED
  BY <1>1, <1>3, <1>5, <1>6, <1>7, <1>8, <1>9 DEF Spi0IInv

\* What moves neither a frame nor an answer.
LEMMA RestKeepsIInv ==
    ASSUME Spi0IInv, SpiSecond \/ Empty \/ LookAtTime \/ TransferDone \/ UNCHANGED spi0Vars
    PROVE  Spi0IInv'
<1>1. Spi0TypeOK /\ Len(rxfifo) + Len(txfifo) = lag + Waiting /\ lag \in Nat /\ xfer \in Configs /\ done \in Nat
  BY DEF Spi0IInv, Spi0TypeOK
<1>2. UNCHANGED <<rxfifo, txfifo, wires, device, xfer, done, stale>>
  BY DEF SpiSecond, Empty, LookAtTime, TransferDone, spi0Vars, unitVars, xferVars
<1>3. CASE SpiSecond \/ Empty \/ (LookAtTime /\ ~tooLate) \/ UNCHANGED spi0Vars
  <2>1. UNCHANGED <<hold, lag>> /\ Waiting' = Waiting /\ (stage = "idle" <=> stage' = "idle")
        /\ (stage' \in {"poll", "time"} <=> stage \in {"poll", "time"})
        /\ stage' \in {"idle", "send", "poll", "time"}
    BY <1>1, <1>3 DEF SpiSecond, Empty, LookAtTime, spi0Vars, unitVars, xferVars, Waiting, Spi0TypeOK
  <2>2. QED
    BY <1>2, <2>1 DEF Spi0IInv, Spi0TypeOK, FramesReachTheirDevice, TimeoutsShiftAnswers
<1>4. CASE LookAtTime /\ tooLate
  <2>1. stage = "time" /\ stage' = "idle" /\ lag' = lag + 1 /\ Waiting = 1 /\ Waiting' = 0 /\ lag' \in Nat
    BY <1>1, <1>4 DEF LookAtTime, Waiting
  <2>2. Spi0TypeOK'
    BY <1>1, <1>2, <2>1 DEF Spi0TypeOK
  <2>3. Len(rxfifo') + Len(txfifo') = lag' + 0
    <3>1. lag' + 0 = lag'
      <4>1. \A n \in Nat : n + 0 = n
        OBVIOUS
      <4>2. QED
        BY <2>1, <4>1
    <3>2. QED
      BY <1>1, <1>2, <2>1, <3>1
  <2>4. FramesReachTheirDevice'
    <3>1. lag' # 0
      BY <1>1, <2>1
    <3>2. QED
      BY <3>1 DEF FramesReachTheirDevice
  <2>5. TimeoutsShiftAnswers'
    <3>1. done < Bytes(xfer) /\ Bytes(xfer) \in Nat
      BY <1>1, <2>1, ConfigFacts DEF Spi0IInv
    <3>2. Bytes(xfer') = Bytes(xfer)
      BY <1>2
    <3>3. done' # Bytes(xfer')
      BY <1>1, <1>2, <3>1, <3>2
    <3>4. QED
      BY <3>3 DEF TimeoutsShiftAnswers
  <2>6. QED
    BY <2>1, <2>2, <2>3, <2>4, <2>5 DEF Spi0IInv
<1>5. CASE TransferDone
  <2>1. stage = "send" /\ stage' = "idle" /\ lag' = lag /\ Waiting = 0 /\ Waiting' = 0
    BY <1>5 DEF TransferDone, Waiting
  <2>2. Answers(rxfifo, txfifo, 0, done, lag, stale)
    BY <2>1 DEF Spi0IInv
  <2>3. TimeoutsShiftAnswers'
    BY <1>2, <2>1, <2>2 DEF Answers, TimeoutsShiftAnswers
  <2>4. FramesReachTheirDevice'
    <3>1. Len(rxfifo) \in Nat /\ Len(txfifo) \in Nat /\ txfifo \in Seq(Frame)
      BY <1>1 DEF Spi0TypeOK
    <3>2. lag = 0 => DOMAIN txfifo = {}
      BY <1>1, <2>1, <3>1
    <3>3. QED
      BY <1>2, <2>1, <3>2 DEF FramesReachTheirDevice
  <2>5. Spi0TypeOK'
    BY <1>1, <1>2, <2>1 DEF Spi0TypeOK
  <2>6. QED
    BY <1>1, <1>2, <2>1, <2>3, <2>4, <2>5 DEF Spi0IInv
<1>6. QED
  BY <1>3, <1>4, <1>5

-----------------------------------------------------------------------------
(* sifive_spi0.c:198-205, 316-324: for transfers of any length and any       *)
(* number of timeouts, a frame reaches the device of its call until one      *)
(* times out, and every transfer after it takes as many answers for its own  *)
(* that are not as transfers have timed out.                                 *)
THEOREM TransfersKeepAccount == Spi0Spec => []FramesAndAnswers
<1>1. Spi0IInv /\ [Spi0Next]_spi0Vars => Spi0IInv'
  BY ShiftKeepsIInv, TransferKeepsIInv, SendKeepsIInv, PollKeepsIInv, RestKeepsIInv
     DEF Spi0Next, Spi0Program
<1>2. Spi0IInv => FramesAndAnswers
  BY DEF Spi0IInv, FramesAndAnswers
<1>3. QED
  BY Spi0Starts, <1>1, <1>2, PTL DEF Spi0Spec

-----------------------------------------------------------------------------
(* The PLIC and the calls of its driver (riscv_plic0.c)                      *)

PlicOps == {"none", "isr", "data", "on", "off"}

PlicTypes ==
     /\ exint \in [Sources -> [handler : Handlers, own : BOOLEAN, priority : 0 .. 2]]
     /\ pcall \in [op : PlicOps, id : Sources \cup {0}, isr : Handlers, word : SUBSET Sources, overtaken : BOOLEAN]
     /\ pcall.op # "none" => pcall.id \in Sources
     /\ pcall.op = "isr" => pcall.isr \in {"user", "default"}
     /\ enables \subseteq Sources /\ pending \subseteq Sources
     /\ isr \in [at : {"none", "claim", "serve", "complete"}, id : Sources \cup {0}, by : {"none", "direct"}]
     /\ isr.at # "none" => isr.by = "direct"
     /\ isr.at \in {"serve", "complete"} => isr.id \in Sources

\* The initialiser of the hart's controller clears its table once.
EntryStays == "plic" \in cpuInitDone => ext_entry = "plic" /\ "cpu" \in cpuInitDone

\* A handler has its own data, or the call that gave it is about to store them.
DataAreOwn == \A s \in Sources : exint[s].handler = "user" =>
                exint[s].own \/ (pcall.op = "data" /\ pcall.id = s)

\* The word that a call has read is still there, unless a handler wrote it.
WordIsCurrent == pcall.op \in {"on", "off"} => pcall.overtaken \/ pcall.word = enables

IntAccount == PlicTypes /\ EntryStays /\ DataAreOwn /\ WordIsCurrent

LEMMA IntStart == IntInit => IntAccount
<1>1. SUFFICES ASSUME IntInit PROVE IntAccount
  OBVIOUS
<1>2. PlicTypes
  BY <1>1 DEF IntInit, PlicTypes, NoSource, NoCall, NoIsr, Handlers, PlicOps
<1>3. QED
  BY <1>1, <1>2 DEF IntInit, IntAccount, EntryStays, DataAreOwn, WordIsCurrent, NoSource, NoCall

LEMMA NoCallIs ==
    /\ NoCall \in [op : PlicOps, id : Sources \cup {0}, isr : Handlers, word : SUBSET Sources, overtaken : BOOLEAN]
    /\ NoCall.op = "none"
    /\ NoSource \in [handler : Handlers, own : BOOLEAN, priority : 0 .. 2] /\ NoSource.handler = "NULL"
    /\ NoIsr \in [at : {"none", "claim", "serve", "complete"}, id : Sources \cup {0}, by : {"none", "direct"}]
    /\ NoIsr.at = "none"
  BY DEF NoCall, NoSource, NoIsr, PlicOps, Handlers

\* The initialisers.
LEMMA InitialisersKeep ==
    ASSUME IntAccount, cpu_interrupt_init \/ plic0_init
    PROVE  IntAccount' /\ pcall.op = "none" /\ isr' = isr
<1>0. PlicTypes /\ EntryStays /\ DataAreOwn /\ WordIsCurrent
  BY DEF IntAccount
<1>1. pcall.op = "none" /\ isr' = isr /\ pcall' = pcall /\ pending' = pending
  BY DEF cpu_interrupt_init, plic0_init, Between, trapping, gateways
<1>2. CASE cpu_interrupt_init
  <2>1. exint' = exint /\ enables' = enables
    BY <1>2 DEF cpu_interrupt_init, sources
  <2>2. EntryStays'
    BY <1>0, <1>2 DEF cpu_interrupt_init, EntryStays, CpuFresh
  <2>3. QED
    BY <1>0, <1>1, <2>1, <2>2 DEF IntAccount, PlicTypes, DataAreOwn, WordIsCurrent
<1>3. CASE plic0_init
  <2>1. exint' = [s \in Sources |-> NoSource] /\ enables' = {} /\ EntryStays'
    BY <1>3 DEF plic0_init, EntryStays
  <2>2. PlicTypes'
    BY <1>0, <1>1, <2>1, NoCallIs DEF PlicTypes
  <2>3. DataAreOwn' /\ WordIsCurrent'
    BY <1>1, <2>1, NoCallIs DEF DataAreOwn, WordIsCurrent
  <2>4. QED
    BY <1>1, <2>1, <2>2, <2>3 DEF IntAccount
<1>4. QED
  BY <1>1, <1>2, <1>3

\* A call to register a handler, and its two stores.
LEMMA RegistrationKeeps ==
    ASSUME IntAccount, plic0_register \/ StoreIsr \/ StoreData
    PROVE  IntAccount' /\ pcall.op \in {"none", "isr", "data"} /\ isr' = isr
<1>0. PlicTypes /\ EntryStays /\ DataAreOwn /\ WordIsCurrent
  BY DEF IntAccount
<1>1. /\ UNCHANGED <<cpuInitDone, ext_entry, enables, pending, isr>> /\ EntryStays'
  BY <1>0 DEF plic0_register, StoreIsr, StoreData, entries, gateways, trapping, EntryStays
<1>2. CASE plic0_register
  <2>1. PICK s \in Sources, h \in {"user", "default"} :
          /\ pcall.op = "none"
          /\ exint' = [exint EXCEPT ![s].priority = IF h = "default" THEN 1 ELSE 2]
          /\ pcall' = [NoCall EXCEPT !.op = "isr", !.id = s, !.isr = h]
    BY <1>2 DEF plic0_register, Between
  <2>2. /\ exint' \in [Sources -> [handler : Handlers, own : BOOLEAN, priority : 0 .. 2]]
        /\ \A t \in Sources : exint'[t].handler = exint[t].handler /\ exint'[t].own = exint[t].own
    BY <1>0, <2>1 DEF PlicTypes
  <2>3. /\ pcall' \in [op : PlicOps, id : Sources \cup {0}, isr : Handlers, word : SUBSET Sources, overtaken : BOOLEAN]
        /\ pcall'.op = "isr" /\ pcall'.id = s /\ pcall'.isr = h
    BY <2>1 DEF NoCall, PlicOps, Handlers
  <2>4. PlicTypes'
    BY <1>0, <1>1, <2>2, <2>3 DEF PlicTypes
  <2>5. DataAreOwn' /\ WordIsCurrent'
    BY <1>0, <2>1, <2>2, <2>3 DEF DataAreOwn, WordIsCurrent
  <2>6. QED
    BY <1>1, <2>1, <2>4, <2>5 DEF IntAccount
<1>3. CASE StoreIsr
  <2>1. /\ pcall.op = "isr" /\ pcall.id \in Sources /\ pcall.isr \in {"user", "default"}
        /\ exint' = [exint EXCEPT ![pcall.id].handler = pcall.isr, ![pcall.id].own = FALSE]
        /\ pcall' = IF pcall.isr = "default" THEN NoCall ELSE [pcall EXCEPT !.op = "data"]
    BY <1>0, <1>3 DEF StoreIsr, PlicTypes
  <2>2. /\ exint' \in [Sources -> [handler : Handlers, own : BOOLEAN, priority : 0 .. 2]]
        /\ exint'[pcall.id].handler = pcall.isr
        /\ \A t \in Sources \ {pcall.id} : exint'[t] = exint[t]
    BY <1>0, <2>1 DEF PlicTypes, Handlers
  <2>3. /\ pcall' \in [op : PlicOps, id : Sources \cup {0}, isr : Handlers, word : SUBSET Sources, overtaken : BOOLEAN]
        /\ pcall'.op \in {"none", "data"} /\ (pcall.isr # "default" => pcall'.op = "data" /\ pcall'.id = pcall.id)
    BY <1>0, <2>1, NoCallIs DEF PlicTypes, PlicOps
  <2>4. pcall'.op # "none" => pcall'.id \in Sources
    BY <2>1, <2>3, NoCallIs
  <2>5. PlicTypes'
    BY <1>0, <1>1, <2>2, <2>3, <2>4 DEF PlicTypes
  <2>6. DataAreOwn' /\ WordIsCurrent'
    BY <1>0, <2>1, <2>2, <2>3 DEF DataAreOwn, WordIsCurrent
  <2>7. QED
    BY <1>1, <2>1, <2>5, <2>6 DEF IntAccount
<1>4. CASE StoreData
  <2>1. /\ pcall.op = "data" /\ pcall.id \in Sources /\ pcall' = NoCall
        /\ exint' = [exint EXCEPT ![pcall.id].own = TRUE]
    BY <1>0, <1>4 DEF StoreData, PlicTypes, DataStored
  <2>2. /\ exint' \in [Sources -> [handler : Handlers, own : BOOLEAN, priority : 0 .. 2]]
        /\ exint'[pcall.id].own
        /\ \A t \in Sources \ {pcall.id} : exint'[t] = exint[t]
    BY <1>0, <2>1 DEF PlicTypes
  <2>3. PlicTypes'
    BY <1>0, <1>1, <2>1, <2>2, NoCallIs DEF PlicTypes
  <2>4. DataAreOwn' /\ WordIsCurrent'
    BY <1>0, <2>1, <2>2, NoCallIs DEF DataAreOwn, WordIsCurrent
  <2>5. QED
    BY <1>1, <2>1, <2>3, <2>4 DEF IntAccount
<1>5. QED
  BY <1>2, <1>3, <1>4

\* Masks, thresholds, priorities, the vector mode, and sources that ask.
LEMMA SettingsKeep ==
    ASSUME IntAccount, local_interrupt_enable \/ set_vector_mode \/ set_threshold \/ set_priority \/ Raise
    PROVE  IntAccount' /\ pcall' = pcall /\ isr' = isr
<1>0. PlicTypes /\ EntryStays /\ DataAreOwn /\ WordIsCurrent
  BY DEF IntAccount
<1>1. UNCHANGED <<cpuInitDone, ext_entry, enables, pcall, isr>> /\ EntryStays'
  BY <1>0 DEF local_interrupt_enable, set_vector_mode, set_threshold, set_priority, Raise,
              entries, sources, trapping, EntryStays
<1>2. pending' \subseteq Sources
  <2>1. CASE Raise
    BY <1>0, <2>1 DEF Raise, PlicTypes
  <2>2. CASE ~Raise
    BY <1>0, <2>2 DEF local_interrupt_enable, set_vector_mode, set_threshold, set_priority, gateways, PlicTypes
  <2>3. QED
    BY <2>1, <2>2
<1>3. /\ exint' \in [Sources -> [handler : Handlers, own : BOOLEAN, priority : 0 .. 2]]
      /\ \A t \in Sources : exint'[t].handler = exint[t].handler /\ exint'[t].own = exint[t].own
  <2>1. CASE set_priority
    BY <1>0, <2>1 DEF set_priority, PlicTypes
  <2>2. CASE ~set_priority
    BY <1>0, <2>2 DEF local_interrupt_enable, set_vector_mode, set_threshold, Raise, sources, PlicTypes
  <2>3. QED
    BY <2>1, <2>2
<1>4. QED
  BY <1>0, <1>1, <1>2, <1>3 DEF IntAccount, PlicTypes, DataAreOwn, WordIsCurrent

\* The two halves of a call that enables or disables a source.
LEMMA EnableKeeps ==
    ASSUME IntAccount, ReadWord \/ WriteWord
    PROVE  IntAccount' /\ isr' = isr /\ WordLossNeedsPreemption
<1>0. PlicTypes /\ EntryStays /\ DataAreOwn /\ WordIsCurrent
  BY DEF IntAccount
<1>1. UNCHANGED <<cpuInitDone, ext_entry, exint, pending, isr>> /\ EntryStays'
  BY <1>0 DEF ReadWord, WriteWord, entries, sources, gateways, trapping, EntryStays
<1>2. CASE ReadWord
  <2>1. PICK s \in Sources, op \in {"on", "off"} :
            /\ pcall' = [NoCall EXCEPT !.op = op, !.id = s, !.word = enables] /\ pcall.op = "none" /\ enables' = enables
    BY <1>2 DEF ReadWord, Between, sources
  <2>2. /\ pcall' \in [op : PlicOps, id : Sources \cup {0}, isr : Handlers, word : SUBSET Sources, overtaken : BOOLEAN]
        /\ pcall'.op = op /\ pcall'.id = s /\ pcall'.word = enables
    BY <1>0, <2>1 DEF NoCall, PlicOps, Handlers, PlicTypes
  <2>3. PlicTypes' /\ DataAreOwn' /\ WordIsCurrent'
    BY <1>0, <1>1, <2>1, <2>2 DEF PlicTypes, DataAreOwn, WordIsCurrent
  <2>4. QED
    BY <1>1, <2>1, <2>3 DEF IntAccount, WordLossNeedsPreemption
<1>3. CASE WriteWord
  <2>1. /\ pcall.op \in {"on", "off"} /\ pcall.id \in Sources /\ pcall.word \subseteq Sources /\ pcall' = NoCall
        /\ enables' = IF pcall.op = "on" THEN pcall.word \cup {pcall.id} ELSE pcall.word \ {pcall.id}
    BY <1>0, <1>3 DEF WriteWord, With, PlicTypes
  <2>2. PlicTypes' /\ DataAreOwn' /\ WordIsCurrent'
    BY <1>0, <1>1, <2>1, NoCallIs DEF PlicTypes, DataAreOwn, WordIsCurrent
  <2>3. WordLossNeedsPreemption
    BY <1>0, <2>1 DEF WordIsCurrent, WordLossNeedsPreemption
  <2>4. QED
    BY <1>1, <2>2, <2>3 DEF IntAccount
<1>4. QED
  BY <1>2, <1>3

\* A trap, from the hart's table to the completion.
LEMMA TrapKeeps ==
    ASSUME IntAccount, TakeTrap \/ Claim \/ Serve \/ Complete
    PROVE  IntAccount' /\ pcall'.op = pcall.op /\ ClaimsEnd
<1>0. PlicTypes /\ EntryStays /\ DataAreOwn /\ WordIsCurrent
  BY DEF IntAccount
<1>1. UNCHANGED <<cpuInitDone, ext_entry, exint>> /\ EntryStays'
  BY <1>0 DEF TakeTrap, Claim, Serve, Complete, entries, sources, EntryStays
<1>2. CASE TakeTrap
  <2>1. /\ isr.at = "none" /\ pcall' = pcall /\ enables' = enables /\ pending' = pending
        /\ isr' = NoIsr \/ (mtvec = "direct" /\ isr' = [at |-> "claim", id |-> 0, by |-> mtvec])
    BY <1>2 DEF TakeTrap, MainRuns, Dispatches, sources, gateways
  <2>2. PlicTypes'
    BY <1>0, <1>1, <2>1, NoCallIs DEF PlicTypes
  <2>3. QED
    BY <1>0, <1>1, <2>1, <2>2 DEF IntAccount, DataAreOwn, WordIsCurrent, ClaimsEnd
<1>3. CASE Claim
  <2>1. PICK best \in Deliverable :
          /\ isr.at = "claim" /\ pcall' = pcall /\ enables' = enables /\ pending' = pending \ {best}
          /\ isr' = [isr EXCEPT !.id = best, !.at = IF exint[best].handler = "NULL" THEN "complete" ELSE "serve"]
    BY <1>3 DEF Claim, sources
  <2>2. best \in Sources
    BY <1>0 DEF Deliverable, PlicTypes
  <2>3. PlicTypes'
    BY <1>0, <1>1, <2>1, <2>2 DEF PlicTypes
  <2>4. QED
    BY <1>0, <1>1, <2>1, <2>3 DEF IntAccount, DataAreOwn, WordIsCurrent, ClaimsEnd
<1>4. CASE Serve
  <2>1. isr.at = "serve" /\ pending' = pending
    BY <1>4 DEF Serve, gateways
  <2>2. /\ \/ enables' = enables /\ pcall' = pcall
           \/ enables' = enables \ {isr.id} /\ pcall' = [pcall EXCEPT !.overtaken = pcall.op \in {"on", "off"}]
        /\ isr' = NoIsr \/ isr' = [isr EXCEPT !.at = "complete"]
    BY <1>4 DEF Serve
  <2>3. /\ pcall' \in [op : PlicOps, id : Sources \cup {0}, isr : Handlers, word : SUBSET Sources, overtaken : BOOLEAN]
        /\ pcall'.op = pcall.op /\ pcall'.id = pcall.id /\ pcall'.isr = pcall.isr /\ pcall'.word = pcall.word
        /\ (enables' = enables /\ pcall' = pcall) \/ pcall'.overtaken = (pcall.op \in {"on", "off"})
    <3>1. CASE enables' = enables /\ pcall' = pcall
      BY <1>0, <3>1 DEF PlicTypes
    <3>2. CASE enables' = enables \ {isr.id} /\ pcall' = [pcall EXCEPT !.overtaken = pcall.op \in {"on", "off"}]
      <4> DEFINE b == pcall.op \in {"on", "off"}
      <4>1. b \in BOOLEAN
        OBVIOUS
      <4> HIDE DEF b
      <4>2. pcall' = [pcall EXCEPT !.overtaken = b]
        BY <3>2 DEF b
      <4>3. /\ pcall' \in [op : PlicOps, id : Sources \cup {0}, isr : Handlers, word : SUBSET Sources, overtaken : BOOLEAN]
            /\ pcall'.op = pcall.op /\ pcall'.id = pcall.id /\ pcall'.isr = pcall.isr /\ pcall'.word = pcall.word
            /\ pcall'.overtaken = b
        BY <1>0, <4>1, <4>2 DEF PlicTypes
      <4>4. QED
        BY <4>3, Zenon DEF b
    <3>3. QED
      BY <2>2, <3>1, <3>2, Zenon
  <2>4. isr' \in [at : {"none", "claim", "serve", "complete"}, id : Sources \cup {0}, by : {"none", "direct"}]
        /\ (isr'.at # "none" => isr'.by = "direct") /\ (isr'.at \in {"serve", "complete"} => isr'.id \in Sources)
    BY <1>0, <2>1, <2>2, NoCallIs DEF PlicTypes
  <2>5. PlicTypes'
    BY <1>0, <1>1, <2>1, <2>2, <2>3, <2>4 DEF PlicTypes
  <2>6. DataAreOwn' /\ WordIsCurrent'
    BY <1>0, <1>1, <2>3 DEF DataAreOwn, WordIsCurrent
  <2>7. QED
    BY <1>1, <2>1, <2>3, <2>5, <2>6 DEF IntAccount, ClaimsEnd
<1>5. CASE Complete
  <2>1. /\ isr' = NoIsr /\ pcall' = pcall /\ enables' = enables /\ pending' = pending
        /\ isr.id \in enables => claimed' = claimed \ {isr.id}
    BY <1>5 DEF Complete, Completed, sources
  <2>2. PlicTypes'
    BY <1>0, <1>1, <2>1, NoCallIs DEF PlicTypes
  <2>3. QED
    BY <1>0, <1>1, <2>1, <2>2 DEF IntAccount, DataAreOwn, WordIsCurrent, ClaimsEnd
<1>6. QED
  BY <1>2, <1>3, <1>4, <1>5

LEMMA EveryIntStep ==
    IntAccount /\ [IntNext]_intVars => IntAccount' /\ [WordLossNeedsPreemption /\ ClaimsEnd]_intVars
<1>1. SUFFICES ASSUME IntAccount, [IntNext]_intVars
               PROVE  IntAccount' /\ [WordLossNeedsPreemption /\ ClaimsEnd]_intVars
  OBVIOUS
<1>2. CASE UNCHANGED intVars
  BY <1>1, <1>2 DEF intVars, IntAccount, PlicTypes, EntryStays, DataAreOwn, WordIsCurrent
<1>3. isr' = isr => ClaimsEnd
  BY DEF ClaimsEnd
<1>4. pcall.op \notin {"on", "off"} \/ pcall'.op = pcall.op => WordLossNeedsPreemption
  BY DEF WordLossNeedsPreemption
<1>5. CASE cpu_interrupt_init \/ plic0_init
  BY <1>1, <1>3, <1>4, <1>5, InitialisersKeep
<1>6. CASE plic0_register \/ StoreIsr \/ StoreData
  BY <1>1, <1>3, <1>4, <1>6, RegistrationKeeps
<1>7. CASE local_interrupt_enable \/ set_vector_mode \/ set_threshold \/ set_priority \/ Raise
  BY <1>1, <1>3, <1>4, <1>7, SettingsKeep
<1>8. CASE ReadWord \/ WriteWord
  BY <1>1, <1>3, <1>8, EnableKeeps
<1>9. CASE TakeTrap \/ Claim \/ Serve \/ Complete
  BY <1>1, <1>4, <1>9, TrapKeeps
<1>10. QED
  BY <1>1, <1>2, <1>5, <1>6, <1>7, <1>8, <1>9 DEF IntNext

(* riscv_plic0.c:91-177, riscv_cpu.c:457: whatever the sources, priorities   *)
(* and thresholds are, the PLIC's handler survives every order of            *)
(* initialisation, a handler is given its own data unless the interrupt      *)
(* falls between the two stores of the call that registers it, vectored      *)
(* interrupts reach no handler, a call about one source leaves the others    *)
(* alone unless it was overtaken, and a claimed source can interrupt again.  *)
THEOREM SourcesAreServedInOrder == IntSpec => SourcesAreServed
<1>1. IntAccount => HandlerSurvivesInit /\ ForeignDataNeedsRace /\ VectoredIsDeaf
  <2>1. SUFFICES ASSUME IntAccount PROVE HandlerSurvivesInit /\ ForeignDataNeedsRace /\ VectoredIsDeaf
    OBVIOUS
  <2>2. PlicTypes /\ EntryStays /\ DataAreOwn
    BY <2>1 DEF IntAccount
  <2>3. QED
    BY <2>2 DEF PlicTypes, EntryStays, DataAreOwn, HandlerSurvivesInit, ForeignDataNeedsRace, VectoredIsDeaf
<1>2. QED
  BY <1>1, IntStart, EveryIntStep, PTL DEF IntSpec, SourcesAreServed

-----------------------------------------------------------------------------
(* Calls on controllers (interrupt.h, cpu.h)                                *)

CsrTypes == [mode : {"early", "direct", "vector"}, lines : SUBSET Nat, global : BOOLEAN]

CallTypes ==
    /\ sub_int \in [{3, 7} -> {"NULL", "clint", "data"}]
    /\ csrs \in CsrTypes
    /\ plic0 \in [priority : [CallSources -> Nat], threshold : Nat, enables : SUBSET Nat]
    /\ clint0 \in [msip : BOOLEAN, mtimecmp : Nat]

\* The calls that initialise a controller.
CallsThatInitialise == init_cpu \/ init_clint \/ init_plic
\* Those that write a register of the hart or of the PLIC, and those on the CLINT.
AboutLines   == register_line \/ set_vector_mode_of \/ enable_line
AboutSources == register_source \/ enable_source \/ set_threshold_of \/ set_priority_of \/ affinity_enable \/ affinity_set_threshold
AboutClint   == \/ clint_clear \/ clint_set \/ command_request
                \/ cpu_mtime_get \/ cpu_mtimecmp_set \/ cpu_set_sw_ipi \/ cpu_clear_sw_ipi \/ cpu_get_msip
\* Those that write nothing.
CallsThatTell     == \/ HasAnswer \/ privilege \/ vector_enable \/ absent_slot \/ preemptive_level
                     \/ vector_register \/ get_vector_mode_of \/ get_threshold \/ get_priority \/ affinity_get_threshold

LEMMA CallKinds == CallNext <=> CallsThatInitialise \/ AboutLines \/ AboutSources \/ AboutClint \/ CallsThatTell
  BY DEF CallNext, CallsThatInitialise, AboutLines, AboutSources, AboutClint, CallsThatTell

LEMMA CallLinesAre == CallLines \subseteq Nat /\ CallSources \subseteq Nat /\ CallLevels \subseteq Nat /\ CallTimes \subseteq Nat
<1>1. 1 .. 52 \subseteq Nat /\ 16 .. 31 \subseteq Nat /\ {3, 7, 11} \subseteq Nat
  OBVIOUS
<1>2. QED
  BY <1>1, CallAssumption DEF CallAssumption

LEMMA NoContexts == \A bitmask : 0 \notin Contexts(bitmask)
  BY DEF Contexts

LEMMA NothingIsWritten == CallsThatTell => UNCHANGED <<Links, Registers0>>
  BY DEF CallsThatTell, HasAnswer, privilege, vector_enable, absent_slot, AbsentCall, preemptive_level, vector_register,
         get_vector_mode_of, get_threshold, get_priority, affinity_get_threshold

LEMMA LinesWrite ==
    ASSUME CallTypes, AboutLines
    PROVE  /\ UNCHANGED <<initDone, plic0, clint0, callEnded>> /\ CallTypes'
           /\ sub_int' # sub_int => register_line
           /\ csrs'.mode # csrs.mode => set_vector_mode_of
           /\ csrs'.lines # csrs.lines => enable_line
           /\ csrs'.global # csrs.global => enable_line /\ csrs'.lines = csrs.lines
           /\ says' = -1 => UNCHANGED <<Links, Registers0>>
<1>1. CASE register_line
  <2>1. PICK l \in {Base, 3, 7, Beu} \cup CallLines :
            /\ \E accepted \in {Registrable(c, l) : c \in LineControllers} : CallLine("register", IF accepted THEN 0 ELSE -1)
            /\ IF l \in {3, 7}
               THEN \E priv \in {sub_int[l], "NULL", "clint", "data"} : sub_int' = [sub_int EXCEPT ![l] = priv]
               ELSE UNCHANGED sub_int
            /\ UNCHANGED <<initDone, Registers0>>
    BY <1>1 DEF register_line
  <2>2. l \in {3, 7} => \A c \in LineControllers : Registrable(c, l)
    BY DEF Registrable, ValidLine
  <2>3. l \in {3, 7} => says' = 0
    BY <2>1, <2>2 DEF CallLine, Call
  <2>4. UNCHANGED <<initDone, csrs, plic0, clint0, callEnded>>
    BY <2>1 DEF Registers0, CallLine, Call
  <2>5. sub_int' \in [{3, 7} -> {"NULL", "clint", "data"}]
    BY <2>1 DEF CallTypes
  <2>6. says' = -1 => UNCHANGED sub_int
    BY <2>1, <2>3
  <2>7. QED
    BY <1>1, <2>4, <2>5, <2>6 DEF CallTypes, Links, Registers0
<1>2. CASE set_vector_mode_of
  <2>1. PICK mode \in {0, 1, 4} :
            /\ CallLine("set_vector_mode", IF mode \in {0, 1} THEN 0 ELSE -1)
            /\ csrs' = CASE mode = 0 -> [csrs EXCEPT !.mode = "direct"] [] mode = 1 -> [csrs EXCEPT !.mode = "vector"]
                         [] OTHER -> csrs
            /\ UNCHANGED <<Links, plic0, clint0>>
    BY <1>2 DEF set_vector_mode_of
  <2>2. UNCHANGED <<initDone, sub_int, plic0, clint0, callEnded>>
    BY <2>1 DEF Links, CallLine, Call
  <2>3. csrs'.lines = csrs.lines /\ csrs'.global = csrs.global /\ csrs' \in CsrTypes
    BY <2>1 DEF CallTypes, CsrTypes
  <2>4. says' = -1 => csrs' = csrs
    BY <2>1 DEF CallLine, Call
  <2>5. QED
    BY <1>2, <2>2, <2>3, <2>4 DEF CallTypes, Links, Registers0
<1>3. CASE enable_line
  <2>1. PICK c \in LineControllers, l \in {Base, Beu} \cup CallLines, slot \in {"enable", "disable"} :
            /\ Call(slot, c, IF Maskable(c, l) THEN 0 ELSE -1)
            /\ csrs' = IF Maskable(c, l) THEN AfterMask(slot, l) ELSE csrs
            /\ UNCHANGED <<Links, plic0, clint0>>
    BY <1>3 DEF enable_line
  <2>2. UNCHANGED <<initDone, sub_int, plic0, clint0, callEnded>>
    BY <2>1 DEF Links, Call
  <2>3. l \in Nat /\ csrs \in CsrTypes
    BY CallLinesAre DEF Base, Beu, CallTypes
  <2>4. /\ AfterMask(slot, l) \in CsrTypes /\ AfterMask(slot, l).mode = csrs.mode
        /\ AfterMask(slot, l).global = csrs.global \/ AfterMask(slot, l).lines = csrs.lines
    <3>1. CASE l = Base
      <4> DEFINE g == (slot = "enable")
      <4>1. g \in BOOLEAN /\ AfterMask(slot, l) = [csrs EXCEPT !.global = g]
        BY <3>1 DEF AfterMask
      <4> HIDE DEF g
      <4>2. QED
        BY <2>3, <4>1 DEF CsrTypes
    <3>2. CASE l # Base
      <4> DEFINE s == IF slot = "enable" THEN csrs.lines \cup {l} ELSE csrs.lines \ {l}
      <4>1. AfterMask(slot, l) = [csrs EXCEPT !.lines = s]
        BY <3>2 DEF AfterMask
      <4>2. s \in SUBSET Nat
        BY <2>3 DEF CsrTypes
      <4> HIDE DEF s
      <4>3. QED
        BY <2>3, <4>1, <4>2 DEF CsrTypes
    <3>3. QED
      BY <3>1, <3>2
  <2>5. /\ csrs' \in CsrTypes /\ csrs'.mode = csrs.mode
        /\ csrs'.global = csrs.global \/ csrs'.lines = csrs.lines
    BY <2>1, <2>3, <2>4
  <2>6. says' = -1 => csrs' = csrs
    BY <2>1 DEF Call
  <2>7. QED
    BY <1>3, <2>2, <2>5, <2>6 DEF CallTypes, Links, Registers0
<1>4. QED
  BY <1>1, <1>2, <1>3 DEF AboutLines

LEMMA SourcesWrite ==
    ASSUME CallTypes, AboutSources
    PROVE  /\ UNCHANGED <<initDone, sub_int, csrs, clint0, callEnded>> /\ CallTypes'
           /\ plic0'.priority # plic0.priority => set_priority_of \/ register_source
           /\ plic0'.threshold # plic0.threshold => set_threshold_of
           /\ plic0'.enables # plic0.enables => enable_source
           /\ says' = -1 => UNCHANGED <<Links, Registers0>>
<1>p. plic0 \in [priority : [CallSources -> Nat], threshold : Nat, enables : SUBSET Nat]
  BY DEF CallTypes
<1>0. ASSUME UNCHANGED <<Links, csrs, clint0, callEnded>>,
             plic0' \in [priority : [CallSources -> Nat], threshold : Nat, enables : SUBSET Nat],
             plic0'.priority # plic0.priority => set_priority_of \/ register_source,
             plic0'.threshold # plic0.threshold => set_threshold_of,
             plic0'.enables # plic0.enables => enable_source,
             says' = -1 => plic0' = plic0
      PROVE  /\ UNCHANGED <<initDone, sub_int, csrs, clint0, callEnded>> /\ CallTypes'
             /\ plic0'.priority # plic0.priority => set_priority_of \/ register_source
             /\ plic0'.threshold # plic0.threshold => set_threshold_of
             /\ plic0'.enables # plic0.enables => enable_source
             /\ says' = -1 => UNCHANGED <<Links, Registers0>>
  <2>1. UNCHANGED <<initDone, sub_int>>
    BY <1>0 DEF Links
  <2>2. QED
    BY <1>0, <2>1 DEF CallTypes, Links, Registers0
<1>1. CASE register_source
  <2>1. PICK s \in CallSources \cup {53}, byDefault \in BOOLEAN :
            /\ Call("register", "plic", IF ValidSource(s) THEN 0 ELSE -1)
            /\ plic0' = IF ValidSource(s) THEN [plic0 EXCEPT !.priority[s] = IF byDefault THEN 1 ELSE 2] ELSE plic0
            /\ UNCHANGED <<Links, csrs, clint0>>
    BY <1>1 DEF register_source
  <2>2. plic0' \in [priority : [CallSources -> Nat], threshold : Nat, enables : SUBSET Nat]
        /\ plic0'.threshold = plic0.threshold /\ plic0'.enables = plic0.enables
    BY <1>p, <2>1 DEF ValidSource
  <2>3. callEnded' = callEnded /\ (says' = -1 => plic0' = plic0)
    BY <2>1 DEF Call
  <2>4. QED
    BY <1>0, <1>1, <2>1, <2>2, <2>3
<1>2. CASE enable_source
  <2>1. PICK s \in CallSources \cup {53}, slot \in {"enable", "disable"} :
            /\ Call(slot, "plic", IF ValidSource(s) THEN 0 ELSE -1)
            /\ plic0' = IF ValidSource(s) THEN [plic0 EXCEPT !.enables = AfterEnable(slot, s)] ELSE plic0
            /\ UNCHANGED <<Links, csrs, clint0>>
    BY <1>2 DEF enable_source
  <2>2. plic0' \in [priority : [CallSources -> Nat], threshold : Nat, enables : SUBSET Nat]
        /\ plic0'.threshold = plic0.threshold /\ plic0'.priority = plic0.priority
    BY <1>p, <2>1, CallLinesAre DEF ValidSource, AfterEnable
  <2>3. callEnded' = callEnded /\ (says' = -1 => plic0' = plic0)
    BY <2>1 DEF Call
  <2>4. QED
    BY <1>0, <1>2, <2>1, <2>2, <2>3
<1>3. CASE set_threshold_of
  <2>1. PICK level \in CallLevels : Call("set_threshold", "plic", 0) /\ plic0' = AfterThreshold(level)
    BY <1>3 DEF set_threshold_of
  <2>2. plic0' \in [priority : [CallSources -> Nat], threshold : Nat, enables : SUBSET Nat]
        /\ plic0'.enables = plic0.enables /\ plic0'.priority = plic0.priority
    BY <1>p, <2>1, CallLinesAre DEF AfterThreshold
  <2>3. callEnded' = callEnded /\ says' = 0 /\ UNCHANGED <<Links, csrs, clint0>>
    BY <1>3, <2>1 DEF Call, set_threshold_of
  <2>4. QED
    BY <1>0, <1>3, <2>2, <2>3
<1>4. CASE set_priority_of
  <2>1. PICK s \in CallSources, level \in CallLevels \cup {max_priority} :
            /\ Call("set_priority", "plic", IF Acceptable(level) THEN 0 ELSE -1)
            /\ plic0' = IF Acceptable(level) THEN [plic0 EXCEPT !.priority[s] = level] ELSE plic0
    BY <1>4 DEF set_priority_of
  <2>2. level \in Nat
    BY <2>1, CallLinesAre DEF max_priority
  <2>3. plic0' \in [priority : [CallSources -> Nat], threshold : Nat, enables : SUBSET Nat]
        /\ plic0'.threshold = plic0.threshold /\ plic0'.enables = plic0.enables
    BY <1>p, <2>1, <2>2
  <2>4. callEnded' = callEnded /\ (says' = -1 => plic0' = plic0) /\ UNCHANGED <<Links, csrs, clint0>>
    BY <1>4, <2>1 DEF Call, set_priority_of
  <2>5. QED
    BY <1>0, <1>4, <2>3, <2>4
<1>5. CASE affinity_enable \/ affinity_set_threshold
  <2>1. plic0' = plic0
    BY <1>5, <1>p, NoContexts DEF affinity_enable, affinity_set_threshold, AffinityEnables, AffinityThreshold
  <2>2. callEnded' = callEnded /\ UNCHANGED <<Links, csrs, clint0>>
    BY <1>5 DEF affinity_enable, affinity_set_threshold, Call
  <2>3. QED
    BY <1>0, <1>p, <2>1, <2>2
<1>6. QED
  BY <1>1, <1>2, <1>3, <1>4, <1>5 DEF AboutSources

LEMMA HartCallWrites ==
    ASSUME CallTypes, NEW l \in {3, 7}, NEW without, NEW with \in Int, NEW stores \in [msip : BOOLEAN, mtimecmp : Nat],
           HartCall(l, without, with, stores), with # -1, stores.mtimecmp # clint0.mtimecmp => sub_int[7] = "clint"
    PROVE  /\ UNCHANGED <<initDone, sub_int, csrs, plic0>> /\ CallTypes'
           /\ clint0'.mtimecmp # clint0.mtimecmp => sub_int[7] = "clint"
           /\ says' = -1 \/ callEnded' # "no" => UNCHANGED <<Links, Registers0>>
<1>1. UNCHANGED <<initDone, sub_int, csrs, plic0>>
  BY DEF HartCall, Links
<1>2. clint0' = IF sub_int[l] = "clint" THEN stores ELSE clint0
  BY DEF HartCall
<1>3. sub_int[l] = "clint" => says' = with /\ callEnded' = "no"
  BY DEF HartCall
<1>4. CallTypes'
  BY <1>1, <1>2 DEF CallTypes
<1>5. QED
  BY <1>1, <1>2, <1>3, <1>4 DEF Links, Registers0

LEMMA ClintWrites ==
    ASSUME CallTypes, AboutClint
    PROVE  /\ UNCHANGED <<initDone, sub_int, csrs, plic0>> /\ CallTypes'
           /\ clint0'.mtimecmp # clint0.mtimecmp => sub_int[7] = "clint"
           /\ says' = -1 \/ callEnded' # "no" => UNCHANGED <<Links, Registers0>>
<1>p. clint0 \in [msip : BOOLEAN, mtimecmp : Nat]
  BY DEF CallTypes
<1>a. \A cmd \in Commands \ {"MAX_INTERRUPT_GET"} : Answer(cmd) \in {0, 1}
  BY DEF Answer, Commands
<1>c. \A cmd \in Commands : /\ AfterCommand(cmd) \in [msip : BOOLEAN, mtimecmp : Nat]
                            /\ AfterCommand(cmd).mtimecmp = clint0.mtimecmp
  BY <1>p DEF AfterCommand, Commands
<1>1. CASE clint_clear \/ clint_set
  <2>1. says' = 0 /\ callEnded' = "no" /\ UNCHANGED <<initDone, sub_int, csrs, plic0>>
    BY <1>1 DEF clint_clear, clint_set, Call, MayCall, Links
  <2>2. clint0' \in [msip : BOOLEAN, mtimecmp : Nat] /\ clint0'.mtimecmp = clint0.mtimecmp
    BY <1>1, <1>p DEF clint_clear, clint_set
  <2>3. QED
    BY <2>1, <2>2 DEF CallTypes
<1>2. CASE command_request
  <2>1. UNCHANGED <<initDone, sub_int, csrs, plic0>> /\ callEnded' = "no"
    BY <1>2 DEF command_request, Call, MayCall, Links
  <2>2. CASE Call("command_request", "cpu", 0) /\ UNCHANGED clint0
    BY <2>1, <2>2 DEF CallTypes, Call
  <2>3. ASSUME NEW cmd \in Commands, Call("command_request", "clint", Answer(cmd)), clint0' = AfterCommand(cmd)
        PROVE  /\ CallTypes' /\ clint0'.mtimecmp = clint0.mtimecmp
               /\ says' = -1 => clint0' = clint0
    <3>1. CallTypes' /\ clint0'.mtimecmp = clint0.mtimecmp
      BY <1>c, <2>1, <2>3 DEF CallTypes
    <3>2. says' = -1 => cmd = "MAX_INTERRUPT_GET"
      <4>1. says' = Answer(cmd)
        BY <2>3 DEF Call
      <4>2. 0 # -1 /\ 1 # -1
        OBVIOUS
      <4>3. QED
        BY <1>a, <2>3, <4>1, <4>2
    <3>3. cmd = "MAX_INTERRUPT_GET" => clint0' = clint0
      BY <2>3 DEF AfterCommand
    <3>4. QED
      BY <3>1, <3>2, <3>3
  <2>4. QED
    BY <1>2, <2>1, <2>2, <2>3 DEF command_request, Call, Links, Registers0
<1>3. CASE cpu_mtime_get
  BY <1>3, <1>p, HartCallWrites DEF cpu_mtime_get
<1>4. CASE cpu_mtimecmp_set
  <2>1. PICK t \in CallTimes : HartCall(7, -1, 0, [clint0 EXCEPT !.mtimecmp = t])
    BY <1>4 DEF cpu_mtimecmp_set
  <2>2. [clint0 EXCEPT !.mtimecmp = t] \in [msip : BOOLEAN, mtimecmp : Nat]
    BY <1>p, <2>1, CallLinesAre
  <2>3. clint0' = IF sub_int[7] = "clint" THEN [clint0 EXCEPT !.mtimecmp = t] ELSE clint0
    BY <2>1 DEF HartCall
  <2>4. /\ UNCHANGED <<initDone, sub_int, csrs, plic0>>
        /\ sub_int[7] = "clint" => says' = 0 /\ callEnded' = "no"
    BY <2>1 DEF HartCall, Links
  <2>5. QED
    BY <1>p, <2>2, <2>3, <2>4 DEF CallTypes, Links, Registers0
<1>5. CASE cpu_set_sw_ipi
  <2>1. "IPI_SET" \in Commands \ {"MAX_INTERRUPT_GET"}
    BY DEF Commands
  <2>2. HartCall(3, -1, Answer("IPI_SET"), AfterCommand("IPI_SET")) /\ Answer("IPI_SET") \in Int /\ Answer("IPI_SET") # -1
    BY <1>5, <1>a, <2>1 DEF cpu_set_sw_ipi
  <2>3. QED
    BY <1>c, <2>1, <2>2, HartCallWrites
<1>6. CASE cpu_clear_sw_ipi
  <2>1. "IPI_CLEAR" \in Commands \ {"MAX_INTERRUPT_GET"}
    BY DEF Commands
  <2>2. HartCall(3, -1, Answer("IPI_CLEAR"), AfterCommand("IPI_CLEAR")) /\ Answer("IPI_CLEAR") \in Int /\ Answer("IPI_CLEAR") # -1
    BY <1>6, <1>a, <2>1 DEF cpu_clear_sw_ipi
  <2>3. QED
    BY <1>c, <2>1, <2>2, HartCallWrites
<1>7. CASE cpu_get_msip
  <2>1. "MSIP_GET" \in Commands \ {"MAX_INTERRUPT_GET"}
    BY DEF Commands
  <2>2. HartCall(3, 0, Answer("MSIP_GET"), clint0) /\ Answer("MSIP_GET") \in Int /\ Answer("MSIP_GET") # -1
    BY <1>7, <1>a, <2>1 DEF cpu_get_msip
  <2>3. QED
    BY <1>p, <2>2, HartCallWrites
<1>8. QED
  BY <1>1, <1>2, <1>3, <1>4, <1>5, <1>6, <1>7 DEF AboutClint

LEMMA InitialisersWrite ==
    ASSUME CallTypes, CallsThatInitialise
    PROVE  /\ CallTypes' /\ clint0' = clint0 /\ says' = 0 /\ callEnded' = "no"
           /\ "plic" \in initDone => plic0' = plic0 /\ csrs'.lines = csrs.lines
           /\ csrs'.global = csrs.global
           /\ csrs.mode # "early" => csrs'.mode = csrs.mode
           /\ \A l \in {3, 7} : sub_int[l] = "clint" /\ sub_int'[l] # "clint" => "cpu" \notin initDone
           /\ "clint" \in initDone' \ initDone => \A l \in {3, 7} : sub_int'[l] = "clint"
<1>0. says' = 0 /\ callEnded' = "no"
  BY DEF CallsThatInitialise, init_cpu, init_clint, init_plic, Call, MayCall
<1>1. Cleared \in [{3, 7} -> {"NULL", "clint", "data"}] /\ ("cpu" \in initDone => Cleared = sub_int)
  BY DEF CallTypes, Cleared, CpuIsNew
<1>2. ModeThen \in {"early", "direct", "vector"} /\ (csrs.mode # "early" => ModeThen = csrs.mode)
  BY DEF CallTypes, CsrTypes, ModeThen
<1>3. CASE init_cpu
  <2>1. initDone' = initDone \cup {"cpu"} /\ sub_int' = Cleared /\ csrs' = [csrs EXCEPT !.mode = ModeThen]
        /\ UNCHANGED <<plic0, clint0>>
    BY <1>3 DEF init_cpu
  <2>2. /\ csrs' \in CsrTypes
        /\ csrs'.mode = ModeThen /\ csrs'.lines = csrs.lines /\ csrs'.global = csrs.global
    BY <1>2, <2>1 DEF CallTypes, CsrTypes
  <2>3. QED
    BY <1>0, <1>1, <1>2, <2>1, <2>2 DEF CallTypes
<1>4. CASE init_clint
  <2>1. /\ sub_int' = IF "clint" \in initDone THEN sub_int ELSE [l \in {3, 7} |-> "clint"]
        /\ UNCHANGED <<csrs, plic0, clint0>>
    BY <1>4 DEF init_clint, Registers0
  <2>2. sub_int' \in [{3, 7} -> {"NULL", "clint", "data"}]
    BY <2>1 DEF CallTypes
  <2>3. \A l \in {3, 7} : sub_int[l] = "clint" => sub_int'[l] = "clint"
    BY <2>1
  <2>4. QED
    BY <1>0, <2>1, <2>2, <2>3 DEF CallTypes
<1>5. CASE init_plic
  <2>1. CASE "plic" \in initDone
    <3>1. UNCHANGED <<initDone, sub_int, csrs, plic0, clint0>>
      BY <1>5, <2>1 DEF init_plic, Links
    <3>2. QED
      BY <1>0, <3>1 DEF CallTypes
  <2>2. CASE "plic" \notin initDone
    <3>1. /\ initDone' = initDone \cup {"cpu", "plic"} /\ sub_int' = Cleared /\ clint0' = clint0
          /\ csrs' = [csrs EXCEPT !.mode = ModeThen, !.lines = @ \cup ({11} \cap CallLines)]
          /\ plic0' = [priority |-> [s \in CallSources |-> 0], threshold |-> 0, enables |-> {}]
      BY <1>5, <2>2 DEF init_plic
    <3>2. csrs.lines \cup ({11} \cap CallLines) \in SUBSET Nat
      BY CallLinesAre DEF CallTypes, CsrTypes
    <3>3. csrs' \in CsrTypes /\ csrs'.mode = ModeThen /\ csrs'.global = csrs.global
      BY <1>2, <3>1, <3>2 DEF CallTypes, CsrTypes
    <3>4. CallTypes'
      BY <1>1, <3>1, <3>3 DEF CallTypes
    <3>5. QED
      BY <1>0, <1>1, <1>2, <2>2, <3>1, <3>3, <3>4
  <2>3. QED
    BY <2>1, <2>2
<1>6. QED
  BY <1>3, <1>4, <1>5 DEF CallsThatInitialise

LEMMA EveryCall ==
    CallTypes /\ [CallNext]_callVars => CallTypes' /\ [HartKeepsTheClint /\ SettingsStay /\ RefusedIsUndone]_callVars
<1>1. SUFFICES ASSUME CallTypes, [CallNext]_callVars
               PROVE  CallTypes' /\ [HartKeepsTheClint /\ SettingsStay /\ RefusedIsUndone]_callVars
  OBVIOUS
<1>2. CASE CallsThatInitialise
  BY <1>1, <1>2, InitialisersWrite DEF HartKeepsTheClint, SettingsStay, RefusedIsUndone
<1>3. CASE AboutLines
  <2>1. /\ UNCHANGED <<initDone, plic0, clint0, callEnded>> /\ CallTypes'
        /\ sub_int' # sub_int => register_line
        /\ csrs'.mode # csrs.mode => set_vector_mode_of
        /\ csrs'.lines # csrs.lines => enable_line
        /\ csrs'.global # csrs.global => enable_line /\ csrs'.lines = csrs.lines
        /\ says' = -1 => UNCHANGED <<Links, Registers0>>
    BY <1>1, <1>3, LinesWrite
  <2>2. callEnded = "no"
    BY <1>3 DEF AboutLines, register_line, set_vector_mode_of, enable_line, CallLine, Call, MayCall
  <2>3. HartKeepsTheClint
    BY <2>1 DEF HartKeepsTheClint
  <2>4. SettingsStay
    BY <2>1 DEF SettingsStay
  <2>5. QED
    BY <2>1, <2>2, <2>3, <2>4 DEF RefusedIsUndone
<1>4. CASE AboutSources
  <2>1. /\ UNCHANGED <<initDone, sub_int, csrs, clint0, callEnded>> /\ CallTypes'
        /\ plic0'.priority # plic0.priority => set_priority_of \/ register_source
        /\ plic0'.threshold # plic0.threshold => set_threshold_of
        /\ plic0'.enables # plic0.enables => enable_source
        /\ says' = -1 => UNCHANGED <<Links, Registers0>>
    BY <1>1, <1>4, SourcesWrite
  <2>2. callEnded = "no"
    BY <1>4 DEF AboutSources, register_source, enable_source, set_threshold_of, set_priority_of, affinity_enable,
                affinity_set_threshold, Call, MayCall
  <2>3. HartKeepsTheClint
    BY <2>1 DEF HartKeepsTheClint
  <2>4. SettingsStay
    BY <2>1 DEF SettingsStay
  <2>5. QED
    BY <2>1, <2>2, <2>3, <2>4 DEF RefusedIsUndone
<1>5. CASE AboutClint
  <2>1. /\ UNCHANGED <<initDone, sub_int, csrs, plic0>> /\ CallTypes'
        /\ clint0'.mtimecmp # clint0.mtimecmp => sub_int[7] = "clint"
        /\ says' = -1 \/ callEnded' # "no" => UNCHANGED <<Links, Registers0>>
    BY <1>1, <1>5, ClintWrites
  <2>2. QED
    BY <2>1 DEF HartKeepsTheClint, SettingsStay, RefusedIsUndone
<1>6. CASE CallsThatTell \/ UNCHANGED callVars
  <2>1. UNCHANGED <<initDone, sub_int, csrs, plic0, clint0>>
    BY <1>6, NothingIsWritten DEF Links, Registers0, callVars
  <2>2. QED
    BY <1>1, <2>1 DEF CallTypes, HartKeepsTheClint, SettingsStay, RefusedIsUndone, Links, Registers0
<1>7. QED
  BY <1>1, <1>2, <1>3, <1>4, <1>5, <1>6, CallKinds

(* interrupt.h, cpu.h: for any lines, sources, levels and times, once the    *)
(* CLINT is initialised the hart's calls find it, a setting, the hart's own   *)
(* enable among them, stays until its own call or its controller's            *)
(* initialisation, and a call that is refused has changed nothing.           *)
THEOREM CallsReachTheirs == CallsSpec => CallsAreAnswered
<1>1. CallInit => CallTypes
  BY DEF CallInit, CallTypes, CsrTypes
<1>2. QED
  BY <1>1, EveryCall, PTL DEF CallsSpec, CallsAreAnswered

-----------------------------------------------------------------------------
(* The trap tables and the traps of a hart (riscv_cpu.c)                     *)

TrapPuts    == {"user", "data", "default", "clint", "NULL"}
SubHandlers     == {"clint", "NULL"}
TrapStore(l, p) == [line |-> l, put |-> p]
TrapStores  == {TrapStore(l, p) : l \in TrapLines, p \in TrapPuts}

\* What calls have left to store.
ForBoth  == <<TrapStore(3, "default"), TrapStore(3, "clint"), TrapStore(7, "default"), TrapStore(7, "clint")>>
ForTimer == <<TrapStore(3, "clint"), TrapStore(7, "default"), TrapStore(7, "clint")>>
OneStore  == {<<e>> : e \in {TrapStore(l, p) : l \in TrapLines, p \in {"data"} \cup SubHandlers}}
EntryLists    == {UserStores(l) : l \in TrapLines} \cup {DefaultStores(l, s) : l \in TrapLines, s \in SubHandlers}
StoreLists == {<<>>} \cup OneStore \cup EntryLists \cup (IF {3, 7} \subseteq TrapLines THEN {ForBoth, ForTimer} ELSE {})

Members(q) == {q[i] : i \in DOMAIN q}

TrapFrame == [kind : {"interrupt", "exception"}, id : Nat, handler : {"NULL", "default", "user", "nobody"},
              epc : [to : Nat, past : BOOLEAN], MIE : BOOLEAN, nested : BOOLEAN]

TrapTypes ==
    /\ entry \in [TrapLines -> [handler : {"NULL", "default", "user"}, own : BOOLEAN, linked : BOOLEAN]]
    /\ exception \in [TrapCodes -> {"NULL", "default", "user"}]
    /\ hart \in [lines : SUBSET TrapLines, MIE : BOOLEAN, MPIE : BOOLEAN]
    /\ tepc \in [to : Nat, past : BOOLEAN]
    /\ toStore \in StoreLists
    /\ frames \in Seq(TrapFrame)
    /\ given \subseteq TrapLines

Owed(q, l)  == \E i \in DOMAIN q : q[i].line = l
Waits(l, p) == TrapStore(l, p) \in Members(toStore)

\* A line that was given a handler has it, or the call is about to store it;
\* the handler has its own data, or they are about to be stored.
GivenAccount ==
    \A l \in TrapLines :
        /\ l \in given => (entry[l].handler = "user" \/ Waits(l, "user")) /\ ~Waits(l, "default")
        /\ entry[l].handler = "user" => entry[l].own \/ Storing(l)
        /\ \A s \in SubHandlers : toStore # <<>> /\ Head(toStore) = TrapStore(l, s) => entry[l].handler = "default"

\* Of every trap in progress where it came from, and of all but the last one
\* that there was another.  Its handler had its data when it was called.
FramesAccount ==
    \A i \in 1 .. Len(frames) :
        /\ frames[i].epc = [to |-> i - 1, past |-> FALSE] /\ (i < Len(frames) => frames[i].nested)
        /\ frames[i].kind = "interrupt" =>
            /\ frames[i].id \in TrapLines
            /\ frames[i].handler = "user" => entry[frames[i].id].own \/ Owed(toStore, frames[i].id)

\* The innermost trap finds mepc and MPIE as it left them, until its handler traps.
ReturnAccount ==
    frames # <<>> /\ halt = "no" =>
        /\ ~Top.nested => tepc = Top.epc /\ hart.MPIE = Top.MIE
        /\ Top.nested => tepc.to = Len(frames)

TrapAccount == TrapTypes /\ GivenAccount /\ FramesAccount /\ ReturnAccount

LEMMA LinesAreNumbers == \A l \in TrapLines : l \in Nat
<1>1. SUFFICES ASSUME NEW l \in TrapLines PROVE l \in Nat
  OBVIOUS
<1>2. l \in {3, 7, 11} \cup 16 .. 31
  BY TrapAssumption DEF TrapAssumption, valid_interrupt_id
<1>3. QED
  BY <1>2

LEMMA StoreIs ==
    /\ \A l, p : TrapStore(l, p).line = l /\ TrapStore(l, p).put = p
    /\ \A l, p, m, q : TrapStore(l, p) = TrapStore(m, q) => l = m /\ p = q
    /\ \A l \in TrapLines, p \in TrapPuts : TrapStore(l, p) \in TrapStores
<1>1. \A l, p : TrapStore(l, p).line = l /\ TrapStore(l, p).put = p
  BY DEF TrapStore
<1>2. QED
  BY <1>1 DEF TrapStores

LEMMA NamesAre ==
    /\ Members(<<>>) = {}
    /\ \A a : Members(<<a>>) = {a} /\ Head(<<a>>) = a /\ Tail(<<a>>) = <<>> /\ <<a>> # <<>>
    /\ \A a, b : Members(<<a, b>>) = {a, b} /\ Head(<<a, b>>) = a /\ Tail(<<a, b>>) = <<b>> /\ <<a, b>> # <<>>
    /\ \A a, b, c : /\ Members(<<a, b, c>>) = {a, b, c} /\ Head(<<a, b, c>>) = a /\ Tail(<<a, b, c>>) = <<b, c>>
                    /\ <<a, b, c>> # <<>>
    /\ \A a, b, c, d : /\ Members(<<a, b, c, d>>) = {a, b, c, d} /\ Head(<<a, b, c, d>>) = a
                       /\ Tail(<<a, b, c, d>>) = <<b, c, d>> /\ <<a, b, c, d>> # <<>>
<1>1. Members(<<>>) = {}
  BY DEF Members
<1>2. \A a : Members(<<a>>) = {a}
  BY DEF Members
<1>3. \A a, b : Members(<<a, b>>) = {a, b}
  BY DEF Members
<1>4. \A a, b, c : Members(<<a, b, c>>) = {a, b, c}
  BY DEF Members
<1>5. \A a, b, c, d : Members(<<a, b, c, d>>) = {a, b, c, d}
  BY DEF Members
<1>6. QED
  BY <1>1, <1>2, <1>3, <1>4, <1>5

LEMMA TwoAndTwo == ASSUME NEW a, NEW b, NEW c, NEW d PROVE <<a, b>> \o <<c, d>> = <<a, b, c, d>>
<1> DEFINE S == {a, b, c, d}
           s == <<a, b>>
           t == <<c, d>>
           u == <<a, b, c, d>>
<1>1. s \in Seq(S) /\ t \in Seq(S) /\ u \in Seq(S) /\ Len(s) = 2 /\ Len(t) = 2 /\ Len(u) = 4
  OBVIOUS
<1>2. s[1] = a /\ s[2] = b /\ t[1] = c /\ t[2] = d /\ u[1] = a /\ u[2] = b /\ u[3] = c /\ u[4] = d
  OBVIOUS
<1> HIDE DEF s, t, u, S
<1>3. s \o t \in Seq(S) /\ Len(s \o t) = 4
  BY <1>1, ConcatProperties
<1>4. \A i \in 1 .. Len(s) + Len(t) : (s \o t)[i] = IF i <= Len(s) THEN s[i] ELSE t[i - Len(s)]
  BY <1>1, ConcatProperties, Zenon
<1>5. (s \o t)[1] = a /\ (s \o t)[2] = b
  <2>1. 1 \in 1 .. Len(s) + Len(t) /\ 2 \in 1 .. Len(s) + Len(t) /\ 1 <= Len(s) /\ 2 <= Len(s)
    BY <1>1
  <2>2. (s \o t)[1] = s[1] /\ (s \o t)[2] = s[2]
    BY <1>4, <2>1, Zenon
  <2>3. QED
    BY <1>2, <2>2, Zenon
<1>6. (s \o t)[3] = c /\ (s \o t)[4] = d
  <2>1. /\ 3 \in 1 .. Len(s) + Len(t) /\ 4 \in 1 .. Len(s) + Len(t) /\ ~(3 <= Len(s)) /\ ~(4 <= Len(s))
        /\ 3 - Len(s) = 1 /\ 4 - Len(s) = 2
    BY <1>1
  <2>2. (s \o t)[3] = t[3 - Len(s)] /\ (s \o t)[4] = t[4 - Len(s)]
    BY <1>4, <2>1, Zenon
  <2>3. QED
    BY <1>2, <2>1, <2>2, Zenon
<1>7. s \o t = u
  <2>1. ASSUME NEW i \in 1 .. Len(s \o t) PROVE (s \o t)[i] = u[i]
    <3>1. i = 1 \/ i = 2 \/ i = 3 \/ i = 4
      BY <1>3, <2>1
    <3>2. QED
      BY <1>2, <1>5, <1>6, <3>1, Zenon
  <2>2. Len(s \o t) = Len(u)
    BY <1>1, <1>3
  <2>3. QED
    BY <1>1, <1>3, <2>1, <2>2, SeqEqual
<1>8. QED
  BY <1>7 DEF s, t, u

\* What a list stores first, and what is left then.
LEMMA StoreListsAre ==
    ASSUME NEW q \in StoreLists, q # <<>>
    PROVE  /\ Tail(q) \in StoreLists /\ Members(q) = {Head(q)} \cup Members(Tail(q))
           /\ \E l \in TrapLines, p \in TrapPuts :
                /\ Head(q) = TrapStore(l, p)
                /\ p = "user" => Tail(q) = <<TrapStore(l, "data")>>
                /\ p = "data" => Tail(q) = <<>>
                /\ p = "default" => Tail(q) # <<>> /\ \E s \in SubHandlers : Head(Tail(q)) = TrapStore(l, s)
                /\ p \in SubHandlers => Tail(q) = <<>> \/ Head(Tail(q)) = TrapStore(7, "default")
<1>1. <<>> \in StoreLists /\ \A l \in TrapLines, p \in {"data"} \cup SubHandlers : <<TrapStore(l, p)>> \in StoreLists
  BY DEF StoreLists, OneStore
<1>2. CASE q \in OneStore
  <2>1. PICK l \in TrapLines, p \in {"data"} \cup SubHandlers : q = <<TrapStore(l, p)>>
    BY <1>2 DEF OneStore
  <2>2. Tail(q) = <<>> /\ Head(q) = TrapStore(l, p) /\ Members(q) = {Head(q)} \cup Members(Tail(q)) /\ p \in TrapPuts
    BY <2>1, NamesAre DEF TrapPuts, SubHandlers
  <2>3. QED
    BY <1>1, <2>1, <2>2 DEF SubHandlers
<1>3. CASE \E l \in TrapLines : q = UserStores(l)
  <2>1. PICK l \in TrapLines : q = <<TrapStore(l, "user"), TrapStore(l, "data")>>
    BY <1>3 DEF UserStores, TrapStore
  <2>2. /\ Tail(q) = <<TrapStore(l, "data")>> /\ Head(q) = TrapStore(l, "user")
        /\ Members(q) = {Head(q)} \cup Members(Tail(q)) /\ "user" \in TrapPuts
    BY <2>1, NamesAre DEF TrapPuts
  <2>3. QED
    BY <1>1, <2>2 DEF SubHandlers
<1>4. CASE \E l \in TrapLines, s \in SubHandlers : q = DefaultStores(l, s)
  <2>1. PICK l \in TrapLines, s \in SubHandlers : q = <<TrapStore(l, "default"), TrapStore(l, s)>>
    BY <1>4 DEF DefaultStores, TrapStore
  <2>2. /\ Tail(q) = <<TrapStore(l, s)>> /\ Head(q) = TrapStore(l, "default") /\ Tail(q) # <<>> /\ Head(Tail(q)) = TrapStore(l, s)
        /\ Members(q) = {Head(q)} \cup Members(Tail(q)) /\ "default" \in TrapPuts
    BY <2>1, NamesAre DEF TrapPuts
  <2>3. QED
    BY <1>1, <2>2 DEF SubHandlers
<1>5. CASE {3, 7} \subseteq TrapLines /\ q = ForBoth
  <2>1. /\ Tail(q) = ForTimer /\ Head(q) = TrapStore(3, "default") /\ Tail(q) # <<>> /\ Head(Tail(q)) = TrapStore(3, "clint")
        /\ Members(q) = {Head(q)} \cup Members(Tail(q)) /\ "default" \in TrapPuts /\ ForTimer \in StoreLists
    BY <1>5, NamesAre DEF TrapPuts, ForBoth, ForTimer, StoreLists
  <2>2. QED
    BY <1>5, <2>1 DEF SubHandlers
<1>6. CASE {3, 7} \subseteq TrapLines /\ q = ForTimer
  <2>1. /\ Tail(q) = DefaultStores(7, "clint") /\ Head(q) = TrapStore(3, "clint")
        /\ Members(q) = {Head(q)} \cup Members(Tail(q)) /\ "clint" \in TrapPuts /\ Head(Tail(q)) = TrapStore(7, "default")
    BY <1>6, NamesAre DEF TrapPuts, ForTimer, DefaultStores, TrapStore
  <2>2. DefaultStores(7, "clint") \in StoreLists
    BY <1>6 DEF StoreLists, EntryLists, SubHandlers
  <2>3. QED
    BY <1>6, <2>1, <2>2 DEF SubHandlers
<1>7. \/ q \in OneStore \/ (\E l \in TrapLines : q = UserStores(l)) \/ (\E l \in TrapLines, s \in SubHandlers : q = DefaultStores(l, s))
      \/ ({3, 7} \subseteq TrapLines /\ q = ForBoth) \/ ({3, 7} \subseteq TrapLines /\ q = ForTimer)
  BY SMT DEF StoreLists, EntryLists
<1>8. QED
  BY <1>2, <1>3, <1>4, <1>5, <1>6, <1>7, Zenon

LEMMA NoEntryIs ==
    /\ NoEntry \in [handler : {"NULL", "default", "user"}, own : BOOLEAN, linked : BOOLEAN]
    /\ NoEntry.handler = "NULL"
  BY DEF NoEntry

LEMMA StoringIs ==
    /\ \A l : Storing(l) <=> \E e \in Members(toStore) : e.line = l
    /\ \A l, p : Waits(l, p) => Storing(l)
<1>1. \A l : Storing(l) <=> \E e \in Members(toStore) : e.line = l
  BY DEF Storing, Members
<1>2. QED
  BY <1>1, StoreIs DEF Waits

LEMMA TrapStart == TrapInit => TrapAccount
<1>1. SUFFICES ASSUME TrapInit PROVE TrapAccount
  OBVIOUS
<1>2. TrapTypes
  BY <1>1, NoEntryIs DEF TrapInit, TrapTypes, StoreLists
<1>3. GivenAccount
  BY <1>1, NoEntryIs DEF TrapInit, GivenAccount
<1>4. FramesAccount /\ ReturnAccount
  <2>1. frames = <<>> /\ Len(frames) = 0
    BY <1>1 DEF TrapInit
  <2>2. QED
    BY <2>1 DEF FramesAccount, ReturnAccount
<1>5. QED
  BY <1>2, <1>3, <1>4 DEF TrapAccount

\* Between traps nothing is owed to any.
LEMMA NoFrames == frames = <<>> => FramesAccount /\ ReturnAccount
<1>1. SUFFICES ASSUME frames = <<>> PROVE FramesAccount /\ ReturnAccount
  OBVIOUS
<1>2. Len(frames) = 0
  BY <1>1
<1>3. QED
  BY <1>1, <1>2 DEF FramesAccount, ReturnAccount

\* The calls that set lists to store, or clear the tables.
LEMMA CallsKeepGiven ==
    ASSUME TrapTypes, GivenAccount,
           controller_interrupt_init \/ clint0_init \/ controller_interrupt_register
    PROVE  TrapTypes' /\ GivenAccount' /\ LinesStayLinked
<1>1. toStore = <<>> /\ UNCHANGED <<hart, tepc, frames>>
  BY DEF controller_interrupt_init, clint0_init, controller_interrupt_register, AtACall
<1>2. \A l \in TrapLines : /\ l \in given => entry[l].handler = "user"
                           /\ entry[l].handler = "user" => entry[l].own
  BY <1>1, NamesAre, StoringIs DEF GivenAccount, Waits
<1>3. CASE controller_interrupt_init
  <2>1. toStore' = <<>>
    BY <1>1, <1>3 DEF controller_interrupt_init
  <2>2. CASE FirstInit
    <3>1. entry' = [l \in TrapLines |-> NoEntry] /\ exception' = [c \in TrapCodes |-> "default"] /\ given' = {}
      BY <1>3, <2>2 DEF controller_interrupt_init
    <3>2. TrapTypes'
      BY <1>1, <2>1, <3>1, NoEntryIs DEF TrapTypes
    <3>3. GivenAccount' /\ LinesStayLinked
      BY <2>1, <3>1, NoEntryIs DEF GivenAccount, LinesStayLinked
    <3>4. QED
      BY <3>2, <3>3
  <2>3. CASE ~FirstInit
    <3>1. UNCHANGED <<entry, exception, given, toStore>>
      BY <1>1, <1>3, <2>1, <2>3 DEF controller_interrupt_init
    <3>2. QED
      BY <1>1, <3>1 DEF TrapTypes, GivenAccount, LinesStayLinked, Waits, Storing
  <2>4. QED
    BY <2>2, <2>3
<1>4. ASSUME NEW G, Members(toStore') \subseteq G, toStore' \in StoreLists, given' \subseteq TrapLines,
             entry' = entry, exception' = exception,
             \A l \in given' : (l \in given \/ TrapStore(l, "user") \in Members(toStore')) /\ TrapStore(l, "default") \notin G,
             toStore' # <<>> => \A l \in TrapLines, s \in SubHandlers : Head(toStore') # TrapStore(l, s)
      PROVE  TrapTypes' /\ GivenAccount' /\ LinesStayLinked
  <2>1. TrapTypes' /\ LinesStayLinked
    BY <1>1, <1>4 DEF TrapTypes, LinesStayLinked
  <2>2. ASSUME NEW l \in TrapLines
        PROVE  /\ l \in given' => (entry'[l].handler = "user" \/ Waits(l, "user")') /\ ~Waits(l, "default")'
               /\ entry'[l].handler = "user" => entry'[l].own
    BY <1>2, <1>4, <2>2 DEF Waits
  <2>3. QED
    BY <1>4, <2>1, <2>2 DEF GivenAccount
<1>5. CASE clint0_init
  <2> DEFINE three == IF 3 \in TrapLines THEN DefaultStores(3, "clint") ELSE <<>>
             seven == IF 7 \in TrapLines THEN DefaultStores(7, "clint") ELSE <<>>
             G == {TrapStore(l, p) : l \in {3, 7}, p \in {"default", "clint"}}
  <2>1. toStore' = three \o seven /\ entry' = entry /\ exception' = exception /\ given' = given \ {3, 7}
    BY <1>5 DEF clint0_init
  <2>2. /\ DefaultStores(3, "clint") = <<TrapStore(3, "default"), TrapStore(3, "clint")>>
        /\ DefaultStores(7, "clint") = <<TrapStore(7, "default"), TrapStore(7, "clint")>>
    BY DEF DefaultStores, TrapStore
  <2>3. three \o seven \in {<<>>, DefaultStores(3, "clint"), DefaultStores(7, "clint"), ForBoth} /\ three \o seven \in StoreLists
    <3>1. CASE 3 \in TrapLines /\ 7 \in TrapLines
      <4>1. three \o seven = ForBoth
        BY <2>2, <3>1, TwoAndTwo DEF ForBoth
      <4>2. QED
        BY <3>1, <4>1 DEF StoreLists
    <3>2. CASE 3 \in TrapLines /\ 7 \notin TrapLines
      <4>1. three \o seven = DefaultStores(3, "clint")
        BY <2>2, <3>2
      <4>2. QED
        BY <3>2, <4>1 DEF StoreLists, EntryLists, SubHandlers
    <3>3. CASE 3 \notin TrapLines /\ 7 \in TrapLines
      <4>1. three \o seven = DefaultStores(7, "clint")
        BY <2>2, <3>3
      <4>2. QED
        BY <3>3, <4>1 DEF StoreLists, EntryLists, SubHandlers
    <3>4. CASE 3 \notin TrapLines /\ 7 \notin TrapLines
      <4>1. three \o seven = <<>>
        BY <3>4
      <4>2. QED
        BY <4>1 DEF StoreLists
    <3>5. QED
      BY <3>1, <3>2, <3>3, <3>4
  <2> HIDE DEF three, seven
  <2>4. \A q \in {<<>>, DefaultStores(3, "clint"), DefaultStores(7, "clint"), ForBoth} :
            Members(q) \subseteq G /\ (q # <<>> => Head(q) \in {TrapStore(3, "default"), TrapStore(7, "default")})
    BY <2>2, NamesAre DEF ForBoth
  <2>5. \A l \in given' : l \in given /\ TrapStore(l, "default") \notin G
    BY <2>1, StoreIs
  <2>6. toStore' # <<>> => \A l \in TrapLines, s \in SubHandlers : Head(toStore') # TrapStore(l, s)
    BY <2>1, <2>3, <2>4, StoreIs DEF SubHandlers
  <2>7. Members(toStore') \subseteq G /\ toStore' \in StoreLists /\ given' \subseteq TrapLines
    <3>1. given' \subseteq TrapLines
      BY <2>1 DEF TrapTypes
    <3> HIDE DEF G
    <3>2. QED
      BY <2>1, <2>3, <2>4, <3>1
  <2> HIDE DEF G
  <2>8. QED
    BY <1>4, <2>1, <2>5, <2>6, <2>7
<1>6. CASE controller_interrupt_register
  <2>1. entry' = entry /\ exception' = exception
    BY <1>6 DEF controller_interrupt_register
  <2>2. PICK l \in TrapLines : \/ toStore' = UserStores(l) /\ given' = given \cup {l}
                               \/ toStore' = DefaultStores(l, "NULL") /\ given' = given \ {l}
    BY <1>6 DEF controller_interrupt_register
  <2>3. given' \subseteq TrapLines
    BY <2>2 DEF TrapTypes
  <2>4. CASE toStore' = UserStores(l) /\ given' = given \cup {l}
    <3>1. toStore' = <<TrapStore(l, "user"), TrapStore(l, "data")>> /\ toStore' \in StoreLists
      BY <2>4 DEF UserStores, TrapStore, StoreLists, EntryLists
    <3>2. Members(toStore') = {TrapStore(l, "user"), TrapStore(l, "data")} /\ Head(toStore') = TrapStore(l, "user")
      BY <3>1, NamesAre
    <3>3. \A m \in given' : (m \in given \/ TrapStore(m, "user") \in Members(toStore')) /\ TrapStore(m, "default") \notin Members(toStore')
      BY <2>4, <3>2, StoreIs
    <3>4. \A m \in TrapLines, s \in SubHandlers : Head(toStore') # TrapStore(m, s)
      BY <3>2, StoreIs DEF SubHandlers
    <3>5. QED
      BY <1>4, <2>1, <2>3, <3>1, <3>3, <3>4
  <2>5. CASE toStore' = DefaultStores(l, "NULL") /\ given' = given \ {l}
    <3>1. toStore' = <<TrapStore(l, "default"), TrapStore(l, "NULL")>> /\ toStore' \in StoreLists
      BY <2>5 DEF DefaultStores, TrapStore, StoreLists, EntryLists, SubHandlers
    <3>2. Members(toStore') = {TrapStore(l, "default"), TrapStore(l, "NULL")} /\ Head(toStore') = TrapStore(l, "default")
      BY <3>1, NamesAre
    <3>3. \A m \in given' : m \in given /\ TrapStore(m, "default") \notin Members(toStore')
      BY <2>5, <3>2, StoreIs
    <3>4. \A m \in TrapLines, s \in SubHandlers : Head(toStore') # TrapStore(m, s)
      BY <3>2, StoreIs DEF SubHandlers
    <3>5. QED
      BY <1>4, <2>1, <2>3, <3>1, <3>3, <3>4
  <2>6. QED
    BY <2>2, <2>4, <2>5
<1>7. QED
  BY <1>3, <1>5, <1>6

\* A call stores the next of what it has left.
LEMMA StoresKeepGiven ==
    ASSUME TrapTypes, GivenAccount, StoreNext
    PROVE  TrapTypes' /\ GivenAccount' /\ LinesStayLinked
<1> DEFINE h == Head(toStore)
           t == Tail(toStore)
<1>1. /\ toStore # <<>> /\ toStore' = t /\ UNCHANGED <<exception, hart, tepc, frames, given>>
      /\ entry' = [entry EXCEPT ![h.line] = AfterStore(@, h.put)]
  BY DEF StoreNext
<1>2. toStore \in StoreLists
  BY DEF TrapTypes
<1>3. t \in StoreLists /\ Members(toStore) = {h} \cup Members(t)
  BY <1>1, <1>2, StoreListsAre
<1>4. PICK l \in TrapLines, p \in TrapPuts :
        /\ h = TrapStore(l, p)
        /\ p = "user" => t = <<TrapStore(l, "data")>>
        /\ p = "data" => t = <<>>
        /\ p = "default" => t # <<>> /\ \E s \in SubHandlers : Head(t) = TrapStore(l, s)
        /\ p \in SubHandlers => t = <<>> \/ Head(t) = TrapStore(7, "default")
  BY <1>1, <1>2, StoreListsAre
<1>5. h.line = l /\ h.put = p
  BY <1>4, StoreIs
<1> HIDE DEF h, t
<1> DEFINE e == entry[l]
           f == entry'[l]
<1>6. e \in [handler : {"NULL", "default", "user"}, own : BOOLEAN, linked : BOOLEAN]
  BY DEF TrapTypes
<1>7. /\ p = "user" => AfterStore(e, p) = [e EXCEPT !.handler = "user", !.own = FALSE]
      /\ p = "default" => AfterStore(e, p) = [e EXCEPT !.handler = "default"]
      /\ p = "data" => AfterStore(e, p) = [e EXCEPT !.own = TRUE]
      /\ p = "clint" => AfterStore(e, p) = [e EXCEPT !.linked = TRUE]
      /\ p = "NULL" => AfterStore(e, p) = [e EXCEPT !.linked = FALSE]
  BY DEF AfterStore
<1>8. f = AfterStore(e, p) /\ \A m \in TrapLines \ {l} : entry'[m] = entry[m]
  BY <1>1, <1>5 DEF TrapTypes
<1> HIDE DEF e, f
<1>9. /\ f \in [handler : {"NULL", "default", "user"}, own : BOOLEAN, linked : BOOLEAN]
      /\ p = "user" => f.handler = "user" /\ f.linked = e.linked
      /\ p = "default" => f.handler = "default" /\ f.linked = e.linked
      /\ p = "data" => f.handler = e.handler /\ f.own /\ f.linked = e.linked
      /\ p \in SubHandlers => f.handler = e.handler
      /\ p = "clint" => f.linked
  BY <1>4, <1>6, <1>7, <1>8 DEF TrapPuts, SubHandlers
<1>10. p \in SubHandlers => e.handler = "default"
  BY <1>1, <1>4 DEF GivenAccount, e, h
<1>11. TrapTypes'
  <2>1. entry' \in [TrapLines -> [handler : {"NULL", "default", "user"}, own : BOOLEAN, linked : BOOLEAN]]
    BY <1>1, <1>5, <1>8, <1>9 DEF TrapTypes, f
  <2>2. QED
    BY <1>1, <1>3, <2>1 DEF TrapTypes, t
<1>12. LinesStayLinked
  BY <1>4, <1>8, <1>9, <1>10 DEF LinesStayLinked, TrapPuts, SubHandlers, e, f
<1>13. ASSUME NEW m \in TrapLines
       PROVE  /\ m \in given' => (entry'[m].handler = "user" \/ Waits(m, "user")') /\ ~Waits(m, "default")'
              /\ entry'[m].handler = "user" => entry'[m].own \/ Storing(m)'
              /\ \A s \in SubHandlers : toStore' # <<>> /\ Head(toStore') = TrapStore(m, s) => entry'[m].handler = "default"
  <2>1. /\ m \in given => (entry[m].handler = "user" \/ TrapStore(m, "user") \in Members(toStore)) /\ TrapStore(m, "default") \notin Members(toStore)
        /\ entry[m].handler = "user" => entry[m].own \/ \E x \in Members(toStore) : x.line = m
    BY <1>13, StoringIs DEF GivenAccount, Waits
  <2>2. Storing(m)' <=> \E x \in Members(t) : x.line = m
    <3>1. Storing(m)' <=> \E x \in Members(toStore') : x.line = m
      BY DEF Storing, Members
    <3>2. QED
      BY <1>1, <3>1
  <2>3. \A q : Waits(m, q)' <=> TrapStore(m, q) \in Members(t)
    BY <1>1 DEF Waits
  <2>4. CASE m # l
    <3>1. \A s \in SubHandlers : toStore' # <<>> => Head(toStore') # TrapStore(m, s)
      BY <1>1, <1>4, <2>4, StoreIs, NamesAre DEF TrapPuts, SubHandlers
    <3>2. h.line # m /\ \A q : TrapStore(m, q) # h
      BY <1>4, <1>5, <2>4, StoreIs
    <3>3. QED
      BY <1>1, <1>3, <1>8, <2>1, <2>2, <2>3, <2>4, <3>1, <3>2
  <2>5. CASE m = l
    <3>1. CASE p = "user"
      <4>1. Members(t) = {TrapStore(l, "data")} /\ Head(t) = TrapStore(l, "data")
        BY <1>4, <3>1, NamesAre
      <4>2. f.handler = "user" /\ Storing(m)' /\ ~Waits(m, "default")' /\ \A s \in SubHandlers : Head(t) # TrapStore(m, s)
        BY <1>9, <2>2, <2>3, <2>5, <3>1, <4>1, StoreIs DEF SubHandlers
      <4>3. QED
        BY <1>1, <2>5, <4>2 DEF f
    <3>2. CASE p = "data"
      <4>1. t = <<>> /\ f.own /\ f.handler = e.handler /\ Members(t) = {}
        BY <1>4, <1>9, <3>2, NamesAre
      <4>2. TrapStore(m, "user") \notin Members(toStore)
        BY <1>3, <1>4, <3>2, <4>1, StoreIs
      <4>3. QED
        BY <1>1, <2>1, <2>3, <2>5, <4>1, <4>2 DEF e, f
    <3>3. CASE p = "default"
      <4>1. f.handler = "default" /\ TrapStore(m, "default") \in Members(toStore)
        BY <1>3, <1>4, <1>9, <2>5, <3>3
      <4>2. m \notin given'
        BY <1>1, <2>1, <4>1
      <4>3. QED
        BY <2>5, <4>1, <4>2 DEF f
    <3>4. CASE p \in SubHandlers
      <4>1. f.handler = "default"
        BY <1>9, <1>10, <3>4
      <4>2. TrapStore(m, "user") \in Members(toStore) => TrapStore(m, "user") \in Members(t)
        BY <1>3, <1>4, <3>4, StoreIs DEF SubHandlers
      <4>3. m \in given => TrapStore(m, "user") \in Members(t)
        BY <1>10, <2>1, <2>5, <3>4, <4>2 DEF e
      <4>4. QED
        BY <1>1, <1>3, <2>1, <2>3, <2>5, <4>1, <4>3 DEF f
    <3>5. QED
      BY <1>4, <3>1, <3>2, <3>3, <3>4 DEF TrapPuts, SubHandlers
  <2>6. QED
    BY <2>4, <2>5
<1>14. QED
  BY <1>11, <1>12, <1>13 DEF GivenAccount

\* What else the program does between traps, and the lines.
LEMMA MasksKeepGiven ==
    ASSUME TrapTypes, GivenAccount,
           \/ exception_register \/ local_interrupt_mask \/ controller_set_vector_mode \/ software_ipi
    PROVE  TrapTypes' /\ GivenAccount' /\ LinesStayLinked
<1>1. UNCHANGED <<entry, toStore, given, tepc, frames>>
  BY DEF exception_register, local_interrupt_mask, controller_set_vector_mode, software_ipi, tables
<1>2. exception' \in [TrapCodes -> {"NULL", "default", "user"}]
  <2>1. CASE exception_register
    BY <2>1 DEF exception_register, ExceptionTable, TrapTypes
  <2>2. CASE ~exception_register
    BY <2>2 DEF local_interrupt_mask, controller_set_vector_mode, software_ipi, tables, TrapTypes
  <2>3. QED
    BY <2>1, <2>2
<1>3. hart' \in [lines : SUBSET TrapLines, MIE : BOOLEAN, MPIE : BOOLEAN]
  <2>1. CASE local_interrupt_mask
    <3>1. PICK on \in BOOLEAN : hart' = GlobalMask(on) \/ \E l \in TrapLines : hart' = LineMask(l, on)
      BY <2>1 DEF local_interrupt_mask
    <3>2. hart \in [lines : SUBSET TrapLines, MIE : BOOLEAN, MPIE : BOOLEAN]
      BY DEF TrapTypes
    <3>3. GlobalMask(on) \in [lines : SUBSET TrapLines, MIE : BOOLEAN, MPIE : BOOLEAN]
      BY <3>2 DEF GlobalMask
    <3>4. ASSUME NEW l \in TrapLines PROVE LineMask(l, on) \in [lines : SUBSET TrapLines, MIE : BOOLEAN, MPIE : BOOLEAN]
      <4>1. PICK ls \in SUBSET TrapLines : LineMask(l, on) = [hart EXCEPT !.lines = ls]
        BY <3>2 DEF LineMask
      <4>2. QED
        BY <3>2, <4>1
    <3>5. QED
      BY <3>1, <3>3, <3>4
  <2>2. CASE ~local_interrupt_mask
    BY <2>2 DEF exception_register, controller_set_vector_mode, software_ipi, TrapTypes
  <2>3. QED
    BY <2>1, <2>2
<1>4. TrapTypes'
  BY <1>1, <1>2, <1>3 DEF TrapTypes
<1>5. GivenAccount'
  BY <1>1 DEF GivenAccount, Waits, Storing
<1>6. QED
  BY <1>1, <1>4, <1>5 DEF LinesStayLinked

\* Everything but a trap and a return.
LEMMA ProgramKeepsAccount ==
    ASSUME TrapAccount,
           \/ controller_interrupt_init \/ clint0_init \/ controller_interrupt_register \/ StoreNext
           \/ exception_register \/ local_interrupt_mask \/ controller_set_vector_mode \/ software_ipi
    PROVE  TrapAccount' /\ LinesStayLinked /\ frames' = frames
<1>1. frames = <<>> /\ frames' = frames
  BY DEF controller_interrupt_init, clint0_init, controller_interrupt_register, StoreNext, exception_register,
         local_interrupt_mask, controller_set_vector_mode, software_ipi, AtACall, InProgram
<1>2. TrapTypes' /\ GivenAccount' /\ LinesStayLinked
  BY CallsKeepGiven, StoresKeepGiven, MasksKeepGiven DEF TrapAccount
<1>3. FramesAccount' /\ ReturnAccount'
  <2>1. Len(frames') = 0
    BY <1>1
  <2>2. QED
    BY <1>1, <2>1 DEF FramesAccount, ReturnAccount
<1>4. QED
  BY <1>1, <1>2, <1>3 DEF TrapAccount

LEMMA LineKeepsAccount == ASSUME TrapAccount, LineRises PROVE TrapAccount' /\ entry' = entry /\ frames' = frames
<1>1. UNCHANGED <<entry, exception, hart, tepc, toStore, frames, halt, given>>
  BY DEF LineRises, tables
<1>2. QED
  BY <1>1 DEF TrapAccount, TrapTypes, GivenAccount, FramesAccount, ReturnAccount, Waits, Storing, Top

\* The frames after a trap.
LEMMA FramesAfterTrap ==
    ASSUME NEW s \in Seq(TrapFrame), NEW x \in TrapFrame
    PROVE  LET t == Append([i \in DOMAIN s |-> [s[i] EXCEPT !.nested = TRUE]], x) IN
           /\ t \in Seq(TrapFrame) /\ Len(t) = Len(s) + 1 /\ t[Len(t)] = x /\ Len(s) \in Nat
           /\ \A i \in 1 .. Len(s) :
                /\ t[i].nested /\ t[i].epc = s[i].epc /\ t[i].kind = s[i].kind
                /\ t[i].id = s[i].id /\ t[i].handler = s[i].handler
<1> DEFINE u == [i \in DOMAIN s |-> [s[i] EXCEPT !.nested = TRUE]]
<1>1. DOMAIN s = 1 .. Len(s) /\ Len(s) \in Nat
  BY LenProperties
<1>2. \A f \in TrapFrame : LET g == [f EXCEPT !.nested = TRUE] IN
        /\ g \in TrapFrame /\ g.nested /\ g.epc = f.epc /\ g.kind = f.kind /\ g.id = f.id /\ g.handler = f.handler
  BY DEF TrapFrame
<1>3. \A i \in 1 .. Len(s) : s[i] \in TrapFrame
  BY ElementOfSeq
<1>4. u \in [1 .. Len(s) -> TrapFrame]
  BY <1>1, <1>2, <1>3
<1>5. u \in Seq(TrapFrame) /\ Len(u) = Len(s)
  BY <1>1, <1>4
<1>6. \A i \in 1 .. Len(s) : u[i].nested /\ u[i].epc = s[i].epc /\ u[i].kind = s[i].kind
                             /\ u[i].id = s[i].id /\ u[i].handler = s[i].handler
  BY <1>1, <1>2, <1>3
<1> HIDE DEF u
<1>7. /\ Append(u, x) \in Seq(TrapFrame) /\ Len(Append(u, x)) = Len(s) + 1 /\ Append(u, x)[Len(s) + 1] = x
      /\ \A i \in 1 .. Len(s) : Append(u, x)[i] = u[i]
  BY <1>5, AppendProperties
<1>8. QED
  BY <1>1, <1>6, <1>7 DEF u

LEMMA TrapKeepsAccount ==
    ASSUME TrapAccount, NEW kind \in {"interrupt", "exception"}, NEW id \in TrapLines \cup TrapCodes,
           kind = "interrupt" => id \in TrapLines, kind = "exception" => id \in TrapCodes,
           Trapped(kind, id), halt = "no"
    PROVE  TrapAccount' /\ entry' = entry /\ Len(frames') = Len(frames) + 1 /\ Len(frames) \in Nat
<1>0. TrapTypes /\ GivenAccount /\ FramesAccount /\ ReturnAccount
  BY DEF TrapAccount
<1> DEFINE epc == [to |-> Len(frames), past |-> FALSE]
           handler == HandlerOf(kind, id)
           x == [kind |-> kind, id |-> id, handler |-> handler, epc |-> epc, MIE |-> hart.MIE, nested |-> FALSE]
<1>1. /\ hart' = [hart EXCEPT !.MIE = FALSE, !.MPIE = hart.MIE] /\ tepc' = epc
      /\ frames' = Append([i \in DOMAIN frames |-> [frames[i] EXCEPT !.nested = TRUE]], x)
      /\ UNCHANGED <<entry, exception, toStore, given>>
  BY DEF Trapped, tables
<1>2. frames \in Seq(TrapFrame) /\ Len(frames) \in Nat
  BY <1>0, LenProperties DEF TrapTypes
<1>3. handler \in {"NULL", "default", "user", "nobody"} /\ (kind = "interrupt" => handler = entry[id].handler)
  BY <1>0 DEF TrapTypes, HandlerOf, ByHandler, ByVector
<1>4. x \in TrapFrame
  <2>1. id \in Nat
    <3>1. \A c \in TrapCodes : c \in 0 .. 11
      BY TrapAssumption DEF TrapAssumption
    <3>2. \A c \in 0 .. 11 : c \in Nat
      OBVIOUS
    <3>3. QED
      BY <3>1, <3>2, LinesAreNumbers, Zenon
  <2>2. hart.MIE \in BOOLEAN
    BY <1>0 DEF TrapTypes
  <2> HIDE DEF handler
  <2>3. QED
    BY <1>2, <1>3, <2>1, <2>2 DEF TrapFrame
<1>5. x.kind = kind /\ x.id = id /\ x.handler = handler /\ x.epc = epc /\ x.MIE = hart.MIE /\ ~x.nested
  OBVIOUS
<1> HIDE DEF x, handler
<1>6. /\ frames' \in Seq(TrapFrame) /\ Len(frames') = Len(frames) + 1 /\ frames'[Len(frames')] = x
      /\ \A i \in 1 .. Len(frames) :
            /\ frames'[i].nested /\ frames'[i].epc = frames[i].epc /\ frames'[i].kind = frames[i].kind
            /\ frames'[i].id = frames[i].id /\ frames'[i].handler = frames[i].handler
  <2> DEFINE t == Append([i \in DOMAIN frames |-> [frames[i] EXCEPT !.nested = TRUE]], x)
  <2>1. /\ t \in Seq(TrapFrame) /\ Len(t) = Len(frames) + 1 /\ t[Len(t)] = x
        /\ \A i \in 1 .. Len(frames) :
            /\ t[i].nested /\ t[i].epc = frames[i].epc /\ t[i].kind = frames[i].kind
            /\ t[i].id = frames[i].id /\ t[i].handler = frames[i].handler
    BY <1>2, <1>4, FramesAfterTrap
  <2>2. frames' = t
    BY <1>1
  <2> HIDE DEF t
  <2>3. QED
    BY <2>1, <2>2
<1>7. /\ hart' \in [lines : SUBSET TrapLines, MIE : BOOLEAN, MPIE : BOOLEAN] /\ hart'.MPIE = hart.MIE
      /\ tepc' \in [to : Nat, past : BOOLEAN]
  BY <1>0, <1>1, <1>2 DEF TrapTypes
<1>8. TrapTypes' /\ GivenAccount'
  BY <1>0, <1>1, <1>6, <1>7 DEF TrapTypes, GivenAccount, Waits, Storing
<1>9. FramesAccount'
  <2>1. SUFFICES ASSUME NEW i \in 1 .. Len(frames')
                 PROVE  /\ frames'[i].epc = [to |-> i - 1, past |-> FALSE] /\ (i < Len(frames') => frames'[i].nested)
                        /\ frames'[i].kind = "interrupt" =>
                            /\ frames'[i].id \in TrapLines
                            /\ frames'[i].handler = "user" => entry'[frames'[i].id].own \/ Owed(toStore', frames'[i].id)
    BY DEF FramesAccount
  <2>2. \A l : Storing(l) => Owed(toStore', l)
    BY <1>1 DEF Storing, Owed
  <2>3. CASE i \in 1 .. Len(frames)
    <3>1. /\ frames[i].epc = [to |-> i - 1, past |-> FALSE]
          /\ frames[i].kind = "interrupt" =>
                /\ frames[i].id \in TrapLines
                /\ frames[i].handler = "user" => entry[frames[i].id].own \/ Owed(toStore, frames[i].id)
      BY <1>0, <2>3 DEF FramesAccount
    <3>2. QED
      BY <1>1, <1>6, <2>3, <3>1
  <2>4. CASE i = Len(frames) + 1
    <3>1. frames'[i] = x /\ ~(i < Len(frames')) /\ i - 1 = Len(frames)
      BY <1>2, <1>6, <2>4
    <3>2. x.epc = [to |-> i - 1, past |-> FALSE]
      BY <1>5, <3>1
    <3>3. x.kind = "interrupt" => x.id \in TrapLines /\ (x.handler = "user" => entry'[x.id].own \/ Owed(toStore', x.id))
      BY <1>0, <1>1, <1>3, <1>5, <2>2 DEF GivenAccount
    <3>4. QED
      BY <3>1, <3>2, <3>3
  <2>5. QED
    BY <1>2, <1>6, <2>3, <2>4
<1>10. ReturnAccount'
  <2>1. Top' = x
    BY <1>6 DEF Top
  <2>2. tepc' = x.epc /\ hart'.MPIE = x.MIE /\ ~x.nested
    BY <1>1, <1>5, <1>7
  <2>3. QED
    BY <2>1, <2>2 DEF ReturnAccount
<1>11. QED
  BY <1>1, <1>2, <1>6, <1>8, <1>9, <1>10 DEF TrapAccount

LEMMA ReturnKeepsAccount ==
    ASSUME TrapAccount, Return
    PROVE  TrapAccount' /\ entry' = entry /\ ResumesWhereItWas
<1>0. TrapTypes /\ GivenAccount /\ FramesAccount /\ ReturnAccount
  BY DEF TrapAccount
<1> DEFINE n == Len(frames)
<1>1. /\ halt = "no" /\ frames # <<>> /\ tepc' = PcAfter(Top)
      /\ frames' = SubSeq(frames, 1, n - 1)
      /\ halt' = IF tepc'.to = n - 1 THEN "no" ELSE "lost"
      /\ UNCHANGED <<entry, exception, toStore, given>>
  BY DEF Return, tables
<1>2. PICK lines \in {hart.lines} \cup {hart.lines \ {Top.id}} : hart' = [lines |-> lines, MIE |-> hart.MPIE, MPIE |-> TRUE]
  BY DEF Return
<1>3. frames \in Seq(TrapFrame) /\ n \in Nat /\ n >= 1 /\ n \in 1 .. n
  BY <1>0, <1>1, LenProperties, EmptySeq DEF TrapTypes
<1>4. Top \in TrapFrame /\ Top = frames[n]
  BY <1>3, ElementOfSeq DEF Top
<1>5. /\ frames' \in Seq(TrapFrame) /\ Len(frames') = n - 1
      /\ \A i \in 1 .. n - 1 : frames'[i] = frames[i]
  <2>1. 1 \in Int /\ n - 1 \in Int /\ \A i \in 1 .. n - 1 : frames[i] \in TrapFrame
    BY <1>3, ElementOfSeq
  <2>2. /\ SubSeq(frames, 1, n - 1) \in Seq(TrapFrame)
        /\ Len(SubSeq(frames, 1, n - 1)) = IF 1 <= n - 1 THEN (n - 1) - 1 + 1 ELSE 0
        /\ \A i \in 1 .. (n - 1) - 1 + 1 : SubSeq(frames, 1, n - 1)[i] = frames[1 + i - 1]
    BY <2>1, SubSeqProperties
  <2>3. (n - 1) - 1 + 1 = n - 1 /\ (IF 1 <= n - 1 THEN (n - 1) - 1 + 1 ELSE 0) = n - 1
    <3>1. ASSUME NEW k \in Nat, k >= 1 PROVE (k - 1) - 1 + 1 = k - 1 /\ (1 <= k - 1 \/ k - 1 = 0)
      BY <3>1
    <3> HIDE DEF n
    <3>2. (n - 1) - 1 + 1 = n - 1 /\ (1 <= n - 1 \/ n - 1 = 0)
      BY <1>3, <3>1
    <3>3. QED
      BY <3>2
  <2>4. \A i \in 1 .. n - 1 : 1 + i - 1 = i
    OBVIOUS
  <2>5. Len(SubSeq(frames, 1, n - 1)) = n - 1 /\ \A i \in 1 .. n - 1 : SubSeq(frames, 1, n - 1)[i] = frames[1 + i - 1]
    BY <2>2, <2>3
  <2>6. QED
    BY <1>1, <2>2, <2>4, <2>5
<1> HIDE DEF n
<1>6. Top.epc = [to |-> n - 1, past |-> FALSE]
  BY <1>0, <1>3, <1>4 DEF FramesAccount, n
<1>7. Top.epc.to = n - 1 /\ ~Top.epc.past
  BY <1>6
<1>8. Excepts(Top) => tepc'.to = n - 1 /\ tepc'.past /\ tepc' \in [to : Nat, past : BOOLEAN]
  <2>1. SUFFICES ASSUME Excepts(Top) PROVE tepc'.to = n - 1 /\ tepc'.past /\ tepc' \in [to : Nat, past : BOOLEAN]
    OBVIOUS
  <2>2. tepc' = [Top.epc EXCEPT !.past = TRUE]
    BY <1>1, <2>1 DEF PcAfter, PastInstruction
  <2>3. Top.epc \in [to : Nat, past : BOOLEAN]
    BY <1>4 DEF TrapFrame
  <2>4. QED
    BY <1>7, <2>2, <2>3
<1>9. ~Excepts(Top) => tepc' = tepc
  BY <1>1 DEF PcAfter
<1>10. TrapTypes'
  <2>1. hart' \in [lines : SUBSET TrapLines, MIE : BOOLEAN, MPIE : BOOLEAN]
    BY <1>0, <1>2 DEF TrapTypes
  <2>2. tepc' \in [to : Nat, past : BOOLEAN]
    BY <1>0, <1>8, <1>9 DEF TrapTypes
  <2>3. QED
    BY <1>0, <1>1, <1>5, <2>1, <2>2 DEF TrapTypes
<1>11. GivenAccount'
  BY <1>0, <1>1 DEF GivenAccount, Waits, Storing
<1>12. FramesAccount'
  <2>1. toStore' = toStore /\ entry' = entry
    BY <1>1
  <2>2. \A i \in 1 .. n - 1 : i \in 1 .. n /\ i < n
    BY <1>3
  <2>3. \A i \in 1 .. n - 1 : frames'[i] = frames[i] /\ frames[i].nested
    BY <1>0, <1>5, <2>2 DEF FramesAccount, n
  <2>4. QED
    BY <1>0, <1>1, <1>5, <2>1, <2>2, <2>3 DEF FramesAccount, n
<1>13. ReturnAccount'
  <2>1. SUFFICES ASSUME frames' # <<>>, halt' = "no" PROVE Top'.nested /\ tepc'.to = Len(frames')
    BY DEF ReturnAccount
  <2>2. n - 1 \in 1 .. n - 1 /\ n - 1 < n /\ n - 1 \in 1 .. n
    BY <1>3, <1>5, <2>1, EmptySeq
  <2>3. Top' = frames[n - 1]
    BY <1>5, <2>2 DEF Top
  <2>4. Top'.nested
    BY <1>0, <2>2, <2>3 DEF FramesAccount, n
  <2>5. QED
    BY <1>1, <1>5, <2>1, <2>4 DEF n
<1>14. ResumesWhereItWas
  <2>1. halt' = "lost" => Top.nested /\ ~Excepts(Top)
    BY <1>0, <1>1, <1>7, <1>8, <1>9 DEF ReturnAccount, n
  <2>2. halt' = "no" => (tepc'.past <=> Excepts(Top))
    <3>1. SUFFICES ASSUME halt' = "no", ~Excepts(Top) PROVE ~tepc'.past
      BY <1>8
    <3>2. tepc.to = n - 1
      BY <1>1, <1>9, <3>1 DEF n
    <3>3. ~Top.nested
      BY <1>0, <1>1, <1>3, <3>2 DEF ReturnAccount, n
    <3>4. QED
      BY <1>0, <1>1, <1>7, <1>9, <3>1, <3>3 DEF ReturnAccount
  <2>3. hart'.MIE = Top.MIE \/ Top.nested
    BY <1>0, <1>1, <1>2 DEF ReturnAccount
  <2>4. QED
    BY <2>1, <2>2, <2>3 DEF ResumesWhereItWas
<1>15. QED
  BY <1>1, <1>10, <1>11, <1>12, <1>13, <1>14 DEF TrapAccount

LEMMA EveryTrapStep ==
    TrapAccount /\ [TrapsNext]_trapVars => TrapAccount' /\ [LinesStayLinked /\ ResumesWhereItWas]_trapVars
<1>1. SUFFICES ASSUME TrapAccount, [TrapsNext]_trapVars
               PROVE  TrapAccount' /\ [LinesStayLinked /\ ResumesWhereItWas]_trapVars
  OBVIOUS
<1>2. CASE UNCHANGED trapVars
  BY <1>1, <1>2 DEF trapVars, TrapAccount, TrapTypes, GivenAccount, FramesAccount, ReturnAccount, Waits, Storing, Top
<1>3. Len(frames) \in Nat
  BY <1>1, LenProperties DEF TrapAccount, TrapTypes
<1>4. entry' = entry => LinesStayLinked
  BY DEF LinesStayLinked
<1>5. frames' = frames \/ Len(frames') = Len(frames) + 1 => ResumesWhereItWas
  BY <1>3 DEF ResumesWhereItWas
<1>6. CASE \/ controller_interrupt_init \/ clint0_init \/ controller_interrupt_register \/ StoreNext
           \/ exception_register \/ local_interrupt_mask \/ controller_set_vector_mode \/ software_ipi
  BY <1>1, <1>5, <1>6, ProgramKeepsAccount
<1>7. CASE LineRises
  BY <1>1, <1>4, <1>5, <1>7, LineKeepsAccount
<1>8. CASE TakeInterrupt
  <2>1. PICK l \in raised \cap hart.lines : Trapped("interrupt", l) /\ halt = "no"
    BY <1>8 DEF TakeInterrupt
  <2>2. l \in TrapLines
    BY <1>1, <2>1 DEF TrapAccount, TrapTypes
  <2>3. QED
    BY <1>1, <1>4, <1>5, <2>1, <2>2, TrapKeepsAccount
<1>9. CASE Exception
  BY <1>1, <1>4, <1>5, <1>9, TrapKeepsAccount DEF Exception
<1>10. CASE Return
  BY <1>1, <1>4, <1>10, ReturnKeepsAccount
<1>11. QED
  BY <1>1, <1>2, <1>6, <1>7, <1>8, <1>9, <1>10 DEF TrapsNext

(* riscv_cpu.c:168-740: whatever the lines and the exceptions are, a handler *)
(* that a program gave a line is the one that runs, with its own data unless *)
(* the interrupt falls between the two stores of the call; the line stays    *)
(* linked to the CLINT; and a trap returns to where it came from, with MIE   *)
(* as it was, unless its handler caused another one.                         *)
THEOREM TrapsAreDispatchedInOrder == TrapsSpec => TrapsAreDispatched
<1>1. TrapAccount => (halt = "no" => GivenHandlersRun)
  <2>1. SUFFICES ASSUME TrapAccount PROVE GivenHandlersRun
    OBVIOUS
  <2>2. TrapTypes /\ GivenAccount /\ FramesAccount
    BY <2>1 DEF TrapAccount
  <2>3. \A l \in given \cap TrapLines : entry[l].handler = "user" \/ Storing(l)
    BY <2>2, StoringIs DEF GivenAccount
  <2>4. ASSUME frames # <<>>, Top.kind = "interrupt", Top.handler = "user" PROVE entry[Top.id].own \/ Storing(Top.id)
    <3>1. Len(frames) \in 1 .. Len(frames)
      BY <2>2, <2>4, LenProperties, EmptySeq DEF TrapTypes
    <3>2. QED
      BY <2>2, <2>4, <3>1 DEF FramesAccount, Top, Storing, Owed
  <2>5. QED
    BY <2>3, <2>4 DEF GivenHandlersRun
<1>2. QED
  BY <1>1, TrapStart, EveryTrapStep, PTL DEF TrapsSpec, TrapsAreDispatched

-----------------------------------------------------------------------------
(* Pins that calls and the service routine share (sifive_gpio0.c)           *)

PinOps   == {"set", "clear", "toggle"}
CallPins == PinLeds \cup {PinTrigger} \cup UNION {Source(u) \cup Selector(u) : u \in PinUsers}

\* The edits that calls are made of: nobody gives a pin its first function
\* back, and a call about pending bits writes ones.  The routine's are about two kinds of registers.
LegalEdits ==
    {e \in [reg : GpioRegs, op : PinOps, pins : SUBSET CallPins] :
        e.reg \in PendingRegs \cup {"iof_sel"} => e.op = "set"}
IrqEdits == {e \in LegalEdits : e.reg \in PendingRegs \cup {"port"}}

PinActors == {"main", "irq"}

PinTypes ==
    /\ gpio = [r \in GpioRegs |-> gpio[r]]
    /\ edits \in [PinActors -> Seq(LegalEdits)] /\ edits["irq"] \in Seq(IrqEdits)
    /\ seen = [a \in PinActors |-> seen[a]]
    /\ \A a \in PinActors : seen[a] # <<>> => edits[a] # <<>>

\* What an actor has read is still there when it writes, but for pending bits and for
\* PORT under the program.
SeenIsCurrent ==
    /\ seen["main"] # <<>> =>
        LET r == Head(edits["main"]).reg
        IN  r \notin PendingRegs /\ (r = "port" => ~raced) => seen["main"][1] = gpio[r]
    /\ seen["irq"] # <<>> /\ Head(edits["irq"]).reg = "port" => seen["irq"][1] = gpio["port"]

LedsAsAsked == raced \/ gpio["port"] = ledsAsked

PinsAccount == PinTypes /\ SeenIsCurrent /\ LedsAsAsked

LEMMA GpioNames ==
    /\ {"input_en", "output_en", "port", "iof_en", "iof_sel"} \cup PendingRegs \subseteq GpioRegs
    /\ \A k \in PinKinds : Enables(k) \in GpioRegs \ (PendingRegs \cup {"iof_sel"}) /\ Pendings(k) \in PendingRegs
    /\ {"input_en", "output_en", "port", "iof_en", "iof_sel"} \cap PendingRegs = {}
<1>1. \A k \in {"rise", "fall", "high", "low"} :
        /\ Enables(k) \in {"rise_ie", "fall_ie", "high_ie", "low_ie"}
        /\ Pendings(k) \in {"rise_ip", "fall_ip", "high_ip", "low_ip"}
  BY DEF Enables, Pendings
<1>2. PendingRegs \subseteq {"rise_ip", "fall_ip", "high_ip", "low_ip"}
  BY <1>1, PinAssumption DEF PendingRegs, PinAssumption
<1>3. {"input_en", "output_en", "port", "iof_en", "iof_sel"} \cap PendingRegs = {}
  BY <1>2
<1>4. \A k \in PinKinds : Enables(k) \in {"rise_ie", "fall_ie", "high_ie", "low_ie"} /\ Pendings(k) \in PendingRegs
  BY <1>1, PinAssumption DEF PendingRegs, PinAssumption
<1>5. \A k \in PinKinds : Enables(k) \in GpioRegs
  BY DEF GpioRegs
<1>6. QED
  BY <1>2, <1>3, <1>4, <1>5 DEF GpioRegs

LEMMA EditIsLegal ==
    ASSUME NEW r \in GpioRegs, NEW o \in PinOps, NEW p \in SUBSET CallPins,
           r \in PendingRegs \cup {"iof_sel"} => o = "set"
    PROVE  /\ Edit(r, o, p) \in LegalEdits /\ <<Edit(r, o, p)>> \in Seq(LegalEdits)
           /\ r \in PendingRegs \cup {"port"} => <<Edit(r, o, p)>> \in Seq(IrqEdits)
<1>1. /\ Edit(r, o, p) \in [reg : GpioRegs, op : PinOps, pins : SUBSET CallPins]
      /\ Edit(r, o, p).reg = r /\ Edit(r, o, p).op = o
  BY DEF Edit
<1>2. Edit(r, o, p) \in LegalEdits
  BY <1>1 DEF LegalEdits
<1>3. r \in PendingRegs \cup {"port"} => Edit(r, o, p) \in IrqEdits
  BY <1>1, <1>2 DEF IrqEdits
<1>4. QED
  BY <1>2, <1>3

LEMMA FourEdits ==
    ASSUME NEW S, NEW a \in Seq(S), NEW b \in Seq(S), NEW c \in Seq(S), NEW d \in Seq(S)
    PROVE  a \o b \o c \o d \in Seq(S)
  BY ConcatProperties

LEMMA KindsAreLegal ==
    ASSUME NEW ks
    PROVE  /\ config_int(PinTrigger, ks) \in Seq(LegalEdits)
           /\ config_int_off(PinTrigger) \in Seq(LegalEdits)
           /\ clear_int(PinTrigger, ks) \in Seq(IrqEdits)
<1>0. {PinTrigger} \in SUBSET CallPins
  BY DEF CallPins
<1>1. \A k \in PinKinds : /\ <<Edit(Enables(k), "set", {PinTrigger})>> \in Seq(LegalEdits)
                          /\ <<Edit(Enables(k), "clear", {PinTrigger})>> \in Seq(LegalEdits)
  <2>1. TAKE k \in PinKinds
  <2>2. Enables(k) \in GpioRegs /\ Enables(k) \notin PendingRegs \cup {"iof_sel"}
    BY GpioNames
  <2>3. QED
    BY <1>0, <2>2, EditIsLegal DEF PinOps
<1>2. \A k \in PinKinds : <<Edit(Pendings(k), "set", {PinTrigger})>> \in Seq(IrqEdits)
  <2>1. TAKE k \in PinKinds
  <2>2. Pendings(k) \in GpioRegs /\ Pendings(k) \in PendingRegs
    BY GpioNames
  <2>3. QED
    BY <1>0, <2>2, EditIsLegal DEF PinOps
<1>3. <<>> \in Seq(LegalEdits) /\ <<>> \in Seq(IrqEdits)
  OBVIOUS
<1>4. config_int(PinTrigger, ks) \in Seq(LegalEdits)
  <2> DEFINE some(k) == IF k \in ks \cap PinKinds THEN <<Edit(Enables(k), "set", {PinTrigger})>> ELSE <<>>
  <2>1. \A k : some(k) \in Seq(LegalEdits)
    BY <1>1, <1>3
  <2>2. config_int(PinTrigger, ks) = some("rise") \o some("fall") \o some("high") \o some("low")
    BY DEF config_int, ForKinds
  <2> HIDE DEF some
  <2>3. QED
    BY <2>1, <2>2, FourEdits
<1>5. config_int_off(PinTrigger) \in Seq(LegalEdits)
  <2> DEFINE some(k) == IF k \in PinKinds \cap PinKinds THEN <<Edit(Enables(k), "clear", {PinTrigger})>> ELSE <<>>
  <2>1. \A k : some(k) \in Seq(LegalEdits)
    BY <1>1, <1>3
  <2>2. config_int_off(PinTrigger) = some("rise") \o some("fall") \o some("high") \o some("low")
    BY DEF config_int_off, ForKinds
  <2> HIDE DEF some
  <2>3. QED
    BY <2>1, <2>2, FourEdits
<1>6. clear_int(PinTrigger, ks) \in Seq(IrqEdits)
  <2> DEFINE some(k) == IF k \in ks \cap PinKinds THEN <<Edit(Pendings(k), "set", {PinTrigger})>> ELSE <<>>
  <2>1. \A k : some(k) \in Seq(IrqEdits)
    BY <1>2, <1>3
  <2>2. clear_int(PinTrigger, ks) = some("rise") \o some("fall") \o some("high") \o some("low")
    BY DEF clear_int, ForKinds
  <2> HIDE DEF some
  <2>3. QED
    BY <2>1, <2>2, FourEdits
<1>7. QED
  BY <1>4, <1>5, <1>6

LEMMA IrqEditsAreLegal == \A s \in Seq(IrqEdits) : s \in Seq(LegalEdits)
  BY DEF IrqEdits

LEMMA CallsAreLegal ==
    /\ PinCalls \subseteq Seq(LegalEdits)
    /\ IrqCalls \subseteq Seq(IrqEdits)
<1>0. /\ \A u \in PinUsers : Source(u) \in SUBSET CallPins /\ Selector(u) \in SUBSET CallPins
      /\ \A p \in PinLeds \cup {PinTrigger} : {p} \in SUBSET CallPins
  BY DEF CallPins
<1>1. \A r \in {"input_en", "output_en", "port", "iof_en"}, o \in PinOps, p \in SUBSET CallPins : <<Edit(r, o, p)>> \in Seq(LegalEdits)
  <2>1. TAKE r \in {"input_en", "output_en", "port", "iof_en"}, o \in PinOps, p \in SUBSET CallPins
  <2>2. r \in GpioRegs /\ r \notin PendingRegs \cup {"iof_sel"}
    BY GpioNames
  <2>3. QED
    BY <2>2, EditIsLegal
<1>2. \A p \in SUBSET CallPins : <<Edit("iof_sel", "set", p)>> \in Seq(LegalEdits)
  BY GpioNames, EditIsLegal DEF PinOps
<1>3. \A o \in PinOps, p \in PinLeds : Output(o, p) \in Seq(LegalEdits) /\ Output(o, p) \in Seq(IrqEdits)
  <2>1. TAKE o \in PinOps, p \in PinLeds
  <2>2. "port" \in GpioRegs /\ "port" \notin PendingRegs \cup {"iof_sel"} /\ {p} \in SUBSET CallPins
    BY <1>0, GpioNames
  <2>3. QED
    BY <2>2, EditIsLegal DEF Output
<1>4. \A u \in PinUsers : enable_io(u) \in Seq(LegalEdits) /\ disable_io(u) \in Seq(LegalEdits)
  <2>1. TAKE u \in PinUsers
  <2>2. <<Edit("iof_sel", "set", Selector(u))>> \in Seq(LegalEdits) /\ <<Edit("iof_en", "set", Source(u))>> \in Seq(LegalEdits)
        /\ disable_io(u) \in Seq(LegalEdits)
    BY <1>0, <1>1, <1>2 DEF disable_io, PinOps
  <2>3. Edit("iof_sel", "set", Selector(u)) \in LegalEdits /\ Edit("iof_en", "set", Source(u)) \in LegalEdits
    BY <1>0, GpioNames, EditIsLegal DEF PinOps
  <2>4. QED
    BY <2>2, <2>3 DEF enable_io
<1>5. \A p \in PinLeds : led_enable(p) \in Seq(LegalEdits)
  <2>1. TAKE p \in PinLeds
  <2>2. Edit("input_en", "clear", {p}) \in LegalEdits /\ Edit("output_en", "set", {p}) \in LegalEdits
    BY <1>0, GpioNames, EditIsLegal DEF PinOps
  <2>3. QED
    BY <2>2 DEF led_enable
<1>6. \A p \in PinLeds : OutputCalls(p) \subseteq Seq(LegalEdits)
  BY <1>3 DEF OutputCalls, set_pin, PinOps
<1>7. DirectionCalls(PinTrigger) \subseteq Seq(LegalEdits)
  <2> DEFINE one(r, o) == <<Edit(r, o, {PinTrigger})>>
  <2>1. \A r \in {"input_en", "output_en"}, o \in {"set", "clear"} : one(r, o) \in Seq(LegalEdits)
    BY <1>0, <1>1 DEF PinOps
  <2>2. DirectionCalls(PinTrigger) = {one(r, o) : r \in {"input_en", "output_en"}, o \in {"set", "clear"}}
    BY DEF DirectionCalls
  <2> HIDE DEF one
  <2>3. QED
    BY <2>1, <2>2
<1>8. PinIntCalls(PinTrigger) \subseteq Seq(LegalEdits)
  BY KindsAreLegal, IrqEditsAreLegal DEF PinIntCalls
<1>9. PinCalls \subseteq Seq(LegalEdits)
  <2>1. ASSUME NEW c \in PinCalls PROVE c \in Seq(LegalEdits)
    <3>1. CASE c \in {enable_io(u) : u \in PinUsers} \/ c \in {disable_io(u) : u \in PinUsers \cap {"pwm0", "pwm2"}}
      BY <1>4, <3>1
    <3>2. CASE c \in UNION {{led_enable(p)} \cup OutputCalls(p) : p \in PinLeds}
      BY <1>5, <1>6, <3>2
    <3>3. CASE c \in DirectionCalls(PinTrigger) \cup PinIntCalls(PinTrigger)
      BY <1>7, <1>8, <3>3
    <3>4. QED
      BY <2>1, <3>1, <3>2, <3>3, Zenon DEF PinCalls
  <2>2. QED
    BY <2>1
<1>10. ASSUME NEW p \in PinLeds PROVE clear_int(PinTrigger, PinKinds) \o Output("toggle", p) \in Seq(IrqEdits)
  BY <1>3, KindsAreLegal, ConcatProperties DEF PinOps
<1>11. QED
  BY <1>9, <1>10 DEF IrqCalls

LEMMA PinsStart == PinsInit => PinsAccount
<1>1. SUFFICES ASSUME PinsInit PROVE PinsAccount
  OBVIOUS
<1>2. PinTypes
  BY <1>1 DEF PinsInit, PinTypes, PinActors
<1>3. gpio["port"] = {}
  BY <1>1, GpioNames DEF PinsInit
<1>4. QED
  BY <1>1, <1>2, <1>3 DEF PinsInit, PinsAccount, SeenIsCurrent, LedsAsAsked

LEMMA EntryKeepsAccount ==
    ASSUME PinsAccount, EnterCall \/ Interrupt
    PROVE  PinsAccount' /\ gpio' = gpio /\ \A a \in PinActors : seen[a] # <<>> => edits'[a] = edits[a]
<1>0. PinTypes /\ SeenIsCurrent /\ LedsAsAsked
  BY DEF PinsAccount
<1>1. UNCHANGED <<gpio, seen, ledsAsked, raced>>
  BY DEF EnterCall, Interrupt
<1>2. CASE EnterCall
  <2>1. PICK c \in PinCalls : edits' = [edits EXCEPT !["main"] = c]
    BY <1>2 DEF EnterCall
  <2>2. seen["main"] = <<>>
    BY <1>0, <1>2 DEF EnterCall, PinTypes, PinActors
  <2>3. c \in Seq(LegalEdits)
    BY <2>1, CallsAreLegal
  <2>4. edits'["irq"] = edits["irq"] /\ edits' \in [PinActors -> Seq(LegalEdits)]
    BY <1>0, <2>1, <2>3 DEF PinTypes, PinActors
  <2>5. PinTypes'
    BY <1>0, <1>1, <2>2, <2>4 DEF PinTypes, PinActors
  <2>6. SeenIsCurrent'
    BY <1>0, <1>1, <2>2, <2>4 DEF SeenIsCurrent
  <2>7. QED
    BY <1>0, <1>1, <2>2, <2>4, <2>5, <2>6 DEF PinsAccount, LedsAsAsked, PinActors
<1>3. CASE Interrupt
  <2>1. PICK c \in IrqCalls : edits' = [edits EXCEPT !["irq"] = c]
    BY <1>3 DEF Interrupt
  <2>2. seen["irq"] = <<>>
    BY <1>0, <1>3 DEF Interrupt, PinTypes, PinActors
  <2>3. c \in Seq(LegalEdits) /\ c \in Seq(IrqEdits)
    BY <2>1, CallsAreLegal, IrqEditsAreLegal
  <2>4. edits'["main"] = edits["main"] /\ edits' \in [PinActors -> Seq(LegalEdits)] /\ edits'["irq"] = c
    BY <1>0, <2>1, <2>3 DEF PinTypes, PinActors
  <2>5. PinTypes'
    BY <1>0, <1>1, <2>2, <2>3, <2>4 DEF PinTypes, PinActors
  <2>6. SeenIsCurrent'
    BY <1>0, <1>1, <2>2, <2>4 DEF SeenIsCurrent
  <2>7. QED
    BY <1>0, <1>1, <2>2, <2>4, <2>5, <2>6 DEF PinsAccount, LedsAsAsked, PinActors
<1>4. QED
  BY <1>2, <1>3

LEMMA ChangeKeepsAccount ==
    ASSUME PinsAccount, PinChanges
    PROVE  PinsAccount' /\ gpio'["iof_sel"] = gpio["iof_sel"] /\ edits' = edits
<1>0. PinTypes /\ SeenIsCurrent /\ LedsAsAsked
  BY DEF PinsAccount
<1>1. PICK k \in PinKinds, p \in PinLeds \cup {PinTrigger} : gpio' = [gpio EXCEPT ![Pendings(k)] = @ \cup {p}]
  BY DEF PinChanges
<1>2. UNCHANGED <<edits, seen, ledsAsked, raced>>
  BY DEF PinChanges
<1>3. Pendings(k) \in PendingRegs
  BY GpioNames
<1>4. /\ gpio' = [r \in GpioRegs |-> gpio'[r]]
      /\ \A r \in GpioRegs \ PendingRegs : gpio'[r] = gpio[r]
  BY <1>0, <1>1, <1>3 DEF PinTypes
<1>5. gpio'["port"] = gpio["port"] /\ gpio'["iof_sel"] = gpio["iof_sel"]
  BY <1>4, GpioNames
<1>6. seen["main"] # <<>> => Head(edits["main"]).reg \in GpioRegs
  <2>1. SUFFICES ASSUME seen["main"] # <<>> PROVE Head(edits["main"]).reg \in GpioRegs
    OBVIOUS
  <2>2. edits["main"] \in Seq(LegalEdits) /\ edits["main"] # <<>>
    BY <1>0, <2>1 DEF PinTypes, PinActors
  <2>3. QED
    BY <2>2, HeadTailProperties DEF LegalEdits
<1>7. PinTypes' /\ LedsAsAsked'
  BY <1>0, <1>2, <1>4, <1>5 DEF PinTypes, LedsAsAsked
<1>8. SeenIsCurrent'
  BY <1>0, <1>2, <1>4, <1>5, <1>6 DEF SeenIsCurrent
<1>9. QED
  BY <1>2, <1>5, <1>7, <1>8 DEF PinsAccount

LEMMA ReadKeepsAccount ==
    ASSUME PinsAccount, NEW a \in PinActors, ReadReg(a)
    PROVE  PinsAccount' /\ gpio' = gpio /\ edits' = edits
<1>0. PinTypes /\ SeenIsCurrent /\ LedsAsAsked
  BY DEF PinsAccount
<1>1. /\ edits[a] # <<>> /\ (a = "main" => edits["irq"] = <<>>) /\ seen[a] = <<>>
      /\ seen' = [seen EXCEPT ![a] = <<gpio[Head(edits[a]).reg]>>]
      /\ UNCHANGED <<gpio, edits, ledsAsked, raced>>
  BY DEF ReadReg, Runs
<1>2. /\ seen' = [b \in PinActors |-> seen'[b]] /\ \A b \in PinActors \ {a} : seen'[b] = seen[b]
      /\ seen'[a] = <<gpio[Head(edits[a]).reg]>>
  BY <1>0, <1>1 DEF PinTypes
<1>3. seen'[a][1] = gpio[Head(edits[a]).reg]
  BY <1>2
<1>4. PinTypes'
  BY <1>0, <1>1, <1>2 DEF PinTypes
<1>5. SeenIsCurrent'
  BY <1>0, <1>1, <1>2, <1>3 DEF SeenIsCurrent, PinActors
<1>6. QED
  BY <1>0, <1>1, <1>4, <1>5 DEF PinsAccount, LedsAsAsked

LEMMA WriteKeepsAccount ==
    ASSUME PinsAccount, NEW a \in PinActors, WriteReg(a)
    PROVE  /\ PinsAccount'
           /\ gpio["iof_sel"] \subseteq gpio'["iof_sel"]
           /\ \A b \in PinActors \ {a} : edits'[b] = edits[b]
           /\ Head(edits[a]).reg \in PendingRegs => gpio'[Head(edits[a]).reg] \cap seen[a][1] = {}
<1>0. PinTypes /\ SeenIsCurrent /\ LedsAsAsked
  BY DEF PinsAccount
<1> DEFINE e == Head(edits[a])
           v == seen[a][1]
<1>1. edits[a] # <<>> /\ (a = "main" => edits["irq"] = <<>>) /\ seen[a] # <<>>
  BY DEF WriteReg, Runs
<1>2. /\ gpio' = [gpio EXCEPT ![e.reg] = Stored(e.reg, Apply(e, v))]
      /\ ledsAsked' = IF e.reg = "port" THEN Apply(e, ledsAsked) ELSE ledsAsked
      /\ raced' = (raced \/ (a = "irq" /\ e.reg = "port" /\ seen["main"] # <<>> /\ Head(edits["main"]).reg = "port"))
      /\ edits' = [edits EXCEPT ![a] = Tail(@)]
      /\ seen' = [seen EXCEPT ![a] = <<>>]
  BY DEF WriteReg, Result
<1>3. edits[a] \in Seq(LegalEdits) /\ (a = "irq" => edits[a] \in Seq(IrqEdits))
  BY <1>0 DEF PinTypes
<1>4. /\ e \in LegalEdits /\ Tail(edits[a]) \in Seq(LegalEdits)
      /\ a = "irq" => e \in IrqEdits /\ Tail(edits[a]) \in Seq(IrqEdits)
  BY <1>1, <1>3, HeadTailProperties
<1>5. /\ e.reg \in GpioRegs /\ (e.reg \in PendingRegs \cup {"iof_sel"} => e.op = "set")
      /\ a = "irq" => e.reg \in PendingRegs \cup {"port"}
  BY <1>4 DEF LegalEdits, IrqEdits
<1> HIDE DEF e, v
<1>6. /\ gpio' = [r \in GpioRegs |-> gpio'[r]]
      /\ gpio'[e.reg] = Stored(e.reg, Apply(e, v))
      /\ \A r \in GpioRegs \ {e.reg} : gpio'[r] = gpio[r]
  BY <1>0, <1>2, <1>5 DEF PinTypes
<1>7. /\ seen' = [b \in PinActors |-> seen'[b]] /\ seen'[a] = <<>>
      /\ \A b \in PinActors \ {a} : seen'[b] = seen[b] /\ edits'[b] = edits[b]
      /\ edits' \in [PinActors -> Seq(LegalEdits)] /\ edits'["irq"] \in Seq(IrqEdits)
  BY <1>0, <1>2, <1>4 DEF PinTypes, PinActors
<1>8. PinTypes'
  BY <1>0, <1>6, <1>7 DEF PinTypes
<1>9. seen["irq"] # <<>> => a = "irq"
  BY <1>0, <1>1 DEF PinTypes, PinActors
<1>10. e.reg \notin PendingRegs /\ (e.reg = "port" /\ a = "main" => ~raced) => v = gpio[e.reg]
  BY <1>0, <1>1, <1>5 DEF SeenIsCurrent, PinActors, e, v
<1>11. gpio["iof_sel"] \subseteq gpio'["iof_sel"]
  <2>1. CASE e.reg = "iof_sel"
    <3>1. v = gpio["iof_sel"] /\ "iof_sel" \notin PendingRegs
      BY <1>10, <2>1, GpioNames
    <3>2. gpio'["iof_sel"] = v \cup e.pins
      BY <1>5, <1>6, <2>1, <3>1 DEF Stored, Apply
    <3>3. QED
      BY <3>1, <3>2
  <2>2. CASE e.reg # "iof_sel"
    BY <1>6, <2>2, GpioNames
  <2>3. QED
    BY <2>1, <2>2
<1>12. e.reg \in PendingRegs => gpio'[e.reg] \cap v = {}
  BY <1>5, <1>6 DEF Stored, Apply
<1>13. LedsAsAsked'
  <2>1. CASE e.reg = "port"
    <3>1. "port" \notin PendingRegs
      BY GpioNames
    <3>2. gpio'["port"] = Apply(e, v) /\ ledsAsked' = Apply(e, ledsAsked)
      BY <1>2, <1>6, <2>1, <3>1 DEF Stored, e
    <3>3. ~raced => v = ledsAsked
      BY <1>0, <1>10, <2>1, <3>1 DEF LedsAsAsked
    <3>4. raced => raced'
      BY <1>2
    <3>5. QED
      BY <3>2, <3>3, <3>4 DEF LedsAsAsked
  <2>2. CASE e.reg # "port"
    <3>1. gpio'["port"] = gpio["port"] /\ ledsAsked' = ledsAsked
      BY <1>2, <1>6, <2>2, GpioNames DEF e
    <3>2. raced => raced'
      BY <1>2
    <3>3. QED
      BY <1>0, <3>1, <3>2 DEF LedsAsAsked
  <2>3. QED
    BY <2>1, <2>2
<1>14. SeenIsCurrent'
  <2>1. CASE a = "main"
    BY <1>7, <1>9, <2>1 DEF SeenIsCurrent, PinActors
  <2>2. CASE a = "irq"
    <3>1. seen'["main"] = seen["main"] /\ edits'["main"] = edits["main"] /\ seen'["irq"] = <<>>
      BY <1>7, <2>2 DEF PinActors
    <3>2. SUFFICES ASSUME seen["main"] # <<>>,
                          Head(edits["main"]).reg \notin PendingRegs, Head(edits["main"]).reg = "port" => ~raced'
                   PROVE  seen["main"][1] = gpio'[Head(edits["main"]).reg]
      BY <3>1 DEF SeenIsCurrent
    <3>3. edits["main"] \in Seq(LegalEdits) /\ edits["main"] # <<>>
      BY <1>0, <3>2 DEF PinTypes, PinActors
    <3>4. Head(edits["main"]).reg \in GpioRegs
      BY <3>3, HeadTailProperties DEF LegalEdits
    <3>5. Head(edits["main"]).reg # e.reg
      BY <1>2, <1>5, <2>2, <3>2 DEF e
    <3>6. Head(edits["main"]).reg = "port" => ~raced
      BY <1>2, <3>2
    <3>7. seen["main"][1] = gpio[Head(edits["main"]).reg]
      BY <1>0, <3>2, <3>6 DEF SeenIsCurrent
    <3>8. QED
      BY <1>6, <3>4, <3>5, <3>7
  <2>3. QED
    BY <2>1, <2>2 DEF PinActors
<1>15. QED
  BY <1>7, <1>8, <1>11, <1>12, <1>13, <1>14 DEF PinsAccount, e, v

LEMMA EveryPinStep ==
    PinsAccount /\ [PinsNext]_pinsVars => PinsAccount' /\ [PwmKeepsItsPins /\ ClearSweepsAll]_pinsVars
<1>1. SUFFICES ASSUME PinsAccount, [PinsNext]_pinsVars
               PROVE  PinsAccount' /\ [PwmKeepsItsPins /\ ClearSweepsAll]_pinsVars
  OBVIOUS
<1>2. CASE UNCHANGED pinsVars
  BY <1>1, <1>2 DEF pinsVars, PinsAccount, PinTypes, SeenIsCurrent, LedsAsAsked
<1>3. CASE EnterCall \/ Interrupt
  BY <1>1, <1>3, EntryKeepsAccount DEF PwmKeepsItsPins, ClearSweepsAll, PinActors
<1>4. CASE PinChanges
  BY <1>1, <1>4, ChangeKeepsAccount DEF PwmKeepsItsPins, ClearSweepsAll
<1>5. ASSUME NEW a \in PinActors, ReadReg(a) PROVE PinsAccount' /\ PwmKeepsItsPins /\ ClearSweepsAll
  BY <1>1, <1>5, ReadKeepsAccount DEF PwmKeepsItsPins, ClearSweepsAll
<1>6. ASSUME NEW a \in PinActors, WriteReg(a) PROVE PinsAccount' /\ PwmKeepsItsPins /\ ClearSweepsAll
  BY <1>1, <1>6, WriteKeepsAccount DEF PwmKeepsItsPins, ClearSweepsAll, PinActors
<1>7. QED
  BY <1>1, <1>2, <1>3, <1>4, <1>5, <1>6 DEF PinsNext, PinActors

(* sifive_gpio0.c:70-219: whatever the pins, drivers and kinds of interrupts  *)
(* are, a pin that served a PWM keeps its second function, clearing one      *)
(* pin's interrupt clears all that were read, and the LEDs are as asked       *)
(* unless the routine wrote them between a read and the write of the program.*)
THEOREM PinsAreAsShared == PinsSpec => PinsAreShared
<1>1. PinsAccount => LedsAsAsked
  BY DEF PinsAccount
<1>2. QED
  BY <1>1, PinsStart, EveryPinStep, PTL DEF PinsSpec, PinsAreShared, LedsAsAsked

-----------------------------------------------------------------------------
(* A UART that the program and its routine share (sifive_uart0.c)            *)

UartRegs == {"ie", "txcnt", "rxcnt"}
FieldBits     == 0 .. 2

\* A call that only edits, what is left of the callback, and the steps of putc and getc.
UartEdits == {e \in [reg : UartRegs, op : {"set", "clear"}, pins : SUBSET FieldBits] : e.reg = "rxcnt" => e.op = "set"}
RaiseLevel == <<Edit("txcnt", "set", {0}), Do("empty"), Do("switch")>>
AwaitEmpty == <<Do("empty"), Do("switch")>>
RateTails  == {RaiseLevel, AwaitEmpty, <<Do("switch")>>}
ByteSteps  == {uart_putc, <<Do("push")>>, uart_getc}
IrqLists   == {<<>>} \cup ByteSteps \cup {<<e>> : e \in {x \in UartEdits : x.reg = "ie"}}
MainLists  == {<<>>, uart_pre_rate_change} \cup ByteSteps \cup RateTails \cup {<<e>> : e \in UartEdits}

UartTypes ==
    /\ uregs \in [UartRegs -> SUBSET FieldBits]
    /\ txBytes \in Nat /\ rxBytes \in Nat
    /\ ucalls = [a \in UartActors |-> ucalls[a]]
    /\ ucalls["main"] \in MainLists /\ ucalls["irq"] \in IrqLists
    /\ uheld = [a \in UartActors |-> uheld[a]]
    /\ \A a \in UartActors : uheld[a] # <<>> =>
            ucalls[a] # <<>> /\ Head(ucalls[a]).reg \in UartRegs /\ uheld[a][1] \in SUBSET FieldBits
    /\ rxLevel \in Nat

\* What an actor has read is still there when it writes, but for IE under the program.
HeldIsCurrent ==
    \A a \in UartActors : uheld[a] # <<>> =>
        \/ uheld[a][1] = uregs[Head(ucalls[a]).reg]
        \/ a = "main" /\ Head(ucalls[a]).reg = "ie" /\ ieRaced

\* The receive watermark is high enough, or its edit is on its way.
LevelIsComing ==
    \/ rxLevel <= LevelOf(uregs["rxcnt"])
    \/ /\ ucalls["main"] # <<>> /\ Head(ucalls["main"]).reg = "rxcnt"
       /\ rxLevel = LevelOf(Head(ucalls["main"]).pins)

\* What a polling loop saw is so until the routine sends a byte.
SeenIsSo ==
    /\ ucalls["main"] = <<Do("push")>> => txBytes < UartFifo \/ refilled
    /\ ucalls["irq"] = <<Do("push")>> => txBytes < UartFifo
    /\ ucalls["main"] = RaiseLevel => uregs["txcnt"] = {}
    /\ ucalls["main"] \in {AwaitEmpty, <<Do("switch")>>} => uregs["txcnt"] = {0}
    /\ ucalls["main"] = <<Do("switch")>> => txBytes = 0 \/ refilled

UartAccount == UartTypes /\ InterruptsAsAsked /\ HeldIsCurrent /\ LevelIsComing /\ SeenIsSo

LEMMA LevelFacts ==
    /\ BitsOf(1) = {0} /\ BitsOf(7) = FieldBits /\ \A l : BitsOf(l) \in SUBSET FieldBits
    /\ LevelOf({0}) = 1
    /\ \A X, Y : X \subseteq Y => LevelOf(X) <= LevelOf(Y)
    /\ \A X : LevelOf(X) \in Nat
<1>1. BitsOf(1) = {0} /\ BitsOf(7) = FieldBits
  BY SMT DEF BitsOf, Weight, FieldBits
<1>2. \A l : BitsOf(l) \in SUBSET FieldBits
  BY DEF BitsOf, FieldBits
<1>3. LevelOf({0}) = 1 /\ \A X : LevelOf(X) \in Nat
  BY SMT DEF LevelOf, Weight
<1>4. \A X, Y : X \subseteq Y => LevelOf(X) <= LevelOf(Y)
  BY SMT DEF LevelOf, Weight
<1>5. QED
  BY <1>1, <1>2, <1>3, <1>4

LEMMA UartListsAre ==
    /\ <<>> \notin ByteSteps \cup RateTails \cup {uart_pre_rate_change} \cup {<<e>> : e \in UartEdits}
    /\ Head(uart_putc) = Do("poll") /\ Tail(uart_putc) = <<Do("push")>>
    /\ Head(<<Do("push")>>) = Do("push") /\ Tail(<<Do("push")>>) = <<>>
    /\ Head(uart_getc) = Do("get") /\ Tail(uart_getc) = <<>>
    /\ Head(uart_pre_rate_change) = Edit("txcnt", "clear", FieldBits) /\ Tail(uart_pre_rate_change) = RaiseLevel
    /\ Head(RaiseLevel) = Edit("txcnt", "set", {0}) /\ Tail(RaiseLevel) = AwaitEmpty
    /\ Head(AwaitEmpty) = Do("empty") /\ Tail(AwaitEmpty) = <<Do("switch")>>
    /\ Head(<<Do("switch")>>) = Do("switch") /\ Tail(<<Do("switch")>>) = <<>>
    /\ \A e \in UartEdits : Head(<<e>>) = e /\ Tail(<<e>>) = <<>>
<1>1. <<>> \notin ByteSteps \cup RateTails \cup {<<e>> : e \in UartEdits}
  BY DEF ByteSteps, RateTails, uart_putc, uart_getc, RaiseLevel, AwaitEmpty
<1>2. /\ <<>> # uart_pre_rate_change /\ Head(uart_pre_rate_change) = Edit("txcnt", "clear", FieldBits)
      /\ Tail(uart_pre_rate_change) = RaiseLevel
  BY LevelFacts DEF uart_pre_rate_change, RaiseLevel
<1>3. /\ Head(RaiseLevel) = Edit("txcnt", "set", {0}) /\ Tail(RaiseLevel) = AwaitEmpty
      /\ Head(AwaitEmpty) = Do("empty") /\ Tail(AwaitEmpty) = <<Do("switch")>>
      /\ Head(<<Do("switch")>>) = Do("switch") /\ Tail(<<Do("switch")>>) = <<>>
  BY DEF RaiseLevel, AwaitEmpty
<1>4. /\ Head(uart_putc) = Do("poll") /\ Tail(uart_putc) = <<Do("push")>>
      /\ Head(<<Do("push")>>) = Do("push") /\ Tail(<<Do("push")>>) = <<>>
      /\ Head(uart_getc) = Do("get") /\ Tail(uart_getc) = <<>>
  BY DEF uart_putc, uart_getc
<1>5. QED
  BY <1>1, <1>2, <1>3, <1>4

LEMMA ListsDiffer ==
    /\ <<>> \notin {<<Do("push")>>, <<Do("switch")>>, RaiseLevel, AwaitEmpty}
    /\ <<Do("push")>> \notin {<<Do("switch")>>, RaiseLevel, AwaitEmpty}
    /\ <<Do("switch")>> \notin {RaiseLevel, AwaitEmpty} /\ RaiseLevel # AwaitEmpty
<1>1. Len(<<Do("push")>>) = 1 /\ Len(<<Do("switch")>>) = 1 /\ Len(RaiseLevel) = 3 /\ Len(AwaitEmpty) = 2 /\ Len(<<>>) = 0
  BY DEF RaiseLevel, AwaitEmpty
<1>2. Head(<<Do("push")>>).reg = "push" /\ Head(<<Do("switch")>>).reg = "switch"
  BY DEF Do, Edit
<1> DEFINE push == <<Do("push")>>
           switch == <<Do("switch")>>
<1> HIDE DEF push, switch
<1>3. /\ <<>> # push /\ <<>> # switch /\ <<>> # RaiseLevel /\ <<>> # AwaitEmpty
      /\ push # switch /\ push # RaiseLevel /\ push # AwaitEmpty
      /\ switch # RaiseLevel /\ switch # AwaitEmpty /\ RaiseLevel # AwaitEmpty
  <2>1. Len(push) = 1 /\ Len(switch) = 1 /\ Head(push).reg = "push" /\ Head(switch).reg = "switch"
    BY <1>1, <1>2 DEF push, switch
  <2>2. push # switch
    BY <2>1
  <2>3. <<>> # push /\ <<>> # switch
    BY <2>1
  <2>4. <<>> # RaiseLevel /\ <<>> # AwaitEmpty
    BY <1>1
  <2>5. push # RaiseLevel /\ push # AwaitEmpty /\ switch # RaiseLevel /\ switch # AwaitEmpty
    BY <1>1, <2>1
  <2>6. RaiseLevel # AwaitEmpty
    BY <1>1
  <2>7. QED
    BY <2>2, <2>3, <2>4, <2>5, <2>6
<1>4. QED
  BY <1>3 DEF push, switch

LEMMA StepsDiffer ==
    /\ \A s : Do(s).op = "do" /\ Do(s).reg = s
    /\ \A r, o, p : Edit(r, o, p).reg = r /\ Edit(r, o, p).op = o /\ Edit(r, o, p).pins = p
    /\ \A e \in UartEdits : e.op \in {"set", "clear"} /\ e.reg \in UartRegs /\ e.pins \in SUBSET FieldBits
                            /\ (e.reg = "rxcnt" => e.op = "set")
  BY DEF Do, Edit, UartEdits

\* What the step at the head of a call says of the call.
LEMMA HeadTells ==
    ASSUME NEW q \in MainLists \cup IrqLists, q # <<>>
    PROVE  LET h == Head(q) IN
           /\ Tail(q) \in MainLists /\ (q \in IrqLists => Tail(q) \in IrqLists)
           /\ h.op = "do" => h.reg \in {"poll", "push", "get", "empty", "switch"}
           /\ h.op = "do" /\ h.reg = "poll" => q = uart_putc /\ Tail(q) = <<Do("push")>>
           /\ h.op = "do" /\ h.reg = "push" => q = <<Do("push")>> /\ Tail(q) = <<>>
           /\ h.op = "do" /\ h.reg = "get" => q = uart_getc /\ Tail(q) = <<>>
           /\ h.op = "do" /\ h.reg = "empty" => q = AwaitEmpty /\ Tail(q) = <<Do("switch")>>
           /\ h.op = "do" /\ h.reg = "switch" => q = <<Do("switch")>> /\ Tail(q) = <<>>
           /\ h.op \in {"set", "clear"} =>
                /\ h \in UartEdits
                /\ q \in IrqLists => h.reg = "ie"
                /\ \/ Tail(q) = <<>>
                   \/ q = uart_pre_rate_change /\ Tail(q) = RaiseLevel /\ h = Edit("txcnt", "clear", FieldBits)
                   \/ q = RaiseLevel /\ Tail(q) = AwaitEmpty /\ h = Edit("txcnt", "set", {0})
           /\ h.op \in {"do", "set", "clear"}
<1>1. /\ <<>> \in MainLists /\ <<>> \in IrqLists /\ <<Do("push")>> \in MainLists /\ <<Do("push")>> \in IrqLists
      /\ RateTails \subseteq MainLists /\ RaiseLevel \in RateTails /\ AwaitEmpty \in RateTails /\ <<Do("switch")>> \in RateTails
  BY DEF MainLists, IrqLists, ByteSteps, RateTails
<1>2. Edit("txcnt", "clear", FieldBits) \in UartEdits /\ Edit("txcnt", "set", {0}) \in UartEdits
  BY DEF Edit, UartEdits, UartRegs, FieldBits
<1>3. \A l \in IrqLists : l # <<>> => Head(l) \in {Do("poll"), Do("push"), Do("get")} \/ Head(l).reg = "ie"
  BY UartListsAre DEF IrqLists, ByteSteps
<1>4. q \in {uart_putc, <<Do("push")>>, uart_getc, uart_pre_rate_change, RaiseLevel, AwaitEmpty, <<Do("switch")>>}
      \/ \E e \in UartEdits : q = <<e>>
  BY DEF MainLists, IrqLists, ByteSteps, RateTails
<1>5. CASE q = uart_putc
  <2>1. Head(q).op = "do" /\ Head(q).reg = "poll" /\ Tail(q) = <<Do("push")>>
    BY <1>5, UartListsAre, StepsDiffer
  <2>2. Tail(q) \in MainLists /\ (q \in IrqLists => Tail(q) \in IrqLists)
    BY <1>1, <1>3, <1>5, <2>1, UartListsAre, StepsDiffer
  <2>3. QED
    BY <1>5, <2>1, <2>2
<1>6. CASE q = <<Do("push")>>
  <2>1. Head(q).op = "do" /\ Head(q).reg = "push" /\ Tail(q) = <<>>
    BY <1>6, UartListsAre, StepsDiffer
  <2>2. Tail(q) \in MainLists /\ (q \in IrqLists => Tail(q) \in IrqLists)
    BY <1>1, <1>3, <1>6, <2>1, UartListsAre, StepsDiffer
  <2>3. QED
    BY <1>6, <2>1, <2>2
<1>7. CASE q = uart_getc
  <2>1. Head(q).op = "do" /\ Head(q).reg = "get" /\ Tail(q) = <<>>
    BY <1>7, UartListsAre, StepsDiffer
  <2>2. Tail(q) \in MainLists /\ (q \in IrqLists => Tail(q) \in IrqLists)
    BY <1>1, <1>3, <1>7, <2>1, UartListsAre, StepsDiffer
  <2>3. QED
    BY <1>7, <2>1, <2>2
<1>8. CASE q = uart_pre_rate_change
  <2>1. Head(q) = Edit("txcnt", "clear", FieldBits) /\ Tail(q) = RaiseLevel /\ Head(q).op = "clear" /\ Head(q).reg = "txcnt"
    BY <1>8, UartListsAre, StepsDiffer
  <2>2. Tail(q) \in MainLists /\ q \notin IrqLists
    BY <1>1, <1>3, <1>8, <2>1, StepsDiffer
  <2>3. QED
    BY <1>2, <1>8, <2>1, <2>2
<1>9. CASE q = RaiseLevel
  <2>1. Head(q) = Edit("txcnt", "set", {0}) /\ Tail(q) = AwaitEmpty /\ Head(q).op = "set" /\ Head(q).reg = "txcnt"
    BY <1>9, UartListsAre, StepsDiffer
  <2>2. Tail(q) \in MainLists /\ q \notin IrqLists
    BY <1>1, <1>3, <1>9, <2>1, StepsDiffer
  <2>3. QED
    BY <1>2, <1>9, <2>1, <2>2
<1>10. CASE q = AwaitEmpty
  <2>1. Head(q).op = "do" /\ Head(q).reg = "empty" /\ Tail(q) = <<Do("switch")>>
    BY <1>10, UartListsAre, StepsDiffer
  <2>2. Tail(q) \in MainLists /\ q \notin IrqLists
    <3>1. Do("poll").reg = "poll" /\ Do("push").reg = "push" /\ Do("get").reg = "get"
      BY StepsDiffer
    <3>2. q \notin IrqLists
      BY <1>3, <2>1, <3>1
    <3>3. QED
      BY <1>1, <2>1, <3>2
  <2>3. QED
    BY <1>10, <2>1, <2>2
<1>11. CASE q = <<Do("switch")>>
  <2>1. Head(q).op = "do" /\ Head(q).reg = "switch" /\ Tail(q) = <<>>
    BY <1>11, UartListsAre, StepsDiffer
  <2>2. Tail(q) \in MainLists /\ (q \in IrqLists => Tail(q) \in IrqLists)
    BY <1>1, <1>3, <1>11, <2>1, UartListsAre, StepsDiffer
  <2>3. QED
    BY <1>11, <2>1, <2>2
<1>12. ASSUME NEW e \in UartEdits, q = <<e>>
       PROVE  /\ Head(q) = e /\ Tail(q) = <<>> /\ e.op \in {"set", "clear"} /\ (q \in IrqLists => e.reg = "ie")
  BY <1>3, <1>12, UartListsAre, StepsDiffer
<1>13. QED
  BY <1>1, <1>4, <1>5, <1>6, <1>7, <1>8, <1>9, <1>10, <1>11, <1>12

LEMMA UartCallsAreLists ==
    /\ \A c \in UartCalls : c \in MainLists /\ c # <<>> /\ c[1] = Head(c)
    /\ \A c \in UartCalls : c # <<Do("push")>> /\ c \notin RateTails
    /\ \A c \in RoutineUartCalls : c \in IrqLists /\ c # <<Do("push")>> /\ c # <<>>
<1>1. \A r \in UartRegs, o \in {"set", "clear"}, p \in SUBSET FieldBits :
        (r = "rxcnt" => o = "set") => Edit(r, o, p) \in UartEdits
  BY DEF UartEdits, Edit
<1>2. \A l : BitsOf(l) \in SUBSET FieldBits
  BY LevelFacts
<1>3. {UART_TXWM} \in SUBSET FieldBits /\ {UART_RXWM} \in SUBSET FieldBits
  BY DEF UART_TXWM, UART_RXWM, FieldBits
<1> DEFINE one(c) == \E e \in UartEdits : c = <<e>>
<1>4. /\ \A l : one(set_tx_watermark(l)) /\ one(set_rx_watermark(l))
      /\ \A c \in InterruptCalls : \E e \in UartEdits : c = <<e>> /\ e.reg = "ie"
  BY <1>1, <1>2, <1>3, StepsDiffer
     DEF set_tx_watermark, set_rx_watermark, InterruptCalls, tx_interrupt_enable, tx_interrupt_disable,
         rx_interrupt_enable, rx_interrupt_disable, UartRegs
<1>5. \A c \in UartCalls : c \in {uart_putc, uart_getc, uart_pre_rate_change} \/ one(c)
  BY <1>4 DEF UartCalls, WatermarkCalls
<1>6. \A c : one(c) => c \in MainLists /\ c # <<>> /\ c[1] = Head(c) /\ c # <<Do("push")>> /\ c \notin RateTails
  <2>1. SUFFICES ASSUME NEW e \in UartEdits
                 PROVE  <<e>> \in MainLists /\ <<e>> # <<Do("push")>> /\ <<e>> \notin RateTails
    OBVIOUS
  <2>2. <<e>> \in MainLists
    BY DEF MainLists
  <2>3. Head(<<e>>) = e /\ Tail(<<e>>) = <<>> /\ e.op # "do"
    BY UartListsAre, StepsDiffer
  <2>4. <<Do("switch")>> # <<>> /\ AwaitEmpty # <<>>
    BY UartListsAre DEF RateTails
  <2>5. QED
    BY <2>2, <2>3, <2>4, UartListsAre, StepsDiffer DEF RateTails
<1>7. \A c \in {uart_putc, uart_getc, uart_pre_rate_change} :
        c \in MainLists /\ c # <<>> /\ c[1] = Head(c) /\ c # <<Do("push")>> /\ c \notin RateTails
  <2>1. uart_putc \in MainLists /\ uart_getc \in MainLists /\ uart_pre_rate_change \in MainLists
    BY DEF MainLists, ByteSteps
  <2>2. \A c \in {uart_putc, uart_getc, uart_pre_rate_change} : c # <<>> /\ c[1] = Head(c)
    BY DEF uart_putc, uart_getc, uart_pre_rate_change
  <2>3. Len(uart_putc) = 2 /\ Len(uart_getc) = 1 /\ Len(uart_pre_rate_change) = 4
        /\ Len(<<Do("push")>>) = 1 /\ Len(RaiseLevel) = 3 /\ Len(AwaitEmpty) = 2 /\ Len(<<Do("switch")>>) = 1
    BY DEF uart_putc, uart_getc, uart_pre_rate_change, RaiseLevel, AwaitEmpty
  <2>4. Do("poll").reg = "poll" /\ Do("push").reg = "push" /\ Do("get").reg = "get" /\ Do("empty").reg = "empty"
        /\ Do("switch").reg = "switch"
    BY StepsDiffer
  <2>5. uart_putc # AwaitEmpty /\ uart_getc # <<Do("push")>> /\ uart_getc # <<Do("switch")>>
    BY <2>4, UartListsAre
  <2>6. \A c \in {uart_putc, uart_getc, uart_pre_rate_change} : c # <<Do("push")>> /\ c \notin RateTails
    BY <2>3, <2>5 DEF RateTails
  <2>7. QED
    BY <2>1, <2>2, <2>6
<1>8. \A c \in RoutineUartCalls : c \in IrqLists /\ c # <<Do("push")>> /\ c # <<>>
  <2>1. uart_putc \in IrqLists /\ uart_getc \in IrqLists
    BY DEF IrqLists, ByteSteps
  <2>2. \A c \in InterruptCalls : c \in IrqLists /\ c # <<Do("push")>> /\ c # <<>>
    BY <1>4, <1>6 DEF IrqLists
  <2>3. RoutineUartCalls \subseteq {uart_putc, uart_getc} \cup InterruptCalls
    BY DEF RoutineUartCalls, InterruptCalls
  <2>4. QED
    BY <1>7, <2>1, <2>2, <2>3
<1>9. QED
  BY <1>5, <1>6, <1>7, <1>8

LEMMA UartStart == Uart0Init => UartAccount
<1>1. SUFFICES ASSUME Uart0Init PROVE UartAccount
  OBVIOUS
<1>2. ucalls["main"] = <<>> /\ ucalls["irq"] = <<>> /\ uheld["main"] = <<>> /\ uheld["irq"] = <<>>
  BY <1>1 DEF Uart0Init, UartActors
<1>3. <<>> \in MainLists /\ <<>> \in IrqLists /\ <<>> \notin RateTails
  BY UartListsAre DEF MainLists, IrqLists
<1>4. UartTypes
  BY <1>1, <1>2, <1>3 DEF Uart0Init, UartTypes, UartActors, UartRegs
<1>5. InterruptsAsAsked /\ HeldIsCurrent
  BY <1>1, <1>2 DEF Uart0Init, InterruptsAsAsked, HeldIsCurrent, UartActors
<1>6. LevelIsComing
  BY <1>1, LevelFacts DEF Uart0Init, LevelIsComing
<1>7. SeenIsSo
  BY <1>2, <1>3, UartListsAre DEF SeenIsSo, RateTails
<1>8. QED
  BY <1>4, <1>5, <1>6, <1>7 DEF UartAccount

LEMMA UartEntryKeeps ==
    ASSUME UartAccount, UartEnter \/ UartInterrupt
    PROVE  UartAccount' /\ uregs' = uregs /\ dropped' = dropped
<1>0. UartTypes /\ InterruptsAsAsked /\ HeldIsCurrent /\ LevelIsComing /\ SeenIsSo
  BY DEF UartAccount
<1>1. UNCHANGED <<uregs, txBytes, rxBytes, uheld, ieAsked, ieRaced, refilled, dropped>>
  BY DEF UartEnter, UartInterrupt, uartHistory
<1>2. CASE UartEnter
  <2>1. PICK c \in UartCalls :
            /\ ucalls' = [ucalls EXCEPT !["main"] = c]
            /\ rxLevel' = IF c[1].reg = "rxcnt" THEN LevelOf(c[1].pins) ELSE rxLevel
    BY <1>2 DEF UartEnter
  <2>2. ucalls["main"] = <<>> /\ uheld["main"] = <<>>
    BY <1>0, <1>2 DEF UartEnter, UartTypes, UartActors
  <2>3. c \in MainLists /\ c # <<>> /\ c[1] = Head(c) /\ c # <<Do("push")>> /\ c \notin RateTails
    BY <2>1, UartCallsAreLists
  <2>4. ucalls'["irq"] = ucalls["irq"] /\ ucalls'["main"] = c /\ ucalls' = [a \in UartActors |-> ucalls'[a]]
    BY <1>0, <2>1 DEF UartTypes, UartActors
  <2>5. UartTypes'
    <3>1. rxLevel' \in Nat
      BY <1>0, <2>1, LevelFacts DEF UartTypes
    <3>2. QED
      BY <1>0, <1>1, <2>2, <2>3, <2>4, <3>1 DEF UartTypes, UartActors
  <2>6. HeldIsCurrent'
    BY <1>0, <1>1, <2>2, <2>4 DEF HeldIsCurrent, UartActors
  <2>7. LevelIsComing'
    BY <1>0, <1>1, <2>1, <2>2, <2>3, <2>4 DEF LevelIsComing
  <2>8. SeenIsSo'
    BY <1>0, <1>1, <2>3, <2>4 DEF SeenIsSo, RateTails
  <2>9. QED
    BY <1>0, <1>1, <2>5, <2>6, <2>7, <2>8 DEF UartAccount, InterruptsAsAsked
<1>3. CASE UartInterrupt
  <2>1. PICK c \in RoutineUartCalls : ucalls' = [ucalls EXCEPT !["irq"] = c]
    BY <1>3 DEF UartInterrupt
  <2>2. ucalls["irq"] = <<>> /\ uheld["irq"] = <<>> /\ rxLevel' = rxLevel
    BY <1>0, <1>3 DEF UartInterrupt, UartTypes, UartActors, uartHistory
  <2>3. c \in IrqLists /\ c # <<>> /\ c # <<Do("push")>>
    BY <2>1, UartCallsAreLists
  <2>4. ucalls'["main"] = ucalls["main"] /\ ucalls'["irq"] = c /\ ucalls' = [a \in UartActors |-> ucalls'[a]]
    BY <1>0, <2>1 DEF UartTypes, UartActors
  <2>5. UartTypes'
    BY <1>0, <1>1, <2>2, <2>3, <2>4 DEF UartTypes, UartActors
  <2>6. HeldIsCurrent'
    BY <1>0, <1>1, <2>2, <2>4 DEF HeldIsCurrent, UartActors
  <2>7. LevelIsComing' /\ SeenIsSo'
    BY <1>0, <1>1, <2>2, <2>3, <2>4 DEF LevelIsComing, SeenIsSo
  <2>8. QED
    BY <1>0, <1>1, <2>5, <2>6, <2>7 DEF UartAccount, InterruptsAsAsked
<1>4. QED
  BY <1>2, <1>3

LEMMA UartReadKeeps ==
    ASSUME UartAccount, NEW a \in UartActors, ReadUart(a)
    PROVE  UartAccount' /\ uregs' = uregs /\ dropped' = dropped
<1>0. UartTypes /\ InterruptsAsAsked /\ HeldIsCurrent /\ LevelIsComing /\ SeenIsSo
  BY DEF UartAccount
<1>1. /\ ucalls[a] # <<>> /\ uheld' = [uheld EXCEPT ![a] = <<uregs[Head(ucalls[a]).reg]>>]
      /\ UNCHANGED <<uregs, txBytes, rxBytes, ucalls, uartHistory>>
  BY DEF ReadUart, Edits, UartRuns
<1>2. /\ uheld' = [b \in UartActors |-> uheld'[b]] /\ uheld'[a] = <<uregs[Head(ucalls[a]).reg]>>
      /\ \A b \in UartActors \ {a} : uheld'[b] = uheld[b]
  BY <1>0, <1>1 DEF UartTypes
<1>3. UartTypes'
  <2>1. Head(ucalls[a]).reg \in UartRegs
    <3>1. ucalls[a] \in MainLists \cup IrqLists /\ Head(ucalls[a]).op \in {"set", "clear"}
      BY <1>0 DEF UartTypes, UartActors, ReadUart, Edits, UartRuns
    <3>2. QED
      BY <1>1, <3>1, HeadTells, StepsDiffer
  <2>2. uheld'[a][1] \in SUBSET FieldBits
    BY <1>0, <1>2, <2>1 DEF UartTypes
  <2>3. QED
    BY <1>0, <1>1, <1>2, <2>1, <2>2 DEF UartTypes, uartHistory
<1>4. HeldIsCurrent'
  BY <1>0, <1>1, <1>2 DEF HeldIsCurrent, uartHistory
<1>5. QED
  BY <1>0, <1>1, <1>3, <1>4 DEF UartAccount, InterruptsAsAsked, LevelIsComing, SeenIsSo, uartHistory

\* The line empties the transmit FIFO and fills the other.
LEMMA LineKeeps ==
    ASSUME UartAccount, UartLine
    PROVE  UartAccount' /\ uregs' = uregs /\ dropped' = dropped
<1>0. UartTypes /\ InterruptsAsAsked /\ HeldIsCurrent /\ LevelIsComing /\ SeenIsSo
  BY DEF UartAccount
<1>1. /\ UNCHANGED <<uregs, ucalls, uheld, uartHistory>> /\ txBytes' \in Nat /\ txBytes' <= txBytes /\ rxBytes' \in Nat
  BY <1>0, UartAssumption DEF UartLine, UartTypes, UartAssumption
<1>2. UartTypes'
  BY <1>0, <1>1 DEF UartTypes, uartHistory
<1>3. SeenIsSo'
  <2>1. /\ uregs' = uregs /\ ucalls' = ucalls /\ refilled' = refilled /\ UartFifo \in Nat
        /\ txBytes \in Nat /\ txBytes' \in Nat /\ txBytes' <= txBytes
    BY <1>0, <1>1, UartAssumption DEF UartTypes, uartHistory, UartAssumption
  <2>2. (txBytes < UartFifo => txBytes' < UartFifo) /\ (txBytes = 0 => txBytes' = 0)
    BY <2>1
  <2>3. QED
    BY <1>0, <2>1, <2>2, Zenon DEF SeenIsSo
<1>4. QED
  BY <1>0, <1>1, <1>2, <1>3 DEF UartAccount, InterruptsAsAsked, HeldIsCurrent, LevelIsComing, uartHistory

LEMMA UartWriteKeeps ==
    ASSUME UartAccount, NEW a \in UartActors, WriteUart(a)
    PROVE  UartAccount' /\ LevelsStay /\ dropped' = dropped
<1>0. UartTypes /\ InterruptsAsAsked /\ HeldIsCurrent /\ LevelIsComing /\ SeenIsSo
  BY DEF UartAccount
<1> DEFINE e == Head(ucalls[a])
           v == uheld[a][1]
<1>1. ucalls[a] # <<>> /\ e.op \in {"set", "clear"} /\ (a = "main" => ucalls["irq"] = <<>>) /\ uheld[a] # <<>>
  BY DEF WriteUart, Edits, UartRuns
<1>2. /\ uregs' = [uregs EXCEPT ![e.reg] = Apply(e, v)]
      /\ ieAsked' = IF e.reg = "ie" THEN Apply(e, ieAsked) ELSE ieAsked
      /\ ieRaced' = (ieRaced \/ (a = "irq" /\ uheld["main"] # <<>> /\ Head(ucalls["main"]).reg = "ie"))
      /\ ucalls' = [ucalls EXCEPT ![a] = Tail(@)]
      /\ uheld' = [uheld EXCEPT ![a] = <<>>]
      /\ UNCHANGED <<txBytes, rxBytes, rxLevel, refilled, dropped>>
  BY DEF WriteUart, UartStepDone
<1>3. ucalls[a] \in MainLists \cup IrqLists /\ (a = "irq" => ucalls[a] \in IrqLists) /\ (a = "main" => ucalls[a] \in MainLists)
  BY <1>0 DEF UartTypes, UartActors
<1>4. /\ Tail(ucalls[a]) \in MainLists /\ (a = "irq" => Tail(ucalls[a]) \in IrqLists)
      /\ e \in UartEdits /\ (a = "irq" => e.reg = "ie")
      /\ \/ Tail(ucalls[a]) = <<>>
         \/ ucalls[a] = uart_pre_rate_change /\ Tail(ucalls[a]) = RaiseLevel /\ e = Edit("txcnt", "clear", FieldBits)
         \/ ucalls[a] = RaiseLevel /\ Tail(ucalls[a]) = AwaitEmpty /\ e = Edit("txcnt", "set", {0})
  BY <1>1, <1>3, HeadTells
<1>5. e.reg \in UartRegs /\ e.pins \in SUBSET FieldBits /\ (e.reg = "rxcnt" => e.op = "set")
  BY <1>4, StepsDiffer
<1>6. e.reg # "ie" => v = uregs[e.reg]
  BY <1>0, <1>1 DEF HeldIsCurrent
<1>7. ~ieRaced => v = uregs[e.reg]
  BY <1>0, <1>1 DEF HeldIsCurrent
<1> HIDE DEF e, v
<1>8. /\ uregs'[e.reg] = Apply(e, v)
      /\ \A r \in UartRegs \ {e.reg} : uregs'[r] = uregs[r]
      /\ uregs' = [r \in UartRegs |-> uregs'[r]]
  BY <1>0, <1>2, <1>5 DEF UartTypes
<1>9. /\ uheld' = [b \in UartActors |-> uheld'[b]] /\ uheld'[a] = <<>>
      /\ ucalls' = [b \in UartActors |-> ucalls'[b]] /\ ucalls'[a] = Tail(ucalls[a])
      /\ \A b \in UartActors \ {a} : uheld'[b] = uheld[b] /\ ucalls'[b] = ucalls[b]
  BY <1>0, <1>2 DEF UartTypes
<1>10. UartTypes'
  <2>1. Apply(e, v) \in SUBSET FieldBits
    <3>1. v \in SUBSET FieldBits
      BY <1>0, <1>1 DEF UartTypes, v
    <3>2. QED
      BY <1>5, <3>1 DEF Apply
  <2>2. uregs' \in [UartRegs -> SUBSET FieldBits]
    BY <1>0, <1>8, <2>1 DEF UartTypes
  <2>3. ucalls'["main"] \in MainLists /\ ucalls'["irq"] \in IrqLists
    BY <1>0, <1>4, <1>9 DEF UartTypes, UartActors
  <2>4. QED
    BY <1>0, <1>2, <1>9, <2>2, <2>3 DEF UartTypes
<1>11. InterruptsAsAsked' /\ (ieRaced => ieRaced')
  BY <1>0, <1>2, <1>5, <1>7, <1>8 DEF InterruptsAsAsked, UartRegs
<1>12. HeldIsCurrent'
  <2>1. SUFFICES ASSUME NEW b \in UartActors, uheld'[b] # <<>>
                 PROVE  \/ uheld'[b][1] = uregs'[Head(ucalls'[b]).reg]
                        \/ b = "main" /\ Head(ucalls'[b]).reg = "ie" /\ ieRaced'
    BY DEF HeldIsCurrent
  <2>2. b # a /\ uheld'[b] = uheld[b] /\ ucalls'[b] = ucalls[b] /\ ucalls[b] # <<>>
    BY <1>0, <1>9, <2>1 DEF UartTypes
  <2>3. a = "irq" /\ b = "main" /\ e.reg = "ie"
    BY <1>1, <1>4, <2>2 DEF UartActors
  <2>4. CASE Head(ucalls[b]).reg = "ie"
    BY <1>2, <2>1, <2>2, <2>3, <2>4
  <2>5. CASE Head(ucalls[b]).reg # "ie"
    <3>1. uheld[b][1] = uregs[Head(ucalls[b]).reg]
      BY <1>0, <2>1, <2>2, <2>5 DEF HeldIsCurrent
    <3>2. Head(ucalls[b]).reg \in UartRegs
      BY <1>0, <2>1, <2>2 DEF UartTypes
    <3>3. QED
      BY <1>8, <2>2, <2>3, <2>5, <3>1, <3>2
  <2>6. QED
    BY <2>4, <2>5
<1>13. uregs["rxcnt"] \subseteq uregs'["rxcnt"]
  BY <1>5, <1>6, <1>8 DEF Apply, UartRegs
<1>14. LevelIsComing'
  <2>1. LevelOf(uregs["rxcnt"]) <= LevelOf(uregs'["rxcnt"])
        /\ LevelOf(uregs["rxcnt"]) \in Nat /\ LevelOf(uregs'["rxcnt"]) \in Nat
    BY <1>13, LevelFacts
  <2>2. CASE rxLevel <= LevelOf(uregs["rxcnt"])
    <3>1. rxLevel <= LevelOf(uregs'["rxcnt"])
      BY <1>0, <2>1, <2>2 DEF UartTypes
    <3>2. QED
      BY <1>2, <3>1 DEF LevelIsComing
  <2>3. CASE ~(rxLevel <= LevelOf(uregs["rxcnt"])) /\ a = "main"
    <3>1. e.reg = "rxcnt" /\ rxLevel = LevelOf(e.pins) /\ e.op = "set"
      BY <1>0, <1>5, <2>3 DEF LevelIsComing, e
    <3>2. uregs'["rxcnt"] = v \cup e.pins
      BY <1>8, <3>1 DEF Apply
    <3>3. LevelOf(e.pins) <= LevelOf(uregs'["rxcnt"])
      BY <3>2, LevelFacts
    <3>4. QED
      BY <1>2, <3>1, <3>3 DEF LevelIsComing
  <2>4. CASE ~(rxLevel <= LevelOf(uregs["rxcnt"])) /\ a = "irq"
    BY <1>0, <1>2, <1>9, <2>4 DEF LevelIsComing, UartActors
  <2>5. QED
    BY <2>2, <2>3, <2>4 DEF UartActors
<1>15. SeenIsSo'
  <2>1. CASE a = "irq"
    <3>1. e.reg = "ie" /\ ucalls'["main"] = ucalls["main"] /\ uregs'["txcnt"] = uregs["txcnt"]
      BY <1>4, <1>8, <1>9, <2>1 DEF UartActors, UartRegs
    <3>2. ucalls'["irq"] = <<>>
      <4>1. Edit("txcnt", "clear", FieldBits).reg = "txcnt" /\ Edit("txcnt", "set", {0}).reg = "txcnt"
        BY StepsDiffer
      <4>2. QED
        BY <1>4, <1>9, <2>1, <3>1, <4>1
    <3>3. refilled' = refilled /\ txBytes' = txBytes
      BY <1>2
    <3>4. QED
      BY <1>0, <3>1, <3>2, <3>3, ListsDiffer, Zenon DEF SeenIsSo
  <2>2. CASE a = "main"
    <3>1. ucalls'["irq"] = <<>> /\ ucalls'["main"] = Tail(ucalls["main"])
      BY <1>1, <1>9, <2>2 DEF UartActors
    <3>2. CASE ucalls'["main"] = <<>>
      BY <3>1, <3>2, ListsDiffer DEF SeenIsSo
    <3>3. CASE ucalls'["main"] = RaiseLevel /\ e = Edit("txcnt", "clear", FieldBits)
      <4>1. e.reg = "txcnt" /\ e.op = "clear" /\ e.pins = FieldBits
        BY <3>3, StepsDiffer
      <4>2. v \in SUBSET FieldBits
        BY <1>0, <1>1 DEF UartTypes, v
      <4>3. uregs'["txcnt"] = {}
        BY <1>8, <4>1, <4>2 DEF Apply
      <4>4. QED
        BY <3>1, <3>3, <4>3, ListsDiffer DEF SeenIsSo
    <3>4. CASE ucalls["main"] = RaiseLevel /\ ucalls'["main"] = AwaitEmpty /\ e = Edit("txcnt", "set", {0})
      <4>1. e.reg = "txcnt" /\ e.op = "set" /\ e.pins = {0}
        BY <3>4, StepsDiffer
      <4>2. v = {}
        BY <1>0, <1>6, <3>4, <4>1 DEF SeenIsSo
      <4>3. uregs'["txcnt"] = {0}
        BY <1>8, <4>1, <4>2 DEF Apply
      <4>4. QED
        BY <3>1, <3>4, <4>3, ListsDiffer DEF SeenIsSo
    <3>5. QED
      BY <1>4, <1>9, <2>2, <3>2, <3>3, <3>4
  <2>3. QED
    BY <2>1, <2>2 DEF UartActors
<1>16. QED
  BY <1>2, <1>10, <1>11, <1>12, <1>13, <1>14, <1>15 DEF UartAccount, LevelsStay

\* The steps that move bytes, poll for room or for an empty FIFO, or let the rate change.
LEMMA UartDoKeeps ==
    ASSUME UartAccount, NEW a \in UartActors,
           PollFull(a) \/ PushByte(a) \/ GetByte(a) \/ (a = "main" /\ (SeeEmpty \/ SwitchRate))
    PROVE  UartAccount' /\ uregs' = uregs /\ ByteLossNeedsRace /\ (SwitchRate => EmptyAtSwitch)
<1>0. UartTypes /\ InterruptsAsAsked /\ HeldIsCurrent /\ LevelIsComing /\ SeenIsSo
  BY DEF UartAccount
<1> DEFINE q == ucalls[a]
<1>1. /\ q # <<>> /\ Head(q).op = "do" /\ (a = "main" => ucalls["irq"] = <<>>)
      /\ ucalls' = [ucalls EXCEPT ![a] = Tail(@)]
      /\ UNCHANGED <<uregs, uheld, rxLevel, ieAsked, ieRaced>>
  BY DEF PollFull, PushByte, GetByte, SeeEmpty, SwitchRate, UartDoes, UartRuns, UartStepDone, uartHistory
<1>2. q \in MainLists \cup IrqLists /\ (a = "irq" => q \in IrqLists)
  BY <1>0 DEF UartTypes, UartActors
<1>3. /\ Tail(q) \in MainLists /\ (q \in IrqLists => Tail(q) \in IrqLists)
      /\ Head(q).reg \in {"poll", "push", "get", "empty", "switch"}
      /\ Head(q).reg = "poll" => q = uart_putc /\ Tail(q) = <<Do("push")>>
      /\ Head(q).reg = "push" => q = <<Do("push")>> /\ Tail(q) = <<>>
      /\ Head(q).reg = "get" => q = uart_getc /\ Tail(q) = <<>>
      /\ Head(q).reg = "empty" => q = AwaitEmpty /\ Tail(q) = <<Do("switch")>>
      /\ Head(q).reg = "switch" => q = <<Do("switch")>> /\ Tail(q) = <<>>
  BY <1>1, <1>2, HeadTells
<1>4. /\ ucalls' = [b \in UartActors |-> ucalls'[b]] /\ ucalls'[a] = Tail(q)
      /\ \A b \in UartActors \ {a} : ucalls'[b] = ucalls[b]
  BY <1>0, <1>1 DEF UartTypes
<1>5. uheld[a] = <<>>
  BY <1>0, <1>1, <1>3 DEF UartTypes, UartRegs
<1>6. /\ txBytes' \in Nat /\ rxBytes' \in Nat
      /\ UNCHANGED txBytes \/ (PushByte(a) /\ txBytes < UartFifo /\ txBytes' = txBytes + 1)
  <2>1. txBytes \in Nat /\ rxBytes \in Nat
    BY <1>0 DEF UartTypes
  <2>2. CASE PollFull(a) \/ SeeEmpty \/ SwitchRate
    BY <2>1, <2>2 DEF PollFull, SeeEmpty, SwitchRate
  <2>3. CASE PushByte(a)
    BY <2>1, <2>3 DEF PushByte
  <2>4. CASE GetByte(a)
    BY <2>1, <2>4 DEF GetByte
  <2>5. QED
    BY <2>2, <2>3, <2>4
<1> HIDE DEF q
<1>7. UartTypes'
  <2>1. ucalls'["main"] \in MainLists /\ ucalls'["irq"] \in IrqLists
    BY <1>0, <1>2, <1>3, <1>4 DEF UartTypes, UartActors
  <2>2. \A b \in UartActors : uheld[b] # <<>> => ucalls'[b] = ucalls[b]
    BY <1>4, <1>5
  <2>3. QED
    BY <1>0, <1>1, <1>4, <1>6, <2>1, <2>2 DEF UartTypes
<1>8. HeldIsCurrent' /\ InterruptsAsAsked'
  <2>1. \A b \in UartActors : uheld[b] # <<>> => ucalls'[b] = ucalls[b]
    BY <1>4, <1>5
  <2>2. QED
    BY <1>0, <1>1, <2>1 DEF HeldIsCurrent, InterruptsAsAsked
<1>9. LevelIsComing'
  BY <1>0, <1>1, <1>3, <1>4 DEF LevelIsComing, UartActors, q
<1>10. SeenIsSo'
  <2>1. CASE a = "irq"
    <3>1. ucalls'["main"] = ucalls["main"] /\ ucalls'["irq"] = Tail(q)
      BY <1>4, <2>1 DEF UartActors
    <3>2. CASE PollFull(a)
      <4>1. txBytes < UartFifo /\ txBytes' = txBytes /\ refilled' = refilled
        BY <2>1, <3>2 DEF PollFull
      <4>2. QED
        BY <1>0, <1>1, <3>1, <4>1, Zenon DEF SeenIsSo
    <3>3. CASE PushByte(a)
      <4>1. Tail(q) = <<>> /\ refilled'
        BY <1>3, <2>1, <3>3 DEF PushByte, UartDoes, q
      <4>2. QED
        BY <1>0, <1>1, <3>1, <4>1, ListsDiffer, Zenon DEF SeenIsSo
    <3>4. CASE GetByte(a)
      <4>1. Tail(q) = <<>> /\ txBytes' = txBytes /\ refilled' = refilled
        BY <1>3, <3>4 DEF GetByte, UartDoes, uartHistory, q
      <4>2. QED
        BY <1>0, <1>1, <3>1, <4>1, ListsDiffer, Zenon DEF SeenIsSo
    <3>5. QED
      BY <2>1, <3>2, <3>3, <3>4
  <2>2. CASE a = "main"
    <3>1. ucalls'["main"] = Tail(q) /\ ucalls'["irq"] = <<>>
      BY <1>1, <1>4, <2>2 DEF UartActors
    <3>2. CASE PollFull(a)
      <4>1. txBytes < UartFifo /\ txBytes' = txBytes /\ Tail(q) = <<Do("push")>>
        BY <1>3, <3>2 DEF PollFull, UartDoes, q
      <4>2. QED
        BY <1>0, <1>1, <3>1, <4>1, ListsDiffer DEF SeenIsSo
    <3>3. CASE PushByte(a) \/ GetByte(a) \/ SwitchRate
      <4>1. Tail(q) = <<>>
        BY <1>3, <2>2, <3>3 DEF PushByte, GetByte, SwitchRate, UartDoes, q
      <4>2. QED
        BY <3>1, <4>1, ListsDiffer, Zenon DEF SeenIsSo
    <3>4. CASE SeeEmpty
      <4>1. q = AwaitEmpty /\ Tail(q) = <<Do("switch")>> /\ TxPending /\ txBytes' = txBytes
        BY <1>3, <2>2, <3>4 DEF SeeEmpty, UartDoes, q
      <4>2. uregs["txcnt"] = {0}
        BY <1>0, <2>2, <4>1 DEF SeenIsSo, q
      <4>3. txBytes = 0
        BY <1>0, <4>1, <4>2, LevelFacts DEF TxPending, UartTypes
      <4>4. QED
        BY <1>1, <3>1, <4>1, <4>2, <4>3, ListsDiffer, Zenon DEF SeenIsSo
    <3>5. QED
      BY <3>2, <3>3, <3>4
  <2>3. QED
    BY <2>1, <2>2 DEF UartActors
<1>11. ByteLossNeedsRace
  <2>1. SUFFICES ASSUME dropped' # dropped PROVE UartDoes("main", "push") /\ refilled
    BY DEF ByteLossNeedsRace
  <2>2. PushByte(a)
    BY <2>1 DEF PollFull, GetByte, SeeEmpty, SwitchRate, uartHistory
  <2>3. ~(txBytes < UartFifo) /\ UartDoes(a, "push")
    BY <2>1, <2>2 DEF PushByte
  <2>4. q = <<Do("push")>>
    BY <1>3, <2>3 DEF UartDoes, q
  <2>5. a = "main" /\ refilled
    BY <1>0, <2>3, <2>4 DEF SeenIsSo, UartActors, q
  <2>6. QED
    BY <2>3, <2>5
<1>12. SwitchRate => EmptyAtSwitch
  <2>1. SUFFICES ASSUME SwitchRate PROVE (txBytes = 0 \/ refilled) /\ LevelOf(uregs["txcnt"]) = 1
    BY DEF EmptyAtSwitch
  <2>2. UartDoes("main", "switch")
    BY <2>1 DEF SwitchRate
  <2>3. ucalls["main"] \in MainLists \cup IrqLists /\ ucalls["main"] # <<>> /\ Head(ucalls["main"]).op = "do"
        /\ Head(ucalls["main"]).reg = "switch"
    BY <1>0, <2>2 DEF UartTypes, UartDoes, UartRuns
  <2>4. ucalls["main"] = <<Do("switch")>>
    BY <2>3, HeadTells
  <2>5. QED
    BY <1>0, <2>4, LevelFacts DEF SeenIsSo
<1>13. QED
  BY <1>1, <1>7, <1>8, <1>9, <1>10, <1>11, <1>12 DEF UartAccount

LEMMA EveryUartStep ==
    UartAccount /\ [Uart0Next]_metalUartVars =>
        UartAccount' /\ [ByteLossNeedsRace /\ LevelsStay /\ EmptyAtSwitch]_metalUartVars
<1>1. SUFFICES ASSUME UartAccount, [Uart0Next]_metalUartVars
               PROVE  UartAccount' /\ [ByteLossNeedsRace /\ LevelsStay /\ EmptyAtSwitch]_metalUartVars
  OBVIOUS
<1>2. CASE UNCHANGED metalUartVars
  BY <1>1, <1>2 DEF metalUartVars, uartHistory, UartAccount, UartTypes, InterruptsAsAsked, HeldIsCurrent,
                    LevelIsComing, SeenIsSo
<1>3. ASSUME NEW a \in UartActors, PollFull(a) \/ PushByte(a) \/ GetByte(a) \/ (a = "main" /\ (SeeEmpty \/ SwitchRate))
      PROVE  UartAccount' /\ ByteLossNeedsRace /\ LevelsStay /\ EmptyAtSwitch
  BY <1>1, <1>3, UartDoKeeps DEF LevelsStay, EmptyAtSwitch
<1>4. uregs' = uregs => LevelsStay
  BY DEF LevelsStay
<1>5. dropped' = dropped => ByteLossNeedsRace
  BY DEF ByteLossNeedsRace
<1>6. EmptyAtSwitch
  <2>1. CASE SwitchRate
    BY <1>3, <2>1 DEF UartActors
  <2>2. CASE ~SwitchRate
    BY <2>2 DEF EmptyAtSwitch
  <2>3. QED
    BY <2>1, <2>2
<1>7. CASE UartEnter \/ UartInterrupt
  BY <1>1, <1>4, <1>5, <1>6, <1>7, UartEntryKeeps
<1>8. CASE UartLine
  BY <1>1, <1>4, <1>5, <1>6, <1>8, LineKeeps
<1>9. ASSUME NEW a \in UartActors, ReadUart(a) PROVE UartAccount' /\ ByteLossNeedsRace /\ LevelsStay
  BY <1>1, <1>4, <1>5, <1>9, UartReadKeeps
<1>10. ASSUME NEW a \in UartActors, WriteUart(a) PROVE UartAccount' /\ ByteLossNeedsRace /\ LevelsStay
  BY <1>1, <1>5, <1>10, UartWriteKeeps
<1>11. QED
  BY <1>1, <1>2, <1>3, <1>6, <1>7, <1>8, <1>9, <1>10, Zenon DEF Uart0Next, UartActors

(* sifive_uart0.c:45-181: whatever the FIFOs and the watermarks are, a byte  *)
(* is lost only if the routine sent one between the program's poll and its   *)
(* write; the interrupts are as asked unless the routine wrote IE between a  *)
(* read and the write of the program; a receive watermark is never below     *)
(* what was asked for and never comes down; and the rate changes with an     *)
(* empty FIFO or one that the routine has filled again.                      *)
THEOREM UartIsAsShared == Uart0Spec => UartIsShared
<1>1. UartAccount => InterruptsAsAsked /\ ReceiveNeverEarly
  BY DEF UartAccount, LevelIsComing, ReceiveNeverEarly
<1>2. QED
  BY <1>1, UartStart, EveryUartStep, PTL DEF Uart0Spec, UartIsShared

-----------------------------------------------------------------------------
(* A PWM unit's word that two actors and the unit change (sifive_pwm0.c)     *)

WordParts == {"flags", "ip"}
IsWord(w) == w = [p \in WordParts |-> w[p]]

ZeroEdit  == Edit("flags", "zero", {})
PwmEdits  == {e \in [reg : WordParts, op : {"set", "clear", "zero"}, pins : SUBSET (Modes0 \cup {"sticky"} \cup PwmChannels)] :
                /\ e.op = "zero" => e = ZeroEdit
                /\ e.reg = "ip" => \E i \in PwmChannels : e = Edit("ip", "clear", {i})}
WordLists   == {<<>>} \cup {<<e>> : e \in PwmEdits}

PwmTypes ==
    /\ IsWord(pwmcfg)
    /\ pcalls \in [PwmActors -> WordLists]
    /\ pheld = [a \in PwmActors |-> pheld[a]]
    /\ missed = [a \in PwmActors |-> missed[a]]
    /\ \A a \in PwmActors : pheld[a] # <<>> => pcalls[a] # <<>> /\ IsWord(pheld[a][1])
    /\ modeAsked \subseteq Modes0

\* What differs from the word that an actor has read is among what it missed.
MissedIsTold ==
    \A a \in PwmActors : pheld[a] # <<>> =>
        \A p \in WordParts : SymDiff(pheld[a][1][p], pwmcfg[p]) \subseteq missed[a][p]

ModesAsAsked == modeRaced \/ pwmcfg.flags \cap Modes0 = modeAsked

PwmAccount == PwmTypes /\ MissedIsTold /\ ModesAsAsked

LEMMA WordFacts ==
    /\ IsWord(Nothing) /\ Nothing["flags"] = {} /\ Nothing["ip"] = {}
    /\ \A f, i : IsWord([flags |-> f, ip |-> i]) /\ [flags |-> f, ip |-> i]["flags"] = f /\ [flags |-> f, ip |-> i]["ip"] = i
  BY DEF IsWord, WordParts, Nothing

LEMMA PartChanged ==
    ASSUME NEW w, IsWord(w), NEW x
    PROVE  /\ IsWord([w EXCEPT !["flags"] = x]) /\ [w EXCEPT !["flags"] = x].flags = x /\ [w EXCEPT !["flags"] = x].ip = w.ip
           /\ IsWord([w EXCEPT !["ip"] = x]) /\ [w EXCEPT !["ip"] = x].flags = w.flags /\ [w EXCEPT !["ip"] = x].ip = x
  BY DEF IsWord, WordParts

LEMMA PwmCallsAreEdits ==
    /\ \A c \in RunCalls \cup FlagCalls \cup RoutinePwmCalls : c \in WordLists /\ c # <<>>
    /\ \A e \in PwmEdits : <<e>> # <<>> /\ Head(<<e>>) = e /\ Tail(<<e>>) = <<>>
    /\ <<>> \in WordLists /\ <<ZeroEdit>> = pwm_enable_unit
<1>1. \A m \in Modes0 \cup {"sticky"}, o \in {"set", "clear"} : Edit("flags", o, {m}) \in PwmEdits
  BY DEF PwmEdits, Edit, WordParts
<1>2. \A i \in PwmChannels : Edit("ip", "clear", {i}) \in PwmEdits
  BY DEF PwmEdits, Edit, WordParts
<1>3. ZeroEdit \in PwmEdits
  BY DEF PwmEdits, Edit, WordParts, ZeroEdit
<1>4. \A e \in PwmEdits : <<e>> # <<>> /\ Head(<<e>>) = e /\ Tail(<<e>>) = <<>>
  OBVIOUS
<1>5. \A e \in PwmEdits : <<e>> \in WordLists /\ <<e>> # <<>>
  BY DEF WordLists
<1>6. \A c \in RunCalls : c \in WordLists /\ c # <<>>
  BY <1>1, <1>3, <1>5 DEF RunCalls, pwm_enable_unit, pwm_stop, trigger_unit, Modes0, ZeroEdit
<1>7. \A i \in PwmChannels : clr_interrupt(i) \in WordLists /\ clr_interrupt(i) # <<>>
  BY <1>2, <1>5 DEF clr_interrupt
<1>8. \A on \in BOOLEAN : cfg_interrupt(on) \in WordLists /\ cfg_interrupt(on) # <<>>
  BY <1>1, <1>5 DEF cfg_interrupt
<1>9. pwm_stop \in RunCalls
  BY DEF RunCalls
<1>10. QED
  BY <1>4, <1>6, <1>7, <1>8, <1>9 DEF FlagCalls, RoutinePwmCalls, WordLists, pwm_enable_unit, ZeroEdit

LEMMA PwmStart == Pwm0Init => PwmAccount
<1>1. SUFFICES ASSUME Pwm0Init PROVE PwmAccount
  OBVIOUS
<1>2. PwmTypes /\ MissedIsTold
  BY <1>1, WordFacts, PwmCallsAreEdits DEF Pwm0Init, PwmTypes, MissedIsTold
<1>3. ModesAsAsked
  BY <1>1 DEF Pwm0Init, ModesAsAsked, Nothing
<1>4. QED
  BY <1>2, <1>3 DEF PwmAccount

LEMMA PwmEntryKeeps ==
    ASSUME PwmAccount, PwmEnter \/ PwmInterrupt
    PROVE  PwmAccount' /\ pwmcfg' = pwmcfg /\ pheld' = pheld
<1>1. PICK a \in PwmActors, c \in WordLists :
        pcalls[a] = <<>> /\ pcalls' = [pcalls EXCEPT ![a] = c]
  BY PwmCallsAreEdits DEF PwmEnter, PwmInterrupt, PwmActors
<1>2. UNCHANGED <<pwmcfg, pheld, missed, modeAsked, modeRaced>>
  BY DEF PwmEnter, PwmInterrupt
<1>3. pcalls' \in [PwmActors -> WordLists] /\ \A b \in PwmActors : pcalls[b] # <<>> => pcalls'[b] = pcalls[b]
  BY <1>1 DEF PwmAccount, PwmTypes
<1>4. PwmTypes'
  BY <1>2, <1>3 DEF PwmAccount, PwmTypes
<1>5. QED
  BY <1>2, <1>4 DEF PwmAccount, MissedIsTold, ModesAsAsked

LEMMA PwmReadKeeps ==
    ASSUME PwmAccount, NEW a \in PwmActors, ReadCfgWord(a)
    PROVE  PwmAccount' /\ pwmcfg' = pwmcfg
<1>0. PwmTypes /\ MissedIsTold /\ ModesAsAsked
  BY DEF PwmAccount
<1>1. /\ pcalls[a] # <<>> /\ pheld' = [pheld EXCEPT ![a] = <<pwmcfg>>]
      /\ UNCHANGED <<pwmcfg, pcalls, missed, modeAsked, modeRaced>>
  BY DEF ReadCfgWord, PwmRuns
<1>2. /\ pheld' = [b \in PwmActors |-> pheld'[b]] /\ pheld'[a] # <<>> /\ pheld'[a][1] = pwmcfg
      /\ \A b \in PwmActors \ {a} : pheld'[b] = pheld[b]
  BY <1>0, <1>1 DEF PwmTypes
<1>3. PwmTypes'
  BY <1>0, <1>1, <1>2 DEF PwmTypes
<1>4. MissedIsTold'
  BY <1>0, <1>1, <1>2 DEF MissedIsTold, SymDiff
<1>5. QED
  BY <1>0, <1>1, <1>3, <1>4 DEF PwmAccount, ModesAsAsked

\* Whoever holds the old word is told of the difference.
LEMMA BecomesTells ==
    ASSUME PwmAccount, NEW w, IsWord(w), Becomes(w),
           \A a \in PwmActors : pheld'[a] # <<>> => pheld'[a] = pheld[a]
    PROVE  MissedIsTold' /\ IsWord(pwmcfg') /\ missed' = [a \in PwmActors |-> missed'[a]]
<1>1. /\ pwmcfg' = w /\ missed' = [a \in PwmActors |-> missed'[a]]
      /\ \A a \in PwmActors, p \in WordParts : pheld'[a] # <<>> => missed'[a][p] = missed[a][p] \cup SymDiff(w[p], pwmcfg[p])
  BY DEF Becomes, WordParts
<1>2. MissedIsTold'
  <2>1. SUFFICES ASSUME NEW a \in PwmActors, pheld'[a] # <<>>, NEW p \in WordParts
                 PROVE  SymDiff(pheld'[a][1][p], pwmcfg'[p]) \subseteq missed'[a][p]
    BY DEF MissedIsTold
  <2>2. pheld'[a] = pheld[a] /\ SymDiff(pheld[a][1][p], pwmcfg[p]) \subseteq missed[a][p]
    BY <2>1 DEF PwmAccount, MissedIsTold
  <2>3. missed'[a][p] = missed[a][p] \cup SymDiff(w[p], pwmcfg[p])
    BY <1>1, <2>1
  <2>4. QED
    BY <1>1, <2>2, <2>3 DEF SymDiff
<1>3. QED
  BY <1>1, <1>2

LEMMA UnitKeeps ==
    ASSUME PwmAccount, PassComparator \/ StartOver
    PROVE  PwmAccount' /\ pheld' = pheld /\ ("sticky" \in pwmcfg.flags => pwmcfg.ip \subseteq pwmcfg'.ip)
<1>0. PwmTypes /\ MissedIsTold /\ ModesAsAsked
  BY DEF PwmAccount
<1>1. CASE PassComparator
  <2>1. PICK i \in PwmChannels : Becomes([pwmcfg EXCEPT !.ip = @ \cup {i}])
    BY <1>1 DEF PassComparator
  <2> DEFINE x == pwmcfg.ip \cup {i}
             w == [pwmcfg EXCEPT !["ip"] = x]
  <2>2. /\ IsWord(w) /\ w.ip = x /\ w.flags = pwmcfg.flags /\ Becomes(w)
    <3>1. Becomes(w)
      BY <2>1
    <3>2. IsWord(pwmcfg)
      BY <1>0 DEF PwmTypes
    <3> HIDE DEF x
    <3>3. QED
      BY <3>1, <3>2, PartChanged
  <2>3. UNCHANGED <<pcalls, pheld, modeAsked, modeRaced>>
    BY <1>1 DEF PassComparator
  <2> HIDE DEF w
  <2>4. pwmcfg' = w
    BY <2>2 DEF Becomes
  <2>5. MissedIsTold' /\ IsWord(pwmcfg') /\ missed' = [a \in PwmActors |-> missed'[a]]
    BY <2>2, <2>3, BecomesTells
  <2>6. PwmTypes'
    BY <1>0, <2>3, <2>5 DEF PwmTypes
  <2>7. ModesAsAsked'
    BY <1>0, <2>2, <2>3, <2>4 DEF ModesAsAsked
  <2>8. QED
    BY <2>2, <2>3, <2>4, <2>5, <2>6, <2>7 DEF PwmAccount
<1>2. CASE StartOver
  <2> DEFINE w == [flags |-> pwmcfg.flags \ {"enoneshot"}, ip |-> IF "sticky" \in pwmcfg.flags THEN pwmcfg.ip ELSE {}]
  <2>1. /\ Becomes(w) /\ UNCHANGED <<pcalls, pheld, modeRaced>> /\ modeAsked' = modeAsked \ {"enoneshot"}
    BY <1>2 DEF StartOver
  <2>2. /\ IsWord(w) /\ w.flags = pwmcfg.flags \ {"enoneshot"} /\ ("sticky" \in pwmcfg.flags => w.ip = pwmcfg.ip)
    BY WordFacts
  <2> HIDE DEF w
  <2>3. pwmcfg' = w
    BY <2>1 DEF Becomes
  <2>4. MissedIsTold' /\ IsWord(pwmcfg') /\ missed' = [a \in PwmActors |-> missed'[a]]
    BY <2>1, <2>2, BecomesTells
  <2>5. PwmTypes'
    BY <1>0, <2>1, <2>4 DEF PwmTypes
  <2>6. ModesAsAsked'
    BY <1>0, <2>1, <2>2, <2>3 DEF ModesAsAsked
  <2>7. QED
    BY <2>1, <2>2, <2>3, <2>4, <2>5, <2>6 DEF PwmAccount
<1>3. QED
  BY <1>1, <1>2

\* What an edit does to the word.
LEMMA EditedIs ==
    ASSUME NEW e \in PwmEdits, NEW w, IsWord(w)
    PROVE  /\ IsWord(Edited(e, w))
           /\ e.op = "zero" => e = ZeroEdit /\ Edited(e, w).flags = {} /\ Edited(e, w).ip = {}
           /\ e.op # "zero" /\ e.reg = "flags" => Edited(e, w).flags = Apply(e, w.flags) /\ Edited(e, w).ip = w.ip
           /\ e.op # "zero" /\ e.reg = "ip" =>
                 /\ Edited(e, w).flags = w.flags
                 /\ \E i \in PwmChannels : e = Edit("ip", "clear", {i}) /\ Edited(e, w).ip = w.ip \ {i}
           /\ e.reg \in WordParts
<1>1. e.reg \in WordParts /\ (e.op = "zero" => e = ZeroEdit) /\ (e.reg = "ip" => \E i \in PwmChannels : e = Edit("ip", "clear", {i}))
  BY DEF PwmEdits
<1>2. CASE e.op = "zero"
  BY <1>1, <1>2, WordFacts DEF Edited
<1>3. CASE e.op # "zero" /\ e.reg = "flags"
  <2> DEFINE x == Apply(e, w.flags)
  <2>1. Edited(e, w) = [w EXCEPT !["flags"] = x]
    BY <1>3 DEF Edited
  <2> HIDE DEF x
  <2>2. IsWord(Edited(e, w)) /\ Edited(e, w).flags = x /\ Edited(e, w).ip = w.ip
    <3>1. /\ IsWord([w EXCEPT !["flags"] = x]) /\ [w EXCEPT !["flags"] = x].flags = x
          /\ [w EXCEPT !["flags"] = x].ip = w.ip
      BY PartChanged, Zenon
    <3>2. QED
      BY <2>1, <3>1, Zenon
  <2>3. QED
    BY <1>1, <1>3, <2>2 DEF x
<1>4. CASE e.op # "zero" /\ e.reg = "ip"
  <2>1. PICK i \in PwmChannels : e = Edit("ip", "clear", {i})
    BY <1>1, <1>4
  <2>2. \A v : Apply(e, v) = v \ {i}
    BY <2>1 DEF Apply, Edit
  <2> DEFINE x == w.ip \ {i}
  <2>3. Edited(e, w) = [w EXCEPT !["ip"] = x]
    BY <1>4, <2>2 DEF Edited
  <2> HIDE DEF x
  <2>4. IsWord(Edited(e, w)) /\ Edited(e, w).flags = w.flags /\ Edited(e, w).ip = x
    <3>1. /\ IsWord([w EXCEPT !["ip"] = x]) /\ [w EXCEPT !["ip"] = x].flags = w.flags
          /\ [w EXCEPT !["ip"] = x].ip = x
      BY PartChanged, Zenon
    <3>2. QED
      BY <2>3, <3>1, Zenon
  <2>5. QED
    BY <1>1, <1>4, <2>1, <2>4 DEF x
<1>5. QED
  BY <1>1, <1>2, <1>3, <1>4 DEF WordParts

LEMMA PwmWriteKeeps ==
    ASSUME PwmAccount, NEW a \in PwmActors, WriteCfgWord(a)
    PROVE  PwmAccount' /\ StickyIsKept /\ NoSpuriousFlag
<1>0. PwmTypes /\ MissedIsTold /\ ModesAsAsked
  BY DEF PwmAccount
<1> DEFINE e == Head(pcalls[a])
           v == pheld[a][1]
           w == Edited(e, v)
<1>1. /\ pcalls[a] # <<>> /\ pheld[a] # <<>>
      /\ pcalls' = [pcalls EXCEPT ![a] = Tail(@)] /\ pheld' = [pheld EXCEPT ![a] = <<>>]
      /\ Becomes(w)
      /\ modeAsked' = Modes0 \cap Edited(e, [flags |-> modeAsked, ip |-> {}]).flags
      /\ modeRaced' = (modeRaced \/ missed[a].flags \cap Modes0 # {})
  BY DEF WriteCfgWord, PwmRuns
<1>2. /\ e \in PwmEdits /\ pcalls[a] = <<e>> /\ Tail(pcalls[a]) = <<>>
  <2>1. PICK d \in PwmEdits : pcalls[a] = <<d>>
    BY <1>0, <1>1 DEF PwmTypes, WordLists
  <2>2. QED
    BY <2>1
<1>3. IsWord(v) /\ \A p \in WordParts : SymDiff(v[p], pwmcfg[p]) \subseteq missed[a][p]
  BY <1>0, <1>1 DEF PwmTypes, MissedIsTold
<1> HIDE DEF e, v
<1>4. /\ IsWord(w)
      /\ e.op = "zero" => e = ZeroEdit /\ w.flags = {} /\ w.ip = {}
      /\ e.op # "zero" /\ e.reg = "flags" => w.flags = Apply(e, v.flags) /\ w.ip = v.ip
      /\ e.op # "zero" /\ e.reg = "ip" =>
            w.flags = v.flags /\ \E i \in PwmChannels : e = Edit("ip", "clear", {i}) /\ w.ip = v.ip \ {i}
      /\ e.reg \in WordParts
  BY <1>2, <1>3, EditedIs
<1>5. modeAsked' = Modes0 \cap (IF e.op = "zero" THEN {} ELSE IF e.reg = "flags" THEN Apply(e, modeAsked) ELSE modeAsked)
  <2> DEFINE u == [flags |-> modeAsked, ip |-> {}]
  <2>1. IsWord(u) /\ u.flags = modeAsked
    BY WordFacts
  <2> HIDE DEF u
  <2>2. Edited(e, u).flags = (IF e.op = "zero" THEN {} ELSE IF e.reg = "flags" THEN Apply(e, modeAsked) ELSE modeAsked)
    BY <1>2, <1>4, <2>1, EditedIs DEF WordParts
  <2>3. QED
    BY <1>1, <2>2 DEF u
<1> HIDE DEF w
<1>6. /\ pheld' = [b \in PwmActors |-> pheld'[b]] /\ pheld'[a] = <<>>
      /\ \A b \in PwmActors \ {a} : pheld'[b] = pheld[b] /\ pcalls'[b] = pcalls[b]
      /\ pcalls' \in [PwmActors -> WordLists]
  BY <1>0, <1>1, <1>2, PwmCallsAreEdits DEF PwmTypes
<1>7. pwmcfg' = w
  BY <1>1 DEF Becomes
<1>8. MissedIsTold' /\ IsWord(pwmcfg') /\ missed' = [b \in PwmActors |-> missed'[b]]
  <2>1. \A b \in PwmActors : pheld'[b] # <<>> => pheld'[b] = pheld[b]
    BY <1>6
  <2>2. QED
    BY <1>1, <1>4, <2>1, BecomesTells
<1>9. PwmTypes'
  <2>1. \A b \in PwmActors : pheld'[b] # <<>> => pcalls'[b] # <<>> /\ IsWord(pheld'[b][1])
    BY <1>0, <1>6 DEF PwmTypes
  <2>2. QED
    BY <1>5, <1>6, <1>8, <2>1 DEF PwmTypes
<1>10. ModesAsAsked'
  <2>1. SUFFICES ASSUME ~modeRaced, missed[a].flags \cap Modes0 = {}
                 PROVE  w.flags \cap Modes0 = modeAsked'
    BY <1>1, <1>7 DEF ModesAsAsked
  <2>2. SymDiff(v.flags, pwmcfg.flags) \subseteq missed[a].flags
    BY <1>3 DEF WordParts
  <2>3. v.flags \cap Modes0 = modeAsked
    BY <1>0, <2>1, <2>2 DEF ModesAsAsked, SymDiff
  <2>4. Apply(e, v.flags) \cap Modes0 = Modes0 \cap Apply(e, modeAsked)
    BY <2>3 DEF Apply
  <2>5. QED
    BY <1>0, <1>4, <1>5, <2>3, <2>4 DEF PwmTypes, WordParts
<1>11. SymDiff(v.ip, pwmcfg.ip) \subseteq missed[a].ip
  BY <1>3 DEF WordParts
<1>12. w.ip \subseteq v.ip
  BY <1>4 DEF WordParts
<1>13. NoSpuriousFlag
  <2>1. SUFFICES ASSUME NEW i \in w.ip, i \notin pwmcfg.ip
                 PROVE  pheld'[a] # pheld[a] /\ i \in missed[a].ip
    BY <1>7 DEF NoSpuriousFlag
  <2>2. QED
    BY <1>1, <1>6, <1>11, <1>12, <2>1 DEF SymDiff
<1>14. StickyIsKept
  <2>1. SUFFICES ASSUME NEW i \in pwmcfg.ip \ w.ip
                 PROVE  \/ i \notin v.ip
                        \/ e = Edit("ip", "clear", {i})
                        \/ pcalls[a] = pwm_enable_unit
    BY <1>1, <1>6, <1>7 DEF StickyIsKept, e, v
  <2>2. CASE e.op = "zero"
    BY <1>2, <1>4, <2>2, PwmCallsAreEdits
  <2>3. CASE e.op # "zero"
    BY <1>4, <2>1, <2>3 DEF WordParts
  <2>4. QED
    BY <2>2, <2>3
<1>15. QED
  BY <1>8, <1>9, <1>10, <1>13, <1>14 DEF PwmAccount

LEMMA EveryPwmStep ==
    PwmAccount /\ [Pwm0Next]_metalPwmVars => PwmAccount' /\ [StickyIsKept /\ NoSpuriousFlag]_metalPwmVars
<1>1. SUFFICES ASSUME PwmAccount, [Pwm0Next]_metalPwmVars
               PROVE  PwmAccount' /\ [StickyIsKept /\ NoSpuriousFlag]_metalPwmVars
  OBVIOUS
<1>2. CASE UNCHANGED metalPwmVars
  BY <1>1, <1>2 DEF metalPwmVars, PwmAccount, PwmTypes, MissedIsTold, ModesAsAsked
<1>3. pwmcfg' = pwmcfg => StickyIsKept /\ NoSpuriousFlag
  BY DEF StickyIsKept, NoSpuriousFlag
<1>4. CASE PwmEnter \/ PwmInterrupt
  BY <1>1, <1>3, <1>4, PwmEntryKeeps
<1>5. CASE PassComparator \/ StartOver
  BY <1>1, <1>5, UnitKeeps DEF StickyIsKept, NoSpuriousFlag
<1>6. ASSUME NEW a \in PwmActors, ReadCfgWord(a) PROVE PwmAccount' /\ StickyIsKept /\ NoSpuriousFlag
  BY <1>1, <1>3, <1>6, PwmReadKeeps
<1>7. ASSUME NEW a \in PwmActors, WriteCfgWord(a) PROVE PwmAccount' /\ StickyIsKept /\ NoSpuriousFlag
  BY <1>1, <1>7, PwmWriteKeeps
<1>8. QED
  BY <1>1, <1>2, <1>4, <1>5, <1>6, <1>7 DEF Pwm0Next

(* sifive_pwm0.c:241-310: whatever the comparators are, the unit runs as the *)
(* calls asked unless a mode changed between a call's read of the word and   *)
(* its write; a sticky flag goes only by the call that clears it, by enable, *)
(* or because it came between such a read and write; and a flag comes back   *)
(* only because a call read it before it was cleared.                        *)
THEOREM PwmWordIsAsShared == Pwm0Spec => PwmWordIsShared
<1>1. PwmAccount => ModesAsAsked
  BY DEF PwmAccount
<1>2. QED
  BY <1>1, PwmStart, EveryPwmStep, PTL DEF Pwm0Spec, PwmWordIsShared, ModesAsAsked

-----------------------------------------------------------------------------
(* The performance counters (hpm.c)                                          *)

\* Where the program is while the trap vector is not its own.
InWindow == {"enable", "refuse", "disable", "close", "closeOff"}
HpmPlaces == InWindow \cup {"idle", "vl", "vh1", "compare", "low", "high"}

HpmTypes ==
    /\ counter \in Nat /\ from \in Nat /\ moved \in Nat
    /\ hpc \in HpmPlaces

VectorAccount == hpc \notin InWindow => vectorBase = "program"

\* Both words of a reading are of values the counter held since the first one was read.
ReadingAccount ==
    /\ hpc \in {"vl", "vh1", "compare"} => vh = from \div HpmWord /\ from <= counter
    /\ hpc = "vh1" => \E c \in Nat : from <= c /\ c <= counter /\ vl = c % HpmWord
    /\ hpc = "compare" => \E c, d \in Nat : from <= c /\ c <= d /\ d <= counter /\ vl = c % HpmWord /\ vh1 = d \div HpmWord

\* The low word that was cleared has counted the ticks since then, and may have wrapped.
ClearingAccount == hpc = "high" => \E k \in Nat : counter = k * HpmWord + moved

HpmAccount == HpmTypes /\ VectorAccount /\ (caught => ~mie) /\ ReadingAccount /\ ClearingAccount

-----------------------------------------------------------------------------
LEMMA Words ==
    ASSUME NEW x \in Nat
    PROVE  /\ x \div HpmWord \in Nat /\ x % HpmWord \in Nat /\ (x % HpmWord) < HpmWord
           /\ x = HpmWord * (x \div HpmWord) + (x % HpmWord)
  BY HpmAssumption DEF HpmAssumption

\* A multiple of a word is not negative, and not less than a word if it is not zero.
LEMMA Multiples ==
    ASSUME NEW k \in Int
    PROVE  /\ k * HpmWord \in Int /\ k * HpmWord = HpmWord * k
           /\ k >= 0 => k * HpmWord >= 0
           /\ k >= 1 => k * HpmWord >= HpmWord
           /\ k <= 0 => k * HpmWord <= 0
  BY HpmAssumption DEF HpmAssumption

LEMMA Difference ==
    ASSUME NEW j \in Int, NEW k \in Int
    PROVE  (j - k) * HpmWord = j * HpmWord - k * HpmWord
  BY HpmAssumption DEF HpmAssumption

LEMMA HighWordGrows ==
    ASSUME NEW x \in Nat, NEW y \in Nat, x <= y
    PROVE  x \div HpmWord <= y \div HpmWord
<1> DEFINE W == HpmWord  j == x \div HpmWord  k == y \div HpmWord  r == x % HpmWord  s == y % HpmWord
<1>1. j \in Nat /\ k \in Nat /\ r \in Nat /\ s \in Nat /\ r < W /\ s < W /\ W \in Nat
  BY Words, HpmAssumption DEF HpmAssumption
<1>2. x = j * W + r /\ y = k * W + s /\ j * W \in Int /\ k * W \in Int
  BY <1>1, Words, Multiples
<1>3. (j - k) * W = j * W - k * W /\ j - k \in Int
  BY <1>1, Difference
<1>4. j - k >= 1 => (j - k) * W >= W
  BY <1>3, Multiples
<1>5. ASSUME j > k PROVE FALSE
  <2>1. (j - k) * W >= W
    BY <1>1, <1>4, <1>5
  <2> HIDE DEF j, k, r, s, W
  <2>2. QED
    BY <1>1, <1>2, <1>3, <2>1
<1>6. QED
  BY <1>1, <1>5

LEMMA LowWordIsSmall ==
    ASSUME NEW x \in Nat, NEW k \in Nat, NEW m \in Nat, x = k * HpmWord + m
    PROVE  (x % HpmWord) <= m
<1> DEFINE W == HpmWord  j == x \div HpmWord  r == x % HpmWord
<1>1. j \in Nat /\ r \in Nat /\ r < W /\ W \in Nat
  BY Words, HpmAssumption DEF HpmAssumption
<1>2. x = j * W + r /\ j * W \in Int /\ k * W \in Int
  BY <1>1, Words, Multiples
<1>3. (k - j) * W = k * W - j * W /\ k - j \in Int
  BY <1>1, Difference
<1>4. (k - j >= 1 => (k - j) * W >= W) /\ (k - j <= 0 => (k - j) * W <= 0)
  BY <1>3, Multiples
<1>5. ASSUME r > m PROVE FALSE
  <2> HIDE DEF j, r, W
  <2>1. r - m = (k - j) * W
    BY <1>1, <1>2, <1>3, <1>5 DEF W
  <2>2. k - j >= 1 \/ k - j <= 0
    BY <1>1
  <2>3. QED
    BY <1>1, <1>3, <1>4, <1>5, <2>1, <2>2
<1>6. QED
  BY <1>1, <1>5

-----------------------------------------------------------------------------
LEMMA HpmStart == HpmInit => HpmAccount
  BY DEF HpmInit, HpmAccount, HpmTypes, HpmPlaces, InWindow, VectorAccount, ReadingAccount, ClearingAccount

LEMMA TicksKeepAccount ==
    ASSUME HpmAccount, CounterTicks
    PROVE  HpmAccount'
<1>1. /\ counter' = counter + 1 /\ moved' = (IF moved < HpmTicks THEN moved + 1 ELSE moved) /\ counter < HpmTicks
      /\ UNCHANGED <<hpc, vh, vl, vh1, from, caught, mie, vectorBase>>
  BY DEF CounterTicks, hpmHart
<1>2. HpmTypes /\ VectorAccount /\ (caught => ~mie) /\ ReadingAccount /\ ClearingAccount
  BY DEF HpmAccount
<1>3. HpmTypes' /\ VectorAccount' /\ (caught => ~mie)'
  <2>1. moved' \in Nat
    BY <1>1, <1>2 DEF HpmTypes
  <2>2. QED
    BY <1>1, <1>2, <2>1 DEF HpmTypes, VectorAccount
<1>4. ReadingAccount'
  BY <1>1, <1>2 DEF HpmTypes, ReadingAccount
<1>5. ClearingAccount'
  <2>1. SUFFICES ASSUME hpc = "high" PROVE \E k \in Nat : counter' = k * HpmWord + moved'
    BY <1>1 DEF ClearingAccount
  <2>2. PICK k \in Nat : counter = k * HpmWord + moved
    BY <1>2, <2>1 DEF ClearingAccount
  <2>3. k * HpmWord \in Int /\ k * HpmWord >= 0
    BY Multiples
  <2> DEFINE start == k * HpmWord
  <2>4. counter' = start + moved'
    <3>1. HpmTicks \in Nat
      BY HpmAssumption DEF HpmAssumption
    <3>2. start \in Int /\ start >= 0 /\ counter = start + moved /\ counter \in Nat /\ moved \in Nat
      BY <1>2, <2>2, <2>3 DEF HpmTypes
    <3> HIDE DEF start
    <3>3. QED
      BY <1>1, <3>1, <3>2
  <2>5. QED
    BY <2>4
<1>6. QED
  BY <1>3, <1>4, <1>5 DEF HpmAccount

LEMMA ReadKeepsHpm ==
    ASSUME HpmAccount, hpm_read_counter
    PROVE  HpmAccount' /\ CounterReadIsCurrent
<1>1. /\ UNCHANGED <<vectorBase, mie, counter, moved, caught>>
      /\ HpmTypes /\ VectorAccount /\ (caught => ~mie) /\ ReadingAccount /\ ClearingAccount
  BY DEF hpm_read_counter, hpmHart, HpmAccount
<1>2. counter \in Nat /\ from \in Nat /\ moved \in Nat
  BY <1>1 DEF HpmTypes
<1>3. CASE hpc' = "vl" /\ hpc \in {"idle", "compare"} /\ vh' = counter \div HpmWord /\ from' = counter
  <2>1. HpmTypes' /\ VectorAccount' /\ ReadingAccount' /\ ClearingAccount' /\ CounterReadIsCurrent
    BY <1>1, <1>2, <1>3 DEF HpmTypes, HpmPlaces, InWindow, VectorAccount, ReadingAccount, ClearingAccount, CounterReadIsCurrent
  <2>2. QED
    BY <1>1, <2>1 DEF HpmAccount
<1>4. CASE At("vl", "vh1") /\ vl' = counter % HpmWord /\ UNCHANGED <<vh, vh1, from>>
  <2>1. HpmTypes' /\ VectorAccount' /\ ClearingAccount' /\ CounterReadIsCurrent
    BY <1>1, <1>2, <1>4 DEF At, HpmTypes, HpmPlaces, InWindow, VectorAccount, ClearingAccount, CounterReadIsCurrent
  <2>2. vh = from \div HpmWord /\ from <= counter
    BY <1>1, <1>4 DEF At, ReadingAccount
  <2>3. ReadingAccount'
    BY <1>1, <1>2, <1>4, <2>2 DEF At, ReadingAccount
  <2>4. QED
    BY <1>1, <2>1, <2>3 DEF HpmAccount
<1>5. CASE At("vh1", "compare") /\ vh1' = counter \div HpmWord /\ UNCHANGED <<vh, vl, from>>
  <2>1. HpmTypes' /\ VectorAccount' /\ ClearingAccount' /\ CounterReadIsCurrent
    BY <1>1, <1>2, <1>5 DEF At, HpmTypes, HpmPlaces, InWindow, VectorAccount, ClearingAccount, CounterReadIsCurrent
  <2>2. vh = from \div HpmWord /\ from <= counter /\ \E c \in Nat : from <= c /\ c <= counter /\ vl = c % HpmWord
    BY <1>1, <1>5 DEF At, ReadingAccount
  <2>3. ReadingAccount'
    BY <1>1, <1>2, <1>5, <2>2 DEF At, ReadingAccount
  <2>4. QED
    BY <1>1, <2>1, <2>3 DEF HpmAccount
<1>6. CASE At("compare", "idle") /\ SameHigh /\ UNCHANGED <<vh, vl, vh1, from>>
  <2>1. HpmTypes' /\ VectorAccount' /\ ReadingAccount' /\ ClearingAccount'
    BY <1>1, <1>2, <1>6 DEF At, HpmTypes, HpmPlaces, InWindow, VectorAccount, ReadingAccount, ClearingAccount
  <2>2. PICK c \in Nat, d \in Nat : from <= c /\ c <= d /\ d <= counter /\ vl = c % HpmWord /\ vh1 = d \div HpmWord
    BY <1>1, <1>6 DEF At, ReadingAccount
  <2>3. vh = from \div HpmWord /\ vh = vh1
    BY <1>1, <1>6 DEF At, ReadingAccount, SameHigh
  <2>4. from \div HpmWord <= c \div HpmWord /\ c \div HpmWord <= d \div HpmWord
    BY <1>2, <2>2, HighWordGrows
  <2>5. vh = c \div HpmWord
    <3>1. from \div HpmWord \in Nat /\ c \div HpmWord \in Nat /\ d \div HpmWord \in Nat
      BY <1>2, Words
    <3>2. QED
      BY <2>2, <2>3, <2>4, <3>1
  <2>6. c = vh * HpmWord + vl
    <3>1. c = HpmWord * vh + vl /\ vh \in Nat /\ vl \in Nat
      BY <2>2, <2>5, Words
    <3>2. QED
      BY <3>1, Multiples
  <2>7. CounterReadIsCurrent
    BY <1>2, <2>2, <2>6 DEF CounterReadIsCurrent
  <2>8. QED
    BY <1>1, <2>1, <2>7 DEF HpmAccount
<1>7. QED
  BY <1>3, <1>4, <1>5, <1>6 DEF hpm_read_counter, At

LEMMA ClearKeepsHpm ==
    ASSUME HpmAccount, hpm_clear_counter
    PROVE  HpmAccount' /\ ClearedCounterIsSmall
<1>1. /\ UNCHANGED <<vectorBase, mie, from, caught>>
      /\ HpmTypes /\ VectorAccount /\ (caught => ~mie) /\ ReadingAccount /\ ClearingAccount
  BY DEF hpm_clear_counter, hpmHart, HpmAccount
<1>2. counter \in Nat /\ from \in Nat /\ moved \in Nat
  BY <1>1 DEF HpmTypes
<1>3. counter % HpmWord \in Nat /\ counter \div HpmWord \in Nat
  BY <1>2, Words
<1>4. CASE At("idle", "low") /\ counter' = counter % HpmWord /\ UNCHANGED moved
  <2>1. HpmTypes' /\ VectorAccount' /\ ReadingAccount' /\ ClearingAccount' /\ ClearedCounterIsSmall
    BY <1>1, <1>2, <1>3, <1>4
       DEF At, HpmTypes, HpmPlaces, InWindow, VectorAccount, ReadingAccount, ClearingAccount, ClearedCounterIsSmall
  <2>2. QED
    BY <1>1, <2>1 DEF HpmAccount
<1>5. CASE At("low", "high") /\ counter' = (counter \div HpmWord) * HpmWord /\ moved' = 0
  <2> DEFINE k == counter \div HpmWord
  <2>1. k \in Nat /\ counter' = k * HpmWord + moved' /\ counter' \in Nat
    <3>1. k * HpmWord \in Int /\ k * HpmWord >= 0
      BY <1>3, Multiples
    <3>2. QED
      BY <1>3, <1>5, <3>1
  <2> HIDE DEF k
  <2>2. HpmTypes' /\ VectorAccount' /\ ReadingAccount' /\ ClearedCounterIsSmall
    BY <1>1, <1>2, <1>5, <2>1 DEF At, HpmTypes, HpmPlaces, InWindow, VectorAccount, ReadingAccount, ClearedCounterIsSmall
  <2>3. ClearingAccount'
    BY <2>1 DEF ClearingAccount
  <2>4. QED
    BY <1>1, <2>2, <2>3 DEF HpmAccount
<1>6. CASE At("high", "idle") /\ counter' = HighAgain /\ UNCHANGED moved
  <2>1. HpmTypes' /\ VectorAccount' /\ ReadingAccount' /\ ClearingAccount'
    BY <1>1, <1>2, <1>3, <1>6 DEF At, HighAgain, HpmTypes, HpmPlaces, InWindow, VectorAccount, ReadingAccount, ClearingAccount
  <2>2. PICK k \in Nat : counter = k * HpmWord + moved
    BY <1>1, <1>6 DEF At, ClearingAccount
  <2>3. (counter % HpmWord) <= moved
    BY <1>2, <2>2, LowWordIsSmall
  <2>4. ClearedCounterIsSmall
    BY <1>6, <2>3 DEF HighAgain, ClearedCounterIsSmall
  <2>5. QED
    BY <1>1, <2>1, <2>4 DEF HpmAccount
<1>7. QED
  BY <1>4, <1>5, <1>6 DEF hpm_clear_counter

\* What the windows and the interrupts leave alone.
LEMMA WindowsKeepHpm ==
    ASSUME HpmAccount, hpm_init \/ OpenWindow \/ WriteEn \/ CloseWindow \/ RaiseIrq \/ TakeIrq
    PROVE  HpmAccount' /\ CaughtMeansDeaf
<1>1. HpmTypes /\ VectorAccount /\ (caught => ~mie) /\ ReadingAccount /\ ClearingAccount
  BY DEF HpmAccount
<1>2. UNCHANGED <<vh, vl, vh1, from, moved>> /\ (counter' = counter \/ (hpc = "idle" /\ hpc' = "idle" /\ counter' = 0))
  BY DEF hpm_init, OpenWindow, WriteEn, CloseWindow, RaiseIrq, TakeIrq, hpmRead
<1>3. hpc' = hpc \/ hpc' \in InWindow \cup {"idle"}
  BY <1>1 DEF hpm_init, OpenWindow, WriteEn, CloseWindow, RaiseIrq, TakeIrq, At, InWindow
<1>4. HpmTypes' /\ ReadingAccount' /\ ClearingAccount'
  BY <1>1, <1>2, <1>3 DEF HpmTypes, ReadingAccount, ClearingAccount, InWindow, HpmPlaces
<1>5. VectorAccount' /\ (caught => ~mie)' /\ CaughtMeansDeaf
  <2>1. CASE hpm_init \/ RaiseIrq
    BY <1>1, <2>1 DEF hpm_init, RaiseIrq, hpmHart, VectorAccount, CaughtMeansDeaf
  <2>2. CASE OpenWindow
    BY <1>1, <2>2 DEF OpenWindow, At, VectorAccount, InWindow, CaughtMeansDeaf
  <2>3. CASE WriteEn
    BY <1>1, <2>3 DEF WriteEn, VectorAccount, InWindow, CaughtMeansDeaf
  <2>4. CASE CloseWindow
    BY <1>1, <2>4 DEF CloseWindow, Restored, MieAfter, VectorAccount, InWindow, CaughtMeansDeaf
  <2>5. CASE TakeIrq
    BY <1>1, <2>5 DEF TakeIrq, VectorAccount, InWindow, CaughtMeansDeaf
  <2>6. QED
    BY <2>1, <2>2, <2>3, <2>4, <2>5
<1>6. QED
  BY <1>4, <1>5 DEF HpmAccount

LEMMA EveryHpmStep ==
    HpmAccount /\ [HpmNext]_hpmVars =>
        HpmAccount' /\ [CounterReadIsCurrent /\ ClearedCounterIsSmall /\ CaughtMeansDeaf]_hpmVars
<1> SUFFICES ASSUME HpmAccount, [HpmNext]_hpmVars
             PROVE  HpmAccount' /\ [CounterReadIsCurrent /\ ClearedCounterIsSmall /\ CaughtMeansDeaf]_hpmVars
  OBVIOUS
<1>1. CASE CounterTicks
  <2>1. CounterReadIsCurrent /\ ClearedCounterIsSmall /\ CaughtMeansDeaf
    BY <1>1 DEF CounterTicks, hpmHart, HpmAccount, CounterReadIsCurrent, ClearedCounterIsSmall, CaughtMeansDeaf
  <2>2. QED
    BY <1>1, <2>1, TicksKeepAccount
<1>2. CASE hpm_read_counter
  <2>1. ClearedCounterIsSmall /\ CaughtMeansDeaf
    BY <1>2 DEF hpm_read_counter, At, hpmHart, HpmAccount, ClearedCounterIsSmall, CaughtMeansDeaf
  <2>2. QED
    BY <1>2, <2>1, ReadKeepsHpm
<1>3. CASE hpm_clear_counter
  <2>1. CounterReadIsCurrent /\ CaughtMeansDeaf
    BY <1>3 DEF hpm_clear_counter, At, hpmHart, HpmAccount, CounterReadIsCurrent, CaughtMeansDeaf
  <2>2. QED
    BY <1>3, <2>1, ClearKeepsHpm
<1>4. CASE hpm_init \/ OpenWindow \/ WriteEn \/ CloseWindow \/ RaiseIrq \/ TakeIrq
  <2>1. CounterReadIsCurrent /\ ClearedCounterIsSmall
    <3>1. ~(hpc \in {"compare", "high"} /\ hpc' = "idle")
      <4>1. hpc \in {"compare", "high"} => vectorBase = "program"
        BY DEF HpmAccount, VectorAccount, InWindow
      <4>2. QED
        BY <1>4, <4>1 DEF hpm_init, OpenWindow, WriteEn, CloseWindow, RaiseIrq, TakeIrq, At
    <3>2. QED
      BY <3>1 DEF CounterReadIsCurrent, ClearedCounterIsSmall
  <2>2. QED
    BY <1>4, <2>1, WindowsKeepHpm
<1>5. CASE UNCHANGED hpmVars
  BY <1>5 DEF hpmVars, hpmHart, hpmRead, HpmAccount, HpmTypes, VectorAccount, ReadingAccount, ClearingAccount
<1>6. QED
  BY <1>1, <1>2, <1>3, <1>4, <1>5 DEF HpmNext

(* hpm.c:38-61, 125-132, 214-249: whatever a word holds and however the      *)
(* counter runs, a counter read in two words is one it held meanwhile; one   *)
(* that was cleared holds no more than the ticks since then; the hart gets   *)
(* its trap vector back; and a call that was caught leaves it deaf for good. *)
THEOREM CountersAreTold == HpmSpec => CountersAreSound
<1>1. HpmAccount => (hpc \notin {"enable", "refuse", "disable", "close", "closeOff"} => vectorBase = "program")
  BY DEF HpmAccount, VectorAccount, InWindow
<1>2. QED
  BY <1>1, HpmStart, EveryHpmStep, PTL DEF HpmSpec, CountersAreSound

-----------------------------------------------------------------------------
(* A CLIC (sifive_clic0.c)                                                   *)

CtlBytes == SUBSET (0 .. 7)

ClicTypes ==
    /\ intBits \in 2 .. 8 /\ clicDone \in BOOLEAN
    /\ clicMode \in {"direct", "clic", "clic vectored"}
    /\ cfg \in [nmbits : 0 .. 2, nlbits : 0 .. 8, nvbit : BOOLEAN]
    /\ ctl \in [Ids0 -> CtlBytes]
    /\ mtvt \in [Ids0 -> {"NULL", "dispatch", "user", "default"}]
    /\ clicTable \in [ClicIds -> {"NULL", "user", "default"}]
    /\ via \in [ClicIds -> {"none", "common", "vector"}]

\* What is not implemented reads as ones.
BytesAreWhole == \A i \in Ids0 : CtlBits(ctl[i]) = ctl[i]

\* An accepted handler is in the table that its interrupt is looked up in; the
\* controller's initialiser comes first.
ViaAccount ==
    /\ ~clicDone => cfg.nlbits = 0 /\ \A i \in ClicIds : via[i] = "none"
    /\ \A i \in ClicIds :
        /\ via[i] = "vector" => IsVectored(i) /\ mtvt[i] = "user"
        /\ via[i] = "common" => ~IsVectored(i) /\ clicTable[i] = "user"

ClicAccount == ClicTypes /\ BytesAreWhole /\ ViaAccount

-----------------------------------------------------------------------------
LEMMA IdsAre == 0 \notin ClicIds /\ ClicIds \subseteq Ids0 /\ 0 \in Ids0
  BY ClicAssumption DEF ClicAssumption, Ids0

LEMMA LowBit == \A n \in Nat : \A b : b \in LowBits(n) <=> b \in 0 .. 7 /\ b + n < 8
  BY DEF LowBits

\* The bits of a byte that was written.
LEMMA CtlBit ==
    ASSUME intBits \in 2 .. 8
    PROVE  /\ \A v, b : b \in CtlBits(v) <=> b \in 0 .. 7 /\ (b + intBits < 8 \/ b \in v)
           /\ \A v : CtlBits(v) \in CtlBytes /\ CtlBits(CtlBits(v)) = CtlBits(v)
<1>1. \A v, b : b \in CtlBits(v) <=> b \in 0 .. 7 /\ (b + intBits < 8 \/ b \in v)
  BY DEF CtlBits
<1>2. \A v : CtlBits(v) \in CtlBytes
  BY <1>1 DEF CtlBytes
<1>3. \A v : CtlBits(CtlBits(v)) = CtlBits(v)
  <2>1. TAKE v
  <2>2. \A b : b \in CtlBits(CtlBits(v)) <=> b \in CtlBits(v)
    BY <1>1
  <2>3. QED
    BY <2>2
<1>4. QED
  BY <1>1, <1>2, <1>3

\* The fields by their bits.
LEMMA CtlFieldBits ==
    ASSUME ClicTypes
    PROVE  /\ LevelBits \in 0 .. 8 /\ cfg.nmbits \in 0 .. 2 /\ cfg.nlbits \in 0 .. 8
           /\ LevelBits = IF cfg.nmbits + cfg.nlbits >= intBits THEN intBits - cfg.nmbits ELSE cfg.nlbits
           /\ \A b : b \in LevelField <=> b \in 0 .. 7 /\ b + cfg.nmbits < 8 /\ b + cfg.nmbits + cfg.nlbits >= 8
           /\ \A b : b \in PriorityField <=> /\ cfg.nmbits + cfg.nlbits <= intBits
                                             /\ b \in 0 .. 7 /\ b + cfg.nmbits + cfg.nlbits < 8 /\ b + intBits >= 8
           /\ \A i, b : b \in Got0(i) <=> b \in 0 .. 7 /\ b + cfg.nmbits < 8 /\ b + cfg.nmbits + LevelBits >= 8
<1> DEFINE nm == cfg.nmbits  nl == cfg.nlbits
<1>1. nm \in 0 .. 2 /\ nl \in 0 .. 8 /\ intBits \in 2 .. 8
  BY DEF ClicTypes
<1>2. LevelBits = IF nm + nl >= intBits THEN intBits - nm ELSE nl
  BY DEF LevelBits
<1>3. LevelBits \in 0 .. 8
  <2> HIDE DEF nm, nl
  <2>1. QED
    BY <1>1, <1>2
<1>4. \A b : b \in LevelField <=> b \in 0 .. 7 /\ b + nm < 8 /\ b + nm + nl >= 8
  <2>1. \A b : b \in LevelField <=> b \in LowBits(nm) /\ b \notin LowBits(nm + nl)
    BY DEF LevelField
  <2> HIDE DEF nm, nl
  <2>2. QED
    BY <1>1, <2>1, LowBit
<1>5. \A b : b \in PriorityField <=> nm + nl <= intBits /\ b \in 0 .. 7 /\ b + nm + nl < 8 /\ b + intBits >= 8
  <2>1. \A b : b \in PriorityField <=> nm + nl <= intBits /\ b \in LowBits(nm + nl) /\ b \notin LowBits(intBits)
    BY DEF PriorityField
  <2> HIDE DEF nm, nl
  <2>2. QED
    BY <1>1, <2>1, LowBit
<1>6. \A i, b : b \in Got0(i) <=> b \in 0 .. 7 /\ b + nm < 8 /\ b + nm + LevelBits >= 8
  <2>1. \A i, b : b \in Got0(i) <=> b \in LowBits(nm) /\ b \notin LowBits(nm + LevelBits)
    BY DEF Got0
  <2> HIDE DEF nm, nl
  <2>2. QED
    BY <1>1, <1>3, <2>1, LowBit
<1>7. QED
  BY <1>1, <1>2, <1>3, <1>4, <1>5, <1>6

\* A byte after each of the calls.
LEMMA ByteWritten ==
    ASSUME ClicTypes
    PROVE  /\ \A x, v, b : b \in WithLevel(x, v) <=>
                b \in 0 .. 7 /\ (b + intBits < 8 \/ (IF b \in LevelField THEN b \in v ELSE b \in x))
           /\ \A x, v, b : b \in WithPriority(x, v) <=>
                b \in 0 .. 7 /\ (b + intBits < 8 \/ (IF b \in PriorityField THEN b \in v ELSE b \in x))
<1>1. \A v, b : b \in CtlBits(v) <=> b \in 0 .. 7 /\ (b + intBits < 8 \/ b \in v)
  BY CtlBit DEF ClicTypes
<1>2. \A x, v, b : b \in (x \ LevelField) \cup (v \cap LevelField) <=> (IF b \in LevelField THEN b \in v ELSE b \in x)
  OBVIOUS
<1>3. \A x, v, b : b \in (x \ PriorityField) \cup (v \cap PriorityField) <=> (IF b \in PriorityField THEN b \in v ELSE b \in x)
  OBVIOUS
<1>4. \A x, v : WithLevel(x, v) = CtlBits((x \ LevelField) \cup (v \cap LevelField))
  BY DEF WithLevel
<1>5. \A x, v : WithPriority(x, v) = CtlBits((x \ PriorityField) \cup (v \cap PriorityField))
  BY DEF WithPriority
<1>6. ASSUME NEW x, NEW v, NEW b
      PROVE  b \in WithLevel(x, v) <=> b \in 0 .. 7 /\ (b + intBits < 8 \/ (IF b \in LevelField THEN b \in v ELSE b \in x))
  <2> DEFINE w == (x \ LevelField) \cup (v \cap LevelField)
  <2>1. b \in CtlBits(w) <=> b \in 0 .. 7 /\ (b + intBits < 8 \/ b \in w)
    BY <1>1
  <2>2. QED
    BY <1>2, <1>4, <2>1
<1>7. ASSUME NEW x, NEW v, NEW b
      PROVE  b \in WithPriority(x, v) <=> b \in 0 .. 7 /\ (b + intBits < 8 \/ (IF b \in PriorityField THEN b \in v ELSE b \in x))
  <2> DEFINE w == (x \ PriorityField) \cup (v \cap PriorityField)
  <2>1. b \in CtlBits(w) <=> b \in 0 .. 7 /\ (b + intBits < 8 \/ b \in w)
    BY <1>1
  <2>2. QED
    BY <1>3, <1>5, <2>1
<1>8. QED
  BY <1>6, <1>7

\* A level is told by its bits.
LEMMA LevelTold ==
    ASSUME ClicTypes, intBits' = intBits, cfg' = cfg, NEW i \in ClicIds,
           ctl'[i] \cap Got0(i) = ctl[i] \cap Got0(i)
    PROVE  interrupt_get_level(i)' = interrupt_get_level(i)
<1>1. Got0(i)' = Got0(i) /\ LevelBits' = LevelBits
  BY DEF Got0, LevelBits
<1>2. QED
  BY <1>1 DEF interrupt_get_level

-----------------------------------------------------------------------------
LEMMA ClicStart == ClicInit => ClicAccount
<1>1. SUFFICES ASSUME ClicInit PROVE ClicAccount
  OBVIOUS
<1>2. intBits \in 2 .. 8
  BY <1>1, ClicAssumption DEF ClicInit, ClicAssumption
<1>3. ctl = [i \in Ids0 |-> CtlBits({})] /\ CtlBits({}) \in CtlBytes /\ CtlBits(CtlBits({})) = CtlBits({})
  BY <1>1, <1>2, CtlBit DEF ClicInit
<1>4. ClicTypes /\ BytesAreWhole
  <2>1. ctl \in [Ids0 -> CtlBytes] /\ \A i \in Ids0 : CtlBits(ctl[i]) = ctl[i]
    BY <1>3
  <2>2. cfg \in [nmbits : 0 .. 2, nlbits : 0 .. 8, nvbit : BOOLEAN]
    BY <1>1 DEF ClicInit
  <2>3. QED
    BY <1>1, <1>2, <2>1, <2>2 DEF ClicInit, ClicTypes, BytesAreWhole
<1>5. ViaAccount
  BY <1>1 DEF ClicInit, ViaAccount
<1>6. QED
  BY <1>4, <1>5 DEF ClicAccount

\* The calls that write no byte, but for the first of all.
LEMMA SettingsKeepClic ==
    ASSUME ClicAccount, set_vector_mode0 \/ configure \/ sifive_clic0_register \/ register_line3 \/ clic0_vector_register
    PROVE  ClicAccount' /\ ctl' = ctl
<1>0. ClicTypes /\ BytesAreWhole /\ ViaAccount
  BY DEF ClicAccount
<1>1. CASE set_vector_mode0
  <2>1. UNCHANGED <<intBits, clicDone, ctl, mtvt, clicTable>> /\ clicMode' \in {"clic", "clic vectored"}
        /\ \E b \in BOOLEAN : cfg' = [cfg EXCEPT !.nvbit = b]
    BY <1>1 DEF set_vector_mode0
  <2>2. via' = [i \in ClicIds |-> "none"]
    BY <1>1 DEF set_vector_mode0, Forget
  <2>3. cfg' \in [nmbits : 0 .. 2, nlbits : 0 .. 8, nvbit : BOOLEAN]
    BY <1>0, <2>1 DEF ClicTypes
  <2>4. ClicTypes' /\ ViaAccount'
    BY <1>0, <2>1, <2>2, <2>3 DEF ClicTypes, ViaAccount
  <2>5. BytesAreWhole'
    BY <1>0, <2>1 DEF BytesAreWhole, CtlBits
  <2>6. QED
    BY <2>1, <2>4, <2>5 DEF ClicAccount
<1>2. CASE configure
  <2>1. UNCHANGED <<intBits, clicMode, clicDone, ctl, mtvt, clicTable, via>> /\ clicDone
        /\ ((\E n \in 0 .. 2 : cfg' = [cfg EXCEPT !.nmbits = n]) \/ (\E n \in 0 .. 8 : cfg' = [cfg EXCEPT !.nlbits = n]))
    BY <1>2, ClicAssumption DEF configure, ClicAssumption
  <2>2. cfg' \in [nmbits : 0 .. 2, nlbits : 0 .. 8, nvbit : BOOLEAN] /\ cfg'.nvbit = cfg.nvbit
    BY <1>0, <2>1 DEF ClicTypes
  <2>3. ClicTypes' /\ BytesAreWhole'
    BY <1>0, <2>1, <2>2 DEF ClicTypes, BytesAreWhole, CtlBits
  <2>4. ViaAccount'
    <3>1. \A i \in ClicIds : IsVectored(i)' = IsVectored(i)
      BY <2>1, <2>2 DEF IsVectored, Vectored, VectorBit
    <3>2. QED
      BY <1>0, <2>1, <3>1 DEF ViaAccount
  <2>5. QED
    BY <2>1, <2>3, <2>4 DEF ClicAccount
<1>3. CASE sifive_clic0_register
  <2>1. PICK i \in ClicIds, h \in {"user", "default"} :
            /\ TakesHandlers(i) /\ clicDone
            /\ clicTable' = [clicTable EXCEPT ![i] = h]
            /\ via' = [via EXCEPT ![i] = IF h = "user" THEN "common" ELSE "none"]
            /\ UNCHANGED <<intBits, clicMode, clicDone, cfg, ctl, mtvt>>
    BY <1>3 DEF sifive_clic0_register
  <2>2. ~IsVectored(i)
    BY <1>0, <2>1 DEF TakesHandlers, get_vector_mode, IsVectored, ClicTypes
  <2>3. ClicTypes' /\ BytesAreWhole'
    BY <1>0, <2>1 DEF ClicTypes, BytesAreWhole, CtlBits
  <2>4. \A j \in ClicIds : IsVectored(j)' = IsVectored(j)
    BY <2>1 DEF IsVectored, Vectored, VectorBit
  <2>5. ViaAccount'
    BY <1>0, <2>1, <2>2, <2>4 DEF ClicTypes, ViaAccount
  <2>6. QED
    BY <2>1, <2>3, <2>5 DEF ClicAccount
<1>4. CASE register_line3
  BY <1>0, <1>4 DEF register_line3, ClicAccount, ClicTypes, BytesAreWhole, CtlBits, ViaAccount, IsVectored, Vectored, VectorBit
<1>5. CASE clic0_vector_register
  <2>1. PICK i \in Ids0, h \in {"user", "default"} :
            /\ TakesVectors(i) /\ clicDone
            /\ mtvt' = [mtvt EXCEPT ![i] = h]
            /\ via' = IF i = 0 THEN via ELSE [via EXCEPT ![i] = IF h = "user" THEN "vector" ELSE "none"]
            /\ UNCHANGED <<intBits, clicMode, clicDone, cfg, ctl, clicTable>>
    BY <1>5 DEF clic0_vector_register
  <2>2. IsVectored(i)
    BY <1>0, <2>1 DEF TakesVectors, get_vector_mode, IsVectored, ClicTypes
  <2>3. ClicTypes' /\ BytesAreWhole'
    BY <1>0, <2>1 DEF ClicTypes, BytesAreWhole, CtlBits
  <2>4. \A j \in ClicIds : IsVectored(j)' = IsVectored(j)
    BY <2>1 DEF IsVectored, Vectored, VectorBit
  <2>5. \A j \in ClicIds : /\ j # i => via'[j] = via[j] /\ mtvt'[j] = mtvt[j]
                           /\ j = i => via'[j] = (IF h = "user" THEN "vector" ELSE "none") /\ mtvt'[j] = h
    BY <1>0, <2>1, IdsAre DEF ClicTypes
  <2>6. ViaAccount'
    BY <1>0, <2>1, <2>2, <2>4, <2>5 DEF ViaAccount
  <2>7. QED
    BY <2>1, <2>3, <2>6 DEF ClicAccount
<1>6. QED
  BY <1>1, <1>2, <1>3, <1>4, <1>5

LEMMA InitKeepsClic ==
    ASSUME ClicAccount, sifive_clic0_init
    PROVE  ClicAccount' /\ (cfg' = cfg => ctl' = ctl)
<1>0. ClicTypes /\ BytesAreWhole /\ ViaAccount /\ intBits \in 2 .. 8
  BY DEF ClicAccount, ClicTypes
<1> DEFINE nl == IF ClicMaxLevels > 8 THEN 8 ELSE ClicMaxLevels
           byte(i) == (ctl[i] \cap LowBits(nl)) \cup ((0 .. nl - 1) \ LowBits(nl))
<1>1. /\ cfg' = [nmbits |-> 0, nlbits |-> nl, nvbit |-> FALSE]
      /\ ctl' = [i \in Ids0 |-> CtlBits(byte(i))]
      /\ ~clicDone /\ clicMode' = "clic" /\ clicDone' = TRUE
      /\ mtvt' = [i \in Ids0 |-> IF i = 0 THEN "dispatch" ELSE "NULL"]
      /\ clicTable' = [i \in ClicIds |-> "NULL"]
      /\ UNCHANGED <<intBits, via>>
  BY DEF sifive_clic0_init
<1>2. nl \in 0 .. 8
  BY ClicAssumption DEF ClicAssumption
<1>3. ClicTypes'
  <2>1. ctl' \in [Ids0 -> CtlBytes]
    BY <1>0, <1>1, CtlBit
  <2>2. cfg' \in [nmbits : 0 .. 2, nlbits : 0 .. 8, nvbit : BOOLEAN]
    <3> HIDE DEF nl
    <3>1. QED
      BY <1>1, <1>2
  <2>3. QED
    BY <1>0, <1>1, <2>1, <2>2 DEF ClicTypes
<1>4. BytesAreWhole'
  <2>1. \A i \in Ids0 : CtlBits(ctl'[i]) = ctl'[i]
    BY <1>0, <1>1, CtlBit
  <2>2. QED
    BY <1>1, <2>1 DEF BytesAreWhole, CtlBits
<1>5. ViaAccount'
  BY <1>0, <1>1 DEF ViaAccount
<1>6. ASSUME cfg' = cfg PROVE ctl' = ctl
  <2>1. nl = 0
    BY <1>0, <1>1, <1>6 DEF ViaAccount
  <2>2. \A i \in Ids0 : byte(i) = ctl[i]
    <3>1. TAKE i \in Ids0
    <3>2. ctl[i] \in CtlBytes
      BY <1>0 DEF ClicTypes
    <3>3. \A b : b \in byte(i) <=> b \in ctl[i]
      <4>1. \A b : b \in byte(i) <=> (b \in ctl[i] /\ b \in LowBits(0)) \/ (b \in 0 .. 0 - 1 /\ b \notin LowBits(0))
        BY <2>1
      <4>2. QED
        BY <3>2, <4>1, LowBit DEF CtlBytes
    <3>4. QED
      BY <3>3
  <2>3. \A i \in Ids0 : ctl'[i] = ctl[i]
    BY <1>0, <1>1, <2>2 DEF BytesAreWhole
  <2>4. QED
    BY <1>0, <1>1, <2>3 DEF ClicTypes
<1>7. QED
  BY <1>3, <1>4, <1>5, <1>6 DEF ClicAccount

\* A call that writes a byte.
LEMMA ByteKeepsClic ==
    ASSUME ClicAccount, NEW i \in Ids0, NEW v, SetByte(i, CtlBits(v))
    PROVE  ClicAccount'
<1>0. ClicTypes /\ BytesAreWhole /\ ViaAccount /\ intBits \in 2 .. 8
  BY DEF ClicAccount, ClicTypes
<1> DEFINE byte == CtlBits(v)
           changed == cfg.nvbit /\ (VectorBit \in byte) # Vectored(i)
<1>1. /\ clicDone /\ ctl' = [ctl EXCEPT ![i] = byte]
      /\ via' = [j \in ClicIds |-> IF j \in (IF changed THEN {i} ELSE {}) THEN "none" ELSE via[j]]
      /\ UNCHANGED <<intBits, clicMode, clicDone, cfg, mtvt, clicTable>>
  BY DEF SetByte, Forget
<1>2. byte \in CtlBytes /\ CtlBits(byte) = byte
  BY <1>0, CtlBit
<1> HIDE DEF byte, changed
<1>3. ClicTypes'
  BY <1>0, <1>1, <1>2 DEF ClicTypes
<1>4. BytesAreWhole'
  <2>1. \A j \in Ids0 : CtlBits(ctl'[j]) = ctl'[j]
    BY <1>0, <1>1, <1>2 DEF ClicTypes, BytesAreWhole
  <2>2. QED
    BY <1>1, <2>1 DEF BytesAreWhole, CtlBits
<1>5. ViaAccount'
  <2>1. \A j \in ClicIds : via'[j] = "none" \/ (via'[j] = via[j] /\ ~(changed /\ j = i))
    BY <1>1
  <2>2. \A j \in ClicIds : ctl'[j] = IF j = i THEN byte ELSE ctl[j]
    BY <1>0, <1>1, IdsAre DEF ClicTypes
  <2>3. \A j \in ClicIds : ~(changed /\ j = i) => IsVectored(j)' = IsVectored(j)
    BY <1>1, <2>2 DEF IsVectored, Vectored, VectorBit, changed
  <2>4. QED
    BY <1>0, <1>1, <2>1, <2>3 DEF ViaAccount
<1>6. QED
  BY <1>3, <1>4, <1>5 DEF ClicAccount

\* The calls that write a byte, with what they write.
ByteCalls ==
    \/ \E i \in Ids0 : interrupt_vector_enable(i) \/ interrupt_vector_disable(i)
    \/ \E i \in ClicIds, v \in ClicValues : clic0_set_priority(i, v) \/ set_preemptive_level(i, v)

LEMMA ByteCallsKeepClic ==
    ASSUME ClicAccount, ByteCalls
    PROVE  ClicAccount'
<1>1. \E i \in Ids0 : \E v : SetByte(i, CtlBits(v))
  BY IdsAre DEF ByteCalls, interrupt_vector_enable, interrupt_vector_disable, clic0_set_priority, set_preemptive_level,
                WithPriority, WithLevel
<1>2. QED
  BY <1>1, ByteKeepsClic

\* What a call that writes a byte leaves alone.
LEMMA ByteIsWritten ==
    ASSUME ClicTypes, NEW i \in Ids0, NEW byte, SetByte(i, byte)
    PROVE  /\ UNCHANGED <<intBits, cfg>> /\ ctl'[i] = byte
           /\ \A j \in Ids0 : j # i => ctl'[j] = ctl[j]
  BY DEF ClicTypes, SetByte

LEMMA PriorityKeepsLevel ==
    ASSUME ClicAccount, NEW i \in ClicIds, NEW v, clic0_set_priority(i, v)
    PROVE  interrupt_get_level(i)' = interrupt_get_level(i)
<1>0. ClicTypes /\ BytesAreWhole /\ i \in Ids0 /\ intBits \in 2 .. 8
  BY IdsAre DEF ClicAccount, ClicTypes
<1>1. UNCHANGED <<intBits, cfg>> /\ ctl'[i] = WithPriority(ctl[i], v)
  BY <1>0, ByteIsWritten DEF clic0_set_priority
<1>2. ctl'[i] \cap Got0(i) = ctl[i] \cap Got0(i)
  <2>1. \A b : b \in ctl[i] <=> b \in 0 .. 7 /\ (b + intBits < 8 \/ b \in ctl[i])
    BY <1>0, CtlBit DEF BytesAreWhole
  <2>2. \A b : b \in Got0(i) => b \notin PriorityField
    <3>1. TAKE b
    <3>2. HAVE b \in Got0(i)
    <3>3. b \in 0 .. 7 /\ b + cfg.nmbits < 8 /\ b + cfg.nmbits + LevelBits >= 8
      BY <1>0, <3>2, CtlFieldBits
    <3>4. ~(/\ cfg.nmbits + cfg.nlbits <= intBits
            /\ b \in 0 .. 7 /\ b + cfg.nmbits + cfg.nlbits < 8 /\ b + intBits >= 8)
      <4> DEFINE nm == cfg.nmbits  nl == cfg.nlbits
      <4>1. nm \in 0 .. 2 /\ nl \in 0 .. 8 /\ LevelBits = IF nm + nl >= intBits THEN intBits - nm ELSE nl
        BY <1>0, CtlFieldBits
      <4>2. b \in 0 .. 7 /\ b + nm + LevelBits >= 8
        BY <3>3
      <4> HIDE DEF nm, nl
      <4>3. ~(nm + nl <= intBits /\ b + nm + nl < 8)
        BY <1>0, <4>1, <4>2
      <4>4. QED
        BY <4>3 DEF nm, nl
    <3>5. QED
      BY <1>0, <3>4, CtlFieldBits
  <2>3. \A b : b \in ctl'[i] <=> b \in 0 .. 7 /\ (b + intBits < 8 \/ (IF b \in PriorityField THEN b \in v ELSE b \in ctl[i]))
    BY <1>0, <1>1, ByteWritten
  <2>4. \A b : b \in Got0(i) => (b \in ctl'[i] <=> b \in ctl[i])
    BY <2>1, <2>2, <2>3
  <2>5. QED
    BY <2>4
<1>3. QED
  BY <1>0, <1>1, <1>2, LevelTold

LEMMA VectorBitKeepsLevel ==
    ASSUME ClicAccount, NEW i \in ClicIds, interrupt_vector_enable(i) \/ interrupt_vector_disable(i),
           cfg.nmbits + LevelBits # intBits
    PROVE  interrupt_get_level(i)' = interrupt_get_level(i)
<1>0. ClicTypes /\ BytesAreWhole /\ i \in Ids0 /\ intBits \in 2 .. 8
  BY IdsAre DEF ClicAccount, ClicTypes
<1>1. UNCHANGED <<intBits, cfg>> /\ (ctl'[i] = CtlBits(ctl[i] \cup {VectorBit}) \/ ctl'[i] = CtlBits(ctl[i] \ {VectorBit}))
  BY <1>0, ByteIsWritten DEF interrupt_vector_enable, interrupt_vector_disable
<1>2. VectorBit \notin Got0(i)
  <2> DEFINE nm == cfg.nmbits  nl == cfg.nlbits
  <2>1. nm \in 0 .. 2 /\ nl \in 0 .. 8 /\ (LevelBits = IF nm + nl >= intBits THEN intBits - nm ELSE nl) /\ nm + LevelBits # intBits
    BY <1>0, CtlFieldBits
  <2>2. VectorBit \in Got0(i) => (8 - intBits) + nm + LevelBits >= 8
    BY <1>0, CtlFieldBits DEF VectorBit
  <2> HIDE DEF nm, nl
  <2>3. QED
    BY <1>0, <2>1, <2>2
<1>3. \A b : b \in ctl[i] <=> b \in 0 .. 7 /\ (b + intBits < 8 \/ b \in ctl[i])
  BY <1>0, CtlBit DEF BytesAreWhole
<1>4. \A b : b # VectorBit => (b \in ctl'[i] <=> b \in ctl[i])
  BY <1>0, <1>1, <1>3, CtlBit
<1>5. ctl'[i] \cap Got0(i) = ctl[i] \cap Got0(i)
  BY <1>2, <1>4
<1>6. QED
  BY <1>0, <1>1, <1>5, LevelTold

LEMMA ByteCallsKeepLevels ==
    ASSUME ClicAccount, ByteCalls
    PROVE  LevelsAreKept
<1>0. ClicTypes
  BY DEF ClicAccount
<1>1. SUFFICES ASSUME NEW i \in ClicIds, ctl'[i] # ctl[i], interrupt_get_level(i)' # interrupt_get_level(i)
               PROVE  \/ \E v \in ClicValues : set_preemptive_level(i, v)
                      \/ /\ interrupt_vector_enable(i) \/ interrupt_vector_disable(i)
                         /\ cfg.nmbits + LevelBits = intBits
  BY DEF LevelsAreKept
<1>2. i \in Ids0
  BY IdsAre
<1>3. CASE \E j \in Ids0 : interrupt_vector_enable(j) \/ interrupt_vector_disable(j)
  <2>1. PICK j \in Ids0 : interrupt_vector_enable(j) \/ interrupt_vector_disable(j)
    BY <1>3
  <2>2. j = i
    BY <1>0, <1>1, <1>2, <2>1, ByteIsWritten DEF interrupt_vector_enable, interrupt_vector_disable
  <2>3. QED
    BY <1>1, <2>1, <2>2, VectorBitKeepsLevel
<1>4. CASE \E j \in ClicIds, v \in ClicValues : clic0_set_priority(j, v) \/ set_preemptive_level(j, v)
  <2>1. PICK j \in ClicIds, v \in ClicValues : clic0_set_priority(j, v) \/ set_preemptive_level(j, v)
    BY <1>4
  <2>2. j = i
    BY <1>0, <1>1, <1>2, <2>1, IdsAre, ByteIsWritten DEF clic0_set_priority, set_preemptive_level
  <2>3. ~clic0_set_priority(i, v)
    BY <1>1, PriorityKeepsLevel
  <2>4. QED
    BY <2>1, <2>2, <2>3
<1>5. QED
  BY <1>3, <1>4 DEF ByteCalls

\* With one privilege mode the level's bits are the highest.
LEMMA OneMode ==
    ASSUME ClicTypes, cfg.nmbits = 0
    PROVE  /\ LevelBits = IF cfg.nlbits >= intBits THEN intBits ELSE cfg.nlbits
           /\ \A i, b : b \in Got0(i) <=> b \in 0 .. 7 /\ b + LevelBits >= 8
           /\ \A b : b \in LevelField <=> b \in 0 .. 7 /\ b + cfg.nlbits >= 8
           /\ \A b : b \in PriorityField <=> cfg.nlbits <= intBits /\ b \in 0 .. 7 /\ b + cfg.nlbits < 8 /\ b + intBits >= 8
<1>1. intBits \in 2 .. 8 /\ cfg.nlbits \in 0 .. 8 /\ LevelBits \in 0 .. 8
  BY CtlFieldBits DEF ClicTypes
<1>2. 0 + cfg.nlbits = cfg.nlbits /\ intBits - 0 = intBits /\ \A b \in 0 .. 7 : b + 0 = b
  BY <1>1
<1>3. QED
  BY <1>1, <1>2, CtlFieldBits

LEMMA LevelReadsBack ==
    ASSUME ClicAccount, cfg.nmbits = 0, NEW i \in ClicIds, NEW v \in CtlBytes, set_preemptive_level(i, v)
    PROVE  interrupt_get_level(i)' = v \cup LowBits(LevelBits)
<1>0. ClicTypes /\ i \in Ids0 /\ intBits \in 2 .. 8 /\ cfg.nlbits \in 0 .. 8 /\ LevelBits \in 0 .. 8
  BY IdsAre, CtlFieldBits DEF ClicAccount, ClicTypes
<1>1. UNCHANGED <<intBits, cfg>> /\ ctl'[i] = WithPriority(WithLevel(ctl[i], v), v)
  BY <1>0, ByteIsWritten DEF set_preemptive_level
<1>2. Got0(i)' = Got0(i) /\ LevelBits' = LevelBits /\ cfg'.nmbits = 0
  BY <1>1 DEF Got0, LevelBits
<1>3. \A b : b \in Got0(i) => (b \in ctl'[i] <=> b \in v)
  <2>1. \A b : b \in ctl'[i] <=> b \in 0 .. 7 /\ (b + intBits < 8 \/ (IF b \in PriorityField THEN b \in v ELSE b \in WithLevel(ctl[i], v)))
    BY <1>0, <1>1, ByteWritten
  <2>2. \A b : b \in WithLevel(ctl[i], v) <=> b \in 0 .. 7 /\ (b + intBits < 8 \/ (IF b \in LevelField THEN b \in v ELSE b \in ctl[i]))
    BY <1>0, ByteWritten
  <2>3. \A b : b \in Got0(i) => b \in 0 .. 7 /\ ~(b + intBits < 8) /\ b \in LevelField
    BY <1>0, OneMode
  <2>4. QED
    BY <2>1, <2>2, <2>3
<1>4. CASE Got0(i) = {}
  <2>1. LevelBits = 0
    <3>1. 7 \notin Got0(i)
      BY <1>4
    <3>2. QED
      BY <1>0, <3>1, OneMode
  <2>2. LowBits(LevelBits) = 0 .. 7
    BY <2>1, LowBit
  <2>3. QED
    BY <1>2, <1>4, <2>2 DEF interrupt_get_level, CtlBytes
<1>5. CASE Got0(i) # {}
  <2>1. interrupt_get_level(i)' = {b + cfg'.nmbits : b \in ctl'[i] \cap Got0(i)} \cup LowBits(LevelBits)
    BY <1>2, <1>5 DEF interrupt_get_level
  <2>2. \A c : c \in {b + cfg'.nmbits : b \in ctl'[i] \cap Got0(i)} <=> c \in v /\ c \in Got0(i)
    <3>1. \A b \in Got0(i) : b + 0 = b
      BY <1>0, OneMode
    <3>2. \A c : c \in {b + cfg'.nmbits : b \in ctl'[i] \cap Got0(i)} <=> \E b \in ctl'[i] \cap Got0(i) : c = b + 0
      BY <1>2
    <3>3. \A c : c \in {b + cfg'.nmbits : b \in ctl'[i] \cap Got0(i)} <=> c \in ctl'[i] \cap Got0(i)
      <4>1. TAKE c
      <4>2. ASSUME NEW b \in ctl'[i] \cap Got0(i), c = b + 0 PROVE c \in ctl'[i] \cap Got0(i)
        BY <3>1, <4>2
      <4>3. ASSUME c \in ctl'[i] \cap Got0(i) PROVE c = c + 0
        BY <3>1, <4>3
      <4>4. QED
        BY <3>2, <4>2, <4>3, Zenon
    <3>4. QED
      BY <1>3, <3>3, Zenon
  <2>3. \A c : c \in v => c \in Got0(i) \/ c \in LowBits(LevelBits)
    BY <1>0, OneMode, LowBit DEF CtlBytes
  <2>4. \A c : c \in interrupt_get_level(i)' <=> c \in v \cup LowBits(LevelBits)
    BY <2>1, <2>2, <2>3
  <2>5. QED
    BY <2>1, <2>4
<1>6. QED
  BY <1>4, <1>5

LEMMA PriorityReadsBack ==
    ASSUME ClicAccount, cfg.nmbits = 0, NEW i \in ClicIds, NEW v, clic0_set_priority(i, v),
           0 < cfg.nlbits, cfg.nlbits < intBits
    PROVE  interrupt_get_priority(i)' = (v \cap LowBits(cfg.nlbits)) \cup LowBits(intBits)
<1>0. ClicTypes /\ i \in Ids0 /\ intBits \in 2 .. 8 /\ cfg.nlbits \in 0 .. 8 /\ LevelBits \in 0 .. 8
  BY IdsAre, CtlFieldBits DEF ClicAccount, ClicTypes
<1>1. UNCHANGED <<intBits, cfg>> /\ ctl'[i] = WithPriority(ctl[i], v)
  BY <1>0, ByteIsWritten DEF clic0_set_priority
<1>2. Got0(i)' = Got0(i) /\ LevelBits' = LevelBits
  BY <1>1 DEF Got0, LevelBits
<1>3. LevelBits = cfg.nlbits
  BY <1>0, OneMode
<1>4. 7 \in Got0(i)
  BY <1>0, <1>3, OneMode
<1>5. interrupt_get_priority(i)' = ctl'[i] \cap LowBits(cfg.nlbits)
  BY <1>2, <1>3, <1>4 DEF interrupt_get_priority
<1>6. \A b : b \in ctl'[i] <=> b \in 0 .. 7 /\ (b + intBits < 8 \/ (IF b \in PriorityField THEN b \in v ELSE b \in ctl[i]))
  BY <1>0, <1>1, ByteWritten
<1>7. \A b : b \in ctl'[i] \cap LowBits(cfg.nlbits) <=> b \in (v \cap LowBits(cfg.nlbits)) \cup LowBits(intBits)
  BY <1>0, <1>6, OneMode, LowBit
<1>8. QED
  BY <1>5, <1>7

LEMMA FieldsAreRead ==
    ASSUME ClicAccount
    PROVE  FieldsReadBack
<1>1. \A v \in ClicValues : v \in CtlBytes
  BY ClicAssumption DEF ClicAssumption, CtlBytes
<1>2. QED
  BY <1>1, LevelReadsBack, PriorityReadsBack DEF FieldsReadBack

LEMMA EveryClicStep == ClicAccount /\ [ClicNext]_clicVars => ClicAccount' /\ [LevelsAreKept /\ FieldsReadBack]_clicVars
<1> SUFFICES ASSUME ClicAccount, [ClicNext]_clicVars
             PROVE  ClicAccount' /\ [LevelsAreKept /\ FieldsReadBack]_clicVars
  OBVIOUS
<1>1. FieldsReadBack
  BY FieldsAreRead
<1>2. CASE sifive_clic0_init
  BY <1>1, <1>2, InitKeepsClic DEF LevelsAreKept
<1>3. CASE set_vector_mode0 \/ configure \/ sifive_clic0_register \/ register_line3 \/ clic0_vector_register
  BY <1>1, <1>3, SettingsKeepClic DEF LevelsAreKept
<1>4. CASE ByteCalls
  BY <1>1, <1>4, ByteCallsKeepClic, ByteCallsKeepLevels
<1>5. CASE UNCHANGED clicVars
  BY <1>5 DEF clicVars, ClicAccount, ClicTypes, BytesAreWhole, CtlBits, ViaAccount, IsVectored, Vectored, VectorBit
<1>6. QED
  BY <1>2, <1>3, <1>4, <1>5 DEF ClicNext, ByteCalls

(* sifive_clic0.c:84-202, 535: whatever interrupts a CLIC has and however     *)
(* many bits it implements, a handler that a call accepted is the one that   *)
(* its interrupt calls, unless one of two other calls took the way there;    *)
(* a level changes only by a call about it; and fields read back as set.     *)
THEOREM ClicKeepsItsTables == ClicSpec => ClicIsAsAsked
<1>1. ClicAccount => (clicDone => HandlersAreReached)
  <2>1. SUFFICES ASSUME ClicAccount PROVE HandlersAreReached
    OBVIOUS
  <2>2. SUFFICES ASSUME NEW i \in ClicIds, via[i] # "none", ~(via[i] = "common" /\ (mtvt[0] # "dispatch" \/ ~swLinked))
                 PROVE  Called(i) = "user"
    BY DEF HandlersAreReached
  <2>3. via[i] \in {"common", "vector"}
    BY <2>1, <2>2 DEF ClicAccount, ClicTypes
  <2>4. /\ via[i] = "vector" => IsVectored(i) /\ mtvt[i] = "user"
        /\ via[i] = "common" => ~IsVectored(i) /\ clicTable[i] = "user"
    BY <2>1 DEF ClicAccount, ViaAccount
  <2>5. QED
    BY <2>2, <2>3, <2>4 DEF Called
<1>2. QED
  BY <1>1, ClicStart, EveryClicStep, PTL DEF ClicSpec, ClicIsAsAsked

-----------------------------------------------------------------------------
(* The board (metal.h)                                                       *)

Handles == {"clint", "plic", "gpio0", "i2c0", "red", "green", "blue", "rtc", "wdog", "pwm0", "pwm1", "pwm2",
            "spi0", "spi1", "spi2", "uart0", "uart1"}

\* The interrupts that a program can ask for, and the lines they have.
BoardSources == {SourceOf(d, i) : d \in Handles, i \in 0 .. 31}
HasLine(s)   == s.idx \in Indices(s.dev)
LineOf(s)    == LineAt(s.dev, s.idx)

\* A source that is registered is where the table has its line, unless another
\* one has its line.  Every entry is of a source with its line.
BoardAccount ==
    /\ handle \in Handles \cup {"NULL", "stray"} /\ LandsOnItsUnit
    /\ registered \subseteq {s \in BoardSources : HasLine(s)} /\ askedFor \subseteq registered
    /\ \A e \in tableOf : e.source \in registered /\ e = [at |-> LineOf(e.source), source |-> e.source]
    /\ \A s \in registered : ~SharesLine(s) => [at |-> LineOf(s), source |-> s] \in tableOf
    /\ \A s \in askedFor : LineOf(s) \in linesOn
    /\ arrived.handler = arrived.source \/ (arrived.source.dev = "gpio0" /\ arrived.handler.idx = arrived.source.idx + 10)

-----------------------------------------------------------------------------
(* The tables.                                                              *)

\* Both libraries have the registers of a unit at the same offsets.
LEMMA RegistersAgree ==
    /\ Agrees(METAL_RISCV_CLINT0, CLINT) /\ Agrees(METAL_RISCV_PLIC0, PLIC) /\ Agrees(METAL_SIFIVE_PRCI, PRCI)
    /\ Agrees(METAL_SIFIVE_GPIO0, GPIO) /\ Agrees(METAL_SIFIVE_I2C0, I2C) /\ Agrees(METAL_SIFIVE_PWM0, PWM)
    /\ Agrees(METAL_SIFIVE_RTC0, AON) /\ Agrees(METAL_SIFIVE_SPI0, SPI) /\ Agrees(METAL_SIFIVE_UART0, UART)
    /\ Agrees(METAL_SIFIVE_WDOG0, AON)
<1>1. Agrees(METAL_RISCV_CLINT0, CLINT)
  BY SMTT(30) DEF Agrees, METAL_RISCV_CLINT0, CLINT, Block
<1>2. Agrees(METAL_RISCV_PLIC0, PLIC)
  BY SMTT(30) DEF Agrees, METAL_RISCV_PLIC0, PLIC, Block
<1>3. Agrees(METAL_SIFIVE_PRCI, PRCI)
  BY SMTT(30) DEF Agrees, METAL_SIFIVE_PRCI, PRCI, Block
<1>4. Agrees(METAL_SIFIVE_GPIO0, GPIO)
  BY SMTT(30) DEF Agrees, METAL_SIFIVE_GPIO0, GPIO, Block
<1>5. Agrees(METAL_SIFIVE_I2C0, I2C)
  BY SMTT(30) DEF Agrees, METAL_SIFIVE_I2C0, I2C, Block
<1>6. Agrees(METAL_SIFIVE_PWM0, PWM)
  BY SMTT(30) DEF Agrees, METAL_SIFIVE_PWM0, PWM, Block
<1>7. Agrees(METAL_SIFIVE_RTC0, AON)
  BY SMTT(30) DEF Agrees, METAL_SIFIVE_RTC0, AON, Block
<1>8. Agrees(METAL_SIFIVE_SPI0, SPI)
  BY SMTT(30) DEF Agrees, METAL_SIFIVE_SPI0, SPI, Block
<1>9. Agrees(METAL_SIFIVE_UART0, UART)
  BY SMTT(30) DEF Agrees, METAL_SIFIVE_UART0, UART, Block
<1>10. Agrees(METAL_SIFIVE_WDOG0, AON)
  BY SMTT(30) DEF Agrees, METAL_SIFIVE_WDOG0, AON, Block
<1>11. QED
  BY <1>1, <1>2, <1>3, <1>4, <1>5, <1>6, <1>7, <1>8, <1>9, <1>10

\* A handle is of the unit its calls are about.
HandleIsRight(d) ==
    /\ Unit(Registers(d).base) = UnitOf(d) /\ Agrees(Offsets(d), RegistersAt(UnitOf(d)))
    /\ Registers(d).pins \subseteq IofMask(UnitOf(d)) \/ UnitOf(d) \in {"uart1", "i2c0", "gpio0"}
    /\ Registers(d).clock \in {"NULL", "clock_4", "clock_7"}

LEMMA HandlesAreRight == \A d \in Handles : HandleIsRight(d)
<1>1. HandleIsRight("clint")
  <2>1. Registers("clint").base = \h2000 /\ Registers("clint").pins = {} /\ Registers("clint").clock = "NULL"
    BY DEF Registers, Entry, sifive_clint0
  <2>2. Unit(\h2000) = "clint" /\ UnitOf("clint") = "clint" /\ Offsets("clint") = METAL_RISCV_CLINT0 /\ RegistersAt("clint") = CLINT
    BY DEF Unit, UnitOf, Offsets, RegistersAt
  <2>3. {} \subseteq IofMask("clint")
    BY DEF IofMask
  <2>4. QED
    BY <2>1, <2>2, <2>3, RegistersAgree DEF HandleIsRight
<1>2. HandleIsRight("plic")
  <2>1. Registers("plic").base = \hC000 /\ Registers("plic").pins = {} /\ Registers("plic").clock = "NULL"
    BY DEF Registers, Entry, sifive_plic0
  <2>2. Unit(\hC000) = "plic" /\ UnitOf("plic") = "plic" /\ Offsets("plic") = METAL_RISCV_PLIC0 /\ RegistersAt("plic") = PLIC
    BY DEF Unit, UnitOf, Offsets, RegistersAt
  <2>3. {} \subseteq IofMask("plic")
    BY DEF IofMask
  <2>4. QED
    BY <2>1, <2>2, <2>3, RegistersAgree DEF HandleIsRight
<1>3. HandleIsRight("gpio0")
  <2>1. Registers("gpio0").base = \h10012 /\ Registers("gpio0").pins = {} /\ Registers("gpio0").clock = "NULL"
    BY DEF Registers, Entry, sifive_gpio0
  <2>2. Unit(\h10012) = "gpio0" /\ UnitOf("gpio0") = "gpio0" /\ Offsets("gpio0") = METAL_SIFIVE_GPIO0 /\ RegistersAt("gpio0") = GPIO
    BY DEF Unit, UnitOf, Offsets, RegistersAt
  <2>3. QED
    BY <2>1, <2>2, RegistersAgree DEF HandleIsRight
<1>4. HandleIsRight("i2c0")
  <2>1. Registers("i2c0").base = \h10016 /\ Registers("i2c0").pins = {12, 13} /\ Registers("i2c0").clock = "clock_4"
    BY DEF Registers, Entry, sifive_i2c0
  <2>2. Unit(\h10016) = "i2c0" /\ UnitOf("i2c0") = "i2c0" /\ Offsets("i2c0") = METAL_SIFIVE_I2C0 /\ RegistersAt("i2c0") = I2C
    BY DEF Unit, UnitOf, Offsets, RegistersAt
  <2>3. QED
    BY <2>1, <2>2, RegistersAgree DEF HandleIsRight
<1>5. HandleIsRight("red")
  <2>1. Registers("red").base = \h10012 /\ Registers("red").pins = {22} /\ Registers("red").clock = "NULL"
    BY DEF Registers, Entry, sifive_gpio_led, sifive_gpio0
  <2>2. Unit(\h10012) = "gpio0" /\ UnitOf("red") = "gpio0" /\ Offsets("red") = METAL_SIFIVE_GPIO0 /\ RegistersAt("gpio0") = GPIO
    BY DEF Unit, UnitOf, Offsets, RegistersAt
  <2>3. QED
    BY <2>1, <2>2, RegistersAgree DEF HandleIsRight
<1>6. HandleIsRight("green")
  <2>1. Registers("green").base = \h10012 /\ Registers("green").pins = {19} /\ Registers("green").clock = "NULL"
    BY DEF Registers, Entry, sifive_gpio_led, sifive_gpio0
  <2>2. Unit(\h10012) = "gpio0" /\ UnitOf("green") = "gpio0" /\ Offsets("green") = METAL_SIFIVE_GPIO0 /\ RegistersAt("gpio0") = GPIO
    BY DEF Unit, UnitOf, Offsets, RegistersAt
  <2>3. QED
    BY <2>1, <2>2, RegistersAgree DEF HandleIsRight
<1>7. HandleIsRight("blue")
  <2>1. Registers("blue").base = \h10012 /\ Registers("blue").pins = {21} /\ Registers("blue").clock = "NULL"
    BY DEF Registers, Entry, sifive_gpio_led, sifive_gpio0
  <2>2. Unit(\h10012) = "gpio0" /\ UnitOf("blue") = "gpio0" /\ Offsets("blue") = METAL_SIFIVE_GPIO0 /\ RegistersAt("gpio0") = GPIO
    BY DEF Unit, UnitOf, Offsets, RegistersAt
  <2>3. QED
    BY <2>1, <2>2, RegistersAgree DEF HandleIsRight
<1>8. HandleIsRight("rtc")
  <2>1. Registers("rtc").base = \h10000 /\ Registers("rtc").pins = {} /\ Registers("rtc").clock = "clock_7"
    BY DEF Registers, Entry, sifive_rtc0
  <2>2. Unit(\h10000) = "aon" /\ UnitOf("rtc") = "aon" /\ Offsets("rtc") = METAL_SIFIVE_RTC0 /\ RegistersAt("aon") = AON
    BY DEF Unit, UnitOf, Offsets, RegistersAt
  <2>3. {} \subseteq IofMask("aon")
    BY DEF IofMask
  <2>4. QED
    BY <2>1, <2>2, <2>3, RegistersAgree DEF HandleIsRight
<1>9. HandleIsRight("wdog")
  <2>1. Registers("wdog").base = \h10000 /\ Registers("wdog").pins = {} /\ Registers("wdog").clock = "clock_7"
    BY DEF Registers, Entry, sifive_wdog0
  <2>2. Unit(\h10000) = "aon" /\ UnitOf("wdog") = "aon" /\ Offsets("wdog") = METAL_SIFIVE_WDOG0 /\ RegistersAt("aon") = AON
    BY DEF Unit, UnitOf, Offsets, RegistersAt
  <2>3. {} \subseteq IofMask("aon")
    BY DEF IofMask
  <2>4. QED
    BY <2>1, <2>2, <2>3, RegistersAgree DEF HandleIsRight
<1>10. HandleIsRight("pwm0")
  <2>1. Registers("pwm0").base = \h10015 /\ Registers("pwm0").pins = 0 .. 3 /\ Registers("pwm0").clock = "clock_4"
    BY DEF Registers, Entry, sifive_pwm0
  <2>2. Unit(\h10015) = "pwm0" /\ UnitOf("pwm0") = "pwm0" /\ Offsets("pwm0") = METAL_SIFIVE_PWM0 /\ RegistersAt("pwm0") = PWM
    BY DEF Unit, UnitOf, Offsets, RegistersAt
  <2>3. 0 .. 3 \subseteq IofMask("pwm0")
    BY DEF IofMask
  <2>4. QED
    BY <2>1, <2>2, <2>3, RegistersAgree DEF HandleIsRight
<1>11. HandleIsRight("pwm1")
  <2>1. Registers("pwm1").base = \h10025 /\ Registers("pwm1").pins = 19 .. 22 /\ Registers("pwm1").clock = "clock_4"
    BY DEF Registers, Entry, sifive_pwm0
  <2>2. Unit(\h10025) = "pwm1" /\ UnitOf("pwm1") = "pwm1" /\ Offsets("pwm1") = METAL_SIFIVE_PWM0 /\ RegistersAt("pwm1") = PWM
    BY DEF Unit, UnitOf, Offsets, RegistersAt
  <2>3. 19 .. 22 \subseteq IofMask("pwm1")
    BY DEF IofMask
  <2>4. QED
    BY <2>1, <2>2, <2>3, RegistersAgree DEF HandleIsRight
<1>12. HandleIsRight("pwm2")
  <2>1. Registers("pwm2").base = \h10035 /\ Registers("pwm2").pins = 10 .. 13 /\ Registers("pwm2").clock = "clock_4"
    BY DEF Registers, Entry, sifive_pwm0
  <2>2. Unit(\h10035) = "pwm2" /\ UnitOf("pwm2") = "pwm2" /\ Offsets("pwm2") = METAL_SIFIVE_PWM0 /\ RegistersAt("pwm2") = PWM
    BY DEF Unit, UnitOf, Offsets, RegistersAt
  <2>3. 10 .. 13 \subseteq IofMask("pwm2")
    BY DEF IofMask
  <2>4. QED
    BY <2>1, <2>2, <2>3, RegistersAgree DEF HandleIsRight
<1>13. HandleIsRight("spi0")
  <2>1. Registers("spi0").base = \h10014 /\ Registers("spi0").pins = {} /\ Registers("spi0").clock = "clock_4"
    BY DEF Registers, Entry, sifive_spi0
  <2>2. Unit(\h10014) = "spi0" /\ UnitOf("spi0") = "spi0" /\ Offsets("spi0") = METAL_SIFIVE_SPI0 /\ RegistersAt("spi0") = SPI
    BY DEF Unit, UnitOf, Offsets, RegistersAt
  <2>3. {} \subseteq IofMask("spi0")
    BY DEF IofMask
  <2>4. QED
    BY <2>1, <2>2, <2>3, RegistersAgree DEF HandleIsRight
<1>14. HandleIsRight("spi1")
  <2>1. Registers("spi1").base = \h10024 /\ Registers("spi1").pins = 2 .. 5 /\ Registers("spi1").clock = "clock_4"
    BY DEF Registers, Entry, sifive_spi0
  <2>2. Unit(\h10024) = "spi1" /\ UnitOf("spi1") = "spi1" /\ Offsets("spi1") = METAL_SIFIVE_SPI0 /\ RegistersAt("spi1") = SPI
    BY DEF Unit, UnitOf, Offsets, RegistersAt
  <2>3. 2 .. 5 \subseteq IofMask("spi1")
    BY DEF IofMask
  <2>4. QED
    BY <2>1, <2>2, <2>3, RegistersAgree DEF HandleIsRight
<1>15. HandleIsRight("spi2")
  <2>1. Registers("spi2").base = \h10034 /\ Registers("spi2").pins = 26 .. 31 /\ Registers("spi2").clock = "clock_4"
    BY DEF Registers, Entry, sifive_spi0
  <2>2. Unit(\h10034) = "spi2" /\ UnitOf("spi2") = "spi2" /\ Offsets("spi2") = METAL_SIFIVE_SPI0 /\ RegistersAt("spi2") = SPI
    BY DEF Unit, UnitOf, Offsets, RegistersAt
  <2>3. 26 .. 31 \subseteq IofMask("spi2")
    BY DEF IofMask
  <2>4. QED
    BY <2>1, <2>2, <2>3, RegistersAgree DEF HandleIsRight
<1>16. HandleIsRight("uart0")
  <2>1. Registers("uart0").base = \h10013 /\ Registers("uart0").pins = {16, 17} /\ Registers("uart0").clock = "clock_4"
    BY DEF Registers, Entry, sifive_uart0
  <2>2. Unit(\h10013) = "uart0" /\ UnitOf("uart0") = "uart0" /\ Offsets("uart0") = METAL_SIFIVE_UART0 /\ RegistersAt("uart0") = UART
    BY DEF Unit, UnitOf, Offsets, RegistersAt
  <2>3. {16, 17} \subseteq IofMask("uart0")
    BY DEF IofMask
  <2>4. QED
    BY <2>1, <2>2, <2>3, RegistersAgree DEF HandleIsRight
<1>17. HandleIsRight("uart1")
  <2>1. Registers("uart1").base = \h10023 /\ Registers("uart1").pins = {18, 23} /\ Registers("uart1").clock = "clock_4"
    BY DEF Registers, Entry, sifive_uart0
  <2>2. Unit(\h10023) = "uart1" /\ UnitOf("uart1") = "uart1" /\ Offsets("uart1") = METAL_SIFIVE_UART0 /\ RegistersAt("uart1") = UART
    BY DEF Unit, UnitOf, Offsets, RegistersAt
  <2>3. QED
    BY <2>1, <2>2, RegistersAgree DEF HandleIsRight
<1>18. QED
  BY <1>1, <1>2, <1>3, <1>4, <1>5, <1>6, <1>7, <1>8, <1>9, <1>10, <1>11, <1>12, <1>13, <1>14, <1>15, <1>16, <1>17 DEF Handles

\* The interrupts of a device and their lines.
Interrupting == {"clint", "plic", "gpio0", "i2c0", "rtc", "wdog", "pwm0", "pwm1", "pwm2", "uart0", "uart1"}
NumberOf(d, i) ==
    CASE d = "clint" -> IF i = 0 THEN 3 ELSE 7
      [] d = "plic" -> 11
      [] d = "gpio0" -> IF i <= 28 THEN i + 8 ELSE i - 2
      [] d = "i2c0" -> 52
      [] d = "rtc" -> 2
      [] d = "wdog" -> 1
      [] d = "pwm0" -> 40 + i
      [] d = "pwm1" -> 44 + i
      [] d = "pwm2" -> 48 + i
      [] d = "uart0" -> 3
      [] d = "uart1" -> 4

LEMMA LinesOfADevice ==
    /\ \A d \in Handles \ Interrupting : Indices(d) = {}
    /\ InterruptsOf("clint").parent = "cpu" /\ \A i \in Indices("clint") : i \in {0, 1} /\ InterruptsOf("clint").line[i] = IF i = 0 THEN 3 ELSE 7
    /\ InterruptsOf("plic").parent = "cpu" /\ \A i \in Indices("plic") : i = 0 /\ InterruptsOf("plic").line[i] = 11
    /\ InterruptsOf("gpio0").parent = "plic" /\ \A i \in Indices("gpio0") : i \in 0 .. 31 /\ InterruptsOf("gpio0").line[i] = IF i <= 28 THEN i + 8 ELSE i - 2
    /\ InterruptsOf("i2c0").parent = "plic" /\ \A i \in Indices("i2c0") : i = 0 /\ InterruptsOf("i2c0").line[i] = 52
    /\ InterruptsOf("rtc").parent = "plic" /\ \A i \in Indices("rtc") : i = 0 /\ InterruptsOf("rtc").line[i] = 2
    /\ InterruptsOf("wdog").parent = "plic" /\ \A i \in Indices("wdog") : i = 0 /\ InterruptsOf("wdog").line[i] = 1
    /\ InterruptsOf("pwm0").parent = "plic" /\ \A i \in Indices("pwm0") : i \in 0 .. 3 /\ InterruptsOf("pwm0").line[i] = 40 + i
    /\ InterruptsOf("pwm1").parent = "plic" /\ \A i \in Indices("pwm1") : i \in 0 .. 3 /\ InterruptsOf("pwm1").line[i] = 44 + i
    /\ InterruptsOf("pwm2").parent = "plic" /\ \A i \in Indices("pwm2") : i \in 0 .. 3 /\ InterruptsOf("pwm2").line[i] = 48 + i
    /\ InterruptsOf("uart0").parent = "plic" /\ \A i \in Indices("uart0") : i = 0 /\ InterruptsOf("uart0").line[i] = 3
    /\ InterruptsOf("uart1").parent = "plic" /\ \A i \in Indices("uart1") : i = 0 /\ InterruptsOf("uart1").line[i] = 4
<1>1. \A d \in Handles \ Interrupting : Indices(d) = {}
  <2>1. \A d \in Handles \ Interrupting : InterruptsOf(d) = NoLines
    BY DEF Handles, Interrupting, InterruptsOf
  <2>2. NoLines.line = <<>> /\ DOMAIN <<>> = {}
    BY DEF NoLines, Lines
  <2>3. QED
    BY <2>1, <2>2 DEF Indices
<1>2. InterruptsOf("clint").parent = "cpu" /\ \A i \in Indices("clint") : i \in {0, 1} /\ InterruptsOf("clint").line[i] = IF i = 0 THEN 3 ELSE 7
  <2>1. InterruptsOf("clint") = Lines("cpu", [i \in 0 .. 1 |-> IF i = 0 THEN 3 ELSE 7])
    BY DEF InterruptsOf, clint0_lines, Lines
  <2>2. QED
    BY <2>1 DEF Indices, Lines
<1>3. InterruptsOf("plic").parent = "cpu" /\ \A i \in Indices("plic") : i = 0 /\ InterruptsOf("plic").line[i] = 11
  <2>1. InterruptsOf("plic") = Lines("cpu", [i \in {0} |-> 11])
    BY DEF InterruptsOf, plic0_lines, Lines
  <2>2. QED
    BY <2>1 DEF Indices, Lines
<1>4. InterruptsOf("gpio0").parent = "plic" /\ \A i \in Indices("gpio0") : i \in 0 .. 31 /\ InterruptsOf("gpio0").line[i] = IF i <= 28 THEN i + 8 ELSE i - 2
  <2>1. InterruptsOf("gpio0") = Lines("plic", [i \in 0 .. 31 |-> IF i <= 28 THEN i + 8 ELSE i - 2])
    BY DEF InterruptsOf, gpio0_lines, Lines
  <2>2. QED
    BY <2>1 DEF Indices, Lines
<1>5. InterruptsOf("i2c0").parent = "plic" /\ \A i \in Indices("i2c0") : i = 0 /\ InterruptsOf("i2c0").line[i] = 52
  <2>1. InterruptsOf("i2c0") = Lines("plic", [i \in {0} |-> 52])
    BY DEF InterruptsOf, sifive_i2c0, Lines
  <2>2. QED
    BY <2>1 DEF Indices, Lines
<1>6. InterruptsOf("rtc").parent = "plic" /\ \A i \in Indices("rtc") : i = 0 /\ InterruptsOf("rtc").line[i] = 2
  <2>1. InterruptsOf("rtc") = Lines("plic", [i \in {0} |-> 2])
    BY DEF InterruptsOf, sifive_rtc0, Lines
  <2>2. QED
    BY <2>1 DEF Indices, Lines
<1>7. InterruptsOf("wdog").parent = "plic" /\ \A i \in Indices("wdog") : i = 0 /\ InterruptsOf("wdog").line[i] = 1
  <2>1. InterruptsOf("wdog") = Lines("plic", [i \in {0} |-> 1])
    BY DEF InterruptsOf, sifive_wdog0, Lines
  <2>2. QED
    BY <2>1 DEF Indices, Lines
<1>8. InterruptsOf("pwm0").parent = "plic" /\ \A i \in Indices("pwm0") : i \in 0 .. 3 /\ InterruptsOf("pwm0").line[i] = 40 + i
  <2>1. InterruptsOf("pwm0") = Lines("plic", [i \in 0 .. 3 |-> 40 + i])
    BY DEF InterruptsOf, pwm0_lines, pwm0_line, Lines
  <2>2. QED
    BY <2>1 DEF Indices, Lines
<1>9. InterruptsOf("pwm1").parent = "plic" /\ \A i \in Indices("pwm1") : i \in 0 .. 3 /\ InterruptsOf("pwm1").line[i] = 44 + i
  <2>1. InterruptsOf("pwm1") = Lines("plic", [i \in 0 .. 3 |-> 44 + i])
    BY DEF InterruptsOf, pwm0_lines, pwm0_line, Lines
  <2>2. QED
    BY <2>1 DEF Indices, Lines
<1>10. InterruptsOf("pwm2").parent = "plic" /\ \A i \in Indices("pwm2") : i \in 0 .. 3 /\ InterruptsOf("pwm2").line[i] = 48 + i
  <2>1. InterruptsOf("pwm2") = Lines("plic", [i \in 0 .. 3 |-> 48 + i])
    BY DEF InterruptsOf, pwm0_lines, pwm0_line, Lines
  <2>2. QED
    BY <2>1 DEF Indices, Lines
<1>11. InterruptsOf("uart0").parent = "plic" /\ \A i \in Indices("uart0") : i = 0 /\ InterruptsOf("uart0").line[i] = 3
  <2>1. InterruptsOf("uart0") = Lines("plic", [i \in {0} |-> 3])
    BY DEF InterruptsOf, sifive_uart0, Lines
  <2>2. QED
    BY <2>1 DEF Indices, Lines
<1>12. InterruptsOf("uart1").parent = "plic" /\ \A i \in Indices("uart1") : i = 0 /\ InterruptsOf("uart1").line[i] = 4
  <2>1. InterruptsOf("uart1") = Lines("plic", [i \in {0} |-> 4])
    BY DEF InterruptsOf, sifive_uart0, Lines
  <2>2. QED
    BY <2>1 DEF Indices, Lines
<1>13. QED
  BY <1>1, <1>2, <1>3, <1>4, <1>5, <1>6, <1>7, <1>8, <1>9, <1>10, <1>11, <1>12

LEMMA LineIs ==
    ASSUME NEW s \in BoardSources, HasLine(s)
    PROVE  /\ s.dev \in Interrupting /\ s.idx \in 0 .. 31 /\ s = [dev |-> s.dev, idx |-> s.idx]
           /\ LineOf(s) = <<IF s.dev \in {"clint", "plic"} THEN "cpu" ELSE "plic", NumberOf(s.dev, s.idx)>>
           /\ NumberOf(s.dev, s.idx) \in 1 .. 52
           /\ s.dev \in {"pwm0", "pwm1", "pwm2"} => s.idx \in 0 .. 3
           /\ s.dev \in {"clint"} => s.idx \in {0, 1}
           /\ s.dev \in {"plic", "i2c0", "rtc", "wdog", "uart0", "uart1"} => s.idx = 0
<1>1. PICK d \in Handles, i \in 0 .. 31 : s = [dev |-> d, idx |-> i]
  BY DEF BoardSources, SourceOf
<1>2. s.dev = d /\ s.idx = i /\ i \in Indices(d) /\ LineOf(s) = LineAt(d, i)
  BY <1>1 DEF HasLine, LineOf
<1>3. d \in Interrupting
  BY <1>2, LinesOfADevice
<1>4. CASE d = "clint"
  <2>1. i \in {0, 1} /\ InterruptsOf(d).parent = "cpu" /\ InterruptsOf(d).line[i] = IF i = 0 THEN 3 ELSE 7
    BY <1>2, <1>4, LinesOfADevice
  <2>2. NumberOf(d, i) = IF i = 0 THEN 3 ELSE 7
    BY <1>4 DEF NumberOf
  <2>3. LineAt(d, i) = <<"cpu", NumberOf(d, i)>> /\ NumberOf(d, i) \in 1 .. 52
    BY <2>1, <2>2 DEF LineAt
  <2>4. QED
    BY <1>1, <1>2, <1>3, <1>4, <2>1, <2>3
<1>5. CASE d = "plic"
  <2>1. i = 0 /\ InterruptsOf(d).parent = "cpu" /\ InterruptsOf(d).line[i] = 11
    BY <1>2, <1>5, LinesOfADevice
  <2>2. NumberOf(d, i) = 11
    BY <1>5 DEF NumberOf
  <2>3. LineAt(d, i) = <<"cpu", NumberOf(d, i)>> /\ NumberOf(d, i) \in 1 .. 52
    BY <2>1, <2>2 DEF LineAt
  <2>4. QED
    BY <1>1, <1>2, <1>3, <1>5, <2>1, <2>3
<1>6. CASE d = "gpio0"
  <2>1. i \in 0 .. 31 /\ InterruptsOf(d).parent = "plic" /\ InterruptsOf(d).line[i] = IF i <= 28 THEN i + 8 ELSE i - 2
    BY <1>2, <1>6, LinesOfADevice
  <2>2. NumberOf(d, i) = IF i <= 28 THEN i + 8 ELSE i - 2
    BY <1>6 DEF NumberOf
  <2>3. LineAt(d, i) = <<"plic", NumberOf(d, i)>> /\ NumberOf(d, i) \in 1 .. 52
    BY <2>1, <2>2 DEF LineAt
  <2>4. QED
    BY <1>1, <1>2, <1>3, <1>6, <2>1, <2>3
<1>7. CASE d = "i2c0"
  <2>1. i = 0 /\ InterruptsOf(d).parent = "plic" /\ InterruptsOf(d).line[i] = 52
    BY <1>2, <1>7, LinesOfADevice
  <2>2. NumberOf(d, i) = 52
    BY <1>7 DEF NumberOf
  <2>3. LineAt(d, i) = <<"plic", NumberOf(d, i)>> /\ NumberOf(d, i) \in 1 .. 52
    BY <2>1, <2>2 DEF LineAt
  <2>4. QED
    BY <1>1, <1>2, <1>3, <1>7, <2>1, <2>3
<1>8. CASE d = "rtc"
  <2>1. i = 0 /\ InterruptsOf(d).parent = "plic" /\ InterruptsOf(d).line[i] = 2
    BY <1>2, <1>8, LinesOfADevice
  <2>2. NumberOf(d, i) = 2
    BY <1>8 DEF NumberOf
  <2>3. LineAt(d, i) = <<"plic", NumberOf(d, i)>> /\ NumberOf(d, i) \in 1 .. 52
    BY <2>1, <2>2 DEF LineAt
  <2>4. QED
    BY <1>1, <1>2, <1>3, <1>8, <2>1, <2>3
<1>9. CASE d = "wdog"
  <2>1. i = 0 /\ InterruptsOf(d).parent = "plic" /\ InterruptsOf(d).line[i] = 1
    BY <1>2, <1>9, LinesOfADevice
  <2>2. NumberOf(d, i) = 1
    BY <1>9 DEF NumberOf
  <2>3. LineAt(d, i) = <<"plic", NumberOf(d, i)>> /\ NumberOf(d, i) \in 1 .. 52
    BY <2>1, <2>2 DEF LineAt
  <2>4. QED
    BY <1>1, <1>2, <1>3, <1>9, <2>1, <2>3
<1>10. CASE d = "pwm0"
  <2>1. i \in 0 .. 3 /\ InterruptsOf(d).parent = "plic" /\ InterruptsOf(d).line[i] = 40 + i
    BY <1>2, <1>10, LinesOfADevice
  <2>2. NumberOf(d, i) = 40 + i
    BY <1>10 DEF NumberOf
  <2>3. LineAt(d, i) = <<"plic", NumberOf(d, i)>> /\ NumberOf(d, i) \in 1 .. 52
    BY <2>1, <2>2 DEF LineAt
  <2>4. QED
    BY <1>1, <1>2, <1>3, <1>10, <2>1, <2>3
<1>11. CASE d = "pwm1"
  <2>1. i \in 0 .. 3 /\ InterruptsOf(d).parent = "plic" /\ InterruptsOf(d).line[i] = 44 + i
    BY <1>2, <1>11, LinesOfADevice
  <2>2. NumberOf(d, i) = 44 + i
    BY <1>11 DEF NumberOf
  <2>3. LineAt(d, i) = <<"plic", NumberOf(d, i)>> /\ NumberOf(d, i) \in 1 .. 52
    BY <2>1, <2>2 DEF LineAt
  <2>4. QED
    BY <1>1, <1>2, <1>3, <1>11, <2>1, <2>3
<1>12. CASE d = "pwm2"
  <2>1. i \in 0 .. 3 /\ InterruptsOf(d).parent = "plic" /\ InterruptsOf(d).line[i] = 48 + i
    BY <1>2, <1>12, LinesOfADevice
  <2>2. NumberOf(d, i) = 48 + i
    BY <1>12 DEF NumberOf
  <2>3. LineAt(d, i) = <<"plic", NumberOf(d, i)>> /\ NumberOf(d, i) \in 1 .. 52
    BY <2>1, <2>2 DEF LineAt
  <2>4. QED
    BY <1>1, <1>2, <1>3, <1>12, <2>1, <2>3
<1>13. CASE d = "uart0"
  <2>1. i = 0 /\ InterruptsOf(d).parent = "plic" /\ InterruptsOf(d).line[i] = 3
    BY <1>2, <1>13, LinesOfADevice
  <2>2. NumberOf(d, i) = 3
    BY <1>13 DEF NumberOf
  <2>3. LineAt(d, i) = <<"plic", NumberOf(d, i)>> /\ NumberOf(d, i) \in 1 .. 52
    BY <2>1, <2>2 DEF LineAt
  <2>4. QED
    BY <1>1, <1>2, <1>3, <1>13, <2>1, <2>3
<1>14. CASE d = "uart1"
  <2>1. i = 0 /\ InterruptsOf(d).parent = "plic" /\ InterruptsOf(d).line[i] = 4
    BY <1>2, <1>14, LinesOfADevice
  <2>2. NumberOf(d, i) = 4
    BY <1>14 DEF NumberOf
  <2>3. LineAt(d, i) = <<"plic", NumberOf(d, i)>> /\ NumberOf(d, i) \in 1 .. 52
    BY <2>1, <2>2 DEF LineAt
  <2>4. QED
    BY <1>1, <1>2, <1>3, <1>14, <2>1, <2>3
<1>15. QED
  BY <1>3, <1>4, <1>5, <1>6, <1>7, <1>8, <1>9, <1>10, <1>11, <1>12, <1>13, <1>14 DEF Interrupting

\* Only three pins have the lines of others.
Twins(s, t) == s.dev = "gpio0" /\ t.dev = "gpio0" /\ s.idx >= 29 /\ t.idx = s.idx - 10

LEMMA SameLine ==
    ASSUME NEW s \in BoardSources, NEW t \in BoardSources, HasLine(s), HasLine(t), LineOf(s) = LineOf(t)
    PROVE  s = t \/ Twins(s, t) \/ Twins(t, s)
<1>1. /\ s.dev \in Interrupting /\ s.idx \in 0 .. 31 /\ s = [dev |-> s.dev, idx |-> s.idx]
      /\ s.dev \in {"pwm0", "pwm1", "pwm2"} => s.idx \in 0 .. 3
      /\ s.dev \in {"clint"} => s.idx \in {0, 1}
      /\ s.dev \in {"plic", "i2c0", "rtc", "wdog", "uart0", "uart1"} => s.idx = 0
  BY LineIs
<1>2. /\ t.dev \in Interrupting /\ t.idx \in 0 .. 31 /\ t = [dev |-> t.dev, idx |-> t.idx]
      /\ t.dev \in {"pwm0", "pwm1", "pwm2"} => t.idx \in 0 .. 3
      /\ t.dev \in {"clint"} => t.idx \in {0, 1}
      /\ t.dev \in {"plic", "i2c0", "rtc", "wdog", "uart0", "uart1"} => t.idx = 0
  BY LineIs
<1>3. /\ NumberOf(s.dev, s.idx) = NumberOf(t.dev, t.idx)
      /\ s.dev \in {"clint", "plic"} <=> t.dev \in {"clint", "plic"}
  <2>1. LineOf(s) = <<IF s.dev \in {"clint", "plic"} THEN "cpu" ELSE "plic", NumberOf(s.dev, s.idx)>>
    BY LineIs
  <2>2. LineOf(t) = <<IF t.dev \in {"clint", "plic"} THEN "cpu" ELSE "plic", NumberOf(t.dev, t.idx)>>
    BY LineIs
  <2> DEFINE a == IF s.dev \in {"clint", "plic"} THEN "cpu" ELSE "plic"  b == NumberOf(s.dev, s.idx)
             c == IF t.dev \in {"clint", "plic"} THEN "cpu" ELSE "plic"  d == NumberOf(t.dev, t.idx)
  <2>3. a = c => (s.dev \in {"clint", "plic"} <=> t.dev \in {"clint", "plic"})
    OBVIOUS
  <2>4. <<a, b>> = <<c, d>>
    BY <2>1, <2>2
  <2> HIDE DEF a, b, c, d
  <2>5. a = c /\ b = d
    BY <2>4
  <2>6. QED
    BY <2>3, <2>5 DEF b, d
<1>4. CASE s.dev = "clint"
  <2>1. NumberOf(s.dev, s.idx) = IF s.idx = 0 THEN 3 ELSE 7
    BY <1>4 DEF NumberOf
  <2>2. t.dev = "clint" /\ (s.idx = t.idx)
    BY <1>1, <1>2, <1>3, <1>4, <2>1 DEF Interrupting, NumberOf
  <2>3. QED
    BY <1>1, <1>2, <1>4, <2>2 DEF Twins
<1>5. CASE s.dev = "plic"
  <2>1. NumberOf(s.dev, s.idx) = 11
    BY <1>5 DEF NumberOf
  <2>2. t.dev = "plic" /\ (s.idx = t.idx)
    BY <1>1, <1>2, <1>3, <1>5, <2>1 DEF Interrupting, NumberOf
  <2>3. QED
    BY <1>1, <1>2, <1>5, <2>2 DEF Twins
<1>6. CASE s.dev = "gpio0"
  <2>1. NumberOf(s.dev, s.idx) = IF s.idx <= 28 THEN s.idx + 8 ELSE s.idx - 2
    BY <1>6 DEF NumberOf
  <2>2. t.dev = "gpio0" /\ (s.idx = t.idx \/ (s.idx >= 29 /\ t.idx = s.idx - 10) \/ (t.idx >= 29 /\ s.idx = t.idx - 10))
    BY <1>1, <1>2, <1>3, <1>6, <2>1 DEF Interrupting, NumberOf
  <2>3. QED
    BY <1>1, <1>2, <1>6, <2>2 DEF Twins
<1>7. CASE s.dev = "i2c0"
  <2>1. NumberOf(s.dev, s.idx) = 52
    BY <1>7 DEF NumberOf
  <2>2. t.dev = "i2c0" /\ (s.idx = t.idx)
    BY <1>1, <1>2, <1>3, <1>7, <2>1 DEF Interrupting, NumberOf
  <2>3. QED
    BY <1>1, <1>2, <1>7, <2>2 DEF Twins
<1>8. CASE s.dev = "rtc"
  <2>1. NumberOf(s.dev, s.idx) = 2
    BY <1>8 DEF NumberOf
  <2>2. t.dev = "rtc" /\ (s.idx = t.idx)
    BY <1>1, <1>2, <1>3, <1>8, <2>1 DEF Interrupting, NumberOf
  <2>3. QED
    BY <1>1, <1>2, <1>8, <2>2 DEF Twins
<1>9. CASE s.dev = "wdog"
  <2>1. NumberOf(s.dev, s.idx) = 1
    BY <1>9 DEF NumberOf
  <2>2. t.dev = "wdog" /\ (s.idx = t.idx)
    BY <1>1, <1>2, <1>3, <1>9, <2>1 DEF Interrupting, NumberOf
  <2>3. QED
    BY <1>1, <1>2, <1>9, <2>2 DEF Twins
<1>10. CASE s.dev = "pwm0"
  <2>1. NumberOf(s.dev, s.idx) = 40 + s.idx
    BY <1>10 DEF NumberOf
  <2>2. t.dev = "pwm0" /\ (s.idx = t.idx)
    BY <1>1, <1>2, <1>3, <1>10, <2>1 DEF Interrupting, NumberOf
  <2>3. QED
    BY <1>1, <1>2, <1>10, <2>2 DEF Twins
<1>11. CASE s.dev = "pwm1"
  <2>1. NumberOf(s.dev, s.idx) = 44 + s.idx
    BY <1>11 DEF NumberOf
  <2>2. t.dev = "pwm1" /\ (s.idx = t.idx)
    BY <1>1, <1>2, <1>3, <1>11, <2>1 DEF Interrupting, NumberOf
  <2>3. QED
    BY <1>1, <1>2, <1>11, <2>2 DEF Twins
<1>12. CASE s.dev = "pwm2"
  <2>1. NumberOf(s.dev, s.idx) = 48 + s.idx
    BY <1>12 DEF NumberOf
  <2>2. t.dev = "pwm2" /\ (s.idx = t.idx)
    BY <1>1, <1>2, <1>3, <1>12, <2>1 DEF Interrupting, NumberOf
  <2>3. QED
    BY <1>1, <1>2, <1>12, <2>2 DEF Twins
<1>13. CASE s.dev = "uart0"
  <2>1. NumberOf(s.dev, s.idx) = 3
    BY <1>13 DEF NumberOf
  <2>2. t.dev = "uart0" /\ (s.idx = t.idx)
    BY <1>1, <1>2, <1>3, <1>13, <2>1 DEF Interrupting, NumberOf
  <2>3. QED
    BY <1>1, <1>2, <1>13, <2>2 DEF Twins
<1>14. CASE s.dev = "uart1"
  <2>1. NumberOf(s.dev, s.idx) = 4
    BY <1>14 DEF NumberOf
  <2>2. t.dev = "uart1" /\ (s.idx = t.idx)
    BY <1>1, <1>2, <1>3, <1>14, <2>1 DEF Interrupting, NumberOf
  <2>3. QED
    BY <1>1, <1>2, <1>14, <2>2 DEF Twins
<1>15. QED
  BY <1>1, <1>4, <1>5, <1>6, <1>7, <1>8, <1>9, <1>10, <1>11, <1>12, <1>13, <1>14 DEF Interrupting

\* A device's wire is the line that the description gives it, but for the last three pins.
LEMMA WireIs ==
    ASSUME NEW s \in BoardSources, HasLine(s)
    PROVE  /\ ~(s.dev = "gpio0" /\ s.idx >= 29) => <<InterruptsOf(s.dev).parent, Wire(s)>> = LineOf(s)
           /\ s.dev = "gpio0" /\ s.idx >= 29 => \A t \in BoardSources : HasLine(t) => LineOf(t) # <<"plic", Wire(s)>>
           /\ s.dev = "gpio0" => InterruptsOf(s.dev).parent = "plic"
<1>1. /\ s.dev \in Interrupting /\ s.idx \in 0 .. 31
      /\ LineOf(s) = <<IF s.dev \in {"clint", "plic"} THEN "cpu" ELSE "plic", NumberOf(s.dev, s.idx)>>
      /\ s.dev \in {"clint"} => s.idx \in {0, 1}
      /\ s.dev \in {"plic", "i2c0", "rtc", "wdog", "uart0", "uart1"} => s.idx = 0
  BY LineIs
<1>2. InterruptsOf(s.dev).parent = IF s.dev \in {"clint", "plic"} THEN "cpu" ELSE "plic"
  BY <1>1, LinesOfADevice DEF Interrupting
<1>3. CASE s.dev = "clint"
  BY <1>1, <1>2, <1>3 DEF Wire, NumberOf
<1>4. CASE s.dev = "plic"
  BY <1>1, <1>2, <1>4 DEF Wire, NumberOf
<1>5. CASE s.dev = "gpio0"
  <2>1. Wire(s) = s.idx + 8 /\ NumberOf(s.dev, s.idx) = IF s.idx <= 28 THEN s.idx + 8 ELSE s.idx - 2
    BY <1>5 DEF Wire, NumberOf
  <2>2. CASE s.idx <= 28
    BY <1>1, <1>2, <1>5, <2>1, <2>2
  <2>3. CASE s.idx >= 29
    <3>1. ASSUME NEW t \in BoardSources, HasLine(t), LineOf(t) = <<"plic", Wire(s)>> PROVE FALSE
      <4>1. /\ t.dev \in Interrupting /\ t.idx \in 0 .. 31
            /\ t.dev \in {"pwm0", "pwm1", "pwm2"} => t.idx \in 0 .. 3
            /\ LineOf(t) = <<IF t.dev \in {"clint", "plic"} THEN "cpu" ELSE "plic", NumberOf(t.dev, t.idx)>>
        BY <3>1, LineIs
      <4>2. NumberOf(t.dev, t.idx) \in 37 .. 39
        BY <1>1, <2>1, <2>3, <3>1, <4>1
      <4>3. QED
        BY <4>1, <4>2 DEF Interrupting, NumberOf
    <3>2. QED
      BY <1>2, <1>5, <2>3, <3>1
  <2>4. QED
    BY <1>1, <2>2, <2>3
<1>6. CASE s.dev = "i2c0"
  BY <1>1, <1>2, <1>6 DEF Wire, NumberOf
<1>7. CASE s.dev = "rtc"
  BY <1>1, <1>2, <1>7 DEF Wire, NumberOf
<1>8. CASE s.dev = "wdog"
  BY <1>1, <1>2, <1>8 DEF Wire, NumberOf
<1>9. CASE s.dev = "pwm0"
  BY <1>1, <1>2, <1>9 DEF Wire, NumberOf
<1>10. CASE s.dev = "pwm1"
  BY <1>1, <1>2, <1>10 DEF Wire, NumberOf
<1>11. CASE s.dev = "pwm2"
  BY <1>1, <1>2, <1>11 DEF Wire, NumberOf
<1>12. CASE s.dev = "uart0"
  BY <1>1, <1>2, <1>12 DEF Wire, NumberOf
<1>13. CASE s.dev = "uart1"
  BY <1>1, <1>2, <1>13 DEF Wire, NumberOf
<1>14. QED
  BY <1>1, <1>3, <1>4, <1>5, <1>6, <1>7, <1>8, <1>9, <1>10, <1>11, <1>12, <1>13 DEF Interrupting

-----------------------------------------------------------------------------
LEMMA BoardStart == BoardInit => BoardAccount
  BY DEF BoardInit, BoardAccount, LandsOnItsUnit, Access0, NothingArrived, Source0

LEMMA HandleGiven == ASSUME get_device PROVE handle' \in Handles \cup {"NULL", "stray"}
<1>1. \A k \in DOMAIN Tables : \A i : Got(k, i) \subseteq Handles \cup {"NULL", "stray"}
  <2>1. SUFFICES ASSUME NEW k \in DOMAIN Tables, NEW i, Passes(k, i), i + 1 \in DOMAIN Tables[k]
                 PROVE  Tables[k][i + 1] \in Handles
    BY DEF Got
  <2>2. \A j \in DOMAIN Tables[k] : Tables[k][j] \in Handles
    BY DEF Tables, Handles
  <2>3. QED
    BY <2>1, <2>2
<1>2. \A c : metal_led_get_rgb(c) \in Handles \cup {"NULL"} /\ metal_interrupt_get_controller(c) \in Handles \cup {"NULL"}
  BY DEF metal_led_get_rgb, metal_interrupt_get_controller, Handles
<1>3. (UNION {Got(k, i) : k \in DOMAIN Tables, i \in -1 .. BoardIndex}) \subseteq Handles \cup {"NULL", "stray"}
  BY <1>1
<1>4. {metal_led_get_rgb(c) : c \in {"red", "green", "blue", "white"}} \subseteq Handles \cup {"NULL", "stray"}
  BY <1>2
<1>5. {metal_interrupt_get_controller(c) : c \in {"clint", "plic", "clic"}} \subseteq Handles \cup {"NULL", "stray"}
  BY <1>2
<1>6. QED
  BY <1>3, <1>4, <1>5 DEF get_device

LEMMA AccessKeepsBoard ==
    ASSUME BoardAccount, get_device \/ CallDevice \/ GetRate \/ EndOfAccess
    PROVE  BoardAccount'
<1>1. /\ UNCHANGED <<tableOf, linesOn, registered, askedFor>> /\ (arrived' = arrived \/ arrived' = NothingArrived)
  BY DEF get_device, CallDevice, GetRate, EndOfAccess
<1>2. handle' \in Handles \cup {"NULL", "stray"}
  <2>1. handle' = handle \/ get_device
    BY DEF CallDevice, GetRate, EndOfAccess
  <2>2. QED
    BY <2>1, HandleGiven DEF BoardAccount
<1>3. LandsOnItsUnit'
  <2>1. CASE get_device
    BY <2>1 DEF get_device, BoardAccount, LandsOnItsUnit
  <2>2. CASE CallDevice
    <3>1. handle \in Handles /\ HandleIsRight(handle)
      BY <2>2, HandlesAreRight DEF CallDevice, IsDevice, BoardAccount
    <3>2. /\ access'.unit = UnitOf(handle) /\ access'.page = Registers(handle).base
          /\ access'.offsets = Offsets(handle) /\ access'.pins = Registers(handle).pins
      BY <2>2 DEF CallDevice
    <3>3. QED
      BY <3>1, <3>2 DEF HandleIsRight, LandsOnItsUnit
  <2>3. CASE GetRate
    <3>1. handle \in Handles /\ Registers(handle).clock \in {"clock_4", "clock_7"}
      BY <2>3, HandlesAreRight DEF GetRate, IsDevice, BoardAccount, HandleIsRight
    <3>2. /\ access'.unit = (IF Registers(handle).clock = "clock_4" THEN "prci" ELSE "aon")
          /\ access'.page = RatePage(Registers(handle).clock)
          /\ access'.offsets = METAL_SIFIVE_PRCI /\ access'.pins = {} /\ access'.rate = TRUE
      BY <2>3 DEF GetRate
    <3>3. RatePage("clock_4") = \h10008 /\ Unit(\h10008) = "prci" /\ RegistersAt("prci") = PRCI
      BY DEF RatePage, pll_page, Unit, RegistersAt
    <3>4. QED
      BY <3>1, <3>2, <3>3, RegistersAgree DEF LandsOnItsUnit
  <2>4. CASE EndOfAccess
    BY <2>4 DEF EndOfAccess, Access0, LandsOnItsUnit
  <2>5. QED
    BY <2>1, <2>2, <2>3, <2>4
<1>4. QED
  BY <1>1, <1>2, <1>3 DEF BoardAccount, SharesLine, NothingArrived, Source0

LEMMA RegisterKeepsBoard ==
    ASSUME BoardAccount, register_handler
    PROVE  BoardAccount'
<1>1. PICK i \in Indices(handle) :
        /\ tableOf' = {e \in tableOf : e.at # LineAt(handle, i)} \cup {[at |-> LineAt(handle, i), source |-> SourceOf(handle, i)]}
        /\ registered' = registered \cup {SourceOf(handle, i)}
  BY DEF register_handler
<1>2. handle \in Handles /\ UNCHANGED <<handle, access, linesOn, askedFor, arrived>>
  BY DEF register_handler, IsDevice, BoardAccount
<1> DEFINE new == SourceOf(handle, i)
<1>3. i \in 0 .. 31
  BY <1>1, <1>2, LinesOfADevice DEF Interrupting
<1>4. new \in BoardSources /\ HasLine(new) /\ LineOf(new) = LineAt(handle, i)
  BY <1>1, <1>2, <1>3 DEF BoardSources, HasLine, LineOf, SourceOf
<1> HIDE DEF new
<1>5. /\ tableOf' = {e \in tableOf : e.at # LineOf(new)} \cup {[at |-> LineOf(new), source |-> new]}
      /\ registered' = registered \cup {new}
  BY <1>1, <1>4 DEF new
<1>6. registered' \subseteq {s \in BoardSources : HasLine(s)} /\ askedFor' \subseteq registered'
  BY <1>2, <1>4, <1>5 DEF BoardAccount
<1>7. \A e \in tableOf' : e.source \in registered' /\ e = [at |-> LineOf(e.source), source |-> e.source]
  <2>1. TAKE e \in tableOf'
  <2>2. CASE e \in tableOf
    BY <1>5, <2>2 DEF BoardAccount
  <2>3. CASE e = [at |-> LineOf(new), source |-> new]
    BY <1>5, <2>3
  <2>4. QED
    BY <1>5, <2>1, <2>2, <2>3
<1>8. \A s \in registered' : ~SharesLine(s)' => [at |-> LineOf(s), source |-> s] \in tableOf'
  <2>1. SUFFICES ASSUME NEW s \in registered, s # new, ~SharesLine(s)' PROVE [at |-> LineOf(s), source |-> s] \in tableOf'
    BY <1>5
  <2>2. ~SharesLine(s)
    BY <1>5, <2>1 DEF SharesLine
  <2>3. [at |-> LineOf(s), source |-> s] \in tableOf
    BY <2>1, <2>2 DEF BoardAccount
  <2>4. s \in BoardSources /\ HasLine(s)
    BY <2>1 DEF BoardAccount
  <2>5. ~Twins(s, new)
    BY <2>2 DEF SharesLine, Twins
  <2>6. ~Twins(new, s)
    <3>1. SUFFICES ASSUME Twins(new, s) PROVE FALSE
      OBVIOUS
    <3>2. new = SourceOf("gpio0", new.idx) /\ new.idx \in 0 .. 31
      BY <1>4, <3>1, LineIs DEF Twins, SourceOf
    <3>3. s.idx + 10 = new.idx /\ s.dev = "gpio0"
      BY <3>1, <3>2 DEF Twins
    <3>4. SourceOf("gpio0", s.idx + 10) \in registered'
      BY <1>5, <3>2, <3>3
    <3>5. QED
      BY <2>1, <3>3, <3>4 DEF SharesLine
  <2>7. LineOf(s) # LineOf(new)
    BY <1>4, <2>1, <2>4, <2>5, <2>6, SameLine
  <2>8. QED
    BY <1>5, <2>3, <2>7
<1>9. QED
  BY <1>2, <1>6, <1>7, <1>8 DEF BoardAccount, LandsOnItsUnit, LineOf

LEMMA EnableKeepsBoard ==
    ASSUME BoardAccount, interrupt_enable
    PROVE  BoardAccount'
<1>1. PICK i \in Indices(handle) :
        /\ SourceOf(handle, i) \in registered
        /\ linesOn' = linesOn \cup {LineAt(handle, i)} /\ askedFor' = askedFor \cup {SourceOf(handle, i)}
  BY DEF interrupt_enable
<1>2. UNCHANGED <<handle, access, tableOf, registered, arrived>>
  BY DEF interrupt_enable
<1>3. LineOf(SourceOf(handle, i)) = LineAt(handle, i)
  BY DEF LineOf, SourceOf
<1>4. askedFor' \subseteq registered' /\ \A s \in askedFor' : LineOf(s) \in linesOn'
  BY <1>1, <1>2, <1>3 DEF BoardAccount
<1>5. QED
  BY <1>2, <1>4 DEF BoardAccount, LandsOnItsUnit, SharesLine

LEMMA FiringKeepsBoard ==
    ASSUME BoardAccount, Fires
    PROVE  BoardAccount'
<1>1. PICK s \in askedFor, e \in tableOf :
        e.at = <<InterruptsOf(s.dev).parent, Wire(s)>> /\ arrived' = [source |-> s, handler |-> e.source]
  BY DEF Fires
<1>2. UNCHANGED <<handle, access, tableOf, linesOn, registered, askedFor>>
  BY DEF Fires
<1> DEFINE t == e.source
<1>3. s \in BoardSources /\ HasLine(s) /\ t \in BoardSources /\ HasLine(t) /\ e.at = LineOf(t)
  BY <1>1 DEF BoardAccount
<1>4. arrived'.source = s /\ arrived'.handler = t
  BY <1>1
<1> HIDE DEF t
<1>5. ~(s.dev = "gpio0" /\ s.idx >= 29) /\ LineOf(s) = LineOf(t)
  BY <1>1, <1>3, WireIs
<1>6. s = t \/ Twins(t, s)
  BY <1>3, <1>5, SameLine DEF Twins
<1>7. t = s \/ (s.dev = "gpio0" /\ t.idx = s.idx + 10)
  <2>1. t.idx \in 0 .. 31
    BY <1>3, LineIs
  <2>2. QED
    BY <1>6, <2>1 DEF Twins
<1>8. QED
  BY <1>2, <1>4, <1>7 DEF BoardAccount, LandsOnItsUnit, SharesLine

LEMMA EveryBoardStep == BoardAccount /\ [BoardNext]_boardVars => BoardAccount'
<1> SUFFICES ASSUME BoardAccount, [BoardNext]_boardVars PROVE BoardAccount'
  OBVIOUS
<1>1. CASE UNCHANGED boardVars
  BY <1>1 DEF boardVars, BoardAccount, LandsOnItsUnit, SharesLine
<1>2. QED
  BY <1>1, AccessKeepsBoard, RegisterKeepsBoard, EnableKeepsBoard, FiringKeepsBoard DEF BoardNext

(* metal.h:469, 1302, metal-platform.h:279: whichever pins programs ask for,  *)
(* a call through any handle reaches the registers of the unit it is about   *)
(* and gives it only pins it can drive; and whatever is registered in        *)
(* whichever order, an interrupt that is asked for comes to its handler, but *)
(* for the pins that have the line of another.                              *)
THEOREM CallsReachTheBoard == BoardSpec => []BoardIsAsDescribed
<1>1. BoardAccount => BoardIsAsDescribed
  <2>1. SUFFICES ASSUME BoardAccount PROVE SourcesArrive
    BY DEF BoardAccount, BoardIsAsDescribed
  <2>2. ASSUME NEW s \in askedFor, ~SharesLine(s)
        PROVE  LET at == <<InterruptsOf(s.dev).parent, Wire(s)>>
               IN  at \in linesOn /\ [at |-> at, source |-> s] \in tableOf
    <3>1. s \in BoardSources /\ HasLine(s) /\ LineOf(s) \in linesOn /\ [at |-> LineOf(s), source |-> s] \in tableOf
      BY <2>1, <2>2 DEF BoardAccount
    <3>2. ~(s.dev = "gpio0" /\ s.idx >= 29)
      BY <2>2 DEF SharesLine
    <3>3. <<InterruptsOf(s.dev).parent, Wire(s)>> = LineOf(s)
      BY <3>1, <3>2, WireIs
    <3>4. QED
      BY <3>1, <3>3
  <2>3. QED
    BY <2>1, <2>2 DEF SourcesArrive, BoardAccount
<1>2. QED
  BY <1>1, BoardStart, EveryBoardStep, PTL DEF BoardSpec

-----------------------------------------------------------------------------
(* The watchdog (sifive_wdog0.c)                                             *)

RunBits   == {"enalways", "coreawake"}
RunFlags   == {{"enalways"}, {"coreawake"}}
ResultFlags == {{"zerocmp"}, {"rsten"}}
ScalesGiven == {0} \cup {ScaleFor(r) : r \in WdogRates}
ClearIp    == Cfg({"ip"}, {})
StopRun    == Cfg(RunBits, {})
NoResult   == Cfg({"rsten", "zerocmp"}, {})
SetsFlags(f)  == Cfg({}, f)

\* What is left of calls: one write, and more.
LastWrites ==
    {<<Feed>>, <<ClearIp>>, <<StopRun>>, <<NoResult>>} \cup {<<SetsFlags(f)>> : f \in RunFlags \cup ResultFlags}
        \cup {<<Cmp(t)>> : t \in WdogTimeouts} \cup {<<Scale(k)>> : k \in ScalesGiven}
MoreWrites ==
    {<<Scale(0), Scale(k)>> : k \in ScalesGiven} \cup {<<NoResult, SetsFlags(f)>> : f \in ResultFlags}
        \cup {<<Feed, SetsFlags(f)>> : f \in RunFlags} \cup {<<StopRun, Feed, SetsFlags(f)>> : f \in RunFlags}
ProgramLists == {<<>>} \cup LastWrites \cup MoreWrites
RoutineLists == {<<>>, <<ClearIp>>, <<ClearIp, Feed>>, <<Feed>>}

WdogTypes ==
    /\ todo = [a \in Actor2 |-> todo[a]] /\ todo["program"] \in ProgramLists /\ todo["routine"] \in RoutineLists
    /\ got = [a \in Actor2 |-> [key |-> got[a].key, cfg |-> got[a].cfg]]
    /\ \A a \in Actor2 : got[a].key \in BOOLEAN
    /\ key \in BOOLEAN /\ robbed \in BOOLEAN

\* What an actor has read is there still, but for an interrupt that came since.
ReadStands(a) ==
         got[a].cfg # <<>> => got[a].cfg[1] \subseteq wflags /\ wflags \subseteq got[a].cfg[1] \cup {"ip"} /\ got[a].cfg[2] = wscale

\* Whose the key is: the routine's while it has unlocked, else the program's.
KeyAccount ==
    /\ \A a \in Actor2 : (todo[a] = <<>> => ~got[a].key) /\ (got[a].cfg # <<>> => got[a].key)
    /\ got["routine"].key => key
    /\ key => got["routine"].key \/ got["program"].key
    /\ got["program"].key /\ ~robbed => key
    /\ ReadStands("routine")
    /\ ~robbed \/ (key /\ ~got["routine"].key) => ReadStands("program")

\* What will be when the program's call is done.
AsItIs == [flags |-> wflags \ {"ip"}, scale |-> wscale, cmp |-> wcmp, before |-> want.before]
WantAccount ==
    ~robbed => /\ want = Asks(todo["program"], AsItIs)
               /\ (\E t \in WdogTimeouts : todo["program"] = <<Cmp(t)>>) => wcmp = want.before

\* The counter stands between the feed and the start.
Stands == wflags \cap RunBits = {}
StartAccount ==
    ~robbed => \A f \in RunFlags : /\ todo["program"] = <<Feed, SetsFlags(f)>> => Stands
                                   /\ todo["program"] = <<SetsFlags(f)>> => Stands /\ wcount = 0

WdogAccount == WdogTypes /\ KeyAccount /\ WantAccount /\ StartAccount

-----------------------------------------------------------------------------
(* Calls, and what they ask for.                                            *)

AnyWrite == {Feed, ClearIp, StopRun, NoResult} \cup {SetsFlags(f) : f \in RunFlags \cup ResultFlags}
                \cup {Cmp(t) : t \in WdogTimeouts} \cup {Scale(k) : k \in ScalesGiven}

LEMMA WritesDiffer ==
    /\ Feed.to = "feed" /\ ClearIp.to = "cfg" /\ StopRun.to = "cfg" /\ NoResult.to = "cfg"
    /\ \A f : SetsFlags(f).to = "cfg" /\ SetsFlags(f).set = f /\ SetsFlags(f).clear = {}
    /\ \A t : Cmp(t).to = "cmp" /\ Cmp(t).value = t
    /\ \A k : Scale(k).to = "scale" /\ Scale(k).value = k
    /\ ClearIp.set = {} /\ StopRun.set = {} /\ NoResult.set = {}
    /\ ClearIp.clear = {"ip"} /\ StopRun.clear = RunBits /\ NoResult.clear = {"rsten", "zerocmp"}
  BY DEF Feed, ClearIp, StopRun, NoResult, SetsFlags, Cmp, Scale, Cfg

\* What a list that is not empty begins with, and what is left then.
LEMMA ListsAre ==
    ASSUME NEW q \in ProgramLists, q # <<>>
    PROVE  /\ Tail(q) \in ProgramLists /\ Head(q) \in AnyWrite /\ q \in Seq(AnyWrite) /\ Len(q) <= 3
           /\ \A f \in RunFlags : Tail(q) = <<SetsFlags(f)>> => q = <<Feed, SetsFlags(f)>>
           /\ \A f \in RunFlags : Tail(q) = <<Feed, SetsFlags(f)>> => q = <<StopRun, Feed, SetsFlags(f)>>
           /\ \A t : Tail(q) # <<Cmp(t)>>
           /\ Head(q).to = "cfg" /\ Head(q).set \cap RunBits # {} => \E f \in RunFlags : q = <<SetsFlags(f)>>
           /\ \/ Head(q).to = "scale"
              \/ \E t \in WdogTimeouts : q = <<Cmp(t)>>
              \/ \A k \in DOMAIN q : q[k].to \in {"feed", "cfg"}
<1>0. /\ <<>> \in ProgramLists /\ \A f \in RunFlags \cup ResultFlags : <<SetsFlags(f)>> \in ProgramLists
      /\ (\A k \in ScalesGiven : <<Scale(k)>> \in ProgramLists) /\ \A f \in RunFlags : <<Feed, SetsFlags(f)>> \in ProgramLists
  BY DEF ProgramLists, LastWrites, MoreWrites
<1>1. /\ Feed \in AnyWrite /\ ClearIp \in AnyWrite /\ StopRun \in AnyWrite /\ NoResult \in AnyWrite
      /\ \A f \in RunFlags \cup ResultFlags : SetsFlags(f) \in AnyWrite
      /\ (\A t \in WdogTimeouts : Cmp(t) \in AnyWrite) /\ (\A k \in ScalesGiven : Scale(k) \in AnyWrite) /\ Scale(0) \in AnyWrite
  BY DEF AnyWrite, ScalesGiven
<1>2. CASE q \in LastWrites
  <2>1. PICK e \in AnyWrite : q = <<e>>
    BY <1>1, <1>2 DEF LastWrites
  <2>2. Tail(q) = <<>> /\ Head(q) = e /\ Len(q) = 1 /\ q \in Seq(AnyWrite) /\ DOMAIN q = {1} /\ q[1] = e
    BY <2>1
  <2>3. \A x, y : <<>> # <<x>> /\ <<>> # <<x, y>>
    OBVIOUS
  <2>4. e.to = "cfg" /\ e.set \cap RunBits # {} => \E f \in RunFlags : q = <<SetsFlags(f)>>
    BY <2>1, WritesDiffer DEF AnyWrite, RunBits, ResultFlags
  <2>5. e.to = "scale" \/ (\E t \in WdogTimeouts : q = <<Cmp(t)>>) \/ e.to \in {"feed", "cfg"}
    BY <2>1, WritesDiffer DEF AnyWrite
  <2>6. QED
    BY <1>0, <2>1, <2>2, <2>3, <2>4, <2>5
<1>3. CASE \E k \in ScalesGiven : q = <<Scale(0), Scale(k)>>
  <2>1. PICK k \in ScalesGiven : q = <<Scale(0), Scale(k)>>
    BY <1>3
  <2>2. Tail(q) = <<Scale(k)>> /\ Head(q) = Scale(0) /\ Len(q) = 2 /\ q \in Seq(AnyWrite)
    BY <1>1, <2>1
  <2>3. \A f, t : <<Scale(k)>> # <<SetsFlags(f)>> /\ <<Scale(k)>> # <<Feed, SetsFlags(f)>> /\ <<Scale(k)>> # <<Cmp(t)>>
    <3>1. \A f, t : Scale(k) # SetsFlags(f) /\ Scale(k) # Cmp(t)
      BY WritesDiffer
    <3>2. QED
      BY <3>1
  <2>4. QED
    BY <1>0, <1>1, <2>1, <2>2, <2>3, WritesDiffer
<1>4. CASE \E f \in ResultFlags : q = <<NoResult, SetsFlags(f)>>
  <2>1. PICK g \in ResultFlags : q = <<NoResult, SetsFlags(g)>>
    BY <1>4
  <2>2. /\ Tail(q) = <<SetsFlags(g)>> /\ Head(q) = NoResult /\ Len(q) = 2 /\ q \in Seq(AnyWrite)
        /\ DOMAIN q = {1, 2} /\ q[1] = NoResult /\ q[2] = SetsFlags(g)
    BY <1>1, <2>1
  <2>3. /\ \A f \in RunFlags : <<SetsFlags(g)>> # <<SetsFlags(f)>> /\ <<SetsFlags(g)>> # <<Feed, SetsFlags(f)>>
        /\ \A t : <<SetsFlags(g)>> # <<Cmp(t)>>
    <3>1. (\A f \in RunFlags : SetsFlags(g) # SetsFlags(f)) /\ \A t : SetsFlags(g) # Cmp(t)
      <4>1. g \notin RunFlags
        BY DEF ResultFlags, RunFlags
      <4>2. QED
        BY <4>1, WritesDiffer
    <3>2. QED
      BY <3>1
  <2>4. /\ Head(q).to = "cfg" /\ Head(q).set = {}
        /\ \A k \in DOMAIN q : q[k].to \in {"feed", "cfg"}
    BY <2>2, WritesDiffer
  <2>5. Tail(q) \in ProgramLists /\ Head(q) \in AnyWrite /\ q \in Seq(AnyWrite) /\ Len(q) <= 3
    <3>1. g \in RunFlags \cup ResultFlags
      OBVIOUS
    <3>2. <<SetsFlags(g)>> \in ProgramLists /\ NoResult \in AnyWrite
      BY <1>0, <1>1, <3>1, Zenon
    <3>3. Len(q) <= 3
      BY <2>2
    <3>4. QED
      BY <2>2, <3>2, <3>3, Zenon
  <2>6. /\ \A f \in RunFlags : Tail(q) # <<SetsFlags(f)>> /\ Tail(q) # <<Feed, SetsFlags(f)>>
        /\ \A t : Tail(q) # <<Cmp(t)>>
    BY <2>2, <2>3
  <2>7. QED
    BY <2>4, <2>5, <2>6
<1>5. CASE \E f \in RunFlags : q = <<Feed, SetsFlags(f)>>
  <2>1. PICK g \in RunFlags : q = <<Feed, SetsFlags(g)>>
    BY <1>5
  <2>2. /\ Tail(q) = <<SetsFlags(g)>> /\ Head(q) = Feed /\ Len(q) = 2 /\ q \in Seq(AnyWrite)
        /\ DOMAIN q = {1, 2} /\ q[1] = Feed /\ q[2] = SetsFlags(g)
    BY <1>1, <2>1
  <2>3. \A f, t : <<SetsFlags(g)>> # <<Feed, SetsFlags(f)>> /\ <<SetsFlags(g)>> # <<Cmp(t)>> /\ (<<SetsFlags(g)>> = <<SetsFlags(f)>> => SetsFlags(g) = SetsFlags(f))
    <3>1. \A t : SetsFlags(g) # Cmp(t)
      BY WritesDiffer
    <3>2. QED
      BY <3>1
  <2>4. QED
    BY <1>0, <1>1, <2>1, <2>2, <2>3, WritesDiffer
<1>6. CASE \E f \in RunFlags : q = <<StopRun, Feed, SetsFlags(f)>>
  <2>1. PICK g \in RunFlags : q = <<StopRun, Feed, SetsFlags(g)>>
    BY <1>6
  <2>2. /\ Tail(q) = <<Feed, SetsFlags(g)>> /\ Head(q) = StopRun /\ Len(q) = 3 /\ q \in Seq(AnyWrite)
        /\ DOMAIN q = {1, 2, 3} /\ q[1] = StopRun /\ q[2] = Feed /\ q[3] = SetsFlags(g)
    BY <1>1, <2>1
  <2>3. \A f, t : /\ <<Feed, SetsFlags(g)>> # <<SetsFlags(f)>> /\ <<Feed, SetsFlags(g)>> # <<Cmp(t)>>
                  /\ (<<Feed, SetsFlags(g)>> = <<Feed, SetsFlags(f)>> => SetsFlags(g) = SetsFlags(f))
    OBVIOUS
  <2>4. QED
    BY <1>0, <1>1, <2>1, <2>2, <2>3, WritesDiffer
<1>7. \/ q \in LastWrites \/ (\E k \in ScalesGiven : q = <<Scale(0), Scale(k)>>) \/ (\E f \in ResultFlags : q = <<NoResult, SetsFlags(f)>>)
      \/ (\E f \in RunFlags : q = <<Feed, SetsFlags(f)>>) \/ (\E f \in RunFlags : q = <<StopRun, Feed, SetsFlags(f)>>)
  BY SMT DEF ProgramLists, MoreWrites
<1>8. QED
  BY <1>2, <1>3, <1>4, <1>5, <1>6, <1>7, Zenon

\* What a write of the program changes.
LEMMA ChangesAre ==
    ASSUME NEW e, NEW w
    PROVE  /\ e.to = "cfg"   => Changes(e, w) = [w EXCEPT !.flags = ((w.flags \ e.clear) \cup e.set) \ {"ip"}]
           /\ e.to = "scale" => Changes(e, w) = [w EXCEPT !.scale = e.value]
           /\ e.to = "cmp"   => Changes(e, w) = [w EXCEPT !.cmp = e.value]
           /\ e.to = "feed"  => Changes(e, w) = w
<1>1. e.to = "cfg" => Changes(e, w) = [w EXCEPT !.flags = ((w.flags \ e.clear) \cup e.set) \ {"ip"}]
  BY DEF Changes
<1>2. e.to = "scale" => Changes(e, w) = [w EXCEPT !.scale = e.value]
  BY DEF Changes
<1>3. e.to = "cmp" => Changes(e, w) = [w EXCEPT !.cmp = e.value]
  BY DEF Changes
<1>4. e.to = "feed" => Changes(e, w) = w
  BY DEF Changes
<1>5. QED
  BY <1>1, <1>2, <1>3, <1>4

LEMMA RecordEdits ==
    ASSUME NEW w, NEW fl, NEW s, NEW c, NEW b, w = [flags |-> fl, scale |-> s, cmp |-> c, before |-> b], NEW x
    PROVE  /\ [w EXCEPT !.flags = x] = [flags |-> x, scale |-> s, cmp |-> c, before |-> b]
           /\ [w EXCEPT !.scale = x] = [flags |-> fl, scale |-> x, cmp |-> c, before |-> b]
           /\ [w EXCEPT !.cmp = x] = [flags |-> fl, scale |-> s, cmp |-> x, before |-> b]
           /\ w.flags = fl
  OBVIOUS

LEMMA AsksStep ==
    ASSUME NEW q \in Seq(AnyWrite), q # <<>>, Len(q) <= 3, NEW w
    PROVE  Asks(q, w) = Asks(Tail(q), Changes(Head(q), w))
<1>1. /\ Len(q) \in 1 .. 3 /\ DOMAIN q = 1 .. Len(q) /\ Head(q) = q[1] /\ Len(Tail(q)) = Len(q) - 1
      /\ DOMAIN Tail(q) = 1 .. Len(Tail(q)) /\ \A k \in 1 .. Len(q) - 1 : Tail(q)[k] = q[k + 1]
  <2>1. Len(q) \in Nat /\ DOMAIN q = 1 .. Len(q) /\ Len(q) # 0 /\ Head(q) = q[1]
    <3>1. Len(q) \in Nat /\ DOMAIN q = 1 .. Len(q)
      BY LenProperties
    <3>2. Len(q) # 0
      BY EmptySeq
    <3>3. Head(q) = q[1]
      BY HeadTailProperties
    <3>4. QED
      BY <3>1, <3>2, <3>3
  <2>2. Tail(q) \in Seq(AnyWrite) /\ Len(Tail(q)) = Len(q) - 1 /\ \A k \in 1 .. Len(Tail(q)) : Tail(q)[k] = q[k + 1]
    BY HeadTailProperties
  <2>3. DOMAIN Tail(q) = 1 .. Len(Tail(q))
    BY <2>2, Zenon, LenProperties
  <2>4. QED
    BY <2>1, <2>2, <2>3
<1>2. 1 \in DOMAIN q /\ (1 \in DOMAIN Tail(q) <=> 2 \in DOMAIN q) /\ (2 \in DOMAIN Tail(q) <=> 3 \in DOMAIN q) /\ 3 \notin DOMAIN Tail(q)
  BY <1>1
<1>3. (2 \in DOMAIN q => Tail(q)[1] = q[2]) /\ (3 \in DOMAIN q => Tail(q)[2] = q[3]) /\ (3 \in DOMAIN q => 2 \in DOMAIN q)
  BY <1>1
<1> DEFINE first == Changes(q[1], w)
           second == IF 2 \in DOMAIN q THEN Changes(q[2], first) ELSE first
           third == IF 3 \in DOMAIN q THEN Changes(q[3], second) ELSE second
<1>4. Asks(q, w) = third
  BY <1>2 DEF Asks
<1>5. Asks(Tail(q), first) = third
  BY <1>2, <1>3 DEF Asks
<1>6. QED
  BY <1>1, <1>4, <1>5

LEMMA AsksNothing == \A w : Asks(<<>>, w) = w
  BY DEF Asks

\* A call that writes neither scale nor comparator leaves them.
LEMMA AsksKeeps ==
    ASSUME NEW q, \A k \in DOMAIN q : q[k].to \in {"feed", "cfg"},
           NEW w, w = [flags |-> w.flags, scale |-> w.scale, cmp |-> w.cmp, before |-> w.before]
    PROVE  Asks(q, w).scale = w.scale /\ Asks(q, w).cmp = w.cmp
<1> DEFINE Good(v) == v = [flags |-> v.flags, scale |-> w.scale, cmp |-> w.cmp, before |-> v.before]
           after(k, v) == IF k \in DOMAIN q THEN Changes(q[k], v) ELSE v
<1>1. \A k, v : Good(v) => Good(after(k, v))
  <2>1. TAKE k, v
  <2>2. HAVE Good(v)
  <2>3. CASE k \notin DOMAIN q
    BY <2>2, <2>3
  <2>4. CASE k \in DOMAIN q
    <3>1. Changes(q[k], v) = v \/ \E f : Changes(q[k], v) = [flags |-> f, scale |-> w.scale, cmp |-> w.cmp, before |-> v.before]
      <4>1. q[k].to \in {"feed", "cfg"}
        BY <2>4
      <4>2. v = [flags |-> v.flags, scale |-> w.scale, cmp |-> w.cmp, before |-> v.before]
        BY <2>2
      <4> HIDE DEF Good
      <4>3. QED
        <5> DEFINE x == ((v.flags \ q[k].clear) \cup q[k].set) \ {"ip"}
        <5>1. [v EXCEPT !.flags = x] = [flags |-> x, scale |-> w.scale, cmp |-> w.cmp, before |-> v.before]
          <6> HIDE DEF x
          <6>1. QED
            BY <4>2
        <5>2. (q[k].to = "cfg" => Changes(q[k], v) = [v EXCEPT !.flags = x]) /\ (q[k].to = "feed" => Changes(q[k], v) = v)
          BY ChangesAre
        <5> HIDE DEF x
        <5>3. QED
          BY <4>1, <5>1, <5>2, Zenon
    <3>2. QED
      BY <2>2, <2>4, <3>1
  <2>5. QED
    BY <2>3, <2>4
<1>2. Good(w)
  OBVIOUS
<1> HIDE DEF Good
<1>3. Good(after(3, after(2, after(1, w))))
  BY <1>1, <1>2
<1>4. Asks(q, w) = after(3, after(2, after(1, w)))
  BY DEF Asks
<1>5. QED
  BY <1>3, <1>4 DEF Good

LEMMA AsksBefore ==
    ASSUME NEW q \in ProgramLists, NEW fl, NEW s, NEW c, NEW b
    PROVE  Asks(q, [flags |-> fl, scale |-> s, cmp |-> c, before |-> b]).before = b
<1> DEFINE Good(v) == v = [flags |-> v.flags, scale |-> v.scale, cmp |-> v.cmp, before |-> b]
           after(k, v) == IF k \in DOMAIN q THEN Changes(q[k], v) ELSE v
           w == [flags |-> fl, scale |-> s, cmp |-> c, before |-> b]
<1>1. \A k \in DOMAIN q : q[k].to \in {"feed", "cfg", "scale", "cmp"}
  <2>1. q = <<>> \/ q \in Seq(AnyWrite)
    BY ListsAre
  <2>2. \A e \in AnyWrite : e.to \in {"feed", "cfg", "scale", "cmp"}
    BY WritesDiffer DEF AnyWrite
  <2>3. QED
    BY <2>1, <2>2, LenProperties
<1>2. \A k, v : Good(v) => Good(after(k, v))
  <2>1. TAKE k, v
  <2>2. HAVE Good(v)
  <2>3. CASE k \notin DOMAIN q
    BY <2>2, <2>3
  <2>4. CASE k \in DOMAIN q
    <3>1. \E x, y, z : Changes(q[k], v) = [flags |-> x, scale |-> y, cmp |-> z, before |-> b]
      <4>1. q[k].to \in {"feed", "cfg", "scale", "cmp"}
        BY <1>1, <2>4
      <4>2. v = [flags |-> v.flags, scale |-> v.scale, cmp |-> v.cmp, before |-> b]
        BY <2>2
      <4> HIDE DEF Good
      <4>3. QED
        <5> DEFINE x == ((v.flags \ q[k].clear) \cup q[k].set) \ {"ip"}
                   y == q[k].value
        <5>1. /\ q[k].to = "cfg" => Changes(q[k], v) = [v EXCEPT !.flags = x]
              /\ q[k].to = "scale" => Changes(q[k], v) = [v EXCEPT !.scale = y]
              /\ q[k].to = "cmp" => Changes(q[k], v) = [v EXCEPT !.cmp = y]
              /\ q[k].to = "feed" => Changes(q[k], v) = v
          BY ChangesAre
        <5> HIDE DEF x, y
        <5>2. /\ [v EXCEPT !.flags = x] = [flags |-> x, scale |-> v.scale, cmp |-> v.cmp, before |-> b]
              /\ [v EXCEPT !.scale = y] = [flags |-> v.flags, scale |-> y, cmp |-> v.cmp, before |-> b]
              /\ [v EXCEPT !.cmp = y] = [flags |-> v.flags, scale |-> v.scale, cmp |-> y, before |-> b]
          BY <4>2
        <5>3. QED
          BY <4>1, <4>2, <5>1, <5>2, Zenon
    <3>2. QED
      BY <2>4, <3>1
  <2>5. QED
    BY <2>3, <2>4
<1>3. Good(w)
  OBVIOUS
<1>4. Asks(q, w) = after(3, after(2, after(1, w)))
  BY DEF Asks
<1> HIDE DEF Good
<1>5. Good(after(3, after(2, after(1, w))))
  BY <1>2, <1>3
<1> HIDE DEF after, w
<1>6. QED
  BY <1>4, <1>5 DEF Good, w

LEMMA OneAndMore ==
    ASSUME NEW a, NEW b, NEW c
    PROVE  <<a>> \o <<>> = <<a>> /\ <<a>> \o <<b>> = <<a, b>> /\ <<a>> \o <<b, c>> = <<a, b, c>>
<1>1. <<a>> \o <<>> = <<a>> /\ <<a>> \o <<b>> = <<a, b>>
  <2>1. <<a>> \in Seq({a, b}) /\ <<b>> \in Seq({a, b}) /\ Len(<<a>>) = 1 /\ Len(<<b>>) = 1 /\ <<a, b>> \in Seq({a, b}) /\ Len(<<a, b>>) = 2
    OBVIOUS
  <2>2. <<a>>[1] = a /\ <<b>>[1] = b /\ <<a, b>>[1] = a /\ <<a, b>>[2] = b
    OBVIOUS
  <2>3. <<a>> \o <<>> = <<a>>
    BY <2>1, ConcatEmptySeq
  <2> DEFINE s == <<a>>
             t == <<b>>
             u == <<a, b>>
  <2> HIDE DEF s, t, u
  <2>4. Len(s) = 1 /\ Len(t) = 1 /\ Len(u) = 2 /\ s[1] = a /\ t[1] = b /\ u[1] = a /\ u[2] = b
    BY <2>1, <2>2 DEF s, t, u
  <2>5. s \in Seq({a, b}) /\ t \in Seq({a, b}) /\ u \in Seq({a, b})
    BY <2>1 DEF s, t, u
  <2>6. s \o t \in Seq({a, b}) /\ Len(s \o t) = 2
    BY <2>4, <2>5, ConcatProperties
  <2>7. \A i \in 1 .. Len(s) + Len(t) : (s \o t)[i] = IF i <= Len(s) THEN s[i] ELSE t[i - Len(s)]
    BY <2>5, Zenon, ConcatProperties
  <2>8. \A i \in 1 .. 2 : (s \o t)[i] = u[i]
    BY <2>4, <2>7
  <2>9. s \o t = u
    BY <2>4, <2>5, <2>6, <2>8, SeqEqual
  <2>10. QED
    BY <2>3, <2>9 DEF s, t, u
<1> DEFINE S == {a, b, c}
           s == <<a>>
           t == <<b, c>>
           u == <<a, b, c>>
<1>2. s \in Seq(S) /\ t \in Seq(S) /\ u \in Seq(S) /\ Len(s) = 1 /\ Len(t) = 2 /\ Len(u) = 3
  OBVIOUS
<1>3. s[1] = a /\ t[1] = b /\ t[2] = c /\ u[1] = a /\ u[2] = b /\ u[3] = c
  OBVIOUS
<1> HIDE DEF s, t, u, S
<1>4. s \o t \in Seq(S) /\ Len(s \o t) = 3
  <2>1. s \o t \in Seq(S) /\ Len(s \o t) = Len(s) + Len(t)
    BY <1>2, Zenon, ConcatProperties
  <2>2. QED
    BY <1>2, <2>1
<1>5. \A i \in 1 .. Len(s) + Len(t) : (s \o t)[i] = IF i <= Len(s) THEN s[i] ELSE t[i - Len(s)]
  BY <1>2, Zenon, ConcatProperties
<1>6. \A i \in 1 .. 3 : (s \o t)[i] = u[i]
  <2>1. TAKE i \in 1 .. 3
  <2>2. i \in 1 .. Len(s) + Len(t) /\ Len(s) = 1 /\ (i = 1 \/ i = 2 \/ i = 3)
    BY <1>2
  <2>3. (s \o t)[i] = IF i <= 1 THEN s[i] ELSE t[i - 1]
    BY <1>5, <2>2
  <2>4. QED
    BY <1>3, <2>2, <2>3
<1>7. s \o t = u
  BY <1>2, <1>4, <1>6, SeqEqual
<1>8. QED
  BY <1>1, <1>7 DEF s, t, u

LEMMA WdogCallsAre ==
    /\ WdogCalls \subseteq ProgramLists /\ RoutineCalls \subseteq RoutineLists
    /\ \A c \in WdogCalls, f \in RunFlags : c # <<Feed, SetsFlags(f)>> /\ c # <<SetsFlags(f)>>
    /\ <<>> \in ProgramLists /\ <<>> \in RoutineLists
<1>1. \A a, b, c : <<a>> \o <<>> = <<a>> /\ <<a>> \o <<b>> = <<a, b>> /\ <<a>> \o <<b, c>> = <<a, b, c>>
  BY OneAndMore
<1>2. feed = <<Feed>> /\ clear_interrupt = <<ClearIp>> /\ \A f : feed \o <<SetsFlags(f)>> = <<Feed, SetsFlags(f)>>
  BY <1>1 DEF feed, clear_interrupt, ClearIp
<1>3. RoutineCalls \subseteq RoutineLists
  BY <1>1, <1>2 DEF RoutineCalls, RoutineLists
<1>4. \A r \in WdogRates : set_rate(r) \in ProgramLists /\ Head(set_rate(r)) = Scale(0)
  <2>1. TAKE r \in WdogRates
  <2>2. set_rate(r) = <<Scale(0)>> \/ set_rate(r) = <<Scale(0), Scale(ScaleFor(r))>>
    BY DEF set_rate
  <2>3. 0 \in ScalesGiven /\ ScaleFor(r) \in ScalesGiven
    BY DEF ScalesGiven
  <2>4. <<Scale(0)>> \in LastWrites /\ <<Scale(0), Scale(ScaleFor(r))>> \in MoreWrites
    BY <2>3 DEF LastWrites, MoreWrites
  <2>5. QED
    BY <2>2, <2>4 DEF ProgramLists
<1>5. \A t \in WdogTimeouts : set_timeout(t) \in ProgramLists /\ Head(set_timeout(t)) = Cmp(t)
  BY DEF set_timeout, ProgramLists, LastWrites
<1>6. \A f \in {{}} \cup ResultFlags : set_result(f) \in ProgramLists /\ Head(set_result(f)) = NoResult
  <2>1. TAKE f \in {{}} \cup ResultFlags
  <2>2. set_result(f) = <<NoResult>> \o (IF f = {} THEN <<>> ELSE <<SetsFlags(f)>>)
    BY DEF set_result, NoResult, SetsFlags
  <2>3. CASE f = {}
    <3>1. set_result(f) = <<NoResult>>
      BY <1>1, <2>2, <2>3
    <3>2. QED
      BY <3>1 DEF ProgramLists, LastWrites
  <2>4. CASE f # {}
    <3>1. set_result(f) = <<NoResult, SetsFlags(f)>> /\ f \in ResultFlags
      BY <1>1, <2>2, <2>4
    <3>2. QED
      BY <3>1 DEF ProgramLists, MoreWrites
  <2>5. QED
    BY <2>3, <2>4
<1>7. \A f \in {{}} \cup RunFlags : run(f) \in ProgramLists /\ Head(run(f)) = StopRun
  <2>1. TAKE f \in {{}} \cup RunFlags
  <2>2. run(f) = <<StopRun>> \o (IF f = {} THEN <<>> ELSE feed \o <<SetsFlags(f)>>)
    BY DEF run, StopRun, SetsFlags, RunBits
  <2>3. CASE f = {}
    <3>1. run(f) = <<StopRun>>
      BY <1>1, <2>2, <2>3
    <3>2. QED
      BY <3>1 DEF ProgramLists, LastWrites
  <2>4. CASE f # {}
    <3>1. run(f) = <<StopRun, Feed, SetsFlags(f)>> /\ f \in RunFlags
      BY <1>1, <1>2, <2>2, <2>4
    <3>2. QED
      BY <3>1 DEF ProgramLists, MoreWrites
  <2>5. QED
    BY <2>3, <2>4
<1>8. /\ feed \in ProgramLists /\ clear_interrupt \in ProgramLists /\ <<>> \in ProgramLists /\ <<>> \in RoutineLists
      /\ Head(clear_interrupt) = ClearIp /\ \A f : feed # <<Feed, SetsFlags(f)>> /\ feed # <<SetsFlags(f)>>
  <2>1. feed \in ProgramLists /\ clear_interrupt \in ProgramLists /\ <<>> \in ProgramLists /\ <<>> \in RoutineLists
    BY <1>2 DEF ProgramLists, LastWrites, RoutineLists
  <2>2. \A f : <<Feed>> # <<Feed, SetsFlags(f)>> /\ (<<Feed>> = <<SetsFlags(f)>> => Feed = SetsFlags(f))
    OBVIOUS
  <2>3. QED
    BY <1>2, <2>1, <2>2, WritesDiffer
<1>9. \A c \in WdogCalls : c \in ProgramLists /\ (c = feed \/ Head(c) \in {ClearIp, Scale(0), NoResult, StopRun} \/ \E t : Head(c) = Cmp(t))
  <2>1. TAKE c \in WdogCalls
  <2>2. \/ c = feed \/ c = clear_interrupt \/ (\E r \in WdogRates : c = set_rate(r)) \/ (\E t \in WdogTimeouts : c = set_timeout(t))
        \/ (\E f \in {{}} \cup ResultFlags : c = set_result(f)) \/ (\E f \in {{}} \cup RunFlags : c = run(f))
    BY DEF WdogCalls, ResultFlags, RunFlags
  <2>3. QED
    BY <1>4, <1>5, <1>6, <1>7, <1>8, <2>2
<1>10. \A f \in RunFlags : /\ Head(<<Feed, SetsFlags(f)>>) = Feed /\ Head(<<SetsFlags(f)>>) = SetsFlags(f)
                           /\ \A e \in {ClearIp, Scale(0), NoResult, StopRun} : e # Feed /\ e # SetsFlags(f)
                           /\ \A t : Cmp(t) # Feed /\ Cmp(t) # SetsFlags(f)
  <2>1. TAKE f \in RunFlags
  <2>2. f # {} /\ SetsFlags(f).set = f
    BY WritesDiffer DEF RunFlags
  <2>3. QED
    BY <2>2, WritesDiffer
<1>11. QED
  BY <1>3, <1>8, <1>9, <1>10

\* Lists of the routine.
LEMMA RoutineListsAre ==
    ASSUME NEW q \in RoutineLists, q # <<>>
    PROVE  /\ Tail(q) \in RoutineLists /\ Head(q) \in {ClearIp, Feed}
<1>1. q = <<ClearIp>> \/ q = <<ClearIp, Feed>> \/ q = <<Feed>>
  BY DEF RoutineLists
<1>2. /\ <<>> \in RoutineLists /\ <<Feed>> \in RoutineLists
  BY DEF RoutineLists
<1>3. \A x, y : Head(<<x>>) = x /\ Tail(<<x>>) = <<>> /\ Head(<<x, y>>) = x /\ Tail(<<x, y>>) = <<y>>
  OBVIOUS
<1>4. QED
  BY <1>1, <1>2, <1>3

-----------------------------------------------------------------------------
(* Steps.                                                                   *)

LEMMA WdogStart == WdogInit => WdogAccount
<1>1. SUFFICES ASSUME WdogInit PROVE WdogAccount
  OBVIOUS
<1>2. /\ todo = [a \in Actor2 |-> <<>>] /\ got = [a \in Actor2 |-> [key |-> FALSE, cfg |-> <<>>]]
      /\ wflags = {} /\ wscale = 0 /\ key = FALSE /\ robbed = FALSE /\ want = [flags |-> {}, scale |-> 0, cmp |-> wcmp, before |-> wcmp]
  BY <1>1 DEF WdogInit
<1>3. "program" \in Actor2 /\ "routine" \in Actor2
  BY DEF Actor2
<1>4. WdogTypes
  BY <1>2, <1>3, WdogCallsAre DEF WdogTypes
<1>5. KeyAccount
  BY <1>2, <1>3 DEF KeyAccount, ReadStands
<1>6. WantAccount /\ StartAccount
  <2>1. want = AsItIs
    BY <1>2 DEF AsItIs
  <2>2. \A x, y : <<>> # <<x>> /\ <<>> # <<x, y>>
    OBVIOUS
  <2>3. QED
    BY <1>2, <1>3, <2>1, <2>2, AsksNothing DEF WantAccount, StartAccount
<1>7. QED
  BY <1>4, <1>5, <1>6 DEF WdogAccount

LEMMA CallsKeepWdog ==
    ASSUME WdogAccount, Begin \/ WdogTrap
    PROVE  WdogAccount' /\ UNCHANGED <<wdogRegs, bitten>>
<1>0. WdogTypes /\ KeyAccount /\ WantAccount /\ StartAccount /\ "program" \in Actor2 /\ "routine" \in Actor2
  BY DEF WdogAccount, Actor2
<1>1. UNCHANGED <<wflags, wscale, wcmp, wcount, key, got, robbed, bitten>>
  BY DEF Begin, WdogTrap, wdogRegs
<1>2. CASE Begin
  <2>1. PICK c \in WdogCalls : todo' = [todo EXCEPT !["program"] = c] /\ want' = Asks(c, [want EXCEPT !.before = want.cmp])
    BY <1>2 DEF Begin
  <2>2. ~robbed /\ todo["program"] = <<>>
    BY <1>2 DEF Begin
  <2>3. todo'["program"] = c /\ todo'["routine"] = todo["routine"] /\ todo' = [a \in Actor2 |-> todo'[a]]
    BY <1>0, <2>1 DEF WdogTypes, Actor2
  <2>4. WdogTypes'
    BY <1>0, <1>1, <2>3, WdogCallsAre DEF WdogTypes
  <2>5. KeyAccount'
    BY <1>0, <1>1, <2>2, <2>3 DEF KeyAccount, ReadStands, Actor2
  <2>6. WantAccount'
    <3>1. want = AsItIs
      BY <1>0, <2>2, AsksNothing DEF WantAccount
    <3>2. [want EXCEPT !.before = want.cmp] = [flags |-> wflags \ {"ip"}, scale |-> wscale, cmp |-> wcmp, before |-> wcmp]
      BY <3>1 DEF AsItIs
    <3>3. want'.before = wcmp
      <4>1. c \in ProgramLists /\ want' = Asks(c, [flags |-> wflags \ {"ip"}, scale |-> wscale, cmp |-> wcmp, before |-> wcmp])
        BY <2>1, <3>2, WdogCallsAre
      <4>2. QED
        BY <4>1, AsksBefore
    <3>4. AsItIs' = [flags |-> wflags \ {"ip"}, scale |-> wscale, cmp |-> wcmp, before |-> wcmp]
      BY <1>1, <3>3 DEF AsItIs
    <3>5. QED
      BY <1>1, <2>1, <2>3, <3>2, <3>3, <3>4 DEF WantAccount
  <2>7. StartAccount'
    BY <2>1, <2>3, WdogCallsAre DEF StartAccount
  <2>8. QED
    BY <1>1, <2>4, <2>5, <2>6, <2>7 DEF WdogAccount, wdogRegs
<1>3. CASE WdogTrap
  <2>1. PICK c \in RoutineCalls : todo' = [todo EXCEPT !["routine"] = c]
    BY <1>3 DEF WdogTrap
  <2>2. todo["routine"] = <<>> /\ want' = want
    BY <1>3 DEF WdogTrap
  <2>3. todo'["routine"] = c /\ todo'["program"] = todo["program"] /\ todo' = [a \in Actor2 |-> todo'[a]]
    BY <1>0, <2>1 DEF WdogTypes, Actor2
  <2>4. WdogTypes'
    BY <1>0, <1>1, <2>3, WdogCallsAre DEF WdogTypes
  <2>5. KeyAccount'
    BY <1>0, <1>1, <2>2, <2>3 DEF KeyAccount, ReadStands, Actor2
  <2>6. WantAccount' /\ StartAccount'
    BY <1>0, <1>1, <2>2, <2>3 DEF WantAccount, AsItIs, StartAccount, Stands
  <2>7. QED
    BY <1>1, <2>4, <2>5, <2>6 DEF WdogAccount, wdogRegs
<1>4. QED
  BY <1>2, <1>3

LEMMA KeysKeepWdog ==
    ASSUME WdogAccount, NEW a \in Actor2, Unlock(a) \/ ReadCfg(a)
    PROVE  WdogAccount' /\ UNCHANGED <<wflags, wscale, wcmp, wcount, todo, bitten>>
<1>0. WdogTypes /\ KeyAccount /\ WantAccount /\ StartAccount /\ "program" \in Actor2 /\ "routine" \in Actor2
  BY DEF WdogAccount, Actor2
<1>1. UNCHANGED <<wflags, wscale, wcmp, wcount, todo, want, robbed, bitten>> /\ todo[a] # <<>> /\ (a = "program" => todo["routine"] = <<>>)
  BY DEF Unlock, ReadCfg, Able, wdogRegs
<1>2. WantAccount' /\ StartAccount'
  BY <1>0, <1>1 DEF WantAccount, AsItIs, StartAccount, Stands
<1>3. CASE Unlock(a)
  <2>1. ~got[a].key /\ key' = TRUE /\ got' = [got EXCEPT ![a].key = TRUE] /\ got[a].cfg = <<>>
    BY <1>0, <1>3 DEF Unlock, KeyAccount
  <2>2. /\ got'[a] = [key |-> TRUE, cfg |-> <<>>] /\ (\A b \in Actor2 : b # a => got'[b] = got[b])
        /\ got' = [b \in Actor2 |-> [key |-> got'[b].key, cfg |-> got'[b].cfg]]
    <3>1. [got[a] EXCEPT !.key = TRUE] = [key |-> TRUE, cfg |-> <<>>]
      <4>1. got[a] = [key |-> got[a].key, cfg |-> got[a].cfg]
        BY <1>0 DEF WdogTypes
      <4> DEFINE r == TRUE
      <4> HIDE DEF r
      <4>2. \A k, c : [[key |-> k, cfg |-> c] EXCEPT !.key = r] = [key |-> r, cfg |-> c]
        OBVIOUS
      <4>3. [got[a] EXCEPT !.key = r] = [key |-> r, cfg |-> <<>>]
        BY <2>1, <4>1, <4>2, Zenon
      <4>4. QED
        BY <4>3 DEF r
    <3>2. got' = [got EXCEPT ![a] = [key |-> TRUE, cfg |-> <<>>]]
      BY <2>1, <3>1
    <3>3. QED
      BY <1>0, <3>2 DEF WdogTypes
  <2>3. WdogTypes'
    <3>1. (\A b \in Actor2 : got'[b].key \in BOOLEAN) /\ key' \in BOOLEAN /\ robbed' \in BOOLEAN
      <4>1. \A b \in Actor2 : got[b].key \in BOOLEAN /\ robbed \in BOOLEAN
        BY <1>0 DEF WdogTypes
      <4>2. got'[a].key = TRUE /\ key' = TRUE /\ robbed' = robbed
        BY <1>1, <2>1, <2>2
      <4>3. ASSUME NEW b \in Actor2 PROVE got'[b].key \in BOOLEAN
        <5>1. CASE b = a
          BY <4>2, <5>1
        <5>2. CASE b # a
          BY <2>2, <4>1, <5>2, Zenon
        <5>3. QED
          BY <5>1, <5>2
      <4>4. QED
        BY <4>1, <4>2, <4>3, Zenon
    <3>2. QED
      BY <1>0, <1>1, <2>2, <3>1 DEF WdogTypes
  <2>4. KeyAccount'
    <3>1. CASE a = "routine"
      BY <1>0, <1>1, <2>1, <2>2, <3>1 DEF KeyAccount, ReadStands, Actor2
    <3>2. CASE a = "program"
      BY <1>0, <1>1, <2>1, <2>2, <3>2 DEF KeyAccount, ReadStands, Actor2
    <3>3. QED
      BY <3>1, <3>2 DEF Actor2
  <2>5. QED
    BY <1>1, <1>2, <2>3, <2>4 DEF WdogAccount
<1>4. CASE ReadCfg(a)
  <2>1. got[a].key /\ got' = [got EXCEPT ![a].cfg = <<wflags, wscale>>] /\ key' = key
    BY <1>4 DEF ReadCfg, ReadsNow, wdogRegs
  <2>2. /\ got'[a] = [key |-> TRUE, cfg |-> <<wflags, wscale>>] /\ (\A b \in Actor2 : b # a => got'[b] = got[b])
        /\ got' = [b \in Actor2 |-> [key |-> got'[b].key, cfg |-> got'[b].cfg]]
    <3>1. [got[a] EXCEPT !.cfg = <<wflags, wscale>>] = [key |-> TRUE, cfg |-> <<wflags, wscale>>]
      <4>1. got[a] = [key |-> got[a].key, cfg |-> got[a].cfg] /\ got[a].key = TRUE
        BY <1>0, <2>1 DEF WdogTypes
      <4> DEFINE r == <<wflags, wscale>>
      <4> HIDE DEF r
      <4>2. \A k, c : [[key |-> k, cfg |-> c] EXCEPT !.cfg = r] = [key |-> k, cfg |-> r]
        OBVIOUS
      <4>3. [got[a] EXCEPT !.cfg = r] = [key |-> TRUE, cfg |-> r]
        BY <4>1, <4>2, Zenon
      <4>4. QED
        BY <4>3 DEF r
    <3>2. got' = [got EXCEPT ![a] = [key |-> TRUE, cfg |-> <<wflags, wscale>>]]
      BY <2>1, <3>1
    <3>3. QED
      BY <1>0, <3>2 DEF WdogTypes
  <2>3. WdogTypes'
    BY <1>0, <1>1, <2>1, <2>2 DEF WdogTypes
  <2>4. KeyAccount'
    <3>1. CASE a = "routine"
      BY <1>0, <1>1, <2>1, <2>2, <3>1 DEF KeyAccount, ReadStands, Actor2
    <3>2. CASE a = "program"
      BY <1>0, <1>1, <2>1, <2>2, <3>2 DEF KeyAccount, ReadStands, Actor2
    <3>3. QED
      BY <3>1, <3>2 DEF Actor2
  <2>5. QED
    BY <1>1, <1>2, <2>3, <2>4 DEF WdogAccount
<1>5. QED
  BY <1>3, <1>4

\* The unit changes no more than the interrupt's flag, the counter and, with it, the end.
LEMMA UnitKeepsWdog ==
    ASSUME WdogAccount, Compare \/ WdogTick
    PROVE  WdogAccount' /\ InterruptStaysCleared /\ NoEarlyBite /\ StartsFed
<1>0. WdogTypes /\ KeyAccount /\ WantAccount /\ StartAccount /\ "program" \in Actor2 /\ "routine" \in Actor2
  BY DEF WdogAccount, Actor2
<1>1. UNCHANGED <<wscale, wcmp, key, todo, got, want, robbed>> /\ wflags \subseteq wflags' /\ wflags' \subseteq wflags \cup {"ip"}
  BY DEF Compare, WdogTick
<1>2. Stands' = Stands /\ AsItIs' = AsItIs /\ (Stands => wcount' = wcount \/ wcount' = 0)
  <2>1. "ip" \notin RunBits
    BY DEF RunBits
  <2>2. Stands' = Stands /\ AsItIs' = AsItIs
    BY <1>1, <2>1 DEF Stands, AsItIs
  <2>3. Stands => wcount' = wcount \/ wcount' = 0
    BY DEF Compare, WdogTick, Stands, RunBits
  <2>4. QED
    BY <2>2, <2>3
<1>3. KeyAccount'
  BY <1>0, <1>1 DEF KeyAccount, ReadStands
<1>4. WdogTypes' /\ WantAccount' /\ StartAccount'
  BY <1>0, <1>1, <1>2 DEF WdogTypes, WantAccount, StartAccount
<1>5. NoEarlyBite
  <2>1. SUFFICES ASSUME bitten', ~bitten, ~robbed,
                        ~(todo["program"] # <<>> /\ Head(todo["program"]).to = "scale")
                 PROVE  \/ wcount \div 2 ^ want.scale >= want.cmp
                        \/ todo["program"] # <<>> /\ wcount \div 2 ^ want.scale >= want.before
    BY DEF NoEarlyBite
  <2>2. wcount \div 2 ^ wscale >= wcmp
    BY <2>1 DEF Compare, WdogTick, Matches
  <2>3. want = Asks(todo["program"], AsItIs) /\ AsItIs.scale = wscale /\ AsItIs.cmp = wcmp /\ todo["program"] \in ProgramLists
    BY <1>0, <2>1 DEF WantAccount, AsItIs, WdogTypes
  <2>4. CASE todo["program"] = <<>>
    BY <2>2, <2>3, <2>4, AsksNothing
  <2>5. CASE \E t \in WdogTimeouts : todo["program"] = <<Cmp(t)>>
    <3>1. PICK t \in WdogTimeouts : todo["program"] = <<Cmp(t)>>
      BY <2>5
    <3>2. wcmp = want.before
      BY <1>0, <2>1, <2>5 DEF WantAccount
    <3>3. want.scale = wscale
      <4>1. want = Changes(Cmp(t), AsItIs)
        BY <2>3, <3>1 DEF Asks
      <4>2. QED
        BY <4>1, WritesDiffer DEF Changes, AsItIs
    <3>4. todo["program"] # <<>>
      BY <3>1
    <3>5. QED
      BY <2>2, <3>2, <3>3, <3>4
  <2>6. CASE \A k \in DOMAIN todo["program"] : todo["program"][k].to \in {"feed", "cfg"}
    <3>1. AsItIs = [flags |-> AsItIs.flags, scale |-> AsItIs.scale, cmp |-> AsItIs.cmp, before |-> AsItIs.before]
      BY DEF AsItIs
    <3>2. want.scale = wscale /\ want.cmp = wcmp
      BY <2>3, <2>6, <3>1, AsksKeeps
    <3>3. QED
      BY <2>2, <3>2
  <2>7. QED
    BY <2>1, <2>3, <2>4, <2>5, <2>6, ListsAre
<1>6. InterruptStaysCleared /\ StartsFed
  BY <1>1 DEF InterruptStaysCleared, StartsFed
<1>7. QED
  BY <1>3, <1>4, <1>5, <1>6 DEF WdogAccount

LEMMA RoutineKeepsWdog ==
    ASSUME WdogAccount, WriteWdog("routine")
    PROVE  WdogAccount' /\ InterruptStaysCleared /\ NoEarlyBite /\ StartsFed
<1>0. WdogTypes /\ KeyAccount /\ WantAccount /\ StartAccount /\ "program" \in Actor2 /\ "routine" \in Actor2
  BY DEF WdogAccount, Actor2
<1> DEFINE e == Head(todo["routine"])
<1>1. /\ todo["routine"] # <<>> /\ got["routine"].key /\ key /\ (Reads(e) => got["routine"].cfg # <<>>)
      /\ Stores("routine", e) /\ key' = FALSE /\ robbed' = (robbed \/ got["program"].key)
      /\ todo' = [todo EXCEPT !["routine"] = Tail(@)] /\ got' = [got EXCEPT !["routine"] = [key |-> Unlocked("routine"), cfg |-> <<>>]]
      /\ UNCHANGED <<want, bitten>>
  BY <1>0 DEF WriteWdog, Able, KeyAccount
<1>2. e \in {ClearIp, Feed} /\ Tail(todo["routine"]) \in RoutineLists
  BY <1>0, <1>1, RoutineListsAre DEF WdogTypes
<1>3. /\ todo'["routine"] = Tail(todo["routine"]) /\ todo'["program"] = todo["program"] /\ todo' = [b \in Actor2 |-> todo'[b]]
      /\ got'["routine"] = [key |-> FALSE, cfg |-> <<>>] /\ got'["program"] = got["program"]
      /\ got' = [b \in Actor2 |-> [key |-> got'[b].key, cfg |-> got'[b].cfg]]
  BY <1>0, <1>1 DEF WdogTypes, Unlocked, Actor2
<1>4. wscale' = wscale /\ wcmp' = wcmp /\ (wcount' = wcount \/ wcount' = 0) /\ wflags' \ {"ip"} = wflags \ {"ip"} /\ wflags' \subseteq wflags
  <2>1. CASE e = Feed
    BY <1>1, <2>1, WritesDiffer DEF Stores
  <2>2. CASE e = ClearIp
    <3>1. got["routine"].cfg # <<>> /\ ReadStands("routine")
      BY <1>0, <1>1, <2>2, WritesDiffer DEF Reads, KeyAccount
    <3>2. wflags' = (got["routine"].cfg[1] \ {"ip"}) \cup {} /\ wscale' = got["routine"].cfg[2] /\ wcmp' = wcmp /\ wcount' = wcount
      BY <1>1, <2>2, WritesDiffer DEF Stores
    <3>3. QED
      BY <3>1, <3>2 DEF ReadStands
  <2>3. QED
    BY <1>2, <2>1, <2>2
<1> HIDE DEF e
<1>5. WdogTypes'
  BY <1>0, <1>1, <1>2, <1>3 DEF WdogTypes, Actor2
<1>6. KeyAccount'
  BY <1>0, <1>1, <1>3, <1>4 DEF WdogTypes, KeyAccount, ReadStands, Actor2
<1>7. AsItIs' = AsItIs /\ Stands' = Stands
  <2>1. "ip" \notin RunBits
    BY DEF RunBits
  <2>2. QED
    BY <1>1, <1>4, <2>1 DEF AsItIs, Stands
<1>8. WantAccount' /\ StartAccount'
  BY <1>0, <1>1, <1>3, <1>4, <1>7 DEF WdogTypes, WantAccount, StartAccount
<1>9. InterruptStaysCleared /\ NoEarlyBite /\ StartsFed
  BY <1>1, <1>4 DEF InterruptStaysCleared, NoEarlyBite, StartsFed
<1>10. QED
  BY <1>5, <1>6, <1>8, <1>9 DEF WdogAccount

LEMMA ProgramKeepsWdog ==
    ASSUME WdogAccount, WriteWdog("program")
    PROVE  WdogAccount' /\ InterruptStaysCleared /\ NoEarlyBite /\ StartsFed
<1>0. WdogTypes /\ KeyAccount /\ WantAccount /\ StartAccount /\ "program" \in Actor2 /\ "routine" \in Actor2
  BY DEF WdogAccount, Actor2
<1> DEFINE q == todo["program"]
           e == Head(q)
<1>1. /\ q # <<>> /\ todo["routine"] = <<>> /\ got["program"].key /\ (Reads(e) => got["program"].cfg # <<>>)
      /\ (IF key THEN Stores("program", e) ELSE UNCHANGED <<wflags, wscale, wcmp, wcount>>) /\ key' = FALSE /\ robbed' = robbed
      /\ todo' = [todo EXCEPT !["program"] = Tail(q)] /\ got' = [got EXCEPT !["program"] = [key |-> Unlocked("program"), cfg |-> <<>>]]
      /\ UNCHANGED <<want, bitten>>
  BY <1>0 DEF WriteWdog, Able, WdogTypes
<1>2. q \in ProgramLists
  BY <1>0 DEF WdogTypes
<1>3. /\ todo'["program"] = Tail(q) /\ todo'["routine"] = todo["routine"] /\ todo' = [b \in Actor2 |-> todo'[b]]
      /\ got'["program"] = [key |-> FALSE, cfg |-> <<>>] /\ got'["routine"] = got["routine"]
      /\ got' = [b \in Actor2 |-> [key |-> got'[b].key, cfg |-> got'[b].cfg]]
  BY <1>0, <1>1 DEF WdogTypes, Unlocked, Actor2
<1>4. /\ Tail(q) \in ProgramLists /\ e \in AnyWrite /\ q \in Seq(AnyWrite) /\ Len(q) <= 3
      /\ \A f \in RunFlags : Tail(q) = <<SetsFlags(f)>> => q = <<Feed, SetsFlags(f)>>
      /\ \A f \in RunFlags : Tail(q) = <<Feed, SetsFlags(f)>> => q = <<StopRun, Feed, SetsFlags(f)>>
      /\ \A t : Tail(q) # <<Cmp(t)>>
      /\ e.to = "cfg" /\ e.set \cap RunBits # {} => \E f \in RunFlags : q = <<SetsFlags(f)>>
  BY <1>1, <1>2, ListsAre
<1>5. ~got["routine"].key /\ (key => ReadStands("program")) /\ (~robbed => key)
  BY <1>0, <1>1 DEF KeyAccount
<1>6. e.to \in {"feed", "cfg", "scale", "cmp"} /\ (e.to = "cfg" => "ip" \notin e.set)
  <2>1. \A f \in RunFlags \cup ResultFlags : "ip" \notin f
    BY DEF RunFlags, ResultFlags
  <2>2. QED
    BY <1>4, <2>1, WritesDiffer DEF AnyWrite
<1> HIDE DEF e, q
<1>7. WdogTypes'
  BY <1>0, <1>1, <1>3, <1>4 DEF WdogTypes, Actor2
<1>8. KeyAccount'
  <2>1. ReadStands("routine")'
    BY <1>0, <1>3, <1>5 DEF KeyAccount, ReadStands
  <2>2. QED
    BY <1>0, <1>1, <1>3, <1>5, <2>1 DEF KeyAccount, ReadStands, Actor2
\* What the write does to the flags, if it has the key.
<1>9. key /\ e.to = "cfg" => /\ wflags' = (got["program"].cfg[1] \ e.clear) \cup e.set /\ wscale' = got["program"].cfg[2]
                             /\ wcmp' = wcmp /\ wcount' = wcount
  BY <1>1 DEF Stores
<1>10. key /\ e.to = "scale" => wflags' = got["program"].cfg[1] /\ wscale' = e.value /\ wcmp' = wcmp /\ wcount' = wcount
  BY <1>1 DEF Stores
<1>11. key /\ e.to = "cmp" => wflags' = wflags /\ wscale' = wscale /\ wcmp' = e.value /\ wcount' = wcount
  BY <1>1 DEF Stores
<1>12. key /\ e.to = "feed" => wflags' = wflags /\ wscale' = wscale /\ wcmp' = wcmp /\ wcount' = 0
  BY <1>1 DEF Stores
<1>13. key /\ e.to \in {"cfg", "scale"} =>
          /\ got["program"].cfg[1] \subseteq wflags /\ wflags \subseteq got["program"].cfg[1] \cup {"ip"} /\ got["program"].cfg[2] = wscale
  BY <1>1, <1>5 DEF Reads, ReadStands
<1>14. ASSUME key PROVE AsItIs' = Changes(e, AsItIs)
  <2> DEFINE fl == wflags \ {"ip"}
  <2>1. /\ e.to = "cfg"   => Changes(e, AsItIs) = [flags |-> ((fl \ e.clear) \cup e.set) \ {"ip"}, scale |-> wscale, cmp |-> wcmp, before |-> want.before]
        /\ e.to = "scale" => Changes(e, AsItIs) = [flags |-> fl, scale |-> e.value, cmp |-> wcmp, before |-> want.before]
        /\ e.to = "cmp"   => Changes(e, AsItIs) = [flags |-> fl, scale |-> wscale, cmp |-> e.value, before |-> want.before]
        /\ e.to = "feed"  => Changes(e, AsItIs) = AsItIs
    <3>1. AsItIs = [flags |-> fl, scale |-> wscale, cmp |-> wcmp, before |-> want.before]
      BY DEF AsItIs
    <3>2. AsItIs.flags = fl
      BY <3>1
    <3>3. /\ e.to = "cfg"   => Changes(e, AsItIs) = [AsItIs EXCEPT !.flags = ((fl \ e.clear) \cup e.set) \ {"ip"}]
          /\ e.to = "scale" => Changes(e, AsItIs) = [AsItIs EXCEPT !.scale = e.value]
          /\ e.to = "cmp"   => Changes(e, AsItIs) = [AsItIs EXCEPT !.cmp = e.value]
          /\ e.to = "feed"  => Changes(e, AsItIs) = AsItIs
      BY <3>2, ChangesAre
    <3> HIDE DEF fl
    <3>4. QED
      BY <3>1, <3>3
  <2>2. AsItIs' = [flags |-> wflags' \ {"ip"}, scale |-> wscale', cmp |-> wcmp', before |-> want.before]
    BY <1>1 DEF AsItIs
  <2>3. CASE e.to = "cfg"
    <3>1. wflags' \ {"ip"} = ((fl \ e.clear) \cup e.set) \ {"ip"} /\ wscale' = wscale /\ wcmp' = wcmp
      BY <1>9, <1>13, <1>14, <2>3
    <3>2. QED
      BY <2>1, <2>2, <2>3, <3>1
  <2>4. CASE e.to = "scale"
    <3>1. wflags' \ {"ip"} = fl /\ wscale' = e.value /\ wcmp' = wcmp
      BY <1>10, <1>13, <1>14, <2>4
    <3>2. QED
      BY <2>1, <2>2, <2>4, <3>1
  <2>5. CASE e.to = "cmp"
    BY <1>11, <1>14, <2>1, <2>2, <2>5
  <2>6. CASE e.to = "feed"
    BY <1>12, <1>14, <2>1, <2>2, <2>6 DEF AsItIs
  <2>7. QED
    BY <1>6, <2>3, <2>4, <2>5, <2>6
<1>15. WantAccount'
  <2>1. SUFFICES ASSUME ~robbed PROVE want = Asks(Tail(q), AsItIs')
    BY <1>1, <1>3, <1>4 DEF WantAccount
  <2>2. want = Asks(q, AsItIs)
    BY <1>0, <2>1 DEF WantAccount, q
  <2>3. Asks(q, AsItIs) = Asks(Tail(q), Changes(e, AsItIs))
    BY <1>1, <1>4, AsksStep DEF e
  <2>4. QED
    BY <1>5, <1>14, <2>1, <2>2, <2>3
<1>16. StartAccount'
  <2>1. SUFFICES ASSUME ~robbed, NEW f \in RunFlags
                 PROVE  /\ Tail(q) = <<Feed, SetsFlags(f)>> => Stands'
                        /\ Tail(q) = <<SetsFlags(f)>> => Stands' /\ wcount' = 0
    BY <1>1, <1>3 DEF StartAccount
  <2>2. ASSUME Tail(q) = <<Feed, SetsFlags(f)>> PROVE Stands'
    <3>1. e = StopRun
      BY <1>4, <2>2 DEF e
    <3>2. wflags' = (got["program"].cfg[1] \ RunBits) \cup {}
      BY <1>5, <1>9, <2>1, <3>1, WritesDiffer
    <3>3. QED
      BY <3>2 DEF Stands
  <2>3. ASSUME Tail(q) = <<SetsFlags(f)>> PROVE Stands' /\ wcount' = 0
    <3>1. q = <<Feed, SetsFlags(f)>> /\ e = Feed
      BY <1>4, <2>3 DEF e
    <3>2. Stands
      BY <1>0, <2>1, <3>1 DEF StartAccount, q
    <3>3. QED
      BY <1>5, <1>12, <2>1, <3>1, <3>2, WritesDiffer DEF Stands
  <2>4. QED
    BY <2>2, <2>3
<1>17. InterruptStaysCleared
  <2>1. wflags' \cap {"ip"} \subseteq wflags
    <3>1. CASE ~key
      BY <1>1, <3>1
    <3>2. CASE key
      BY <1>6, <1>9, <1>10, <1>11, <1>12, <1>13, <3>2
    <3>3. QED
      BY <3>1, <3>2
  <2>2. QED
    BY <2>1 DEF InterruptStaysCleared
<1>18. NoEarlyBite
  BY <1>1 DEF NoEarlyBite
<1>19. StartsFed
  <2>1. SUFFICES ASSUME (wflags' \ wflags) \cap RunBits # {}, ~robbed PROVE wcount = 0
    BY DEF StartsFed, RunBits
  <2>2. e.to = "cfg" /\ e.set \cap RunBits # {}
    BY <1>5, <1>6, <1>9, <1>10, <1>11, <1>12, <1>13, <2>1
  <2>3. PICK f \in RunFlags : q = <<SetsFlags(f)>>
    BY <1>4, <2>2
  <2>4. QED
    BY <1>0, <2>1, <2>3 DEF StartAccount, q
<1>20. QED
  BY <1>7, <1>8, <1>15, <1>16, <1>17, <1>18, <1>19 DEF WdogAccount

LEMMA EveryWdogStep ==
    WdogAccount /\ [WdogNext]_wdogVars => WdogAccount' /\ [InterruptStaysCleared /\ NoEarlyBite /\ StartsFed]_wdogVars
<1> SUFFICES ASSUME WdogAccount, [WdogNext]_wdogVars
             PROVE  WdogAccount' /\ [InterruptStaysCleared /\ NoEarlyBite /\ StartsFed]_wdogVars
  OBVIOUS
<1>1. CASE Begin \/ WdogTrap
  <2>1. WdogAccount' /\ UNCHANGED <<wflags, wscale, wcmp, wcount, key, bitten>>
    BY <1>1, CallsKeepWdog DEF wdogRegs
  <2>2. InterruptStaysCleared /\ NoEarlyBite /\ StartsFed
    BY <2>1 DEF InterruptStaysCleared, NoEarlyBite, StartsFed
  <2>3. QED
    BY <2>1, <2>2
<1>2. ASSUME NEW a \in Actor2, Unlock(a) \/ ReadCfg(a)
      PROVE  WdogAccount' /\ InterruptStaysCleared /\ NoEarlyBite /\ StartsFed
  <2>1. WdogAccount' /\ UNCHANGED <<wflags, wscale, wcmp, wcount, todo, bitten>>
    BY <1>2, KeysKeepWdog
  <2>2. QED
    BY <2>1 DEF InterruptStaysCleared, NoEarlyBite, StartsFed
<1>3. ASSUME NEW a \in Actor2, WriteWdog(a)
      PROVE  WdogAccount' /\ InterruptStaysCleared /\ NoEarlyBite /\ StartsFed
  BY <1>3, RoutineKeepsWdog, ProgramKeepsWdog DEF Actor2
<1>4. CASE UNCHANGED wdogVars
  BY <1>4 DEF wdogVars, wdogRegs, WdogAccount, WdogTypes, KeyAccount, ReadStands, WantAccount, AsItIs, StartAccount, Stands
<1>5. QED
  BY <1>1, <1>2, <1>3, <1>4, UnitKeepsWdog DEF WdogNext

(* sifive_wdog0.c:32-38, 102-131, 184-195: whatever the clock, the rates and  *)
(* the timeouts are and however far the counter goes, unless the routine     *)
(* took a key of the program the registers are as its calls asked, the       *)
(* watchdog does not bite early and starts from zero; and an interrupt that  *)
(* was cleared stays so, whoever took whose key.                             *)
THEOREM WritesArriveOnce == WdogSpec => WdogIsAsTold
<1>1. WdogAccount => ((todo["program"] = <<>> /\ ~robbed) =>
            want.flags = wflags \ {"ip"} /\ want.scale = wscale /\ want.cmp = wcmp)
  BY AsksNothing DEF WdogAccount, WantAccount, AsItIs
<1>2. QED
  BY <1>1, WdogStart, EveryWdogStep, PTL DEF WdogSpec, WdogIsAsTold

-----------------------------------------------------------------------------
(* The real time counter (sifive_rtc0.c)                                     *)

RtcPlaces == {"idle", "compare", "scale", "cmp", "high", "low", "setHigh", "setLow", "cfg", "flag"}

RtcTypes ==
    /\ rcount \in Nat /\ since \in Nat /\ rarg \in Nat
    /\ always \in BOOLEAN /\ stopped2 \in BOOLEAN /\ rpc \in RtcPlaces
    /\ held2 = [cfg |-> held2.cfg, value |-> held2.value]

\* A count begins in the time of its call, and its high word is of that time.
CountAccount ==
    /\ rpc \in {"high", "low", "setLow"} => since <= rcount
    /\ rpc = "low" => \E c \in Nat : since <= c /\ c <= rcount /\ held2.value = RtcWord * High(c)

\* The high word is written, and less than a word of ticks since.
SetAccount ==
    rpc = "setLow" => /\ \E l \in 0 .. RtcWord - 1 : since = RtcWord * High(rarg) + l
                      /\ rcount - since <= RtcWord - 1

\* The flag that set_compare will write back was there, and is unless it was stopped.
FlagAccount ==
    /\ rpc = "scale" => held2.cfg[2] \in BOOLEAN /\ (held2.cfg[2] => always \/ stopped2)
    /\ rpc \in {"cfg", "flag"} => rcall = "run"

RtcAccount == RtcTypes /\ CountAccount /\ SetAccount /\ FlagAccount

RtcPromises == CountNeverAhead /\ CountSetAsAsked /\ StopLostInRace

-----------------------------------------------------------------------------
LEMMA RtcWords ==
    ASSUME NEW x \in Nat
    PROVE  /\ High(x) \in Nat /\ Low(x) \in Nat /\ Low(x) < RtcWord
           /\ x = RtcWord * High(x) + Low(x)
  BY RtcWordAssumption DEF High, Low

\* A value's high word is the one that leaves less than a word.
LEMMA HighWordIs ==
    ASSUME NEW h \in Nat, NEW l \in Nat, l < RtcWord
    PROVE  High(RtcWord * h + l) = h /\ Low(RtcWord * h + l) = l
  BY RtcWordAssumption DEF High, Low

LEMMA HighIsMonotone ==
    ASSUME NEW x \in Nat, NEW y \in Nat, x <= y
    PROVE  High(x) <= High(y) /\ RtcWord * High(x) <= RtcWord * High(y)
  BY RtcWords, RtcWordAssumption DEF High, Low

LEMMA WordProducts ==
    ASSUME NEW h \in Nat
    PROVE  RtcWord * h \in Nat /\ RtcWord * (h + 1) = RtcWord * h + RtcWord /\ RtcWord * (h + 2) = RtcWord * h + RtcWord + RtcWord
  BY RtcWordAssumption

LEMMA RtcStart == Rtc0Init => RtcAccount
<1>1. SUFFICES ASSUME Rtc0Init PROVE RtcAccount
  OBVIOUS
<1>2. held2 = [cfg |-> held2.cfg, value |-> held2.value]
  <2>1. \A c : [cfg |-> c, value |-> 0].cfg = c /\ [cfg |-> c, value |-> 0].value = 0
    OBVIOUS
  <2>2. QED
    BY <1>1, <2>1, Zenon DEF Rtc0Init
<1>3. rcount = 0 /\ since = 0 /\ rarg = 0 /\ always = FALSE /\ stopped2 = FALSE /\ rpc = "idle"
  BY <1>1 DEF Rtc0Init
<1>4. QED
  BY <1>2, <1>3 DEF RtcAccount, RtcTypes, RtcPlaces, CountAccount, SetAccount, FlagAccount

LEMMA TicksKeepRtc ==
    ASSUME RtcAccount, RtcTicks \/ RtcAlarm
    PROVE  RtcAccount' /\ RtcPromises
<1>0. RtcTypes /\ CountAccount /\ SetAccount /\ FlagAccount /\ RtcWord \in Nat
  BY RtcWordAssumption DEF RtcAccount
<1>1. UNCHANGED <<rpc, rcall, rarg, held2, since>> /\ rcount' \in Nat /\ rcount <= rcount' /\ (always' => always)
  BY <1>0 DEF RtcTicks, RtcAlarm, RtcTypes
<1>2. RtcTypes'
  BY <1>0, <1>1 DEF RtcTypes, RtcTicks, RtcAlarm
<1>3. CountAccount'
  BY <1>0, <1>1 DEF CountAccount, RtcTypes
<1>4. SetAccount'
  <2>1. rpc = "setLow" => rcount' - since <= RtcWord - 1
    BY <1>0 DEF RtcTicks, RtcAlarm, SetAccount, RtcTypes
  <2>2. QED
    BY <1>0, <1>1, <2>1 DEF SetAccount
<1>5. FlagAccount'
  BY <1>0, <1>1 DEF FlagAccount, RtcTicks, RtcAlarm
<1>6. RtcPromises
  BY <1>1 DEF RtcPromises, CountNeverAhead, CountSetAsAsked, StopLostInRace
<1>7. QED
  BY <1>2, <1>3, <1>4, <1>5, <1>6 DEF RtcAccount

LEMMA CallsKeepRtc ==
    ASSUME RtcAccount, RtcCalls
    PROVE  RtcAccount' /\ RtcPromises
<1>0. RtcTypes
  BY DEF RtcAccount
<1>1. rpc = "idle" /\ since' = rcount /\ UNCHANGED <<rcount, always, held2, stopped2>>
  BY DEF RtcCalls, RtcCall, rtc0Regs
<1>2. rpc' \in {"compare", "high", "setHigh", "cfg"} /\ (rpc' = "cfg" => rcall' = "run")
  BY DEF RtcCalls, RtcCall
<1>3. rarg' \in Nat
  <2>1. rarg' \in RtcCompares \cup RtcCounts \cup {0, 1}
    BY DEF RtcCalls, RtcCall
  <2>2. 0 .. RtcWord * RtcWord - 1 \subseteq Nat
    OBVIOUS
  <2>3. QED
    BY <2>1, <2>2, RtcValuesAssumption
<1>4. RtcTypes'
  BY <1>0, <1>1, <1>2, <1>3 DEF RtcTypes, RtcPlaces
<1>5. CountAccount' /\ SetAccount' /\ FlagAccount'
  BY <1>0, <1>1, <1>2 DEF CountAccount, SetAccount, FlagAccount, RtcTypes
<1>6. RtcPromises
  BY <1>1 DEF RtcPromises, CountNeverAhead, CountSetAsAsked, StopLostInRace
<1>7. QED
  BY <1>4, <1>5, <1>6 DEF RtcAccount

LEMMA FlagsKeepRtc ==
    ASSUME RtcAccount, set_compare \/ rtc_run, UNCHANGED <<rcall, rarg, since>>
    PROVE  RtcAccount' /\ RtcPromises
<1>0. RtcTypes /\ FlagAccount
  BY DEF RtcAccount
<1>1. rcount' = rcount /\ rpc' \in {"scale", "cmp", "idle", "flag"} /\ rpc \in {"compare", "scale", "cmp", "cfg", "flag"}
  BY DEF set_compare, rtc_run, rtc0Regs, RtcReturns
<1>2. /\ rpc' = "scale" => held2' = [held2 EXCEPT !.cfg = <<rscale, always>>] /\ always' = always
      /\ rpc' = "flag" => held2' = [held2 EXCEPT !.cfg = <<rscale, always>>] /\ always' = always /\ rpc = "cfg"
      /\ rpc' \notin {"scale", "flag"} => held2' = held2
      /\ stopped2' \in {stopped2, FALSE}
  BY DEF set_compare, rtc_run, rtc0Regs, RtcReturns
<1>3. /\ rpc = "scale" => always' = held2.cfg[2] /\ stopped2' = stopped2
      /\ rpc = "flag" => always' = (rarg = 1)
      /\ rpc \notin {"scale", "flag"} => always' = always
  BY DEF set_compare, rtc_run, rtc0Regs, FlagKept
<1>4. [held2 EXCEPT !.cfg = <<rscale, always>>] = [cfg |-> <<rscale, always>>, value |-> held2.value]
  <2> DEFINE r == <<rscale, always>>
  <2> HIDE DEF r
  <2>1. \A c, v : [[cfg |-> c, value |-> v] EXCEPT !.cfg = r] = [cfg |-> r, value |-> v]
    OBVIOUS
  <2>2. held2 = [cfg |-> held2.cfg, value |-> held2.value]
    BY <1>0 DEF RtcTypes
  <2>3. [held2 EXCEPT !.cfg = r] = [cfg |-> r, value |-> held2.value]
    BY <2>1, <2>2, Zenon
  <2>4. QED
    BY <2>3 DEF r
<1>5. always' \in BOOLEAN
  <2>1. held2.cfg[2] \in BOOLEAN \/ rpc # "scale"
    BY <1>0 DEF FlagAccount
  <2>2. (rarg = 1) \in BOOLEAN
    OBVIOUS
  <2>3. QED
    BY <1>0, <1>3, <2>1, <2>2, Zenon DEF RtcTypes
<1>6. held2' = [cfg |-> held2'.cfg, value |-> held2'.value]
  <2>1. \A c, v : [cfg |-> c, value |-> v].cfg = c /\ [cfg |-> c, value |-> v].value = v
    OBVIOUS
  <2>2. held2' = held2 \/ held2' = [cfg |-> <<rscale, always>>, value |-> held2.value]
    BY <1>1, <1>2, <1>4
  <2>3. QED
    BY <1>0, <2>1, <2>2, Zenon DEF RtcTypes
<1>7. RtcTypes'
  <2>1. rpc' \in RtcPlaces
    BY <1>1 DEF RtcPlaces
  <2>2. stopped2' \in BOOLEAN
    BY <1>0, <1>2 DEF RtcTypes
  <2>3. QED
    BY <1>0, <1>1, <1>5, <1>6, <2>1, <2>2 DEF RtcTypes
<1>8. CountAccount' /\ SetAccount'
  BY <1>1 DEF CountAccount, SetAccount
<1>9. FlagAccount'
  <2>1. CASE rpc' = "scale"
    <3>1. held2'.cfg = <<rscale, always>> /\ always' = always
      BY <1>2, <1>4, <2>1
    <3>2. held2'.cfg[2] = always
      BY <3>1
    <3>3. QED
      BY <1>0, <2>1, <3>1, <3>2 DEF FlagAccount, RtcTypes
  <2>2. CASE rpc' # "scale"
    BY <1>0, <1>1, <1>2, <2>2 DEF FlagAccount
  <2>3. QED
    BY <2>1, <2>2
<1>10. CountNeverAhead /\ CountSetAsAsked
  BY <1>1 DEF CountNeverAhead, CountSetAsAsked
<1>11. StopLostInRace
  <2>1. SUFFICES ASSUME always', ~always, rcall # "run" PROVE stopped2 /\ rpc = "scale"
    BY DEF StopLostInRace
  <2>2. rpc = "scale"
    BY <1>0, <1>3, <2>1 DEF FlagAccount
  <2>3. held2.cfg[2]
    BY <1>3, <2>1, <2>2
  <2>4. QED
    BY <1>0, <2>1, <2>2, <2>3 DEF FlagAccount
<1>12. QED
  BY <1>7, <1>8, <1>9, <1>10, <1>11 DEF RtcAccount, RtcPromises

LEMMA ReadingKeepsRtc ==
    ASSUME RtcAccount, get_count, UNCHANGED <<rcall, rarg, since>>
    PROVE  RtcAccount' /\ RtcPromises
<1>0. RtcTypes /\ CountAccount /\ RtcWord \in Nat
  BY RtcWordAssumption DEF RtcAccount
<1>1. UNCHANGED <<rcount, always, stopped2>> /\ rpc \in {"high", "low"} /\ rpc' = (IF rpc = "high" THEN "low" ELSE "idle")
  BY DEF get_count, rtc0Regs, RtcReturns
<1>2. PICK v : held2' = [held2 EXCEPT !.value = v] /\ v = IF rpc = "high" THEN RtcWord * High(rcount) ELSE held2.value + Low(rcount)
  BY DEF get_count, CountRead
<1>3. held2' = [cfg |-> held2.cfg, value |-> v]
  <2>1. \A c, u : [[cfg |-> c, value |-> u] EXCEPT !.value = v] = [cfg |-> c, value |-> v]
    OBVIOUS
  <2>2. held2 = [cfg |-> held2.cfg, value |-> held2.value]
    BY <1>0 DEF RtcTypes
  <2>3. QED
    BY <1>2, <2>1, <2>2, Zenon
<1>4. RtcTypes'
  <2>1. held2' = [cfg |-> held2'.cfg, value |-> held2'.value]
    BY <1>3
  <2>2. QED
    BY <1>0, <1>1, <2>1 DEF RtcTypes, RtcPlaces
<1>5. held2'.value = v
  BY <1>3
<1>6. CountAccount' /\ SetAccount' /\ FlagAccount'
  BY <1>0, <1>1, <1>2, <1>5 DEF CountAccount, SetAccount, FlagAccount, RtcTypes
<1>7. CountNeverAhead
  <2>1. SUFFICES ASSUME rpc = "low"
                 PROVE  v <= rcount /\ (v >= since \/ High(rcount) # High(since))
    BY <1>5 DEF CountNeverAhead
  <2>2. PICK c \in Nat : since <= c /\ c <= rcount /\ held2.value = RtcWord * High(c)
    BY <1>0, <2>1 DEF CountAccount
  <2>3. rcount \in Nat /\ since \in Nat
    BY <1>0 DEF RtcTypes
  <2>4. /\ High(c) \in Nat /\ High(rcount) \in Nat /\ High(since) \in Nat /\ Low(rcount) \in Nat
        /\ rcount = RtcWord * High(rcount) + Low(rcount)
    BY <2>3, RtcWords
  <2>5. High(c) <= High(rcount) /\ RtcWord * High(c) <= RtcWord * High(rcount) /\ High(since) <= High(c)
    BY <2>2, <2>3, HighIsMonotone
  <2>6. v = RtcWord * High(c) + Low(rcount)
    BY <1>2, <2>1, <2>2
  <2> DEFINE x == RtcWord * High(c)
             y == RtcWord * High(rcount)
  <2>7. x \in Nat /\ y \in Nat /\ x <= y /\ v = x + Low(rcount) /\ rcount = y + Low(rcount)
    BY <1>0, <2>4, <2>5, <2>6, WordProducts
  <2>8. High(rcount) = High(since) => x = y
    BY <2>4, <2>5
  <2> HIDE DEF x, y
  <2>9. QED
    BY <2>2, <2>3, <2>4, <2>7, <2>8
<1>8. CountSetAsAsked /\ StopLostInRace
  BY <1>1 DEF CountSetAsAsked, StopLostInRace
<1>9. QED
  BY <1>4, <1>6, <1>7, <1>8 DEF RtcAccount, RtcPromises

LEMMA SettingKeepsRtc ==
    ASSUME RtcAccount, set_count, UNCHANGED <<rcall, rarg>>
    PROVE  RtcAccount' /\ RtcPromises
<1>0. RtcTypes /\ CountAccount /\ SetAccount /\ RtcWord \in Nat /\ RtcWord > 1
  BY RtcWordAssumption DEF RtcAccount
<1>1. UNCHANGED <<always, held2, stopped2>> /\ since' = rcount' /\ rpc \in {"setHigh", "setLow"}
      /\ rpc' = (IF rpc = "setHigh" THEN "setLow" ELSE "high")
  BY DEF set_count
<1>2. /\ rpc = "setHigh" => rcount' = RtcWord * High(rarg) + Low(rcount)
      /\ rpc = "setLow" => rcount' = RtcWord * High(rcount) + Low(rarg)
  BY DEF set_count, CountSet
<1>3. rcount \in Nat /\ rarg \in Nat /\ since \in Nat
  BY <1>0 DEF RtcTypes
<1>4. /\ High(rarg) \in Nat /\ Low(rarg) \in Nat /\ High(rcount) \in Nat /\ Low(rcount) \in Nat
      /\ Low(rcount) < RtcWord /\ Low(rarg) < RtcWord
      /\ rarg = RtcWord * High(rarg) + Low(rarg) /\ rcount = RtcWord * High(rcount) + Low(rcount)
  BY <1>3, RtcWords
<1>5. rcount' \in Nat
  <2>1. RtcWord * High(rarg) \in Nat /\ RtcWord * High(rcount) \in Nat
    BY <1>4, WordProducts
  <2>2. QED
    BY <1>1, <1>2, <1>4, <2>1
<1>6. RtcTypes'
  BY <1>0, <1>1, <1>5 DEF RtcTypes, RtcPlaces
<1>7. CountAccount' /\ FlagAccount'
  BY <1>1, <1>5 DEF CountAccount, FlagAccount
<1>8. SetAccount'
  <2>1. CASE rpc = "setHigh"
    <3>1. Low(rcount) \in 0 .. RtcWord - 1
      BY <1>0, <1>4
    <3>2. since' = RtcWord * High(rarg) + Low(rcount) /\ rcount' - since' = 0
      BY <1>1, <1>2, <1>5, <2>1
    <3>3. rarg' = rarg /\ 0 <= RtcWord - 1
      BY <1>0
    <3>4. QED
      BY <3>1, <3>2, <3>3 DEF SetAccount
  <2>2. CASE rpc = "setLow"
    BY <1>1, <2>2 DEF SetAccount
  <2>3. QED
    BY <1>1, <2>1, <2>2
<1>9. CountSetAsAsked
  <2>1. SUFFICES ASSUME rpc = "setLow" PROVE rcount' \in {rarg, rarg + RtcWord}
    BY DEF CountSetAsAsked
  <2>2. PICK l \in 0 .. RtcWord - 1 : since = RtcWord * High(rarg) + l
    BY <1>0, <2>1 DEF SetAccount
  <2>3. since <= rcount /\ rcount - since <= RtcWord - 1
    BY <1>0, <2>1 DEF CountAccount, SetAccount
  <2> DEFINE h == High(rarg)
             k == High(rcount)
  <2>4. h \in Nat /\ k \in Nat
    BY <1>4
  <2>5. RtcWord * h <= rcount /\ rcount < RtcWord * h + RtcWord + RtcWord
    <3>1. RtcWord * h \in Nat
      BY <2>4, WordProducts
    <3> DEFINE x == RtcWord * h
    <3> HIDE DEF x
    <3>2. since = x + l /\ x \in Nat
      BY <2>2, <3>1 DEF x
    <3>3. x <= rcount /\ rcount < x + RtcWord + RtcWord
      BY <1>0, <1>3, <2>3, <3>2
    <3>4. QED
      BY <3>3 DEF x
  <2>6. High(RtcWord * h) = h
    BY <1>0, <2>4, HighWordIs
  <2>7. h <= k
    <3>1. RtcWord * h \in Nat
      BY <2>4, WordProducts
    <3>2. High(RtcWord * h) <= High(rcount)
      BY <1>3, <2>5, <3>1, HighIsMonotone
    <3>3. QED
      BY <2>6, <3>2
  <2>8. k <= h + 1
    <3>1. SUFFICES ASSUME k >= h + 2 PROVE FALSE
      BY <2>4
    <3>2. RtcWord * (h + 2) <= RtcWord * k
      BY <1>0, <2>4, <3>1
    <3>3. RtcWord * (h + 2) = RtcWord * h + RtcWord + RtcWord
      BY <2>4, WordProducts
    <3> DEFINE x == RtcWord * h
               y == RtcWord * k
    <3>4. rcount = y + Low(rcount) /\ y \in Nat /\ x \in Nat /\ y >= x + RtcWord + RtcWord /\ rcount < x + RtcWord + RtcWord
      BY <1>4, <2>4, <2>5, <3>2, <3>3, WordProducts
    <3> HIDE DEF x, y
    <3>5. QED
      BY <1>0, <1>4, <3>4
  <2>9. rcount' = RtcWord * k + Low(rarg) /\ rarg = RtcWord * h + Low(rarg)
    BY <1>2, <1>4, <2>1
  <2>10. RtcWord * (h + 1) = RtcWord * h + RtcWord /\ RtcWord * h \in Nat
    BY <2>4, WordProducts
  <2>11. k = h \/ k = h + 1
    BY <2>4, <2>7, <2>8
  <2> HIDE DEF h, k
  <2>12. QED
    BY <1>0, <1>4, <2>9, <2>10, <2>11
<1>10. CountNeverAhead /\ StopLostInRace
  BY <1>1 DEF CountNeverAhead, StopLostInRace
<1>11. QED
  BY <1>6, <1>7, <1>8, <1>9, <1>10 DEF RtcAccount, RtcPromises

-----------------------------------------------------------------------------
\* A value over a word is shifted once more than the last time.
LEMMA ShiftedIs ==
    /\ Shifted \in [Nat \X Nat -> Nat \X Nat]
    /\ \A v \in Nat, k \in Nat :
           Shifted[<<v, k>>] = IF v >= RtcWord THEN Shifted[<<v \div PowerOf2[k + 1], k + 1>>] ELSE <<v, k>>
<1> DEFINE D == Nat \X Nat
           m == [s \in D |-> s[1]]
           base == [s \in D |-> s]
           pred == [s \in D |-> IF s[1] >= RtcWord THEN <<s[1] \div PowerOf2[s[2] + 1], s[2] + 1>> ELSE s]
           step == [p \in D \X D |-> p[2]]
           stop == {s \in D : ~(s[1] >= RtcWord)}
           P(f) == f = [s \in D |-> IF s[1] >= RtcWord THEN f[<<s[1] \div PowerOf2[s[2] + 1], s[2] + 1>>] ELSE s]
<1>1. \A v \in Nat, k \in Nat : PowerOf2[k + 1] \in Nat \ {0} /\ 2 <= PowerOf2[k + 1] /\ v \div PowerOf2[k + 1] \in Nat /\ k + 1 \in Nat
  <2>1. SUFFICES ASSUME NEW v \in Nat, NEW k \in Nat
                 PROVE  PowerOf2[k + 1] \in Nat \ {0} /\ 2 <= PowerOf2[k + 1] /\ v \div PowerOf2[k + 1] \in Nat /\ k + 1 \in Nat
    OBVIOUS
  <2>2. PowerOf2[k + 1] = 2 * PowerOf2[k] /\ PowerOf2[k] \in Nat \ {0} /\ v \in Int
    BY PowerNext
  <2>3. PowerOf2[k + 1] \in Nat \ {0} /\ 2 <= PowerOf2[k + 1]
    BY <2>2
  <2>4. v \div PowerOf2[k + 1] \in Nat
    BY <2>2, <2>3, Division, Zenon
  <2>5. QED
    BY <2>3, <2>4
<1>2. \A v \in Nat, k \in Nat : v >= RtcWord => v \div PowerOf2[k + 1] < v
  <2>1. SUFFICES ASSUME NEW v \in Nat, NEW k \in Nat, v >= RtcWord PROVE v \div PowerOf2[k + 1] < v
    OBVIOUS
  <2> DEFINE d == PowerOf2[k + 1]
  <2>2. 2 <= d /\ d \in Nat \ {0} /\ v <= v /\ 2 \in Nat \ {0}
    BY <1>1
  <2>3. v \div d <= v \div 2
    BY <2>2, DivisionOrder
  <2>4. v \div 2 < v /\ v \div 2 \in Nat
    BY <2>1, RtcWordAssumption
  <2>5. v \div d \in Nat
    BY <1>1
  <2> HIDE DEF d
  <2>6. v \div d < v
    BY <2>3, <2>4, <2>5
  <2>7. QED
    BY <2>6 DEF d
<1>3. /\ m \in [D -> Nat] /\ base \in [D -> D] /\ step \in [D \X D -> D] /\ pred \in [D -> D]
  <2>1. \A s \in D : s = <<s[1], s[2]>> /\ s[1] \in Nat /\ s[2] \in Nat
    OBVIOUS
  <2>2. \A s \in D : <<s[1] \div PowerOf2[s[2] + 1], s[2] + 1>> \in D
    BY <1>1, <2>1
  <2>3. pred \in [D -> D]
    BY <2>2
  <2>4. QED
    BY <2>1, <2>3
<1>4. \A s \in D : s \notin stop => m[pred[s]] < m[s]
  <2>1. SUFFICES ASSUME NEW s \in D, s \notin stop PROVE m[pred[s]] < m[s]
    OBVIOUS
  <2>2. s[1] \in Nat /\ s[2] \in Nat /\ s[1] >= RtcWord
    BY <2>1
  <2> DEFINE q == s[1] \div PowerOf2[s[2] + 1]
  <2>3. pred[s] = <<q, s[2] + 1>> /\ m[s] = s[1]
    BY <2>2
  <2>4. q \in Nat /\ q < s[1] /\ s[2] + 1 \in Nat
    BY <1>1, <1>2, <2>2
  <2> HIDE DEF q
  <2>5. <<q, s[2] + 1>> \in D /\ <<q, s[2] + 1>>[1] = q
    BY <2>4
  <2>6. m[<<q, s[2] + 1>>] = q
    BY <2>5
  <2>7. QED
    BY <2>3, <2>4, <2>6
<1>5. \A s \in D : /\ base[s] = s /\ (s \in stop <=> ~(s[1] >= RtcWord))
                   /\ s[1] >= RtcWord => pred[s] = <<s[1] \div PowerOf2[s[2] + 1], s[2] + 1>>
  OBVIOUS
<1>6. \A s \in D, w \in D : step[<<s, w>>] = w
  OBVIOUS
<1> HIDE DEF m, base, pred, step, stop
<1>7. Recursion(D, D, stop, m, base, pred, step)
  BY <1>3, <1>4, Zenon DEF Recursion
<1>8. PICK f \in [D -> D] : Solves(f, D, stop, base, pred, step)
  <2> HIDE DEF D
  <2>1. QED
    BY <1>7, RecursionEnds
<1>9. \A s \in D : f[s] = IF s[1] >= RtcWord THEN f[<<s[1] \div PowerOf2[s[2] + 1], s[2] + 1>>] ELSE s
  <2>1. \A s \in D : f[s] = IF s \in stop THEN base[s] ELSE step[<<s, f[pred[s]]>>]
    BY <1>8, Zenon DEF Solves
  <2>2. \A s \in D : pred[s] \in D /\ f[pred[s]] \in D
    BY <1>3, <1>8
  <2>3. \A s \in D : step[<<s, f[pred[s]]>>] = f[pred[s]]
    BY <1>6, <2>2, Zenon
  <2>4. SUFFICES ASSUME NEW s \in D
                 PROVE  f[s] = IF s[1] >= RtcWord THEN f[<<s[1] \div PowerOf2[s[2] + 1], s[2] + 1>>] ELSE s
    OBVIOUS
  <2> HIDE DEF D
  <2>5. f[s] = IF s \in stop THEN s ELSE f[pred[s]]
    BY <1>5, <2>1, <2>3, Zenon
  <2>6. CASE s[1] >= RtcWord
    <3>1. s \notin stop /\ pred[s] = <<s[1] \div PowerOf2[s[2] + 1], s[2] + 1>>
      BY <1>5, <2>6, Zenon
    <3>2. QED
      BY <2>5, <2>6, <3>1, Zenon
  <2>7. CASE ~(s[1] >= RtcWord)
    BY <1>5, <2>5, <2>7, Zenon
  <2>8. QED
    BY <2>6, <2>7, Zenon
<1>10. P(f)
  <2> DEFINE g == [s \in D |-> IF s[1] >= RtcWord THEN f[<<s[1] \div PowerOf2[s[2] + 1], s[2] + 1>>] ELSE s]
  <2>1. f = [s \in D |-> f[s]]
    BY <1>8
  <2> HIDE DEF D
  <2>2. [s \in D |-> f[s]] = g
    BY <1>9
  <2>3. QED
    BY <2>1, <2>2, Zenon
<1>11. Shifted = CHOOSE f0 : P(f0)
  BY Zenon DEF Shifted
<1>12. P(Shifted)
  <2> HIDE DEF P
  <2>1. QED
    BY <1>10, <1>11, Zenon
<1>13. \A s \in D : Shifted[s] = IF s[1] >= RtcWord THEN Shifted[<<s[1] \div PowerOf2[s[2] + 1], s[2] + 1>>] ELSE s
  <2> HIDE DEF D
  <2>1. QED
    BY <1>12
<1> HIDE DEF P
<1>14. \A v \in Nat, k \in Nat :
           Shifted[<<v, k>>] = IF v >= RtcWord THEN Shifted[<<v \div PowerOf2[k + 1], k + 1>>] ELSE <<v, k>>
  <2>1. SUFFICES ASSUME NEW v \in Nat, NEW k \in Nat
                 PROVE  Shifted[<<v, k>>] = IF v >= RtcWord THEN Shifted[<<v \div PowerOf2[k + 1], k + 1>>] ELSE <<v, k>>
    OBVIOUS
  <2> DEFINE s == <<v, k>>
  <2>2. s \in D /\ s[1] = v /\ s[2] = k
    OBVIOUS
  <2> HIDE DEF s, D
  <2>3. Shifted[s] = IF v >= RtcWord THEN Shifted[<<v \div PowerOf2[k + 1], k + 1>>] ELSE s
    BY <1>13, <2>2, Zenon
  <2>4. QED
    BY <2>3 DEF s
<1>15. \A v \in Nat : \A k \in Nat : Shifted[<<v, k>>] \in D
  <2> DEFINE T == {v \in Nat : \E k \in Nat : Shifted[<<v, k>>] \notin D}
  <2>1. SUFFICES ASSUME T # {} PROVE FALSE
    <3> HIDE DEF D
    <3>1. QED
      BY <2>1
  <2>2. PICK v \in T : \A w \in T : v <= w
    BY <2>1, LeastElement
  <2>3. PICK k \in Nat : Shifted[<<v, k>>] \notin D
    BY <2>2
  <2>4. v \in Nat
    BY <2>2
  <2> HIDE DEF T
  <2>5. v >= RtcWord
    <3>1. SUFFICES ASSUME ~(v >= RtcWord) PROVE FALSE
      OBVIOUS
    <3>2. Shifted[<<v, k>>] = <<v, k>>
      BY <1>14, <2>4, <3>1, Zenon
    <3>3. <<v, k>> \in D
      BY <2>4
    <3>4. QED
      BY <2>3, <3>2, <3>3, Zenon
  <2> DEFINE q == v \div PowerOf2[k + 1]
  <2>6. q \in Nat /\ q < v /\ k + 1 \in Nat
    BY <1>1, <1>2, <2>4, <2>5
  <2>7. Shifted[<<v, k>>] = Shifted[<<q, k + 1>>]
    BY <1>14, <2>4, <2>5, Zenon
  <2> HIDE DEF q
  <2>8. q \notin T
    BY <2>2, <2>4, <2>6
  <2>9. QED
    <3> HIDE DEF D
    <3>1. QED
      BY <2>3, <2>6, <2>7, <2>8 DEF T
<1>16. Shifted \in [D -> D]
  <2>1. Shifted = [s \in D |-> Shifted[s]]
    <3> HIDE DEF D
    <3>1. QED
      BY <1>12 DEF P
  <2>2. \A s \in D : Shifted[s] \in D
    <3>1. \A s \in D : s = <<s[1], s[2]>> /\ s[1] \in Nat /\ s[2] \in Nat
      OBVIOUS
    <3> HIDE DEF D
    <3>2. QED
      BY <1>15, <3>1, Zenon
  <2> HIDE DEF D
  <2>3. QED
    BY <2>1, <2>2
<1>17. QED
  BY <1>14, <1>16

\* What the loop leaves, shifted back, is never more than it began with.
Shrinks(v, k) ==
    LET e == Shifted[<<v, k>>] IN
    /\ e \in Nat \X Nat
    /\ e[1] * PowerOf2[e[2]] <= v * PowerOf2[k]
    /\ v >= RtcWord => e[1] * PowerOf2[e[2]] <= v

LEMMA ShiftedShrinks == \A v \in Nat : \A k \in Nat : Shrinks(v, k)
<1> DEFINE T == {v \in Nat : \E k \in Nat : ~Shrinks(v, k)}
<1>1. SUFFICES ASSUME T # {} PROVE FALSE
  BY <1>1
<1>2. PICK v \in T : \A w \in T : v <= w
  BY <1>1, LeastElement
<1>3. PICK k \in Nat : ~Shrinks(v, k)
  BY <1>2
<1>4. v \in Nat
  BY <1>2
<1>5. PowerOf2[k] \in Nat /\ PowerOf2[k + 1] \in Nat \ {0} /\ PowerOf2[k + 1] = 2 * PowerOf2[k] /\ PowerOf2[k] >= 1 /\ k + 1 \in Nat
  BY PowerNext
<1>6. Shifted[<<v, k>>] = IF v >= RtcWord THEN Shifted[<<v \div PowerOf2[k + 1], k + 1>>] ELSE <<v, k>>
  BY <1>4, ShiftedIs
<1>7. v >= RtcWord
  <2>1. SUFFICES ASSUME ~(v >= RtcWord) PROVE Shrinks(v, k)
    BY <1>3
  <2>2. Shifted[<<v, k>>] = <<v, k>>
    BY <1>6, <2>1
  <2> DEFINE x == v * PowerOf2[k]
  <2>3. x \in Int
    BY <1>4, <1>5, Products
  <2> HIDE DEF x
  <2>4. <<v, k>> \in Nat \X Nat /\ <<v, k>>[1] = v /\ <<v, k>>[2] = k
    BY <1>4
  <2>5. x <= x
    BY <2>3
  <2>6. QED
    BY <2>1, <2>2, <2>4, <2>5, Zenon DEF Shrinks, x
<1> DEFINE d == PowerOf2[k + 1]
           q == v \div d
           e == Shifted[<<v, k>>]
<1>8. d \in Nat \ {0} /\ d \in Nat /\ d = 2 * PowerOf2[k]
  BY <1>5
<1>9. q \in Nat /\ v = q * d + (v % d) /\ v % d \in 0 .. d - 1 /\ q * d \in Nat /\ q * d <= v
  <2>1. v \in Int
    BY <1>4
  <2>2. q \in Nat /\ v = q * d + (v % d) /\ v % d \in 0 .. d - 1
    BY <2>1, <1>4, <1>8, Division, Zenon
  <2> HIDE DEF d, q
  <2>3. q * d \in Int
    BY <1>8, <2>2, Products
  <2>4. d * 0 <= d * q /\ d * 0 = 0 /\ d * q = q * d
    BY <1>8, <2>2, Products, ProductsOrder
  <2>5. QED
    BY <1>4, <1>8, <2>2, <2>3, <2>4
<1>10. q < v
  <2>1. 2 <= d /\ v <= v /\ 2 \in Nat \ {0}
    BY <1>4, <1>5
  <2>2. q <= v \div 2
    BY <1>4, <1>8, <2>1, DivisionOrder
  <2>3. v \div 2 < v /\ v \div 2 \in Nat
    BY <1>4, <1>7, RtcWordAssumption
  <2> HIDE DEF q
  <2>4. QED
    BY <1>4, <1>9, <2>2, <2>3
<1>11. e = Shifted[<<q, k + 1>>]
  BY <1>6, <1>7, Zenon
<1> HIDE DEF q
<1>12. Shrinks(q, k + 1)
  BY <1>2, <1>4, <1>5, <1>9, <1>10
<1>13. e \in Nat \X Nat /\ e[1] * PowerOf2[e[2]] <= q * d
  BY <1>11, <1>12, Zenon DEF Shrinks
<1> DEFINE y == e[1] * PowerOf2[e[2]]
<1>14. y \in Int /\ y <= q * d
  <2>1. e[1] \in Nat /\ e[2] \in Nat
    BY <1>13
  <2>2. PowerOf2[e[2]] \in Nat
    BY <2>1, PowerNext
  <2> HIDE DEF e
  <2>3. y \in Int
    BY <2>1, <2>2, Products
  <2>4. QED
    BY <1>13, <2>3
<1>15. v <= v * PowerOf2[k] /\ v * PowerOf2[k] \in Int
  <2>1. v * 1 <= v * PowerOf2[k] /\ v * 1 = v /\ v * PowerOf2[k] \in Int
    BY <1>4, <1>5, ProductsOrder, Products
  <2>2. QED
    BY <2>1
<1> HIDE DEF y, d
<1>16. y <= v /\ y <= v * PowerOf2[k]
  BY <1>4, <1>9, <1>14, <1>15
<1>17. Shrinks(v, k)
  BY <1>13, <1>16, Zenon DEF Shrinks, y, e
<1>18. QED
  BY <1>3, <1>17

-----------------------------------------------------------------------------
\* The comparator's scale is the one of the argument, until it is written.
ScaleAccount == rpc = "cmp" => rscale = Scaled(rarg)[2] % 16

LEMMA ScaleStaysSet == RtcTypes /\ ScaleAccount /\ [Rtc0Next]_rtc0Vars => ScaleAccount'
<1>1. SUFFICES ASSUME RtcTypes, ScaleAccount, [Rtc0Next]_rtc0Vars, rpc' = "cmp"
               PROVE  rscale' = Scaled(rarg')[2] % 16
  BY DEF ScaleAccount, Scaled
<1>2. CASE rpc = "cmp" /\ UNCHANGED <<rscale, rarg>>
  BY <1>1, <1>2 DEF ScaleAccount, Scaled
<1>3. CASE rscale' = Scaled(rarg)[2] % 16 /\ rarg' = rarg
  BY <1>3 DEF Scaled
<1>4. \/ rpc = "cmp" /\ UNCHANGED <<rscale, rarg>>
      \/ rscale' = Scaled(rarg)[2] % 16 /\ rarg' = rarg
  BY <1>1 DEF Rtc0Next, rtc0Vars, rtc0Regs, RtcTicks, RtcAlarm, RtcCalls, RtcCall, set_compare, get_count, rtc_run, set_count, RtcReturns
<1>5. QED
  BY <1>2, <1>3, <1>4

LEMMA ComparedAsAsked == RtcTypes /\ ScaleAccount /\ [Rtc0Next]_rtc0Vars => CompareHalvesBeyondTwice
<1>1. SUFFICES ASSUME RtcTypes, ScaleAccount, [Rtc0Next]_rtc0Vars, rpc = "cmp", rpc' = "idle"
               PROVE  LET set == rcmp' * PowerOf2[rscale'] IN
                        /\ set <= rarg
                        /\ rarg < 2 * RtcWord => rarg - set <= 1
                        /\ rarg >= 2 * RtcWord => 2 * set <= rarg
  BY DEF CompareHalvesBeyondTwice
<1> DEFINE v == rarg
           e == Shifted[<<v, 0>>]
           V == e[1]
           K == e[2]
           s == K % 16
<1>2. v \in Nat /\ 0 \in Nat /\ 1 \in Nat
  BY <1>1 DEF RtcTypes
<1>3. rscale = s
  BY <1>1, Zenon DEF ScaleAccount, Scaled
<1>4. rcmp' = V /\ rscale' = rscale
  BY <1>1 DEF Rtc0Next, rtc0Vars, rtc0Regs, RtcTicks, RtcAlarm, RtcCalls, RtcCall, set_compare, get_count, rtc_run, set_count, RtcReturns, Scaled
<1>5. Shrinks(v, 0)
  BY <1>2, ShiftedShrinks
<1>6. V \in Nat /\ K \in Nat
  BY <1>5 DEF Shrinks
<1>7. s \in Nat /\ s <= K
  <2> HIDE DEF K
  <2>1. QED
    BY <1>6
<1>8. e = IF v >= RtcWord THEN Shifted[<<v \div PowerOf2[0 + 1], 0 + 1>>] ELSE <<v, 0>>
  BY <1>2, ShiftedIs
<1>9. PowerOf2[0 + 1] = 2 /\ PowerOf2[0] = 1 /\ PowerOf2[1] = 2 /\ 0 + 1 = 1
  BY PowerNext
<1>10. e = IF v >= RtcWord THEN Shifted[<<v \div 2, 1>>] ELSE <<v, 0>>
  BY <1>8, <1>9
<1> DEFINE set == V * PowerOf2[s]
           all == V * PowerOf2[K]
<1>11. PowerOf2[s] \in Nat /\ PowerOf2[K] \in Nat /\ PowerOf2[s] <= PowerOf2[K]
  <2> HIDE DEF s, K
  <2>1. QED
    BY <1>6, <1>7, PowersGrow, PowerNext
<1>12. set \in Int /\ all \in Int /\ set <= all
  <2> HIDE DEF V, s, K
  <2>1. QED
    BY <1>6, <1>11, Products, ProductsOrder
<1>13. all <= v
  <2>1. all <= v * PowerOf2[0]
    BY <1>5, Zenon DEF Shrinks
  <2> HIDE DEF all
  <2>2. QED
    BY <1>2, <1>9, <2>1
<1> HIDE DEF e
<1>14. CASE v < RtcWord
  <2>1. e = <<v, 0>>
    BY <1>2, <1>10, <1>14, RtcWordAssumption
  <2>2. V = v /\ K = 0 /\ s = 0
    BY <2>1, <1>2
  <2>3. set = v
    BY <1>2, <1>9, <2>2
  <2>4. QED
    <3> HIDE DEF set
    <3>1. set <= v /\ (v < 2 * RtcWord => v - set <= 1) /\ ~(v >= 2 * RtcWord)
      BY <1>2, <1>14, <2>3, RtcWordAssumption
    <3>2. QED
      BY <1>3, <1>4, <3>1, Zenon DEF set
<1>15. CASE v >= RtcWord /\ v < 2 * RtcWord
  <2>1. v \div 2 \in Nat /\ ~(v \div 2 >= RtcWord) /\ 2 * (v \div 2) <= v /\ v <= 2 * (v \div 2) + 1
    BY <1>2, <1>15, RtcWordAssumption
  <2>2. e = <<v \div 2, 1>>
    <3>1. Shifted[<<v \div 2, 1>>] = <<v \div 2, 1>>
      BY <1>2, <2>1, ShiftedIs
    <3>2. QED
      BY <1>10, <1>15, <3>1
  <2>3. V = v \div 2 /\ s = 1
    BY <2>2
  <2>4. set = (v \div 2) * 2
    BY <1>9, <2>3, Zenon
  <2>5. QED
    <3> HIDE DEF set
    <3>1. set <= v /\ v - set <= 1 /\ ~(v >= 2 * RtcWord)
      BY <1>2, <1>15, <2>1, <2>4, RtcWordAssumption
    <3>2. QED
      BY <1>3, <1>4, <3>1, Zenon DEF set
<1>16. CASE v >= 2 * RtcWord
  <2> DEFINE h == v \div 2
  <2>1. h \in Nat /\ h >= RtcWord /\ 2 * h <= v /\ v >= RtcWord
    BY <1>2, <1>16, RtcWordAssumption
  <2>2. e = Shifted[<<h, 1>>]
    BY <1>10, <2>1
  <2>3. Shrinks(h, 1)
    BY <1>2, <2>1, ShiftedShrinks
  <2> HIDE DEF h
  <2>4. all <= h
    BY <2>1, <2>2, <2>3, Zenon DEF Shrinks
  <2>5. QED
    <3> HIDE DEF set, all
    <3>1. set <= v /\ ~(v < 2 * RtcWord) /\ 2 * set <= v
      BY <1>2, <1>12, <1>16, <2>1, <2>4, RtcWordAssumption
    <3>2. QED
      BY <1>3, <1>4, <3>1, Zenon DEF set
<1>17. QED
  BY <1>2, <1>14, <1>15, <1>16, RtcWordAssumption

(* sifive_rtc0.c:56-61, 64-67, 79-81, 90-91: for words of any size and a      *)
(* counter that goes as far as it likes, the comparator is never later than   *)
(* asked and is half of it where it must be, get_count returns no time that   *)
(* has not come, set_count sets what was asked or a whole word more, and a    *)
(* counter that its routine stopped runs again only if set_compare had read   *)
(* its flag before.                                                           *)
THEOREM RtcIsInTime == Rtc0Spec => RtcKeepsTime
<1>1. RtcAccount /\ [Rtc0Next]_rtc0Vars => RtcAccount' /\ [RtcPromises]_rtc0Vars
  <2>1. SUFFICES ASSUME RtcAccount, [Rtc0Next]_rtc0Vars PROVE RtcAccount' /\ [RtcPromises]_rtc0Vars
    OBVIOUS
  <2>2. CASE UNCHANGED rtc0Vars
    BY <2>1, <2>2 DEF rtc0Vars, rtc0Regs, RtcAccount, RtcTypes, CountAccount, SetAccount, FlagAccount
  <2>3. CASE Rtc0Next
    BY <2>1, <2>3, TicksKeepRtc, CallsKeepRtc, FlagsKeepRtc, ReadingKeepsRtc, SettingKeepsRtc DEF Rtc0Next
  <2>4. QED
    BY <2>1, <2>2, <2>3
<1>2. Rtc0Init => ScaleAccount
  BY DEF Rtc0Init, ScaleAccount
<1>3. RtcAccount => RtcTypes
  BY DEF RtcAccount
<1>4. RtcTypes /\ ScaleAccount /\ [Rtc0Next]_rtc0Vars => CompareHalvesBeyondTwice
  BY ComparedAsAsked
<1>5. RtcPromises => CountNeverAhead /\ CountSetAsAsked /\ StopLostInRace
  BY DEF RtcPromises
<1>6. /\ RtcAccount /\ ScaleAccount /\ [Rtc0Next]_rtc0Vars
      => [CompareHalvesBeyondTwice /\ CountNeverAhead /\ CountSetAsAsked /\ StopLostInRace]_rtc0Vars
  BY <1>1, <1>3, <1>4, <1>5
<1>7. RtcAccount /\ ScaleAccount /\ [Rtc0Next]_rtc0Vars => (RtcAccount /\ ScaleAccount)'
  BY <1>1, <1>3, ScaleStaysSet
<1>8. QED
  BY <1>2, <1>6, <1>7, RtcStart, PTL DEF Rtc0Spec, RtcKeepsTime

-----------------------------------------------------------------------------
(* Physical memory protection (pmp.c)                                        *)

PmpTypes ==
    /\ grain \in PmpGrains
    /\ pcfg \in [PmpIds -> [A : Modes, L : BOOLEAN]] /\ paddr \in [PmpIds -> Nat]

RegionsSet == \A r \in PmpIds : SetAsAsked(r)

-----------------------------------------------------------------------------
(* Bits of an address.                                                      *)

LEMMA PowerIs ==
    ASSUME NEW k \in Nat
    PROVE  PowerOf2[k] \in Nat /\ PowerOf2[k] \in Nat \ {0} /\ PowerOf2[k] >= 1
  BY PowerNext

LEMMA WithoutIs ==
    ASSUME NEW a \in Nat, NEW k \in Nat
    PROVE  /\ Without(a, k) \in Nat /\ a % PowerOf2[k] \in 0 .. PowerOf2[k] - 1
           /\ a = Without(a, k) + (a % PowerOf2[k])
           /\ Without(Without(a, k), k) = Without(a, k)
<1> DEFINE b == PowerOf2[k]
           q == a \div b
           s == a % b
<1>1. b \in Nat /\ b \in Nat \ {0} /\ b >= 1
  BY PowerIs
<1>2. q \in Int /\ s \in 0 .. b - 1 /\ a = q * b + s /\ q \in Nat
  <2>1. a \in Int
    OBVIOUS
  <2>2. QED
    BY <1>1, <2>1, Division, Zenon
<1> HIDE DEF b, q, s
<1>3. q * b \in Nat
  BY <1>1, <1>2
<1>4. (q * b + 0) \div b = q
  <2>1. 0 \in 0 .. b - 1 /\ q \in Int
    BY <1>1, <1>2
  <2>2. QED
    BY <1>1, <2>1, DivisionIs, Zenon
<1>5. q * b + 0 = q * b
  BY <1>3
<1>6. (q * b) \div b = q
  BY <1>4, <1>5, Zenon
<1>7. Without(a, k) = q * b
  BY DEF Without, b, q
<1>8. Without(q * b, k) = ((q * b) \div b) * b
  BY DEF Without, b
<1>9. Without(q * b, k) = q * b
  BY <1>6, <1>8, Zenon
<1>10. a % PowerOf2[k] = s /\ PowerOf2[k] = b
  BY DEF s, b
<1>11. QED
  BY <1>2, <1>3, <1>7, <1>9, <1>10

\* One bit more, split at the one below.
LEMMA BitAbove ==
    ASSUME NEW a \in Nat, NEW k \in Nat
    PROVE  \E q \in Nat, b \in {0, 1}, t \in 0 .. PowerOf2[k] - 1 :
               /\ a \div PowerOf2[k] = 2 * q + b /\ a % PowerOf2[k] = t
               /\ a \div PowerOf2[k + 1] = q /\ a % PowerOf2[k + 1] = b * PowerOf2[k] + t
               /\ (a \div PowerOf2[k]) % 2 = b
<1> DEFINE h == PowerOf2[k]
           d == a \div h
           t == a % h
           q == d \div 2
           b == d % 2
<1>1. h \in Nat /\ h \in Nat \ {0} /\ h >= 1
  BY PowerIs
<1>2. d \in Nat /\ t \in 0 .. h - 1 /\ a = d * h + t
  <2>1. a \in Int
    OBVIOUS
  <2>2. QED
    BY <1>1, <2>1, Division, Zenon
<1> HIDE DEF h, d, t
<1>3. q \in Nat /\ b \in {0, 1} /\ d = 2 * q + b
  BY <1>2
<1> HIDE DEF q, b
<1>4. PowerOf2[k + 1] = 2 * h
  BY PowerNext DEF h
<1>5. q * h \in Int /\ b * h \in Int /\ d * h = 2 * (q * h) + b * h
  <2>1. CASE b = 0
    BY <2>1, <1>1, <1>3, Products
  <2>2. CASE b = 1
    <3>1. q * h \in Int /\ (2 * q) * h = 2 * (q * h)
      BY <1>1, <1>3
    <3>2. (2 * q + 1) * h = (2 * q) * h + h
      BY <1>1, <1>3
    <3>3. QED
      BY <2>2, <1>1, <1>3, <3>1, <3>2
  <2>3. QED
    BY <2>1, <2>2, <1>3
<1>6. b * h + t \in 0 .. 2 * h - 1
  <2>1. CASE b = 0
    BY <2>1, <1>1, <1>2
  <2>2. CASE b = 1
    BY <2>2, <1>1, <1>2
  <2>3. QED
    BY <2>1, <2>2, <1>3
<1>7. q * (2 * h) = 2 * (q * h)
  BY <1>1, <1>3
<1>8. a = q * (2 * h) + (b * h + t)
  BY <1>1, <1>2, <1>5, <1>6, <1>7
<1>9. a \div (2 * h) = q /\ a % (2 * h) = b * h + t
  <2>1. q \in Int /\ 2 * h \in Nat \ {0}
    BY <1>1, <1>3
  <2>2. QED
    BY <2>1, <1>6, <1>8, DivisionIs, Zenon
<1>10. a \div PowerOf2[k] = d /\ a % PowerOf2[k] = t /\ PowerOf2[k] = h /\ d % 2 = b
  BY DEF h, d, t, b
<1>11. QED
  <2>1. /\ a \div PowerOf2[k] = 2 * q + b /\ a % PowerOf2[k] = t
        /\ a \div PowerOf2[k + 1] = q /\ a % PowerOf2[k + 1] = b * PowerOf2[k] + t
        /\ (a \div PowerOf2[k]) % 2 = b
    BY <1>3, <1>4, <1>9, <1>10, Zenon
  <2>2. t \in 0 .. PowerOf2[k] - 1
    BY <1>2, <1>10
  <2>3. QED
    BY <2>1, <2>2, <1>3, Zenon

\* A bit above the lowest one is not the lowest.
LEMMA OneLowest ==
    ASSUME NEW a \in Nat, NEW k \in Nat, NEW l \in Nat, k < l, a % PowerOf2[l] = 0
    PROVE  (a \div PowerOf2[k]) % 2 = 0
<1> DEFINE j == l - k - 1
           h == PowerOf2[k]
           e == PowerOf2[j]
           m == a \div PowerOf2[l]
<1>1. j \in Nat
  OBVIOUS
<1>2. h \in Nat /\ h \in Nat \ {0} /\ h >= 1 /\ e \in Nat /\ PowerOf2[l] \in Nat \ {0}
  BY PowerIs, <1>1
<1>3. m \in Nat /\ a = m * PowerOf2[l] + (a % PowerOf2[l])
  <2>1. a \in Int
    OBVIOUS
  <2>2. QED
    BY <1>2, <2>1, Division, Zenon
<1>4. PowerOf2[l] = (2 * e) * h
  <2>1. l = (j + 1) + k /\ j + 1 \in Nat
    BY <1>1
  <2>2. PowerOf2[(j + 1) + k] = PowerOf2[j + 1] * PowerOf2[k]
    BY <2>1, PowerOfSum, Zenon
  <2>3. PowerOf2[j + 1] = 2 * e
    BY <1>1, PowerNext
  <2>4. QED
    BY <2>1, <2>2, <2>3, Zenon
<1>5. PowerOf2[l] \in Nat
  BY <1>2
<1> DEFINE p == PowerOf2[l]
<1>6. p \in Nat /\ p = (2 * e) * h /\ a = m * p + (a % p) /\ a % p = 0
  BY <1>3, <1>4, <1>5
<1> HIDE DEF j, h, e, m, p
<1>7. a = m * p
  <2>1. m * p \in Int
    BY <1>3, <1>6, Products
  <2>2. QED
    BY <1>6, <2>1
<1>8. m * p = (m * (2 * e)) * h /\ m * (2 * e) \in Int
  <2>1. 2 * e \in Int /\ m \in Int /\ h \in Int
    BY <1>2, <1>3
  <2>2. m * ((2 * e) * h) = (m * (2 * e)) * h /\ m * (2 * e) \in Int
    BY <2>1, Products
  <2>3. QED
    BY <1>6, <2>2, Zenon
<1> DEFINE c == m * (2 * e)
<1>9. c = 2 * (m * e) /\ m * e \in Int
  <2>1. m \in Int /\ e \in Int /\ 2 \in Int
    BY <1>2, <1>3
  <2>2. m * (2 * e) = (m * 2) * e /\ m * 2 = 2 * m /\ 2 * (m * e) = (2 * m) * e /\ m * e \in Int
    BY <2>1, Products
  <2>3. QED
    BY <2>2, Zenon
<1>10. c \in Int /\ a = c * h + 0
  <2>1. c \in Int /\ a = c * h
    BY <1>7, <1>8, Zenon
  <2>2. c * h \in Int
    BY <2>1, <1>2, Products
  <2>3. QED
    BY <2>1, <2>2
<1>11. c % 2 = 0
  <2> DEFINE u == m * e
  <2>1. u \in Int /\ c = 2 * u
    BY <1>9
  <2> HIDE DEF u, c
  <2>2. QED
    BY <2>1
<1> HIDE DEF c
<1>12. a \div h = c
  <2>1. 0 \in 0 .. h - 1
    BY <1>2
  <2>2. (c * h + 0) \div h = c
    BY <2>1, <1>2, <1>10, DivisionIs
  <2>3. QED
    BY <2>2, <1>10, Zenon
<1>13. QED
  BY <1>11, <1>12, Zenon DEF h

\* Low bits that are ones, and fewer of them.
LEMMA OnesBelow ==
    ASSUME NEW a \in Nat, NEW k \in Nat, NEW l \in Nat, k <= l, a % PowerOf2[l] = PowerOf2[l] - 1
    PROVE  a % PowerOf2[k] = PowerOf2[k] - 1
<1> DEFINE j == l - k
           h == PowerOf2[k]
           e == PowerOf2[j]
           p == PowerOf2[l]
           m == a \div p
<1>1. j \in Nat /\ l = j + k
  OBVIOUS
<1>2. h \in Nat /\ h \in Nat \ {0} /\ h >= 1 /\ e \in Nat /\ p \in Nat \ {0} /\ p \in Nat
  BY PowerIs, <1>1
<1>3. m \in Nat /\ a = m * p + (a % p) /\ a % p = p - 1
  <2>1. a \in Int
    OBVIOUS
  <2>2. QED
    BY <1>2, <2>1, Division, Zenon
<1>4. p = e * h
  BY <1>1, PowerOfSum, Zenon
<1> HIDE DEF j, h, e, m, p
<1>5. m \in Int /\ e \in Int /\ h \in Int
  BY <1>2, <1>3
<1>6. m * p = (m * e) * h /\ m * e \in Int
  <2>1. m * (e * h) = (m * e) * h /\ m * e \in Int
    BY <1>5, Products
  <2>2. QED
    BY <2>1, <1>4, Zenon
<1> DEFINE c == m * e + e - 1
<1>7. c \in Int /\ c * h = (m * e) * h + e * h - h
  <2> DEFINE u == m * e
  <2>1. u \in Int
    BY <1>6
  <2> HIDE DEF u
  <2>2. (u + (e - 1)) * h = u * h + (e - 1) * h /\ (e - 1) * h = e * h - 1 * h
    BY <2>1, <1>5
  <2>3. u * h \in Int /\ e * h \in Int /\ 1 * h = h
    BY <2>1, <1>5, Products
  <2>4. u + e - 1 = u + (e - 1) /\ u + e - 1 \in Int
    BY <2>1, <1>5
  <2>5. (u + e - 1) * h = u * h + e * h - h
    BY <2>2, <2>3, <2>4, <1>5
  <2>6. QED
    BY <2>4, <2>5 DEF u
<1>8. a = c * h + (h - 1)
  <2> DEFINE u == (m * e) * h
             v == e * h
             w == c * h
  <2>1. u \in Int /\ v \in Int /\ w \in Int
    BY <1>5, <1>6, <1>7, Products
  <2>2. a = u + (v - 1)
    BY <1>3, <1>4, <1>6, Zenon
  <2>3. w = u + v - h
    BY <1>7
  <2> HIDE DEF u, v, w, c
  <2>4. a = w + (h - 1)
    BY <2>1, <2>2, <2>3, <1>5
  <2>5. QED
    BY <2>4 DEF w
<1> HIDE DEF c
<1>9. a % h = h - 1
  <2>1. h - 1 \in 0 .. h - 1
    BY <1>2
  <2>2. QED
    BY <2>1, <1>2, <1>7, <1>8, DivisionIs, Zenon
<1>10. QED
  BY <1>9 DEF h

-----------------------------------------------------------------------------
(* Granularities.                                                           *)

\* What ones read back as, and the one bit that is lowest there.
LEMMA GrainFound ==
    ASSUME NEW g \in 0 .. PmpBits - 1, g + 2 <= 31
    PROVE  _get_detected_granularity(Without(OnesAddress, g)) = PowerOf2[g + 2]
<1> DEFINE e == PowerOf2[PmpBits - g - 1]
           h == PowerOf2[g]
           c == 2 * e - 1
           a == Without(OnesAddress, g)
<1>1. g \in Nat /\ PmpBits \in Nat /\ PmpBits - g - 1 \in Nat
  BY PmpAssumption
<1>2. h \in Nat /\ h >= 1 /\ e \in Nat /\ e >= 1
  BY <1>1, PowerIs
<1>3. PowerOf2[PmpBits] = (2 * e) * h
  <2>1. PmpBits = ((PmpBits - g - 1) + 1) + g /\ (PmpBits - g - 1) + 1 \in Nat
    BY <1>1
  <2>2. PowerOf2[((PmpBits - g - 1) + 1) + g] = PowerOf2[(PmpBits - g - 1) + 1] * h
    BY <1>1, <2>1, PowerOfSum, Zenon
  <2>3. PowerOf2[(PmpBits - g - 1) + 1] = 2 * e
    BY <1>1, PowerNext
  <2>4. QED
    BY <2>1, <2>2, <2>3, Zenon
<1> HIDE DEF e, h
<1>4. c \in Nat /\ c \in Int /\ c % 2 = 1 /\ c # 0 /\ c >= 1
  BY <1>2
<1>5. c * h = (2 * e) * h - h /\ c * h \in Nat /\ c * h >= 1
  <2> DEFINE d == 2 * e
  <2>1. d \in Int /\ d >= 2 /\ c = d - 1
    BY <1>2
  <2> HIDE DEF d, c
  <2>2. (d - 1) * h = d * h - 1 * h /\ 1 * h = h
    BY <2>1, <1>2
  <2>3. h * 1 <= h * c /\ h * c = c * h /\ h * 1 = h /\ c * h \in Int
    BY <1>2, <1>4, <2>1, Products, ProductsOrder
  <2>4. QED
    BY <2>1, <2>2, <2>3, <1>2 DEF d
<1> HIDE DEF c
<1>6. OnesAddress = c * h + (h - 1)
  <2>1. (2 * e) * h \in Int
    BY <1>2, Products
  <2>2. QED
    BY <1>2, <1>3, <1>5, <2>1 DEF OnesAddress
<1>7. OnesAddress \in Nat
  BY <1>2, <1>5, <1>6
<1>8. a = c * h
  <2>1. h - 1 \in 0 .. h - 1 /\ h \in Nat \ {0}
    BY <1>2
  <2>2. (c * h + (h - 1)) \div h = c
    BY <2>1, <1>4, DivisionIs
  <2>3. QED
    BY <2>2, <1>6, Zenon DEF Without, h
<1>9. a \in Nat /\ a # 0
  BY <1>5, <1>8
<1> HIDE DEF a
<1>10. a \div h = c /\ a % h = 0
  <2>1. 0 \in 0 .. h - 1 /\ h \in Nat \ {0}
    BY <1>2
  <2>2. (c * h + 0) \div h = c /\ (c * h + 0) % h = 0
    BY <2>1, <1>4, DivisionIs
  <2>3. c * h + 0 = a
    BY <1>5, <1>8
  <2>4. QED
    BY <2>2, <2>3, Zenon
<1> DEFINE Is(k) == (a \div PowerOf2[k]) % 2 = 1 /\ a % PowerOf2[k] = 0
<1>11. Is(g)
  BY <1>4, <1>10 DEF h
<1>12. \A k \in 0 .. PmpBits - 1 : Is(k) => k = g
  <2>1. SUFFICES ASSUME NEW k \in 0 .. PmpBits - 1, Is(k), k # g PROVE FALSE
    OBVIOUS
  <2>2. k \in Nat
    OBVIOUS
  <2>3. CASE k < g
    <3>1. a % PowerOf2[g] = 0
      BY <1>11
    <3>2. (a \div PowerOf2[k]) % 2 = 0
      BY <1>1, <1>9, <2>2, <2>3, <3>1, OneLowest
    <3>3. QED
      BY <2>1, <3>2
  <2>4. CASE g < k
    <3>1. a % PowerOf2[k] = 0
      BY <2>1
    <3>2. (a \div PowerOf2[g]) % 2 = 0
      BY <1>1, <1>9, <2>2, <2>4, <3>1, OneLowest
    <3>3. QED
      BY <1>11, <3>2
  <2>5. QED
    BY <1>1, <2>1, <2>2, <2>3, <2>4
<1>13. LowestOne(a) = g
  <2>1. LowestOne(a) = CHOOSE k \in 0 .. PmpBits - 1 : Is(k)
    BY Zenon DEF LowestOne
  <2> HIDE DEF Is
  <2>2. QED
    BY <2>1, <1>11, <1>12
<1>14. _get_detected_granularity(a) = ShiftedOne(LowestOne(a) + 2)
  BY <1>9 DEF _get_detected_granularity
<1>15. ShiftedOne(g + 2) = PowerOf2[g + 2]
  <2>1. (g + 2) % 32 = g + 2
    BY <1>1, SMT
  <2>2. QED
    BY <2>1, Zenon DEF ShiftedOne
<1>16. QED
  BY <1>13, <1>14, <1>15, Zenon DEF a

\* An address with a zero in it has a lowest one, with ones below.
LEMMA ZeroFound ==
    ASSUME NEW a \in 0 .. OnesAddress, a # OnesAddress
    PROVE  LowestZero(a) \in 0 .. PmpBits - 1 /\ a % PowerOf2[LowestZero(a)] = PowerOf2[LowestZero(a)] - 1
<1> DEFINE T == {k \in Nat : a % PowerOf2[k] # PowerOf2[k] - 1}
           Is(k) == (a \div PowerOf2[k]) % 2 = 0 /\ a % PowerOf2[k] = PowerOf2[k] - 1
<1>1. PmpBits \in Nat /\ PowerOf2[PmpBits] \in Nat /\ PowerOf2[PmpBits] >= 1
  BY PmpAssumption, PowerIs
<1>2. a \in Nat /\ a < PowerOf2[PmpBits] - 1
  BY <1>1 DEF OnesAddress
<1>3. PmpBits \in T
  <2>1. 0 * PowerOf2[PmpBits] + a = a /\ 0 \in Int /\ a \in 0 .. PowerOf2[PmpBits] - 1
    BY <1>1, <1>2
  <2>2. (0 * PowerOf2[PmpBits] + a) % PowerOf2[PmpBits] = a
    BY <2>1, <1>1, DivisionIs
  <2>3. a % PowerOf2[PmpBits] = a
    BY <2>1, <2>2, Zenon
  <2>4. QED
    BY <1>1, <1>2, <2>3
<1>4. PICK m \in T : \A n \in T : m <= n
  BY <1>3, LeastElement
<1>5. m \in Nat /\ m <= PmpBits /\ m # 0
  <2>1. a % PowerOf2[0] = PowerOf2[0] - 1
    BY PowerNext, <1>2
  <2>2. QED
    BY <1>3, <1>4, <2>1
<1> DEFINE z == m - 1
<1>6. z \in Nat /\ z \in 0 .. PmpBits - 1 /\ z + 1 = m /\ z \notin T
  BY <1>1, <1>4, <1>5
<1>7. a % PowerOf2[z] = PowerOf2[z] - 1 /\ a % PowerOf2[z + 1] # PowerOf2[z + 1] - 1
  BY <1>4, <1>6
<1> HIDE DEF z, T
<1>8. Is(z)
  <2>1. PICK q \in Nat, b \in {0, 1}, t \in 0 .. PowerOf2[z] - 1 :
               /\ a \div PowerOf2[z] = 2 * q + b /\ a % PowerOf2[z] = t
               /\ a \div PowerOf2[z + 1] = q /\ a % PowerOf2[z + 1] = b * PowerOf2[z] + t
               /\ (a \div PowerOf2[z]) % 2 = b
    BY <1>2, <1>6, BitAbove
  <2>2. PowerOf2[z + 1] = 2 * PowerOf2[z] /\ PowerOf2[z] \in Nat
    BY <1>6, PowerNext, PowerIs
  <2>3. b # 1
    <3>1. SUFFICES ASSUME b = 1 PROVE FALSE
      OBVIOUS
    <3>2. a % PowerOf2[z + 1] = PowerOf2[z] + (PowerOf2[z] - 1)
      BY <1>7, <2>1, <2>2, <3>1
    <3>3. QED
      BY <1>7, <2>2, <3>2
  <2>4. QED
    BY <1>7, <2>1, <2>3
<1>9. LowestZero(a) = CHOOSE k \in 0 .. PmpBits - 1 : Is(k)
  BY Zenon DEF LowestZero
<1>10. LowestZero(a) \in 0 .. PmpBits - 1 /\ Is(LowestZero(a))
  <2> HIDE DEF Is
  <2>1. QED
    BY <1>6, <1>8, <1>9
<1>11. QED
  BY <1>10

\* A region that is not too fine has ones in all the bits that the hart hides.
LEMMA NotTooFine ==
    ASSUME NEW a \in 0 .. OnesAddress, a # OnesAddress, NEW g \in Nat, g >= 1,
           ~(PowerOf2[g + 2] > _get_pmpaddr_granularity(a))
    PROVE  a % PowerOf2[g - 1] = PowerOf2[g - 1] - 1
<1> DEFINE z == LowestZero(a)
<1>1. z \in 0 .. PmpBits - 1 /\ a % PowerOf2[z] = PowerOf2[z] - 1
  BY ZeroFound
<1>2. z \in Nat /\ z + 3 \in Nat /\ g + 2 \in Nat /\ g - 1 \in Nat
  BY <1>1, PmpAssumption
<1> DEFINE s == (z + 3) % 32
<1>3. _get_pmpaddr_granularity(a) = PowerOf2[s]
  BY DEF _get_pmpaddr_granularity, ShiftedOne
<1>s. s \in Nat /\ s <= z + 3
  BY <1>2, SMT
<1> HIDE DEF z, s
<1>4. PowerOf2[g + 2] \in Nat /\ PowerOf2[s] \in Nat
  BY <1>2, <1>s, PowerIs
<1>5. g + 2 <= s
  BY <1>2, <1>3, <1>4, <1>s, PowersGrow
<1>6. g - 1 <= z
  BY <1>2, <1>5, <1>s
<1>7. a \in Nat
  BY PmpAssumption, PowerIs DEF OnesAddress
<1>8. QED
  BY <1>1, <1>2, <1>6, <1>7, OnesBelow

-----------------------------------------------------------------------------
(* The calls.                                                               *)

\* A call that changes no register, and one that does.
NothingSet == UNCHANGED <<pcfg, paddr>> /\ pmpCall'.op = "none"

RegionSet(op, r, c, a) ==
    /\ r \in PmpIds /\ ~pcfg[r].L /\ ~Endless2(c, a) /\ ~TooFine(c, a)
    /\ paddr' = IF Writes(r, a) /\ AddressTaken(r, c) THEN [paddr EXCEPT ![r] = a] ELSE paddr
    /\ pcfg' = [pcfg EXCEPT ![r] = c]
    /\ pmpCall' = [op |-> op, region |-> r, config |-> c, address |-> a, ret |-> 0]

\* The address is one that was asked for, or the one that is shown.
Asked(op, r, c, a) ==
    /\ c \in [A : Modes, L : BOOLEAN]
    /\ \/ op = "address" /\ a \in PmpAddresses
       \/ op = "field" /\ a = Shown(paddr[r], pcfg[r].A)

LEMMA RegionCall ==
    ASSUME NEW op, NEW r \in 0 .. PmpRegions, NEW c, NEW a, metal_pmp_set_region(op, r, c, a)
    PROVE  UNCHANGED <<grain, _granularity>> /\ (NothingSet \/ RegionSet(op, r, c, a))
<1> DEFINE ends(ret) == pmpCall' = IF ret # 0 THEN [op |-> "none", ret |-> ret]
                                   ELSE [op |-> op, region |-> r, config |-> c, address |-> a, ret |-> 0]
<1>1. UNCHANGED <<grain, _granularity>>
  BY DEF metal_pmp_set_region
<1>2. \A ret \in {-1, 3, 4} : ends(ret) => pmpCall'.op = "none"
  <2>1. SUFFICES ASSUME NEW ret \in {-1, 3, 4}, ends(ret) PROVE pmpCall'.op = "none"
    OBVIOUS
  <2>2. pmpCall' = [op |-> "none", ret |-> ret]
    BY <2>1
  <2>3. QED
    BY <2>2
<1>3. ends(0) => pmpCall' = [op |-> op, region |-> r, config |-> c, address |-> a, ret |-> 0]
  OBVIOUS
<1>4. CASE Endless2(c, a) \/ TooFine(c, a) \/ r = PmpRegions \/ pcfg[r].L
  <2>1. UNCHANGED <<pcfg, paddr>> /\ (ends(-1) \/ ends(3) \/ ends(4) \/ pmpCall' = [op |-> "none", ret |-> 0])
    BY <1>4, Zenon DEF metal_pmp_set_region
  <2>2. pmpCall' = [op |-> "none", ret |-> 0] => pmpCall'.op = "none"
    OBVIOUS
  <2> HIDE DEF ends
  <2>3. pmpCall'.op = "none"
    BY <2>1, <2>2, <1>2
  <2>4. QED
    BY <1>1, <2>1, <2>3 DEF NothingSet
<1>5. CASE ~(Endless2(c, a) \/ TooFine(c, a) \/ r = PmpRegions \/ pcfg[r].L)
  <2>1. r \in PmpIds
    BY <1>5, PmpAssumption DEF PmpIds
  <2>2. /\ paddr' = IF Writes(r, a) /\ AddressTaken(r, c) THEN [paddr EXCEPT ![r] = a] ELSE paddr
        /\ pcfg' = [pcfg EXCEPT ![r] = c]
        /\ ends(0)
    BY <1>5, Zenon DEF metal_pmp_set_region
  <2>3. pmpCall' = [op |-> op, region |-> r, config |-> c, address |-> a, ret |-> 0]
    BY <2>2, <1>3
  <2> HIDE DEF ends
  <2>4. RegionSet(op, r, c, a)
    BY <1>5, <2>1, <2>2, <2>3, Zenon DEF RegionSet
  <2>5. QED
    BY <1>1, <2>4
<1>6. QED
  BY <1>4, <1>5

LEMMA PmpSteps ==
    ASSUME PmpTypes, PmpNext
    PROVE  \/ metal_pmp_init
           \/ /\ UNCHANGED <<grain, _granularity>>
              /\ \/ NothingSet
                 \/ \E op, r, c, a : Asked(op, r, c, a) /\ RegionSet(op, r, c, a)
<1>1. SUFFICES ASSUME ~metal_pmp_init
               PROVE  /\ UNCHANGED <<grain, _granularity>>
                      /\ \/ NothingSet
                         \/ \E op, r, c, a : Asked(op, r, c, a) /\ RegionSet(op, r, c, a)
  OBVIOUS
<1>2. \E op, r, c, a : Asked(op, r, c, a) /\ r \in 0 .. PmpRegions /\ metal_pmp_set_region(op, r, c, a)
  <2>1. CASE \E r \in 0 .. PmpRegions, m \in Modes, l \in BOOLEAN, a \in PmpAddresses :
                 Goes /\ metal_pmp_set_region("address", r, Config(m, l), a)
    <3>1. PICK r \in 0 .. PmpRegions, m \in Modes, l \in BOOLEAN, a \in PmpAddresses :
                 metal_pmp_set_region("address", r, Config(m, l), a)
      BY <2>1
    <3>2. Config(m, l) \in [A : Modes, L : BOOLEAN]
      BY <3>1 DEF Config
    <3>3. QED
      BY <3>1, <3>2 DEF Asked
  <2>2. CASE \E r \in PmpIds : /\ Goes
                         /\ \/ \E a \in PmpAddresses : metal_pmp_set_address(r, a)
                            \/ \E m \in Modes : Rewrite(r, [pcfg[r] EXCEPT !.A = m])
                            \/ Rewrite(r, pcfg[r])
                            \/ ~pcfg[r].L /\ Rewrite(r, [pcfg[r] EXCEPT !.L = TRUE])
    <3> DEFINE Any(r) == \/ \E a \in PmpAddresses : metal_pmp_set_address(r, a)
                         \/ \E m \in Modes : Rewrite(r, [pcfg[r] EXCEPT !.A = m])
                         \/ Rewrite(r, pcfg[r])
                         \/ ~pcfg[r].L /\ Rewrite(r, [pcfg[r] EXCEPT !.L = TRUE])
    <3>0. \E r \in PmpIds : Goes /\ Any(r)
      BY <2>2, Zenon
    <3>1. PICK r \in PmpIds : Any(r)
      <4> HIDE DEF Any
      <4>1. QED
        BY <3>0, Zenon
    <3>2. r \in 0 .. PmpRegions /\ pcfg[r] \in [A : Modes, L : BOOLEAN]
      BY PmpAssumption DEF PmpTypes, PmpIds
    <3>3. \A c : Rewrite(r, c) => metal_pmp_set_region("field", r, c, Shown(paddr[r], pcfg[r].A))
      BY Zenon DEF Rewrite
    <3>4. \A c \in [A : Modes, L : BOOLEAN] : Asked("field", r, c, Shown(paddr[r], pcfg[r].A))
      BY Zenon DEF Asked
    <3>5. \A m \in Modes : [pcfg[r] EXCEPT !.A = m] \in [A : Modes, L : BOOLEAN]
      BY <3>2
    <3>6. [pcfg[r] EXCEPT !.L = TRUE] \in [A : Modes, L : BOOLEAN]
      BY <3>2
    <3>7. CASE \E a \in PmpAddresses : metal_pmp_set_address(r, a)
      <4>1. PICK a \in PmpAddresses : metal_pmp_set_region("address", r, pcfg[r], a)
        BY <3>7, Zenon DEF metal_pmp_set_address
      <4>2. Asked("address", r, pcfg[r], a)
        BY <3>2, Zenon DEF Asked
      <4>3. QED
        BY <3>2, <4>1, <4>2, Zenon
    <3>8. CASE \E c \in [A : Modes, L : BOOLEAN] : Rewrite(r, c)
      BY <3>2, <3>3, <3>4, <3>8, Zenon
    <3>9. QED
      <4>1. (\E m \in Modes : Rewrite(r, [pcfg[r] EXCEPT !.A = m])) \/ Rewrite(r, pcfg[r]) \/ Rewrite(r, [pcfg[r] EXCEPT !.L = TRUE])
            => \E c \in [A : Modes, L : BOOLEAN] : Rewrite(r, c)
        BY <3>2, <3>5, <3>6, Zenon
      <4>2. QED
        BY <3>1, <3>7, <3>8, <4>1, Zenon
  <2>3. QED
    BY <1>1, <2>1, <2>2, Zenon DEF PmpNext
<1>3. PICK op, r, c, a : Asked(op, r, c, a) /\ r \in 0 .. PmpRegions /\ metal_pmp_set_region(op, r, c, a)
  BY <1>2
<1>4. UNCHANGED <<grain, _granularity>> /\ (NothingSet \/ RegionSet(op, r, c, a))
  BY <1>3, RegionCall, Zenon
<1>5. QED
  BY <1>3, <1>4, Zenon

\* What is shown is written back by no call.
LEMMA NotRewritten ==
    ASSUME NEW r, NEW c, NEW op, NEW a, Asked(op, r, c, a), op = "field"
    PROVE  ~Writes(r, a)
  BY Zenon DEF Asked, Writes

LEMMA AddressesAre ==
    ASSUME NEW a \in PmpAddresses
    PROVE  a \in Nat /\ a \in 0 .. OnesAddress
<1>1. PowerOf2[PmpBits] \in Nat
  BY PmpAssumption, PowerIs
<1>2. QED
  BY <1>1, PmpAssumption DEF OnesAddress

LEMMA PmpStart == PmpInit => PmpTypes /\ RegionsSet
<1>1. SUFFICES ASSUME PmpInit PROVE PmpTypes /\ RegionsSet
  OBVIOUS
<1>2. Config("off", FALSE) \in [A : Modes, L : BOOLEAN]
  BY DEF Config, Modes
<1>3. PmpTypes
  BY <1>1, <1>2 DEF PmpInit, PmpTypes
<1>4. pmpCall.op = "none"
  BY <1>1 DEF PmpInit
<1>5. QED
  BY <1>3, <1>4 DEF RegionsSet, SetAsAsked

LEMMA InitChanges ==
    ASSUME PmpTypes, metal_pmp_init
    PROVE  /\ pmpCall'.op = "init" /\ UNCHANGED grain
           /\ \A r \in PmpIds : pcfg'[r] = IF pcfg[r].L THEN pcfg[r] ELSE Config("off", FALSE)
           /\ \A r \in PmpIds : paddr'[r] \in Nat
           /\ pcfg' \in [PmpIds -> [A : Modes, L : BOOLEAN]] /\ paddr' \in [PmpIds -> Nat]
           /\ _granularity' = IF pcfg[0].L THEN _granularity
                              ELSE _get_detected_granularity(Shown(IF AddressHeld(0) THEN paddr[0] ELSE OnesAddress, "off"))
<1>1. Config("off", FALSE) \in [A : Modes, L : BOOLEAN]
  BY DEF Config, Modes
<1>2. pmpCall' = [op |-> "init", ret |-> 0] /\ UNCHANGED grain
  BY DEF metal_pmp_init
<1>3. pcfg' = [r \in PmpIds |-> IF pcfg[r].L THEN pcfg[r] ELSE Config("off", FALSE)]
  BY DEF metal_pmp_init
<1>4. paddr' = [r \in PmpIds |-> IF AddressHeld(r) \/ (r # 0 /\ ~Writes(r, 0)) THEN paddr[r] ELSE 0]
  BY DEF metal_pmp_init
<1>5. _granularity' = IF pcfg[0].L THEN _granularity
                              ELSE _get_detected_granularity(Shown(IF AddressHeld(0) THEN paddr[0] ELSE OnesAddress, "off"))
  BY Zenon DEF metal_pmp_init
<1>6. \A r \in PmpIds : pcfg'[r] \in [A : Modes, L : BOOLEAN] /\ paddr'[r] \in Nat
  BY <1>1, <1>3, <1>4 DEF PmpTypes
<1>7. pmpCall'.op = "init"
  BY <1>2
<1>8. QED
  BY <1>2, <1>3, <1>4, <1>5, <1>6, <1>7

LEMMA PmpTypesStep == PmpTypes /\ [PmpNext]_pmpVars => PmpTypes'
<1>1. SUFFICES ASSUME PmpTypes, [PmpNext]_pmpVars PROVE PmpTypes'
  OBVIOUS
<1>2. CASE UNCHANGED pmpVars
  BY <1>1, <1>2 DEF pmpVars, PmpTypes
<1>3. CASE metal_pmp_init
  BY <1>1, <1>3, InitChanges DEF PmpTypes
<1>4. CASE UNCHANGED <<grain, _granularity>> /\ NothingSet
  BY <1>1, <1>4 DEF NothingSet, PmpTypes
<1>5. CASE UNCHANGED <<grain, _granularity>> /\ \E op, r, c, a : Asked(op, r, c, a) /\ RegionSet(op, r, c, a)
  <2>1. PICK op, r, c, a : Asked(op, r, c, a) /\ RegionSet(op, r, c, a)
    BY <1>5, Zenon
  <2>2. r \in PmpIds /\ c \in [A : Modes, L : BOOLEAN] /\ pcfg' = [pcfg EXCEPT ![r] = c]
    BY <2>1, Zenon DEF Asked, RegionSet
  <2>3. paddr' = paddr \/ (a \in Nat /\ paddr' = [paddr EXCEPT ![r] = a])
    <3>1. CASE ~Writes(r, a)
      BY <2>1, <3>1 DEF RegionSet
    <3>2. CASE Writes(r, a)
      <4>1. a \in Nat
        <5>1. op # "field"
          BY <2>1, <3>2, NotRewritten, Zenon
        <5>2. a \in PmpAddresses
          BY <2>1, <5>1, Zenon DEF Asked
        <5>3. QED
          BY <5>2, AddressesAre
      <4>2. paddr' = IF Writes(r, a) /\ AddressTaken(r, c) THEN [paddr EXCEPT ![r] = a] ELSE paddr
        BY <2>1, Zenon DEF RegionSet
      <4>3. QED
        BY <4>1, <4>2
    <3>3. QED
      BY <3>1, <3>2
  <2>4. QED
    BY <1>1, <1>5, <2>2, <2>3 DEF PmpTypes
<1>6. QED
  BY <1>1, <1>2, <1>3, <1>4, <1>5, PmpSteps, Zenon

\* Not written: what is there has the bits that were asked for.
LEMMA ShownSame ==
    ASSUME NEW p \in Nat, NEW a \in Nat, NEW mode, grain \in Nat, Shown(p, mode) = a
    PROVE  /\ Without(p, grain) = Without(a, grain)
           /\ grain = 0 => p = a
<1>1. CASE mode \in {"off", "tor"}
  <2>1. a = Without(p, grain)
    BY <1>1 DEF Shown
  <2>2. Without(Without(p, grain), grain) = Without(p, grain)
    BY WithoutIs
  <2>3. grain = 0 => p = a
    <3>1. SUFFICES ASSUME grain = 0 PROVE p = a
      OBVIOUS
    <3>2. PowerOf2[0] = 1 /\ p % 1 = 0
      BY PowerNext
    <3>3. p = Without(p, 0) + (p % PowerOf2[0]) /\ Without(p, 0) \in Nat
      BY WithoutIs
    <3>4. QED
      BY <2>1, <3>1, <3>2, <3>3
  <2>4. QED
    BY <1>1, <2>1, <2>2, <2>3
<1>2. CASE mode = "napot" /\ grain >= 1
  <2> DEFINE k == grain - 1
             h == PowerOf2[k]
             q == p \div h
  <2>1. k \in Nat /\ k + 1 = grain
    BY <1>2
  <2>2. h \in Nat /\ h \in Nat \ {0} /\ h >= 1
    BY <2>1, PowerIs
  <2>3. q \in Nat /\ q \in Int
    <3>1. p \in Int
      OBVIOUS
    <3>2. q \in Nat
      BY <3>1, <2>2, Division, Zenon
    <3>3. QED
      BY <3>2
  <2>4. a = q * h + h - 1
    BY <1>2 DEF Shown, Without
  <2> HIDE DEF k, h, q
  <2>5. a = q * h + (h - 1)
    <3>1. q * h \in Int
      BY <2>2, <2>3, Products
    <3>2. QED
      BY <2>2, <2>4, <3>1
  <2>6. a \div h = q
    <3>1. h - 1 \in 0 .. h - 1
      BY <2>2
    <3>2. (q * h + (h - 1)) \div h = q
      BY <2>2, <2>3, <3>1, DivisionIs
    <3>3. QED
      BY <2>5, <3>2, Zenon
  <2>7. a \div h = p \div h
    BY <2>6, Zenon DEF q
  <2>8. a \div PowerOf2[k + 1] = p \div PowerOf2[k + 1]
    <3>1. PICK q1 \in Nat, b1 \in {0, 1} : a \div h = 2 * q1 + b1 /\ a \div PowerOf2[k + 1] = q1
      <4>1. PICK q0 \in Nat, b0 \in {0, 1}, t0 \in 0 .. PowerOf2[k] - 1 :
               /\ a \div PowerOf2[k] = 2 * q0 + b0 /\ a % PowerOf2[k] = t0
               /\ a \div PowerOf2[k + 1] = q0 /\ a % PowerOf2[k + 1] = b0 * PowerOf2[k] + t0
               /\ (a \div PowerOf2[k]) % 2 = b0
        BY <2>1, BitAbove
      <4>2. QED
        BY <4>1, Zenon DEF h
    <3>2. PICK q2 \in Nat, b2 \in {0, 1} : p \div h = 2 * q2 + b2 /\ p \div PowerOf2[k + 1] = q2
      <4>1. PICK q0 \in Nat, b0 \in {0, 1}, t0 \in 0 .. PowerOf2[k] - 1 :
               /\ p \div PowerOf2[k] = 2 * q0 + b0 /\ p % PowerOf2[k] = t0
               /\ p \div PowerOf2[k + 1] = q0 /\ p % PowerOf2[k + 1] = b0 * PowerOf2[k] + t0
               /\ (p \div PowerOf2[k]) % 2 = b0
        BY <2>1, BitAbove
      <4>2. QED
        BY <4>1, Zenon DEF h
    <3>3. q1 = q2
      BY <2>7, <3>1, <3>2
    <3>4. QED
      BY <3>1, <3>2, <3>3
  <2>9. Without(p, grain) = Without(a, grain)
    BY <2>1, <2>8, Zenon DEF Without
  <2>12. grain # 0
    BY <1>2
  <2>13. QED
    BY <2>9, <2>12, Zenon
<1>3. CASE mode \notin {"off", "tor"} /\ ~(mode = "napot" /\ grain >= 1)
  BY <1>3 DEF Shown
<1>4. QED
  BY <1>1, <1>2, <1>3

LEMMA SetKept ==
    ASSUME PmpTypes, RegionsSet, [PmpNext]_pmpVars
    PROVE  RegionsSet'
<1>1. SUFFICES ASSUME NEW r \in PmpIds PROVE SetAsAsked(r)'
  BY DEF RegionsSet
<1>2. CASE UNCHANGED pmpVars
  BY <1>2 DEF pmpVars, RegionsSet, SetAsAsked, Without
<1>3. CASE pmpCall'.op \in {"none", "init"}
  BY <1>3 DEF SetAsAsked
<1>4. CASE UNCHANGED <<grain, _granularity>> /\ \E op, s, c, a : Asked(op, s, c, a) /\ RegionSet(op, s, c, a)
  <2>1. PICK op, s, c, a : Asked(op, s, c, a) /\ RegionSet(op, s, c, a)
    BY <1>4, Zenon
  <2>2. pmpCall' = [op |-> op, region |-> s, config |-> c, address |-> a, ret |-> 0]
    BY <2>1, Zenon DEF RegionSet
  <2>3. pmpCall'.op = op /\ pmpCall'.region = s /\ pmpCall'.config = c /\ pmpCall'.address = a
    BY <2>2
  <2>4. CASE r # s
    BY <2>3, <2>4 DEF SetAsAsked
  <2>5. CASE r = s
    <3>1. pcfg' = [pcfg EXCEPT ![r] = c] /\ ~pcfg[r].L
          /\ paddr' = IF Writes(r, a) /\ AddressTaken(r, c) THEN [paddr EXCEPT ![r] = a] ELSE paddr
      BY <2>1, <2>5, Zenon DEF RegionSet
    <3>2. pcfg'[r] = c /\ \A i \in PmpIds : i # r => pcfg'[i] = pcfg[i]
      BY <3>1 DEF PmpTypes
    <3>3. CASE r + 1 \in PmpIds /\ pcfg[r + 1].L /\ pcfg[r + 1].A = "tor"
      <4>1. r \in Nat /\ r + 1 # r
        BY PmpAssumption DEF PmpIds
      <4>2. pcfg'[r + 1] = pcfg[r + 1]
        BY <3>2, <3>3, <4>1
      <4>3. QED
        BY <2>3, <3>2, <3>3, <4>2, Zenon DEF SetAsAsked
    <3>4. CASE ~(r + 1 \in PmpIds /\ pcfg[r + 1].L /\ pcfg[r + 1].A = "tor")
      <4>1. AddressTaken(r, c)
        BY <3>1, <3>4, Zenon DEF AddressTaken, AddressHeld
      <4>2. SUFFICES ASSUME op = "address" PROVE Without(paddr'[r], grain') = Without(a, grain')
        BY <2>3, <3>2, Zenon DEF SetAsAsked
      <4>3. grain' = grain /\ grain \in Nat
        BY <1>4, PmpAssumption DEF PmpTypes
      <4>4. a \in Nat /\ paddr[r] \in Nat
        <5>1. a \in PmpAddresses
          BY <2>1, <4>2, Zenon DEF Asked
        <5>2. QED
          BY <5>1, AddressesAre DEF PmpTypes
      <4>5. CASE Writes(r, a)
        <5>1. paddr'[r] = a
          BY <3>1, <4>1, <4>5 DEF PmpTypes
        <5>2. QED
          BY <4>3, <5>1
      <4>6. CASE ~Writes(r, a)
        <5>1. paddr' = paddr /\ Shown(paddr[r], pcfg[r].A) = a
          BY <3>1, <4>6 DEF Writes
        <5>2. Without(paddr[r], grain) = Without(a, grain)
          BY <4>3, <4>4, <5>1, ShownSame
        <5>3. QED
          BY <4>3, <5>1, <5>2
      <4>7. QED
        BY <4>5, <4>6
    <3>5. QED
      BY <3>3, <3>4
  <2>6. QED
    BY <2>4, <2>5
<1>5. metal_pmp_init => pmpCall'.op = "init"
  BY InitChanges
<1>6. NothingSet => pmpCall'.op = "none"
  BY DEF NothingSet
<1>7. QED
  BY <1>2, <1>3, <1>4, <1>5, <1>6, PmpSteps, Zenon

-----------------------------------------------------------------------------
(* What a step may not do.                                                  *)

PmpStepsAre == SettersKeepAddress /\ DetectedIsHardware /\ NapotAsAsked /\ NoWholeSpace

LEMMA InitSteps ==
    ASSUME PmpTypes, metal_pmp_init
    PROVE  PmpStepsAre
<1>1. /\ pmpCall'.op = "init" /\ UNCHANGED grain
      /\ \A r \in PmpIds : pcfg'[r] = IF pcfg[r].L THEN pcfg[r] ELSE Config("off", FALSE)
      /\ _granularity' = IF pcfg[0].L THEN _granularity
                         ELSE _get_detected_granularity(Shown(IF AddressHeld(0) THEN paddr[0] ELSE OnesAddress, "off"))
  BY InitChanges
<1>2. SettersKeepAddress /\ NapotAsAsked
  BY <1>1 DEF SettersKeepAddress, NapotAsAsked
<1>3. DetectedIsHardware
  <2>1. SUFFICES ASSUME ~AddressHeld(0) PROVE _granularity' = PowerOf2[grain + 2]
    BY DEF DetectedIsHardware
  <2>2. ~pcfg[0].L
    BY <2>1, Zenon DEF AddressHeld
  <2>3. _granularity' = _get_detected_granularity(Shown(OnesAddress, "off"))
    BY <1>1, <2>1, <2>2, Zenon
  <2>4. Shown(OnesAddress, "off") = Without(OnesAddress, grain)
    BY DEF Shown
  <2>5. grain \in 0 .. PmpBits - 1 /\ grain + 2 <= 31
    BY PmpAssumption DEF PmpTypes
  <2>6. QED
    BY <2>3, <2>4, <2>5, GrainFound
<1>4. NoWholeSpace
  <2>1. SUFFICES ASSUME NEW r \in PmpIds, pcfg'[r].A = "napot" PROVE AddressHeld(r)
    BY DEF NoWholeSpace
  <2>2. Config("off", FALSE).A = "off"
    BY DEF Config
  <2>3. pcfg[r].L
    BY <1>1, <2>1, <2>2
  <2>4. QED
    BY <2>3, Zenon DEF AddressHeld
<1>5. QED
  BY <1>2, <1>3, <1>4 DEF PmpStepsAre

\* Where less than a bit is hidden, all of an address is shown.
LEMMA AllShown ==
    ASSUME NEW p \in Nat, NEW mode, grain = 0
    PROVE  Shown(p, mode) = p
<1>1. PowerOf2[0] = 1 /\ p % 1 = 0
  BY PowerNext
<1>2. p = Without(p, 0) + (p % PowerOf2[0]) /\ Without(p, 0) \in Nat
  BY WithoutIs
<1>3. Without(p, grain) = p
  BY <1>1, <1>2
<1>4. QED
  BY <1>3 DEF Shown

LEMMA SetSteps ==
    ASSUME PmpTypes, UNCHANGED <<grain, _granularity>>,
           NEW op, NEW r, NEW c, NEW a, Asked(op, r, c, a), RegionSet(op, r, c, a)
    PROVE  PmpStepsAre
<1>1. /\ r \in PmpIds /\ ~pcfg[r].L /\ ~Endless2(c, a) /\ ~TooFine(c, a)
      /\ paddr' = IF Writes(r, a) /\ AddressTaken(r, c) THEN [paddr EXCEPT ![r] = a] ELSE paddr
      /\ pcfg' = [pcfg EXCEPT ![r] = c]
      /\ pmpCall' = [op |-> op, region |-> r, config |-> c, address |-> a, ret |-> 0]
  BY Zenon DEF RegionSet
<1>2. pmpCall'.op = op /\ pmpCall'.region = r /\ pmpCall'.config = c /\ pmpCall'.address = a
  BY <1>1
<1>3. op \in {"address", "field"} /\ (op = "address" => a \in PmpAddresses)
  BY Zenon DEF Asked
<1>4. grain \in Nat /\ paddr[r] \in Nat
  BY <1>1, PmpAssumption DEF PmpTypes
<1>5. ~Writes(r, a) => paddr' = paddr
  BY <1>1
<1>6. SettersKeepAddress
  BY <1>2, <1>5, NotRewritten DEF SettersKeepAddress
<1>7. DetectedIsHardware
  BY <1>2, <1>3 DEF DetectedIsHardware
<1>8. NapotAsAsked
  <2>1. SUFFICES ASSUME op = "address", _granularity = PowerOf2[grain + 2], ~AddressHeld(r), c.A = "napot"
                 PROVE  \/ Shown(paddr'[r], "napot") = a
                        \/ grain = 1 /\ pcfg[r].A \in {"off", "tor"} /\ Shown(paddr'[r], "napot") = a + 1
    BY <1>2, Zenon DEF NapotAsAsked
  <2>2. a \in Nat /\ a \in 0 .. OnesAddress /\ a # OnesAddress
    <3>1. a # OnesAddress
      BY <1>1, <2>1 DEF Endless2
    <3>2. QED
      BY <1>3, <2>1, <3>1, AddressesAre
  <2>3. ~(PowerOf2[grain + 2] > _get_pmpaddr_granularity(a))
    BY <1>1, <2>1, <2>2, Zenon DEF TooFine
  <2>4. Shown(a, "napot") = a
    <3>1. CASE grain = 0
      BY <2>2, <3>1, AllShown
    <3>2. CASE grain >= 1
      <4> DEFINE k == grain - 1
      <4>1. k \in Nat
        BY <1>4, <3>2
      <4>2. a % PowerOf2[k] = PowerOf2[k] - 1
        BY <1>4, <2>2, <2>3, <3>2, NotTooFine
      <4> HIDE DEF k
      <4>3. a = Without(a, k) + (a % PowerOf2[k]) /\ Without(a, k) \in Nat /\ PowerOf2[k] \in Nat
        BY <4>1, <2>2, WithoutIs, PowerIs
      <4>4. a = Without(a, k) + PowerOf2[k] - 1
        BY <4>2, <4>3
      <4>5. QED
        BY <3>2, <4>4, Zenon DEF Shown, k
    <3>3. QED
      BY <1>4, <3>1, <3>2
  <2>5. AddressTaken(r, c)
    BY <2>1, Zenon DEF AddressTaken
  <2>6. CASE Writes(r, a)
    <3>1. paddr'[r] = a
      BY <1>1, <2>5, <2>6 DEF PmpTypes
    <3>2. QED
      BY <2>4, <3>1
  <2>7. CASE ~Writes(r, a)
    <3> DEFINE p == paddr[r]
    <3>1. paddr'[r] = p /\ Shown(p, pcfg[r].A) = a /\ p \in Nat
      BY <1>4, <1>5, <2>7 DEF Writes
    <3>2. pcfg[r].A \in Modes
      BY <1>1 DEF PmpTypes
    <3> DEFINE mode == pcfg[r].A
    <3> HIDE DEF p, mode
    <3>3. CASE grain = 0 \/ mode = "napot"
      <4>1. CASE grain = 0
        BY <3>1, <4>1, AllShown DEF mode
      <4>2. CASE mode = "napot"
        BY <3>1, <4>2 DEF mode
      <4>3. QED
        BY <3>3, <4>1, <4>2
    <3>4. CASE mode = "na4"
      <4>1. p = a
        BY <3>1, <3>4 DEF Shown, mode
      <4>2. QED
        BY <2>4, <3>1, <4>1
    <3>5. CASE grain >= 1 /\ mode \in {"off", "tor"}
      <4>1. a = Without(p, grain)
        BY <3>1, <3>5 DEF Shown, mode
      <4> DEFINE k == grain - 1
      <4>2. k \in Nat /\ k + 1 = grain
        BY <1>4, <3>5
      <4>3. PICK q \in Nat, b \in {0, 1}, t \in 0 .. PowerOf2[k] - 1 :
               /\ p \div PowerOf2[k] = 2 * q + b /\ p % PowerOf2[k] = t
               /\ p \div PowerOf2[k + 1] = q /\ p % PowerOf2[k + 1] = b * PowerOf2[k] + t
               /\ (p \div PowerOf2[k]) % 2 = b
        BY <3>1, <4>2, BitAbove
      <4>4. CASE grain = 1
        <5>1. PowerOf2[0] = 1 /\ PowerOf2[1] = 2 /\ k = 0
          BY <4>4, PowerNext
        <5>2. p = Without(p, grain) + (p % PowerOf2[grain]) /\ Without(p, grain) \in Nat
          BY <1>4, <3>1, WithoutIs
        <5>3. p % PowerOf2[grain] = b
          BY <4>2, <4>3, <5>1
        <5>4. p = a + b
          BY <4>1, <5>2, <5>3
        <5>5. Shown(p, "napot") = p
          <6>1. p = Without(p, 0) + (p % PowerOf2[0]) /\ Without(p, 0) \in Nat /\ p % 1 = 0
            BY <3>1, WithoutIs
          <6>2. Without(p, 0) + PowerOf2[0] - 1 = p
            BY <3>1, <5>1, <6>1
          <6>3. Shown(p, "napot") = Without(p, k) + PowerOf2[k] - 1
            BY <4>4 DEF Shown
          <6>4. QED
            BY <5>1, <6>2, <6>3
        <5>6. QED
          <6>1. CASE b = 0
            BY <2>2, <3>1, <5>4, <5>5, <6>1
          <6>2. CASE b = 1
            BY <2>2, <3>1, <3>5, <4>4, <5>4, <5>5, <6>2 DEF mode
          <6>3. QED
            BY <4>3, <6>1, <6>2
      <4>5. CASE grain >= 2
        <5> DEFINE h == PowerOf2[k]
        <5>1. k # 0 /\ k - 1 \in Nat
          BY <4>2, <4>5
        <5>2. PowerOf2[(k - 1) + 1] = 2 * PowerOf2[k - 1] /\ (k - 1) + 1 = k /\ PowerOf2[k - 1] \in Nat \ {0}
          <6> DEFINE j == k - 1
          <6>1. j \in Nat /\ j + 1 = k
            BY <5>1, <4>2
          <6> HIDE DEF j
          <6>2. PowerOf2[j + 1] = 2 * PowerOf2[j] /\ PowerOf2[j] \in Nat \ {0}
            BY <6>1, PowerNext
          <6>3. QED
            BY <6>1, <6>2 DEF j
        <5>3. h \in Nat /\ h >= 2
          BY <4>2, <5>2, PowerIs
        <5>4. a % h = 0
          <6>1. k < grain /\ a \in Nat
            BY <4>2, <2>2
          <6>2. a = q * PowerOf2[grain]
            BY <4>1, <4>2, <4>3 DEF Without
          <6>3. PowerOf2[grain] = 2 * h
            BY <4>2, PowerNext
          <6>4. a = (q * 2) * h
            <7>1. q \in Int /\ 2 \in Int /\ h \in Int
              BY <4>3, <5>3
            <7> HIDE DEF h
            <7>2. q * (2 * h) = (q * 2) * h
              BY <7>1, Products
            <7>3. QED
              BY <6>2, <6>3, <7>2, Zenon
          <6>5. a = (q * 2) * h + 0 /\ q * 2 \in Int /\ 0 \in 0 .. h - 1 /\ h \in Nat \ {0}
            <7> DEFINE w == (q * 2) * h
            <7>1. w = a /\ q * 2 \in Int /\ 0 \in 0 .. h - 1 /\ h \in Nat \ {0}
              <8>1. q * 2 \in Int
                BY <4>3
              <8>2. 0 \in 0 .. h - 1 /\ h \in Nat \ {0}
                BY <5>3
              <8>3. QED
                BY <6>4, <8>1, <8>2, Zenon
            <7> HIDE DEF w
            <7>2. a = w + 0
              BY <2>2, <7>1
            <7>3. QED
              BY <7>1, <7>2, Zenon DEF w
          <6> HIDE DEF h
          <6>6. ((q * 2) * h + 0) % h = 0
            BY <6>5, DivisionIs
          <6>7. QED
            BY <6>5, <6>6, Zenon
        <5>5. a % h = h - 1
          BY <1>4, <2>2, <2>3, <3>5, NotTooFine
        <5>6. QED
          BY <5>3, <5>4, <5>5
      <4>6. QED
        BY <1>4, <3>5, <4>4, <4>5
    <3>6. QED
      BY <1>4, <3>2, <3>3, <3>4, <3>5 DEF mode, Modes
  <2>8. QED
    BY <2>6, <2>7
<1>9. NoWholeSpace
  <2>1. SUFFICES ASSUME NEW s \in PmpIds, grain = 0, pcfg'[s].A = "napot", paddr'[s] = OnesAddress
                 PROVE  (pcfg[s].A = "napot" /\ paddr[s] = OnesAddress) \/ AddressHeld(s)
    BY Zenon DEF NoWholeSpace
  <2>2. CASE s # r
    <3>1. pcfg'[s] = pcfg[s] /\ paddr'[s] = paddr[s]
      BY <1>1, <2>2 DEF PmpTypes
    <3>2. QED
      BY <2>1, <3>1
  <2>3. CASE s = r
    <3>1. c.A = "napot"
      BY <1>1, <2>1, <2>3 DEF PmpTypes
    <3>2. a # OnesAddress
      BY <1>1, <3>1 DEF Endless2
    <3>3. paddr[r] \in Nat
      BY <1>4
    <3>4. CASE Writes(r, a) /\ AddressTaken(r, c)
      <4>1. paddr'[r] = a
        BY <1>1, <3>4 DEF PmpTypes
      <4>2. QED
        BY <2>1, <2>3, <3>2, <4>1
    <3>5. CASE ~AddressTaken(r, c)
      BY <2>3, <3>5, Zenon DEF AddressTaken
    <3>6. CASE ~Writes(r, a)
      <4>1. paddr'[r] = paddr[r] /\ Shown(paddr[r], pcfg[r].A) = a
        BY <1>5, <3>6 DEF Writes
      <4>2. Shown(paddr[r], pcfg[r].A) = paddr[r]
        BY <2>1, <3>3, AllShown
      <4>3. QED
        BY <2>1, <2>3, <3>2, <4>1, <4>2
    <3>7. QED
      BY <3>4, <3>5, <3>6
  <2>4. QED
    BY <2>2, <2>3
<1>10. QED
  BY <1>6, <1>7, <1>8, <1>9 DEF PmpStepsAre

LEMMA NothingSteps ==
    ASSUME PmpTypes, UNCHANGED <<grain, _granularity>>, NothingSet
    PROVE  PmpStepsAre
<1>1. pmpCall'.op = "none" /\ pcfg' = pcfg /\ paddr' = paddr
  BY DEF NothingSet
<1>2. QED
  BY <1>1 DEF PmpStepsAre, SettersKeepAddress, DetectedIsHardware, NapotAsAsked, NoWholeSpace

LEMMA PmpStepsSound == PmpTypes /\ [PmpNext]_pmpVars => [PmpStepsAre]_pmpVars
<1>1. SUFFICES ASSUME PmpTypes, PmpNext PROVE PmpStepsAre
  OBVIOUS
<1>2. CASE metal_pmp_init
  BY <1>1, <1>2, InitSteps
<1>3. CASE UNCHANGED <<grain, _granularity>> /\ NothingSet
  BY <1>1, <1>3, NothingSteps
<1>4. CASE UNCHANGED <<grain, _granularity>> /\ \E op, r, c, a : Asked(op, r, c, a) /\ RegionSet(op, r, c, a)
  <2>1. PICK op, r, c, a : Asked(op, r, c, a) /\ RegionSet(op, r, c, a)
    BY <1>4, Zenon
  <2>2. QED
    BY <1>1, <1>4, <2>1, SetSteps, Zenon
<1>5. QED
  BY <1>1, <1>2, <1>3, <1>4, PmpSteps, Zenon

\* A region is what the last call about it asked for: it covers that address   *)
\* (SetAsAsked), its setters keep it, init finds the grain of the hart, a      *)
\* region that is a power of two is not rounded but for one bit of one that    *)
\* was off, and no region becomes the whole of memory.
THEOREM RegionsAreSound == PmpSpec => RegionsAreAsAsked
<1>1. PmpInit => PmpTypes /\ RegionsSet
  BY PmpStart
<1>2. PmpTypes /\ RegionsSet /\ [PmpNext]_pmpVars => (PmpTypes /\ RegionsSet)'
  BY PmpTypesStep, SetKept
<1>3. PmpTypes /\ [PmpNext]_pmpVars => [PmpStepsAre]_pmpVars
  BY PmpStepsSound
<1>4. QED
  BY <1>1, <1>2, <1>3, PTL DEF PmpSpec, RegionsAreAsAsked, RegionsSet, PmpStepsAre

-----------------------------------------------------------------------------
(* The devices together.                                                    *)

\* A step of each part, or none of its.
StepsOfParts ==
    /\ [IntNext]_intVars /\ [Spi0Next]_spi0Vars
    /\ [PinsNext]_pinsVars /\ [WdogNext]_wdogVars
    /\ [Rtc0Next]_rtc0Vars /\ [HpmNext]_hpmVars
    /\ [PmpNext]_pmpVars /\ [PrivNext]_privVars
    /\ [BoardNext]_boardVars /\ [TrapsNext]_trapVars
    /\ [CallNext]_callVars /\ [ClicNext]_clicVars
    /\ [Uart0Next]_metalUartVars /\ [Pwm0Next]_metalPwmVars

LEMMA StepIsOfParts == [DevicesNext]_devicesVars => StepsOfParts
<1>1. SUFFICES ASSUME [DevicesNext]_devicesVars PROVE StepsOfParts
  OBVIOUS
<1>2. CASE UNCHANGED devicesVars
  BY <1>2 DEF devicesVars, StepsOfParts
<1>3. CASE part = "interrupts" /\ IntNext /\ UNCHANGED <<spi0Vars, pinsVars, wdogVars, rtc0Vars, hpmVars, pmpVars, privVars, boardVars, trapVars, callVars, clicVars, metalUartVars, metalPwmVars>>
  BY <1>3 DEF StepsOfParts
<1>4. CASE part = "spi" /\ Spi0Next /\ UNCHANGED <<intVars, pinsVars, wdogVars, rtc0Vars, hpmVars, pmpVars, privVars, boardVars, trapVars, callVars, clicVars, metalUartVars, metalPwmVars>>
  BY <1>4 DEF StepsOfParts
<1>5. CASE part = "pins" /\ PinsNext /\ UNCHANGED <<intVars, spi0Vars, wdogVars, rtc0Vars, hpmVars, pmpVars, privVars, boardVars, trapVars, callVars, clicVars, metalUartVars, metalPwmVars>>
  BY <1>5 DEF StepsOfParts
<1>6. CASE part = "watchdog" /\ WdogNext /\ UNCHANGED <<intVars, spi0Vars, pinsVars, rtc0Vars, hpmVars, pmpVars, privVars, boardVars, trapVars, callVars, clicVars, metalUartVars, metalPwmVars>>
  BY <1>6 DEF StepsOfParts
<1>7. CASE part = "rtc" /\ Rtc0Next /\ UNCHANGED <<intVars, spi0Vars, pinsVars, wdogVars, hpmVars, pmpVars, privVars, boardVars, trapVars, callVars, clicVars, metalUartVars, metalPwmVars>>
  BY <1>7 DEF StepsOfParts
<1>8. CASE part = "hpm" /\ HpmNext /\ UNCHANGED <<intVars, spi0Vars, pinsVars, wdogVars, rtc0Vars, pmpVars, privVars, boardVars, trapVars, callVars, clicVars, metalUartVars, metalPwmVars>>
  BY <1>8 DEF StepsOfParts
<1>9. CASE part = "pmp" /\ PmpNext /\ UNCHANGED <<intVars, spi0Vars, pinsVars, wdogVars, rtc0Vars, hpmVars, privVars, boardVars, trapVars, callVars, clicVars, metalUartVars, metalPwmVars>>
  BY <1>9 DEF StepsOfParts
<1>10. CASE part = "privilege" /\ PrivNext /\ UNCHANGED <<intVars, spi0Vars, pinsVars, wdogVars, rtc0Vars, hpmVars, pmpVars, boardVars, trapVars, callVars, clicVars, metalUartVars, metalPwmVars>>
  BY <1>10 DEF StepsOfParts
<1>11. CASE part = "board" /\ BoardNext /\ UNCHANGED <<intVars, spi0Vars, pinsVars, wdogVars, rtc0Vars, hpmVars, pmpVars, privVars, trapVars, callVars, clicVars, metalUartVars, metalPwmVars>>
  BY <1>11 DEF StepsOfParts
<1>12. CASE part = "traps" /\ TrapsNext /\ UNCHANGED <<intVars, spi0Vars, pinsVars, wdogVars, rtc0Vars, hpmVars, pmpVars, privVars, boardVars, callVars, clicVars, metalUartVars, metalPwmVars>>
  BY <1>12 DEF StepsOfParts
<1>13. CASE part = "calls" /\ CallNext /\ UNCHANGED <<intVars, spi0Vars, pinsVars, wdogVars, rtc0Vars, hpmVars, pmpVars, privVars, boardVars, trapVars, clicVars, metalUartVars, metalPwmVars>>
  BY <1>13 DEF StepsOfParts
<1>14. CASE part = "clic" /\ ClicNext /\ UNCHANGED <<intVars, spi0Vars, pinsVars, wdogVars, rtc0Vars, hpmVars, pmpVars, privVars, boardVars, trapVars, callVars, metalUartVars, metalPwmVars>>
  BY <1>14 DEF StepsOfParts
<1>15. CASE part = "uart" /\ Uart0Next /\ UNCHANGED <<intVars, spi0Vars, pinsVars, wdogVars, rtc0Vars, hpmVars, pmpVars, privVars, boardVars, trapVars, callVars, clicVars, metalPwmVars>>
  BY <1>15 DEF StepsOfParts
<1>16. CASE part = "pwm" /\ Pwm0Next /\ UNCHANGED <<intVars, spi0Vars, pinsVars, wdogVars, rtc0Vars, hpmVars, pmpVars, privVars, boardVars, trapVars, callVars, clicVars, metalUartVars>>
  BY <1>16 DEF StepsOfParts
<1>17. QED
  BY <1>1, <1>2, <1>3, <1>4, <1>5, <1>6, <1>7, <1>8, <1>9, <1>10, <1>11, <1>12, <1>13, <1>14, <1>15, <1>16 DEF DevicesNext

(* What a program that uses one of the devices does with any of them is what  *)
(* the part's own specification allows: the drivers share no register and no *)
(* table, and call each other only where a part says so.                    *)
THEOREM DevicesImplementParts ==
    DevicesSpec => /\ IntSpec /\ Spi0Spec /\ PinsSpec /\ WdogSpec /\ Rtc0Spec /\ HpmSpec /\ PmpSpec /\ PrivSpec
                   /\ BoardSpec /\ TrapsSpec /\ CallsSpec /\ ClicSpec /\ Uart0Spec /\ Pwm0Spec
<1>1. DevicesInit => /\ IntInit /\ Spi0Init /\ PinsInit /\ WdogInit /\ Rtc0Init /\ HpmInit /\ PmpInit /\ PrivInit
                     /\ BoardInit /\ TrapInit /\ CallInit /\ ClicInit /\ Uart0Init /\ Pwm0Init
  BY DEF DevicesInit
<1>2. [DevicesNext]_devicesVars => /\ [IntNext]_intVars /\ [Spi0Next]_spi0Vars
                                   /\ [PinsNext]_pinsVars /\ [WdogNext]_wdogVars
                                   /\ [Rtc0Next]_rtc0Vars /\ [HpmNext]_hpmVars
                                   /\ [PmpNext]_pmpVars /\ [PrivNext]_privVars
                                   /\ [BoardNext]_boardVars /\ [TrapsNext]_trapVars
                                   /\ [CallNext]_callVars /\ [ClicNext]_clicVars
                                   /\ [Uart0Next]_metalUartVars /\ [Pwm0Next]_metalPwmVars
  BY StepIsOfParts DEF StepsOfParts
<1>3. QED
  BY <1>1, <1>2, PTL DEF DevicesSpec, IntSpec, Spi0Spec, PinsSpec, WdogSpec, Rtc0Spec, HpmSpec, PmpSpec,
                             PrivSpec, BoardSpec, TrapsSpec, CallsSpec, ClicSpec, Uart0Spec, Pwm0Spec

(* The drivers of freedom-metal as metal_devices runs them, for every value   *)
(* of the constants: interrupts come to their handlers and calls reach their *)
(* controllers (riscv_plic0.c, interrupt.h), traps are dispatched and return *)
(* in order (riscv_cpu.c), and the words of the pins, of a UART and of a PWM *)
(* unit are shared as the parts say (sifive_gpio0.c, sifive_uart0.c,         *)
(* sifive_pwm0.c).                                                          *)
THEOREM DevicesKeepTheirWords ==
    DevicesSpec => InterruptsAreServed /\ TrapsAreDispatched /\ PinsAreShared /\ UartIsShared /\ PwmWordIsShared
  BY DevicesImplementParts, SourcesAreServedInOrder, CallsReachTheirs, TrapsAreDispatchedInOrder, PinsAreAsShared,
     UartIsAsShared, PwmWordIsAsShared, PTL DEF InterruptsAreServed

(* The counters, the CLIC and the watchdog of such a program: a reading is of *)
(* a moment of the counter (hpm.c), a handler is called where it was accepted *)
(* (sifive_clic0.c), and the writes of the watchdog's calls arrive unless    *)
(* its key was taken (sifive_wdog0.c); its real time counter is read, set and *)
(* compared as the calls ask (sifive_rtc0.c), and so are the regions of its   *)
(* memory (pmp.c).                                                          *)
THEOREM DevicesDoAsTold ==
    DevicesSpec => CountersAreSound /\ ClicIsAsAsked /\ WdogIsAsTold /\ RtcKeepsTime /\ RegionsAreAsAsked
  BY DevicesImplementParts, CountersAreTold, ClicKeepsItsTables, WritesArriveOnce, RtcIsInTime, RegionsAreSound, PTL

(* And in every state of such a program each transfer's answers are accounted *)
(* for (sifive_spi0.c), a hart that dropped its privilege has landed as it    *)
(* asked (privilege.c), and the board's handles and lines are those of the   *)
(* board (metal.h).                                                         *)
THEOREM DevicesKeepTheirAccounts == DevicesSpec => []FramesAndAnswers /\ []LandsAsAsked /\ []BoardIsAsDescribed
  BY DevicesImplementParts, TransfersKeepAccount, HartLands, CallsReachTheBoard, PTL

=============================================================================
