-------------------------------- MODULE MetalSpi --------------------------------
(***************************************************************************)
(* sifive_spi0.c: transfer of freedom-metal, which waits for the answer to   *)
(* every byte, but no longer than metal_time takes to move by more than a    *)
(* second.  RXDATA is read before the time is looked at.                     *)
(***************************************************************************)
EXTENDS Integers, Sequences

CONSTANTS
    SpiMostBytes,       \* a bound: the longest transfer
    SpiMostTimeouts     \* a bound: the transfers that time out

ASSUME SpiBoundsAssumption == SpiMostBytes \in Nat /\ SpiMostTimeouts \in 0 .. 7

VARIABLES
    wires, hold, device,    \* FMT.proto, CSMODE is HOLD, CSID
    txfifo, rxfifo,         \* frames on their way, and answers not read
    xfer,                   \* the configuration and length of the call
    stage,                  \* "idle", "send", "poll", or "time" after an empty RXDATA
    done,                   \* bytes answered
    tooLate,                \* the wait has lasted more than a second
    stale,                  \* answers of this call that were another's (history)
    lag                     \* transfers that timed out (history)

xferVars == <<xfer, stage, done, tooLate>>
unitVars == <<wires, hold, device, txfifo, rxfifo>>
spi0Vars == <<xferVars, unitVars, stale, lag>>

Parts == 0 .. 1         \* bytes of command, address and dummy
\* What goes over more than one wire matters to the protocols that have more than one.
Configs == {c \in [protocol : {"single", "dual", "other"}, multi : {"all", "address", "data"},
                   csid : {0, 1}, cmd : Parts, addr : Parts, dummy : Parts, len : 0 .. SpiMostBytes] :
                c.protocol # "dual" => c.multi = "all"}

Header(c) == c.cmd + c.addr + c.dummy
Bytes(c)  == IF Header(c) > c.len THEN Header(c) ELSE c.len

\* The wires byte k is meant for.
WiresFor(c, k) ==
    IF \/ c.multi = "all"
       \/ c.multi = "address" /\ k >= c.cmd
       \/ c.multi = "data" /\ k >= Header(c)
    THEN c.protocol ELSE "single"

Spi0Init ==
    /\ wires = "single" /\ hold = FALSE /\ device = 0 /\ txfifo = <<>> /\ rxfifo = <<>>
    /\ xfer = [protocol |-> "single", multi |-> "all", csid |-> 0,
               cmd |-> 0, addr |-> 0, dummy |-> 0, len |-> 0]
    /\ stage = "idle" /\ done = 0 /\ tooLate = FALSE /\ stale = 0 /\ lag = 0

\* The unit shifts a frame; the answer belongs to the call that sent it.
ShiftOut ==
    /\ txfifo # <<>>
    /\ rxfifo' = Append(rxfifo, Head(txfifo).mine) /\ txfifo' = Tail(txfifo)
    /\ UNCHANGED <<xferVars, wires, hold, device, stale, lag>>

SpiSecond ==
    /\ stage \in {"poll", "time"} /\ ~tooLate /\ lag < SpiMostTimeouts
    /\ tooLate' = TRUE
    /\ UNCHANGED <<unitVars, xfer, stage, done, stale, lag>>

\* What is under way when a call starts belongs to others.
Disown == /\ txfifo' = [k \in DOMAIN txfifo |-> [txfifo[k] EXCEPT !.mine = FALSE]]
          /\ rxfifo' = [k \in DOMAIN rxfifo |-> FALSE]

\* configure_spi, which stops at a protocol it does not know, and the hold.
Transfer ==
    /\ stage = "idle"
    /\ xfer' \in Configs
    /\ wires' = IF xfer'.protocol = "dual" /\ xfer'.multi = "all" THEN "dual" ELSE "single"
    /\ IF xfer'.protocol = "other" THEN UNCHANGED <<device, hold, stage>>
       ELSE device' = xfer'.csid /\ hold' = TRUE /\ stage' = "send"
    /\ Disown /\ done' = 0 /\ stale' = 0
    /\ UNCHANGED <<tooLate, lag>>

\* The mode switches between the parts, at the first byte that follows.
SwitchTo(k)       == WiresFor(xfer, k)

\* A byte is sent when the FIFO has room, and the wait for its answer begins.
Send ==
    /\ stage = "send" /\ done < Bytes(xfer) /\ Len(txfifo) < 8
    /\ wires' = SwitchTo(done)
    /\ txfifo' = Append(txfifo, [mine |-> TRUE, wires |-> WiresFor(xfer, done), to |-> xfer.csid])
    /\ stage' = "poll" /\ tooLate' = FALSE
    /\ UNCHANGED <<hold, device, rxfifo, xfer, done, stale, lag>>

\* Mutant: _any does not look at the empty flag.
Answered_any == TRUE
Answered     == rxfifo # <<>>

Poll ==
    /\ stage = "poll" /\ Answered
    /\ stale' = IF rxfifo # <<>> /\ Head(rxfifo) THEN stale ELSE stale + 1
    /\ rxfifo' = IF rxfifo = <<>> THEN rxfifo ELSE Tail(rxfifo)
    /\ done' = done + 1 /\ stage' = "send"
    /\ UNCHANGED <<wires, hold, device, txfifo, xfer, tooLate, lag>>

Empty ==
    /\ stage = "poll" /\ rxfifo = <<>>
    /\ stage' = "time"
    /\ UNCHANGED <<unitVars, xfer, done, tooLate, stale, lag>>

LookAtTime ==
    /\ stage = "time"
    /\ IF tooLate THEN stage' = "idle" /\ hold' = FALSE /\ lag' = lag + 1
       ELSE stage' = "poll" /\ UNCHANGED <<hold, lag>>
    /\ UNCHANGED <<wires, device, txfifo, rxfifo, xfer, done, tooLate, stale>>

TransferDone ==
    /\ stage = "send" /\ done = Bytes(xfer)
    /\ hold' = FALSE /\ stage' = "idle"
    /\ UNCHANGED <<wires, device, txfifo, rxfifo, xfer, done, tooLate, stale, lag>>

Spi0Program == Transfer \/ Send \/ Poll \/ Empty \/ LookAtTime \/ TransferDone
Spi0Next == Spi0Program \/ ShiftOut \/ SpiSecond

Spi0Spec == Spi0Init /\ [][Spi0Next]_spi0Vars

-----------------------------------------------------------------------------
(* sifive_spi0.c:316-324: a frame is shifted on the wires and to the device *)
(* of its call, with its chip select held, until a transfer has timed out.  *)
FramesReachTheirDevice ==
    lag = 0 => \A k \in DOMAIN txfifo : /\ txfifo[k].wires = wires
                                        /\ txfifo[k].to = device /\ hold

(* sifive_spi0.c:198-205: a transfer that times out leaves its last answer  *)
(* to come, and every later one, with no error, takes that many answers for *)
(* its own that are not.                                                    *)
TimeoutsShiftAnswers ==
    (stage = "idle" /\ xfer.protocol # "other" /\ done = Bytes(xfer)) =>
        stale = IF lag < done THEN lag ELSE done

(* Who gets the frames of a transfer, and whose answers it returns.         *)
FramesAndAnswers == FramesReachTheirDevice /\ TimeoutsShiftAnswers
=============================================================================
