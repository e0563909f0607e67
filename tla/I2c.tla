--------------------------------- MODULE I2c ---------------------------------
(***************************************************************************)
(* The calls of i2c.c over the controller, one register access a step.  The *)
(* command register is written and the status register is read at the same  *)
(* address, so CR |= bits writes back what the status had there: no         *)
(* acknowledge (ACK) as STA, a taken bus (BUSY) as STO.  That is a load and a *)
(* store, and the controller goes on in between.  Lost arbitration, which    *)
(* would come back as RD, is left out: the board is the only master.         *)
(*                                                                         *)
(* A byte is its place in the buffer; 0 is the address.  The controller     *)
(* takes the byte to send from TXR when it takes up the command, at a       *)
(* moment of its own.                                                       *)
(***************************************************************************)
EXTENDS Integers

CONSTANT BufferSizes        \* the sizes passed to the calls

ASSUME BufferSizesAssumption == BufferSizes \subseteq Nat

VARIABLES
    active,         \* isc->active
    loaded,         \* what CR |= has loaded and not stored yet, or NotLoaded
    cr, txr,        \* the command not yet done, the byte to send
    shifter,        \* what the controller is doing: "none", "byte", "read" or "stop"
    busy, nack,     \* the BUSY and ACK bits of the status
    ipc, op,        \* where the call is and which call it is
    i, size,        \* its index and its size
    puts, reads,    \* the bytes it put on the bus and took, in this call (history)
    held            \* the starts since the bus was taken or I2C closed (history)

i2cVars == <<active, loaded, cr, txr, shifter, busy, nack, ipc, op, i, size, puts, reads, held>>
wire    == <<shifter, busy, nack, puts, reads, held>>

NotLoaded == {"nothing"}

I2cInit ==
    /\ active = FALSE /\ loaded = NotLoaded /\ cr = {} /\ txr = 0 /\ shifter = "none"
    /\ busy = FALSE /\ nack = FALSE
    /\ ipc = "idle" /\ op = "send" /\ i = 0 /\ size = 0
    /\ puts = 0 /\ reads = 0 /\ held = 0

\* What a read of the command register's address has in the command bits.
Status == (IF nack THEN {"STA"} ELSE {}) \cup (IF busy THEN {"STO"} ELSE {})

\* TIP: a read or a write is in progress.
tip == cr \cap {"RD", "WR"} # {}

i2c_init ==
    /\ ipc = "idle" /\ active' = TRUE
    /\ UNCHANGED <<loaded, cr, txr, ipc, op, i, size, wire>>

\* Closing clears the enable: the controller drops what it was doing.
i2c_close ==
    /\ ipc = "idle" /\ active
    /\ active' = FALSE /\ cr' = {} /\ shifter' = "none" /\ held' = 0
    /\ UNCHANGED <<loaded, txr, busy, nack, ipc, op, i, size, puts, reads>>

\* i2c_send, i2c_receive and i2c_transmit up to their first register.
Begin(o, n) ==
    /\ ipc = "idle" /\ active
    /\ op' = o /\ size' = n /\ i' = 1 /\ txr' = 0
    /\ ipc' = "start" /\ puts' = 0 /\ reads' = 0
    /\ UNCHANGED <<active, loaded, cr, shifter, busy, nack, held>>

\* The end of a call with success; transmit goes on with its receive.
Ok == IF op = "transmit" /\ ipc = "ack2" THEN "again" ELSE "idle"

\* CR |= bits, and CR &= ~WR: the load.
LoadCommand ==
    /\ ipc \in {"start", "stop", "unwr", "rd", "cack", "rstop"} /\ loaded = NotLoaded
    /\ loaded' = Status
    /\ UNCHANGED <<active, cr, txr, ipc, op, i, size, wire>>

\* The store.  Status never loads WR, RD or the controller's ACK bit.
StoreCommand(bits) == loaded # NotLoaded /\ cr' = loaded \cup bits /\ loaded' = NotLoaded

Command(bits, to) ==
    /\ StoreCommand(bits) /\ ipc' = to
    /\ UNCHANGED <<active, txr, op, i, size, wire>>

Start == ipc = "start" /\ Command({"STA", "WR"}, "tip1")

\* while ((SR & TIP) == 0): the loop is left while a transfer is in progress.
Waited == tip

Goto(from, to) == ipc = from /\ ipc' = to /\ UNCHANGED <<active, loaded, cr, txr, op, i, size, wire>>

WaitTip ==
    /\ Waited
    /\ \/ Goto("tip1", "ack1")
       \/ Goto("tip2", "ack2")
       \/ /\ ipc = "tipN" /\ i' = i + 1
          /\ ipc' = IF i < size THEN "txr" ELSE "stop"
          /\ UNCHANGED <<active, loaded, cr, txr, op, size, wire>>

\* The acknowledge bit after the address, and after the stop.
FirstAck ==
    IF nack THEN Goto("ack1", "idle")
    ELSE Goto("ack1", IF op = "receive" THEN "unwr" ELSE IF size > 0 THEN "txr" ELSE "stop")

LastAck ==
    /\ ipc = "ack2"
    /\ IF Ok = "again" /\ ~nack
       THEN /\ op' = "receive" /\ i' = 1 /\ txr' = 0 /\ ipc' = "start"
            /\ puts' = 0 /\ reads' = 0
            /\ UNCHANGED <<active, loaded, cr, size, shifter, busy, nack, held>>
       ELSE Goto("ack2", "idle")

\* TXR = tx[i]: the loop writes no command for the byte.
\* Mutant: _write commands it.
ByteCommand_write == Status \cup {"WR"}
ByteCommand       == cr

LoadByte ==
    /\ ipc = "txr"
    /\ txr' = i /\ cr' = ByteCommand /\ ipc' = "tipN"
    /\ UNCHANGED <<active, loaded, op, i, size, wire>>

Stop == ipc = "stop" /\ Command({"STO", "WR"}, "tip2")

\* i2c_receive after its address: CR &= ~WR, CR |= RD once, and for each byte
\* a read of the data register and CR |= ACK.
ClearWrite == ipc = "unwr" /\ Command({}, "rd")

SetRead == ipc = "rd" /\ Command({"RD"}, IF size > 0 THEN "rx" ELSE "rstop")

ReadByte == Goto("rx", "cack")

NextByte == {"ACK"}

Acknowledge ==
    /\ ipc = "cack"
    /\ StoreCommand(NextByte) /\ i' = i + 1
    /\ ipc' = IF i < size THEN "rx" ELSE "rstop"
    /\ UNCHANGED <<active, txr, op, size, wire>>

ReceiveStop == ipc = "rstop" /\ Command({"STO", "WR"}, "idle")

\* The controller takes a command, and what it does with it then is decided
\* by the command register when it has shifted the byte.
Take ==
    /\ active /\ shifter = "none" /\ cr \cap {"RD", "WR", "STO"} # {}
    /\ shifter' = IF "WR" \in cr THEN "byte" ELSE IF "RD" \in cr THEN "read" ELSE "stop"
    /\ puts' = IF shifter' = "byte" THEN puts + 1 ELSE puts
    /\ reads' = IF shifter' = "read" THEN reads + 1 ELSE reads
    /\ busy' = (busy \/ "STA" \in cr)
    /\ held' = IF "STA" \in cr THEN held + 1 ELSE held
    /\ UNCHANGED <<active, loaded, cr, txr, nack, ipc, op, i, size>>

Finish ==
    /\ shifter # "none"
    /\ nack' \in (IF shifter = "byte" THEN BOOLEAN ELSE {nack})
    /\ busy' = (busy /\ "STO" \notin cr)
    /\ held' = IF busy' THEN held ELSE 0
    /\ cr' = {} /\ shifter' = "none"
    /\ UNCHANGED <<active, loaded, txr, ipc, op, i, size, puts, reads>>

I2cCall == \/ LoadCommand
           \/ Start \/ WaitTip \/ FirstAck \/ LastAck \/ LoadByte \/ Stop
           \/ ClearWrite \/ SetRead \/ ReadByte \/ Acknowledge \/ ReceiveStop

I2cNext ==
    \/ i2c_init \/ i2c_close
    \/ \E o \in {"send", "receive", "transmit"}, n \in BufferSizes : Begin(o, n)
    \/ I2cCall
    \/ Take \/ Finish

-----------------------------------------------------------------------------
(* i2c.c:39-52: the waits are over while a transfer is in progress, and the *)
(* loop over the buffer commands none.  Whatever the size of its buffer, at *)
(* most three bytes go on the bus during a call: one for its start, one for *)
(* its stop, and one that the call before it had left pending.              *)
I2cThreeBytesAtMost == puts <= 3

(* i2c.c:39, 49 and 55: a call that reaches a wait when the transfer is over *)
(* is never woken: nothing but the call itself could start another one.     *)
I2cLate == ipc \in {"tip1", "tipN", "tip2"} /\ cr = {}

I2cLateWaitNeverEnds == [][I2cLate => I2cLate']_i2cVars

(* i2c.c:86-93: one read is commanded for the whole buffer, and the status  *)
(* written back may take even that away: a receive of any size makes the    *)
(* controller read one byte at most.                                        *)
I2cReadsOnce == reads <= 1

(* i2c.c:43 and 83: a missing acknowledge returns without a stop, and the   *)
(* bus stays taken.  That a later command carries the stop is an effect of    *)
(* CR |= alone, and one whose load came before the start of the call before    *)
(* misses it: the bus is held over three starts, and never over more.        *)
I2cHoldIsShort == held <= 3

(* i2c.c:27-110: what the inverted waits, the missing commands and CR |= do *)
(* to the bus, in any sequence of calls and with any acknowledges.          *)
I2cBusTraffic == [](I2cThreeBytesAtMost /\ I2cReadsOnce /\ I2cHoldIsShort) /\ I2cLateWaitNeverEnds
=============================================================================
