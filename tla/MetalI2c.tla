-------------------------------- MODULE MetalI2c --------------------------------
(***************************************************************************)
(* sifive_i2c0.c: write, read and transfer of freedom-metal.  Every wait for *)
(* the controller ends when metal_time has moved by more than a second,      *)
(* which late stands for; it may pass in one poll, if the hart was elsewhere.*)
(* A slave may stretch the clock for ever.                                   *)
(***************************************************************************)
EXTENDS Integers

CONSTANT I2cMostBytes       \* a bound: the longest buffer

ASSUME I2cBytesAssumption == I2cMostBytes \in Nat \ {0}

VARIABLES
    ready,      \* init_done
    call,       \* the call and its arguments, or the last one
    at,         \* "idle", a wait ("free", "address", "data"), or "next"
    dir,        \* the direction it transfers in
    i,          \* bytes done in this direction
    ret,        \* what the call returned
    late,       \* the wait has lasted more than a second
    sawTip,     \* a poll of this wait found a transfer in progress
    cmd,        \* the command the controller executes: start, stop
    tip, nack, held,    \* STATUS: TIP and RXACK; the master holds the bus
    refused     \* a byte of this call was not acknowledged (history)

callVars == <<ready, call, at, dir, i, ret>>
waitVars == <<late, sawTip>>
coreVars == <<cmd, tip, nack, held>>
i2c0Vars == <<callVars, waitVars, coreVars, refused>>

Lengths == 0 .. I2cMostBytes
I2cCalls == [kind : {"write", "read"}, len : Lengths, stop : BOOLEAN]
                \cup [kind : {"transfer"}, tx : Lengths, rx : Lengths]

TxLen(c) == CASE c.kind = "write" -> c.len [] c.kind = "read" -> 0 [] OTHER -> c.tx
RxLen(c) == CASE c.kind = "read" -> c.len [] c.kind = "write" -> 0 [] OTHER -> c.rx

\* The stop that the last byte of a direction carries.
StopsAfter(c, d) == IF c.kind = "transfer" THEN d = "rx" \/ c.rx = 0 ELSE c.stop

I2c0Init ==
    /\ ready = FALSE /\ call = [kind |-> "none"] /\ at = "idle" /\ dir = "tx" /\ i = 0 /\ ret = "ok"
    /\ late = FALSE /\ sawTip = FALSE
    /\ cmd = [start |-> FALSE, stop |-> FALSE] /\ tip = FALSE /\ nack = FALSE /\ held = FALSE
    /\ refused = FALSE

-----------------------------------------------------------------------------
(* The controller.                                                          *)

Shifts ==
    /\ tip /\ tip' = FALSE
    /\ held' = ~cmd.stop
    /\ IF dir = "rx" /\ ~cmd.start THEN UNCHANGED <<nack, refused>>
       ELSE nack' \in BOOLEAN /\ refused' = (refused \/ (at \in {"address", "data"} /\ nack'))
    /\ UNCHANGED <<callVars, waitVars, cmd>>

SecondPasses == at # "idle" /\ ~late /\ late' = TRUE /\ UNCHANGED <<callVars, sawTip, coreVars, refused>>

\* TIMEOUT_RESET, and a command the controller starts on.
WaitFrom(w) == at' = w /\ late' = FALSE /\ sawTip' = FALSE
Command(start, stop) == cmd' = [start |-> start, stop |-> stop] /\ tip' = TRUE /\ UNCHANGED <<nack, held>>

-----------------------------------------------------------------------------
(* The calls.                                                               *)

Initialise == ready' = TRUE /\ UNCHANGED <<call, at, dir, i, ret, waitVars, coreVars, refused>>

\* The directions a call goes through: write and read send the address even if
\* there is no byte; a transfer of nothing returns what ret happened to hold.
Starts(c) == CASE c.kind = "write" -> "tx" [] c.kind = "read" -> "rx"
               [] OTHER -> IF c.tx > 0 THEN "tx" ELSE "rx"
Nothing(c) == c.kind = "transfer" /\ c.tx = 0 /\ c.rx = 0

Call ==
    /\ at = "idle"
    /\ call' \in I2cCalls
    /\ refused' = FALSE
    /\ IF ready /\ ~Nothing(call')
       THEN /\ dir' = Starts(call') /\ WaitFrom("free")
            /\ UNCHANGED <<i, ret>>
       ELSE /\ ret' \in IF ready THEN {"ok", "error"} ELSE {"error"}
            /\ UNCHANGED <<at, dir, i, waitVars>>
    /\ UNCHANGED <<ready, coreVars>>

\* A poll that finds TIP; the next one, or a look at the time, follows.
PollsBusy ==
    /\ at \in {"free", "address", "data"} /\ tip /\ ~sawTip
    /\ sawTip' = TRUE
    /\ UNCHANGED <<callVars, late, coreVars, refused>>

TimesOut       == sawTip /\ late

GiveUp ==
    /\ at \in {"free", "address", "data"} /\ TimesOut
    /\ at' = "idle" /\ ret' = "error"
    /\ UNCHANGED <<ready, call, dir, i, waitVars, coreVars, refused>>

Free     == ~tip

\* write_addr, from its first wait on.
SendAddress ==
    /\ at = "free" /\ Free
    /\ Command(TRUE, FALSE) /\ WaitFrom("address") /\ i' = 0
    /\ UNCHANGED <<ready, call, dir, ret, refused>>

\* The length of this direction.
Len0 == IF dir = "tx" THEN TxLen(call) ELSE RxLen(call)

\* After a refused byte the write phase of a transfer goes on to read.
ReadsOn(d) == call.kind = "transfer" /\ d = "tx" /\ call.rx > 0

Finish(r) ==
    IF ReadsOn(dir)
    THEN dir' = "rx" /\ WaitFrom("free") /\ UNCHANGED ret
    ELSE at' = "idle" /\ ret' = r /\ UNCHANGED <<dir, waitVars>>

\* Mutant: _blind does not look at the acknowledge of the address.
AddressRefused_blind == FALSE
AddressRefused       == nack

AddressSent ==
    /\ at = "address" /\ ~tip
    /\ IF AddressRefused THEN at' = "idle" /\ ret' = "error" /\ UNCHANGED <<dir, waitVars>>
       ELSE IF Len0 = 0 THEN Finish("ok")
       ELSE at' = "next" /\ UNCHANGED <<dir, ret, waitVars>>
    /\ UNCHANGED <<ready, call, i, coreVars, refused>>

LastByte(k)       == k = Len0 - 1

NextByte ==
    /\ at = "next"
    /\ Command(FALSE, LastByte(i) /\ StopsAfter(call, dir)) /\ WaitFrom("data")
    /\ UNCHANGED <<ready, call, dir, i, ret, refused>>

ByteDone ==
    /\ at = "data" /\ ~tip
    /\ i' = i + 1
    /\ IF dir = "tx" /\ nack THEN Finish("error")
       ELSE IF i' = Len0 THEN Finish("ok")
       ELSE at' = "next" /\ UNCHANGED <<dir, ret, waitVars>>
    /\ UNCHANGED <<ready, call, coreVars, refused>>

I2c0Program == Call \/ PollsBusy \/ GiveUp \/ SendAddress \/ AddressSent \/ NextByte \/ ByteDone
I2c0Next == Initialise \/ I2c0Program \/ Shifts \/ SecondPasses

I2c0Spec == I2c0Init /\ [][I2c0Next]_i2c0Vars

-----------------------------------------------------------------------------
(* sifive_i2c0.c:177-180: no command is written while another executes, even *)
(* after calls that gave up waiting for theirs.                             *)
CommandsDoNotOverlap == [][cmd' # cmd => ~tip]_i2c0Vars

(* sifive_i2c0.c:367-375: a call that returns OK had every byte acknowledged, *)
(* except that a transfer which goes on to read forgets a refused byte.     *)
OkMeansAcknowledged ==
    (at = "idle" /\ ret = "ok" /\ refused) =>
        call.kind = "transfer" /\ (Nothing(call) \/ (call.tx > 0 /\ call.rx > 0))

(* sifive_i2c0.c:232-240: a call that returns OK leaves the bus as asked, and *)
(* the stop of a call without bytes is never sent.                          *)
BusLeftAsAsked ==
    (at = "idle" /\ ret = "ok" /\ call.kind # "none" /\ ~Nothing(call)) =>
        (held <=> IF call.kind = "transfer" THEN FALSE ELSE call.len = 0 \/ ~call.stop)

(* sifive_i2c0.c:44-54: every call returns, whatever the slave does.        *)
I2cCallsReturn == (at # "idle") ~> (at = "idle")

(* sifive_i2c0.c:148-402: a call ends, and what it returns is what happened *)
(* on the bus.                                                              *)
I2cCallsWork == [](OkMeansAcknowledged /\ BusLeftAsAsked) /\ CommandsDoNotOverlap /\ I2cCallsReturn
=============================================================================
