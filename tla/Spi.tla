-------------------------------- MODULE Spi --------------------------------
(***************************************************************************)
(* The transfer calls of spi.h over the controller's two FIFOs.  A frame    *)
(* written to TXFIFO is shifted out when its turn comes, and the byte that  *)
(* is shifted in meanwhile, its answer, goes to RXFIFO; the calls poll, and *)
(* never wait for an answer.  The foreground makes the calls; a service     *)
(* routine may call spi_send between any two of its register accesses.      *)
(*                                                                         *)
(* Frames are numbered in the order they are written, an answer has the     *)
(* number of its frame, and 0 is the empty flag.  lost, overrun, answer and *)
(* the fields arrived and raced of a call are history variables.            *)
(***************************************************************************)
EXTENDS Integers, Sequences, FiniteSets

CONSTANTS
    TxDepth, RxDepth,   \* the sizes of the FIFOs
    Sizes,              \* the sizes passed to the calls on buffers
    IndexValues,        \* the values of a uint16_t: 65536
    Directions,         \* the directions passed to spi_init
    Polarities,         \* and the polarities
    IsrSends,           \* a service routine calls spi_send
    MaxFrames           \* the bound on the frames written

Dirs == {"RX", "TX"}

ASSUME DepthAssumption    == TxDepth \in Nat \ {0} /\ RxDepth \in Nat \ {0}
ASSUME SizesAssumption    == Sizes \subseteq Nat
ASSUME IndexAssumption    == IndexValues \in Nat \ {0}
ASSUME ConfigAssumption   == Directions \subseteq Dirs /\ Polarities \subseteq 0 .. 1
ASSUME IsrSendsAssumption == IsrSends \in BOOLEAN
ASSUME MaxFramesAssumption == MaxFrames \in Nat

Actors == {"main", "isr"}

\* The register accesses of one turn of each call's loop; those without a
\* loop take one turn.  "drain" is repeated until it finds RXFIFO empty.
\* Mutants: _drain_first, _unpolled and _twice.
spi_transmit_drain_first == <<"drain", "poll", "push", "read">>
spi_transmit             == <<"poll", "push", "drain", "read">>
spi_send_unpolled        == <<"push", "drain">>
spi_send                 == <<"poll", "push", "drain">>
spi_send_multiple        == <<"poll", "push", "drain">>
spi_receive              == <<"poll", "push", "read">>
spi_receive_multiple_twice == <<"poll", "push", "poll", "push", "read">>
spi_receive_multiple     == <<"poll", "push", "read">>

Turn(op) ==
    CASE op = "transmit"         -> spi_transmit
      [] op = "send"             -> spi_send
      [] op = "send_multiple"    -> spi_send_multiple
      [] op = "receive"          -> spi_receive
      [] op = "receive_multiple" -> spi_receive_multiple
      [] OTHER                   -> <<>>

VARIABLES
    num,        \* s->spi_num
    config,     \* s->config
    sckmode,    \* SCKMODE
    dir,        \* the direction in FMT
    tx, rx,     \* the FIFOs
    shift,      \* the frame on the wire, or 0
    sent,       \* the number of frames written to TXFIFO
    call,       \* each actor's call
    lost,       \* the frames that found TXFIFO full
    overrun,    \* an answer has found RXFIFO full
    answer      \* the last answer a call took for its caller

vars == <<num, config, sckmode, dir, tx, rx, shift, sent, call, lost, overrun, answer>>
wire == <<tx, rx, shift, sent, lost, overrun>>

NoCall   == [op |-> "idle", step |-> 1, index |-> 0, size |-> 0, arrived |-> 0, raced |-> FALSE]
NoAnswer == [frame |-> 0, sent |-> 0, arrived |-> 0, op |-> "idle"]

Init ==
    /\ num = 0 /\ config = [dir |-> "RX", polarity |-> 0]
    /\ sckmode = 0 /\ dir = "RX"
    /\ tx = <<>> /\ rx = <<>> /\ shift = 0 /\ sent = 0
    /\ call = [a \in Actors |-> NoCall]
    /\ lost = {} /\ overrun = FALSE /\ answer = NoAnswer

-----------------------------------------------------------------------------
(* Opening and closing.                                                    *)

\* Both terms are 1 << SPI_SCK_PHA, which is 2.
SckMode(phase, polarity) == IF phase = 1 \/ polarity = 1 THEN 4 ELSE 0

\* SPI_SCKPHA_EN, and SPI_SCKPHA_DIS just as well.
SPI_SCKPHA == 1

Idle == \A a \in Actors : call[a].op = "idle"

spi_init ==
    /\ Idle
    /\ \E c \in [dir : Directions, polarity : Polarities] :
        /\ config' = c
        /\ sckmode' = SckMode(SPI_SCKPHA, c.polarity)
        /\ dir' = c.dir
    /\ num' = 1
    /\ UNCHANGED <<wire, call, answer>>

\* FMT_DIR(s->config.direction) | FMT_DIR(SPI_DIR_RX), and SPI_DIR_RX is 0.
spi_set_cs ==
    /\ Idle /\ num = 1
    /\ dir' = config.dir
    /\ UNCHANGED <<num, config, sckmode, wire, call, answer>>

\* The FIFOs are left as they are.
spi_close ==
    /\ Idle /\ num = 1
    /\ num' = 0 /\ sckmode' = 0 /\ dir' = "RX"
    /\ UNCHANGED <<config, wire, call, answer>>

-----------------------------------------------------------------------------
(* The transfers.  Main runs only when the service routine does not.       *)

Runs(a) == a = "main" => call["isr"].op = "idle"

\* The calls on buffers do not look at s.  A size of 0 sends nothing.
Accepts(op, size) == op \in {"send_multiple", "receive_multiple"} \/ num = 1

Call(a, op, size) ==
    /\ call[a].op = "idle" /\ Runs(a)
    /\ Accepts(op, size)
    /\ size > 0 /\ sent + size <= MaxFrames
    /\ call' = [call EXCEPT ![a] = [NoCall EXCEPT !.op = op, !.size = size]]
    /\ UNCHANGED <<num, config, sckmode, dir, wire, answer>>

Foreground ==
    \/ \E op \in {"send", "receive"} : Call("main", op, 1)
    \/ \E op \in {"transmit", "send_multiple", "receive_multiple"}, n \in Sizes : Call("main", op, n)

\* The index of the two loops on buffers is a uint16_t, and size an unsigned
\* int: a size above the largest index is never reached.
CountsIn16Bits(op) == op \in {"send_multiple", "receive_multiple"}
Endless(c)         == CountsIn16Bits(c.op) /\ c.size >= IndexValues

\* i++
NextIndex(c) == IF CountsIn16Bits(c.op) THEN (c.index + 1) % IndexValues ELSE c.index + 1

\* The frames a call has still to write; the room for them is kept.  A call
\* that never ends needs no room: it stands still where MaxFrames are written.
Outstanding(c) == IF Endless(c) THEN 0 ELSE c.size - c.index

Trap == IsrSends /\ sent + Outstanding(call["main"]) < MaxFrames /\ Call("isr", "send", 1)

At(a, s) ==
    /\ call[a].op # "idle" /\ Runs(a)
    /\ Turn(call[a].op)[call[a].step] = s

\* The call moves on to its next step, its next turn, or back to its caller.
After(c) ==
    CASE c.step < Len(Turn(c.op)) -> [c EXCEPT !.step = @ + 1]
      [] c.step = Len(Turn(c.op)) /\ NextIndex(c) < c.size -> [c EXCEPT !.step = 1, !.index = NextIndex(c)]
      [] OTHER                    -> NoCall

\* while (TXFIFO > 0xFF);
Poll(a) ==
    /\ At(a, "poll")
    /\ Len(tx) < TxDepth
    /\ call' = [call EXCEPT ![a] = [After(@) EXCEPT !.raced = FALSE]]
    /\ UNCHANGED <<num, config, sckmode, dir, wire, answer>>

\* The last frame whose turn on the wire is over.
Arrived == IF shift # 0 THEN shift - 1 ELSE IF tx # <<>> THEN Head(tx) - 1 ELSE sent

\* TXFIFO = ...: a frame that finds the FIFO full is dropped.
Push(a) ==
    /\ At(a, "push")
    /\ sent < MaxFrames
    /\ sent' = sent + 1
    /\ IF Len(tx) < TxDepth
       THEN tx' = Append(tx, sent + 1) /\ UNCHANGED lost
       ELSE lost' = lost \cup {sent + 1} /\ UNCHANGED tx
    /\ call' = [b \in Actors |->
                  IF b = a THEN [After(call[b]) EXCEPT !.arrived = Arrived]
                  ELSE [call[b] EXCEPT !.raced = call[b].op # "idle"]]
    /\ UNCHANGED <<num, config, sckmode, dir, rx, shift, overrun, answer>>

\* while (RXFIFO <= 0xFF); reading RXFIFO takes its first answer.
Drain(a) ==
    /\ At(a, "drain")
    /\ IF rx = <<>>
       THEN call' = [call EXCEPT ![a] = After(@)] /\ UNCHANGED rx
       ELSE rx' = Tail(rx) /\ UNCHANGED call
    /\ UNCHANGED <<num, config, sckmode, dir, tx, shift, sent, lost, overrun, answer>>

\* rx[i] = RXFIFO, whether or not it holds anything.
Read(a) ==
    /\ At(a, "read")
    /\ rx' = IF rx = <<>> THEN rx ELSE Tail(rx)
    /\ answer' = [frame |-> IF rx = <<>> THEN 0 ELSE Head(rx), sent |-> sent,
                  arrived |-> call[a].arrived, op |-> call[a].op]
    /\ call' = [call EXCEPT ![a] = After(@)]
    /\ UNCHANGED <<num, config, sckmode, dir, tx, shift, sent, lost, overrun>>

-----------------------------------------------------------------------------
(* The controller.                                                         *)

Load ==
    /\ shift = 0 /\ tx # <<>>
    /\ shift' = Head(tx) /\ tx' = Tail(tx)
    /\ UNCHANGED <<num, config, sckmode, dir, rx, sent, call, lost, overrun, answer>>

\* An answer that finds RXFIFO full is dropped.
Shift ==
    /\ shift # 0 /\ shift' = 0
    /\ IF dir = "TX" THEN UNCHANGED <<rx, overrun>>
       ELSE IF Len(rx) < RxDepth
            THEN rx' = Append(rx, shift) /\ UNCHANGED overrun
            ELSE overrun' = TRUE /\ UNCHANGED rx
    /\ UNCHANGED <<num, config, sckmode, dir, tx, sent, call, lost, answer>>

\* A call that never ends, where the bound on the frames is reached.
AtTheBound(a) == Endless(call[a]) /\ sent = MaxFrames /\ UNCHANGED vars

Step(a) == Poll(a) \/ Push(a) \/ Drain(a) \/ Read(a)

Next ==
    \/ spi_init \/ spi_set_cs \/ spi_close
    \/ Foreground \/ Trap
    \/ \E a \in Actors : Step(a) \/ AtTheBound(a)
    \/ Load \/ Shift

Spec == Init /\ [][Next]_vars

\* The processor executes and the controller shifts.
Fairness == (\A a \in Actors : WF_vars(Step(a))) /\ WF_vars(Load) /\ WF_vars(Shift)

FairSpec == Spec /\ Fairness

-----------------------------------------------------------------------------
(* Properties.                                                             *)

Ops == {"idle", "transmit", "send", "send_multiple", "receive", "receive_multiple"}

\* The answers nobody has read yet.
Backlog == Len(tx) + (IF shift = 0 THEN 0 ELSE 1) + Len(rx)

\* A call that has written a frame in this turn and not read RXFIFO since.
Owes(c) ==
    /\ c.op # "idle"
    /\ c.step = Len(Turn(c.op)) \/ Turn(c.op)[c.step] = "drain"

Debt(a) == IF Owes(call[a]) THEN 1 ELSE 0
Debts   == Debt("main") + Debt("isr")

\* The calls never run further ahead of the answers than TXFIFO, the frame on
\* the wire and one more for each call in progress, in any mix of calls and
\* whatever answers earlier ones left behind (spi.h:299-305, 349-355, 373-378, 395-400).
BacklogBounded == Backlog <= TxDepth + 1 + Debts

\* So an RXFIFO that is two deeper than TXFIFO, or three if a service routine
\* sends too, would never drop an answer; the real one is as deep as TXFIFO.
AnswersWouldFit == overrun => RxDepth < TxDepth + (IF IsrSends THEN 3 ELSE 2)

\* What a call stores in rx[i] answers one of the last TxDepth + 2 frames that
\* were sent, TxDepth + 3 if a service routine sends too: the receive calls,
\* which never wait, may lag by that much and no more (spi.h:378, 400).
AnswerLagsBehind ==
    answer.frame # 0 =>
        Cardinality((answer.frame + 1 .. answer.sent) \ lost) < TxDepth + (IF IsrSends THEN 3 ELSE 2)

\* spi_transmit returns no answer that had arrived before it wrote the frame:
\* its loop over RXFIFO has thrown away all of those (spi.h:304-306).
TransmitReturnsNothingOld ==
    answer.op = "transmit" /\ answer.frame # 0 => answer.frame > answer.arrived

\* How old what a call returns may be.
AnswersAreRecent == AnswerLagsBehind /\ TransmitReturnsNothingOld

\* A frame is dropped only if the service routine has written one between
\* main's poll of TXFIFO and its write (spi.h:299-302, 327-330).
FrameLostOnlyToPreemption ==
    [][lost' # lost => At("main", "push") /\ call["main"].raced]_vars

\* Every call returns whose index can reach its size: TXFIFO empties, and nobody
\* waits for an answer, which in the transmit direction would never come
\* (spi.h:327-333).
CallsReturn == \A a \in Actors : call[a].op # "idle" /\ ~Endless(call[a]) ~> call[a].op = "idle"

\* The others never return: spi_send_multiple and spi_receive_multiple write
\* the buffer again and again for a size above 65535 (spi.h:345-347, 391-393).
EndlessStay == [][\A a \in Actors : Endless(call[a]) => Endless(call'[a])]_vars

\* What the polls of TXFIFO are for: frames go out and calls return.
PollsWork == FrameLostOnlyToPreemption /\ CallsReturn /\ EndlessStay

\* spi.h:97: "If enabled, inactive state of SCK is logical 1".  SCKMODE.pol is
\* its bit 1.
SckIdlesHighWhenEnabled ==
    num = 1 /\ config.polarity = 1 => (sckmode \div 2) % 2 = 1
=============================================================================
