------------------------------ MODULE MetalUart ------------------------------
(***************************************************************************)
(* sifive_uart0.c behind the calls of uart.h: a program that was given the  *)
(* device initialised, by tty.c's constructor, and its service routine.     *)
(* Both poll, write and read the FIFOs and edit the interrupt and watermark *)
(* registers; the UART's callback runs before a change of the core's rate.  *)
(* MetalClock has the divider and the byte on the line.                     *)
(***************************************************************************)
EXTENDS Naturals, MetalEdits

CONSTANTS
    UartFifo,       \* the size of the FIFOs
    UartLevels      \* the watermarks asked for

ASSUME UartAssumption == UartFifo \in Nat \ {0} /\ UartLevels \subseteq 0 .. 7

UartActors == {"main", "irq"}

VARIABLES
    uregs,          \* IE, and the watermarks of TXCTRL and RXCTRL
    txBytes, rxBytes,   \* how many bytes the FIFOs hold
    ucalls,         \* of each actor the steps its call has left
    uheld,          \* the register it has read for the next one; <<>> before the read
    rxLevel,        \* the receive watermark last asked for (history)
    ieAsked,        \* what the calls ask of IE (history)
    ieRaced,        \* the routine wrote IE while main held what it had read (history)
    refilled,       \* it wrote a byte since main polled, or since main saw the FIFO empty (history)
    dropped         \* a byte found the FIFO full (history)

uartHistory == <<rxLevel, ieAsked, ieRaced, refilled, dropped>>
metalUartVars == <<uregs, txBytes, rxBytes, ucalls, uheld, uartHistory>>

Uart0Init ==
    /\ uregs = [r \in {"ie", "txcnt", "rxcnt"} |-> {}]
    /\ txBytes = 0 /\ rxBytes = 0
    /\ ucalls = [a \in UartActors |-> <<>>] /\ uheld = [a \in UartActors |-> <<>>]
    /\ rxLevel = 0 /\ ieAsked = {} /\ ieRaced = FALSE /\ refilled = FALSE /\ dropped = FALSE

-----------------------------------------------------------------------------
(* The calls, as their steps.                                               *)

Weight(b)     == CASE b = 0 -> 1 [] b = 1 -> 2 [] b = 2 -> 4
BitsOf(level) == {b \in 0 .. 2 : (level \div Weight(b)) % 2 = 1}
LevelOf(bits) == LET bit(b) == IF b \in bits THEN Weight(b) ELSE 0 IN bit(0) + bit(1) + bit(2)

Do(s) == Edit(s, "do", {})

uart_putc == <<Do("poll"), Do("push")>>
uart_getc == <<Do("get")>>

\* The bits of IE.
UART_TXWM == 0
UART_RXWM == 1

tx_interrupt_enable  == <<Edit("ie", "set", {UART_TXWM})>>
tx_interrupt_disable == <<Edit("ie", "clear", {UART_TXWM})>>
rx_interrupt_enable  == <<Edit("ie", "set", {UART_RXWM})>>
rx_interrupt_disable == <<Edit("ie", "clear", {UART_RXWM})>>

\* TXCTRL |= TXCNT(level): the bits of an earlier level stay.
set_tx_watermark(level) == <<Edit("txcnt", "set", BitsOf(level))>>
set_rx_watermark(level) == <<Edit("rxcnt", "set", BitsOf(level))>>

\* pre_rate_change_callback_func; the core's rate changes when it returns.
\* Mutant: _added sets the watermark of one without clearing the old one.
uart_pre_rate_change_added == <<Edit("txcnt", "set", BitsOf(1)), Do("empty"), Do("switch")>>
uart_pre_rate_change == <<Edit("txcnt", "clear", BitsOf(7)), Edit("txcnt", "set", BitsOf(1)),
                          Do("empty"), Do("switch")>>

\* What uart.h offers.
InterruptCalls == {tx_interrupt_enable, tx_interrupt_disable, rx_interrupt_enable, rx_interrupt_disable}
WatermarkCalls == {set_tx_watermark(l) : l \in UartLevels} \cup {set_rx_watermark(l) : l \in UartLevels}
UartCalls      == {uart_putc, uart_getc, uart_pre_rate_change} \cup InterruptCalls \cup WatermarkCalls

\* A service routine fetches a byte, sends one, or has had enough.
RoutineUartCalls == {uart_getc, uart_putc, tx_interrupt_disable, rx_interrupt_disable}

-----------------------------------------------------------------------------

\* No call follows one that was overtaken, or a lost byte: a bound.
UartEnter ==
    /\ ucalls["main"] = <<>> /\ ~ieRaced /\ ~dropped
    /\ \E c \in UartCalls :
        /\ ucalls' = [ucalls EXCEPT !["main"] = c]
        /\ rxLevel' = IF c[1].reg = "rxcnt" THEN LevelOf(c[1].pins) ELSE rxLevel
    /\ UNCHANGED <<uregs, txBytes, rxBytes, uheld, ieAsked, ieRaced, refilled, dropped>>

TxPending == txBytes < LevelOf(uregs["txcnt"])
RxPending == rxBytes > LevelOf(uregs["rxcnt"])

UartInterrupt ==
    /\ ucalls["irq"] = <<>>
    /\ (UART_TXWM \in uregs["ie"] /\ TxPending) \/ (UART_RXWM \in uregs["ie"] /\ RxPending)
    /\ \E c \in RoutineUartCalls : ucalls' = [ucalls EXCEPT !["irq"] = c]
    /\ UNCHANGED <<uregs, txBytes, rxBytes, uheld, uartHistory>>

UartRuns(a, s) == ucalls[a] # <<>> /\ Head(ucalls[a]).op = s /\ (a = "main" => ucalls["irq"] = <<>>)
UartDoes(a, s) == UartRuns(a, "do") /\ Head(ucalls[a]).reg = s
UartStepDone(a) == ucalls' = [ucalls EXCEPT ![a] = Tail(@)]
Edits(a) == \E o \in {"set", "clear"} : UartRuns(a, o)

ReadUart(a) ==
    /\ Edits(a) /\ uheld[a] = <<>>
    /\ uheld' = [uheld EXCEPT ![a] = <<uregs[Head(ucalls[a]).reg]>>]
    /\ UNCHANGED <<uregs, txBytes, rxBytes, ucalls, uartHistory>>

WriteUart(a) ==
    /\ Edits(a) /\ uheld[a] # <<>>
    /\ LET e == Head(ucalls[a])
       IN  /\ uregs' = [uregs EXCEPT ![e.reg] = Apply(e, uheld[a][1])]
           /\ ieAsked' = IF e.reg = "ie" THEN Apply(e, ieAsked) ELSE ieAsked
           /\ ieRaced' = (ieRaced \/ (a = "irq" /\ uheld["main"] # <<>> /\ Head(ucalls["main"]).reg = "ie"))
    /\ UartStepDone(a) /\ uheld' = [uheld EXCEPT ![a] = <<>>]
    /\ UNCHANGED <<txBytes, rxBytes, rxLevel, refilled, dropped>>

\* while (txready() != 0), which is TXDATA's full flag.
PollFull(a) ==
    /\ UartDoes(a, "poll") /\ txBytes < UartFifo
    /\ UartStepDone(a)
    /\ refilled' = IF a = "main" THEN FALSE ELSE refilled
    /\ UNCHANGED <<uregs, txBytes, rxBytes, uheld, rxLevel, ieAsked, ieRaced, dropped>>

PushByte(a) ==
    /\ UartDoes(a, "push")
    /\ UartStepDone(a)
    /\ IF txBytes < UartFifo THEN txBytes' = txBytes + 1 /\ UNCHANGED dropped
       ELSE dropped' = TRUE /\ UNCHANGED txBytes
    /\ refilled' = (refilled \/ a = "irq")
    /\ UNCHANGED <<uregs, rxBytes, uheld, rxLevel, ieAsked, ieRaced>>

\* One read takes the byte, or tells that there is none.
GetByte(a) ==
    /\ UartDoes(a, "get")
    /\ UartStepDone(a)
    /\ rxBytes' = IF rxBytes = 0 THEN 0 ELSE rxBytes - 1
    /\ UNCHANGED <<uregs, txBytes, uheld, uartHistory>>

\* while ((IP & TXWM) == 0).
SeeEmpty ==
    /\ UartDoes("main", "empty") /\ TxPending
    /\ UartStepDone("main") /\ refilled' = FALSE
    /\ UNCHANGED <<uregs, txBytes, rxBytes, uheld, rxLevel, ieAsked, ieRaced, dropped>>

SwitchRate ==
    /\ UartDoes("main", "switch")
    /\ UartStepDone("main")
    /\ UNCHANGED <<uregs, txBytes, rxBytes, uheld, uartHistory>>

\* The line; a byte that finds the receive FIFO full is lost.
UartLine ==
    /\ \/ txBytes > 0 /\ txBytes' = txBytes - 1 /\ UNCHANGED rxBytes
       \/ rxBytes < UartFifo /\ rxBytes' = rxBytes + 1 /\ UNCHANGED txBytes
    /\ UNCHANGED <<uregs, ucalls, uheld, uartHistory>>

Uart0Next ==
    \/ UartEnter \/ UartInterrupt \/ UartLine
    \/ \E a \in UartActors : ReadUart(a) \/ WriteUart(a) \/ PollFull(a) \/ PushByte(a) \/ GetByte(a)
    \/ SeeEmpty \/ SwitchRate

Uart0Spec == Uart0Init /\ [][Uart0Next]_metalUartVars

-----------------------------------------------------------------------------
(* sifive_uart0.c:107-115: a byte is lost only if the routine sent one      *)
(* between the program's poll and its write.                                *)
ByteLossNeedsRace == dropped' # dropped => UartDoes("main", "push") /\ refilled

(* sifive_uart0.c:45-71: what the calls ask of IE is so, unless the routine *)
(* disabled an interrupt between the program's read and its write.          *)
InterruptsAsAsked == ieRaced \/ uregs["ie"] = ieAsked

(* sifive_uart0.c:97: no interrupt for fewer bytes than were asked for, but *)
(* a receive watermark never comes down again.                              *)
ReceiveNeverEarly == ucalls["main"] = <<>> => rxLevel <= LevelOf(uregs["rxcnt"])
LevelsStay        == uregs["rxcnt"] \subseteq uregs'["rxcnt"]

(* sifive_uart0.c:163-167: when the rate changes the FIFO is empty, unless  *)
(* the routine has sent something since; and the transmit watermark is one, *)
(* whatever had been asked for.                                             *)
EmptyAtSwitch ==
    SwitchRate => (txBytes = 0 \/ refilled) /\ LevelOf(uregs["txcnt"]) = 1

(* sifive_uart0.c:45-181: a UART whose registers the program and its        *)
(* service routine share.                                                   *)
UartIsShared == /\ [](InterruptsAsAsked /\ ReceiveNeverEarly)
                /\ [][ByteLossNeedsRace /\ LevelsStay /\ EmptyAtSwitch]_metalUartVars
=============================================================================
