-------------------------------- MODULE Uart --------------------------------
(***************************************************************************)
(* The two serial ports of uart.c.  The foreground opens, closes, sends and *)
(* receives; a service routine may send between two of its accesses.  A     *)
(* byte is only counted: what matters is whether it is lost on its way.     *)
(*                                                                         *)
(* The driver enables nothing: UART_TXEN and UART_RXEN are the number 1,    *)
(* shifted once more they are bit 1, and the enables are bit 0.  txen and   *)
(* rxen are what the program that ran before left there.                    *)
(***************************************************************************)
EXTENDS Integers

CONSTANTS
    Depth,          \* the size of each FIFO, 8 in the chip
    MaxSent,        \* the bound on the sends
    MaxArrived      \* the bound on the bytes that arrive

ASSUME UartDepthAssumption == Depth \in Nat \ {0}
ASSUME UartBoundAssumption == MaxSent \in Nat /\ MaxArrived \in Nat

Uarts    == 0 .. 1
Callers  == {"main", "isr"}
IntTypes == 0 .. 1          \* type - 1

VARIABLES
    uart_active,        \* uart_active[]
    uart_int_active,    \* uart_int_active[][]
    txen, rxen,         \* bit 0 of TXCTRL and RXCTRL
    txq, rxq,           \* the bytes in the FIFOs
    upc, on,            \* where each call is, and its uart argument
    opened,             \* how often uart_init succeeded (history)
    calls,              \* the sends made on each port (history)
    dropped,            \* the bytes written to a full TXFIFO (history)
    raced,              \* the service routine sent since main's poll (history)
    arrived,            \* the bytes that arrived (history)
    popped, good        \* bytes taken from RXFIFO, bytes returned (history)

uartVars == <<uart_active, uart_int_active, txen, rxen, txq, rxq, upc, on, opened,
              calls, dropped, raced, arrived, popped, good>>
uartCall == <<calls, dropped, raced>>
uartRx   == <<rxq, arrived, popped, good>>
uartSet  == <<uart_active, uart_int_active, opened, txen, rxen>>

UartInit ==
    /\ uart_active = [u \in Uarts |-> FALSE]
    /\ uart_int_active = [i \in Uarts |-> [t \in IntTypes |-> FALSE]]
    /\ txen \in [Uarts -> BOOLEAN] /\ rxen = txen
    /\ txq = [u \in Uarts |-> 0] /\ rxq = txq
    /\ upc = [a \in Callers |-> "idle"] /\ on = [a \in Callers |-> 0]
    /\ opened = [u \in Uarts |-> 0] /\ calls = opened
    /\ dropped = 0 /\ raced = FALSE /\ arrived = 0
    /\ popped = [u \in Uarts |-> 0] /\ good = popped

\* A caller runs when it is the service routine, or no service routine is.
Alone(a) == a = "isr" \/ upc["isr"] = "idle"
Free(a)  == Alone(a) /\ upc[a] = "idle"

\* What uart_init leaves in the enables of port u.
TxEnable(u) == IF u = 0 THEN FALSE ELSE txen[u]

RxEnable(u) == IF u = 0 THEN FALSE ELSE rxen[u]

uart_init(u) ==
    /\ Free("main") /\ ~uart_active[u]
    /\ uart_active' = [uart_active EXCEPT ![u] = TRUE]
    /\ opened' = [opened EXCEPT ![u] = @ + 1]
    /\ txen' = [txen EXCEPT ![u] = TxEnable(u)]
    /\ rxen' = [rxen EXCEPT ![u] = RxEnable(u)]
    /\ UNCHANGED <<uart_int_active, txq, upc, on, uartCall, uartRx>>

\* uart_close releases the pins and leaves the port active.
StateAfterClose == TRUE

uart_close(u) ==
    /\ Free("main") /\ uart_active[u]
    /\ uart_active' = [uart_active EXCEPT ![u] = StateAfterClose]
    /\ UNCHANGED <<uart_int_active, opened, txen, rxen, txq, upc, on, uartCall, uartRx>>

\* The guard reads [type - 1][uart] where the assignments use [uart][type - 1].
MayEnable(u, t) == uart_active[u] /\ uart_int_active[t][u]

uart_interrupt_enable(u, t) ==
    /\ Free("main")
    /\ uart_int_active' = IF MayEnable(u, t) THEN [uart_int_active EXCEPT ![u][t] = TRUE]
                                             ELSE uart_int_active
    /\ UNCHANGED <<uart_active, opened, txen, rxen, txq, upc, on, uartCall, uartRx>>

uart_interrupt_disable(u, t) ==
    /\ Free("main") /\ uart_active[u] /\ ~uart_int_active[t][u]
    /\ uart_int_active' = [uart_int_active EXCEPT ![u][t] = FALSE]
    /\ UNCHANGED <<uart_active, opened, txen, rxen, txq, upc, on, uartCall, uartRx>>

uart_send(a, u) ==
    /\ Free(a) /\ uart_active[u] /\ calls[u] < MaxSent
    /\ upc' = [upc EXCEPT ![a] = "poll"] /\ on' = [on EXCEPT ![a] = u]
    /\ calls' = [calls EXCEPT ![u] = @ + 1]
    /\ UNCHANGED <<uartSet, txq, dropped, raced, uartRx>>

\* while (TXFIFO & full): the loop is left when the flag is clear.
\* Mutant: _unpolled does not look.
NotFull_unpolled(u) == TRUE
NotFull(u)          == txq[u] < Depth

Poll(a) ==
    /\ Alone(a) /\ upc[a] = "poll" /\ NotFull(on[a])
    /\ upc' = [upc EXCEPT ![a] = "push"]
    /\ raced' = IF a = "main" THEN FALSE ELSE raced
    /\ UNCHANGED <<uartSet, on, txq, calls, dropped, uartRx>>

\* TXFIFO |= byte: the byte written while the FIFO is full is dropped.
Push(a) ==
    /\ Alone(a) /\ upc[a] = "push"
    /\ LET u == on[a] IN
       /\ txq' = [txq EXCEPT ![u] = IF @ < Depth THEN @ + 1 ELSE @]
       /\ dropped' = IF txq[u] < Depth THEN dropped ELSE dropped + 1
       /\ raced' = (raced \/ (a = "isr" /\ upc["main"] = "push" /\ on["main"] = u))
    /\ upc' = [upc EXCEPT ![a] = "idle"]
    /\ UNCHANGED <<uartSet, on, calls, uartRx>>

uart_receive(u) ==
    /\ Free("main") /\ uart_active[u]
    /\ upc' = [upc EXCEPT !["main"] = "wait"] /\ on' = [on EXCEPT !["main"] = u]
    /\ UNCHANGED <<uartSet, txq, uartCall, uartRx>>

\* The read that finds the FIFO not empty takes a byte; the next statement
\* reads again, and gets the byte after it or the empty flag.
AfterWait      == "read"

Wait ==
    /\ Alone("main") /\ upc["main"] = "wait"
    /\ LET u == on["main"] IN
       /\ rxq[u] > 0
       /\ rxq' = [rxq EXCEPT ![u] = @ - 1]
       /\ popped' = [popped EXCEPT ![u] = @ + 1]
       /\ good' = IF AfterWait = "idle" THEN [good EXCEPT ![u] = @ + 1] ELSE good
    /\ upc' = [upc EXCEPT !["main"] = AfterWait]
    /\ UNCHANGED <<uartSet, on, txq, uartCall, arrived>>

Read ==
    /\ Alone("main") /\ upc["main"] = "read"
    /\ LET u == on["main"]
           n == IF rxq[u] > 0 THEN 1 ELSE 0 IN
       /\ rxq' = [rxq EXCEPT ![u] = @ - n]
       /\ popped' = [popped EXCEPT ![u] = @ + n]
       /\ good' = [good EXCEPT ![u] = @ + n]
    /\ upc' = [upc EXCEPT !["main"] = "idle"]
    /\ UNCHANGED <<uartSet, on, txq, uartCall, arrived>>

\* The port: a byte leaves, a byte arrives.
Leaves(u) ==
    /\ txen[u] /\ txq[u] > 0
    /\ txq' = [txq EXCEPT ![u] = @ - 1]
    /\ UNCHANGED <<uartSet, upc, on, uartCall, uartRx>>

Arrives(u) ==
    /\ rxen[u] /\ rxq[u] < Depth /\ arrived < MaxArrived
    /\ rxq' = [rxq EXCEPT ![u] = @ + 1] /\ arrived' = arrived + 1
    /\ UNCHANGED <<uartSet, txq, upc, on, uartCall, popped, good>>

UartStep(a) == Poll(a) \/ Push(a) \/ (a = "main" /\ (Wait \/ Read))

UartNext ==
    \/ \E u \in Uarts : \/ uart_init(u) \/ uart_close(u) \/ uart_receive(u)
                        \/ Leaves(u) \/ Arrives(u)
                        \/ \E a \in Callers : uart_send(a, u)
                        \/ \E t \in IntTypes : \/ uart_interrupt_enable(u, t)
                                               \/ uart_interrupt_disable(u, t)
    \/ \E a \in Callers : UartStep(a)

\* The processor runs the calls and the port shifts its bytes out.
UartFairness ==
    /\ \A a \in Callers : WF_uartVars(UartStep(a))
    /\ \A u \in Uarts : WF_uartVars(Leaves(u))

-----------------------------------------------------------------------------
(* uart.c:87-91: TXFIFO is polled and written in separate accesses.  A byte *)
(* is dropped only in a call of the foreground that the service routine has *)
(* overtaken on the same port, and only one in such a call.                 *)
UartLossNeedsRace ==
    [][dropped' # dropped => (dropped' = dropped + 1 /\ raced /\ upc["isr"] = "idle")]_uartVars

(* uart.c:122-124: a receive takes a byte to end its wait and another to    *)
(* return: of the bytes a port received no more than every other reaches    *)
(* the caller, in whatever rhythm they arrive.                              *)
UartEveryOtherByte ==
    \A u \in Uarts : 2 * good[u] + (IF upc["main"] = "read" /\ on["main"] = u THEN 1 ELSE 0)
                        <= popped[u]

(* uart.c:191, 202: the two flags of a port stick.  However it is opened    *)
(* and closed, a port opens once, because closing leaves it active; and the  *)
(* interrupt of a port is enabled only where the transposed entry already   *)
(* is, so by no sequence of calls is any ever enabled.                      *)
UartStatesStick ==
    /\ \A u \in Uarts : opened[u] <= 1
    /\ \A i \in Uarts, t \in IntTypes : ~uart_int_active[i][t]

(* uart.c:87: on a port whose transmitter is on, a send returns, whatever   *)
(* the service routine sends meanwhile, as long as it stops; unless the     *)
(* service routine itself is left waiting on a port that is off.            *)
UartSendReturns ==
    \A u \in Uarts :
        (upc["main"] = "poll" /\ on["main"] = u /\ txen[u])
            ~> \/ upc["main"] = "idle"
               \/ upc["isr"] = "poll" /\ ~txen[on["isr"]]

(* What the driver of uart.c keeps of its bytes and what it loses: only the *)
(* race at line 91 drops one, a receive returns every other one at most     *)
(* (lines 122-124), a port opens once (line 191), and a send returns (87).  *)
UartKeepsItsBytes ==
    /\ UartLossNeedsRace
    /\ [](UartEveryOtherByte /\ UartStatesStick)
    /\ UartSendReturns
=============================================================================
