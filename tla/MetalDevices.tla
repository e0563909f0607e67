---------------------------- MODULE MetalDevices ----------------------------
(***************************************************************************)
(* The parts of freedom-metal whose registers or tables more than one call  *)
(* or more than one actor writes: its devices, the tables of handlers and the  *)
(* board's description.  A program uses one of them; what they share is not *)
(* what any of them is about.                                               *)
(***************************************************************************)
EXTENDS MetalInterrupts, MetalSpi, MetalPins, MetalWatchdog, MetalRtc, MetalHpm, MetalPmp, MetalPrivilege,
        MetalBoard, MetalTraps, MetalCalls, MetalClic, MetalUart, MetalPwm

VARIABLE part       \* the part the program uses

devicesVars == <<part, intVars, spi0Vars, pinsVars, wdogVars, rtc0Vars, hpmVars, pmpVars, privVars, boardVars, trapVars, clicVars,
                callVars, metalUartVars, metalPwmVars>>

\* What a part that is not used would choose at reset stays at one of its values.
DevicesInit ==
    /\ part \in {"interrupts", "spi", "pins", "watchdog", "rtc", "hpm", "pmp", "privilege", "board", "traps", "calls", "clic", "uart", "pwm"}
    /\ part = "hpm" \/ (programmable = 0 /\ hasEn = FALSE)
    /\ part = "pmp" \/ grain = CHOOSE g \in PmpGrains : TRUE
    /\ part = "privilege" \/ mstatus = [MIE |-> FALSE, MPIE |-> FALSE, MPP |-> "user"]
    /\ part = "clic" \/ intBits = CHOOSE b \in ClicIntBits : TRUE
    /\ IntInit /\ Spi0Init /\ PinsInit /\ WdogInit /\ Rtc0Init /\ HpmInit /\ PmpInit /\ PrivInit /\ BoardInit /\ TrapInit /\ ClicInit
    /\ CallInit /\ Uart0Init /\ Pwm0Init

\* The parts that the program does not use stand still, and a step that changes
\* nothing is left to the stuttering.
DevicesNext ==
    \/ /\ part = "interrupts" /\ IntNext /\ intVars' # intVars
       /\ UNCHANGED <<part, spi0Vars, pinsVars, wdogVars, rtc0Vars, hpmVars, pmpVars,
                      privVars, boardVars, trapVars, callVars, clicVars, metalUartVars, metalPwmVars>>
    \/ /\ part = "spi" /\ Spi0Next /\ spi0Vars' # spi0Vars
       /\ UNCHANGED <<part, intVars, pinsVars, wdogVars, rtc0Vars, hpmVars, pmpVars,
                      privVars, boardVars, trapVars, callVars, clicVars, metalUartVars, metalPwmVars>>
    \/ /\ part = "pins" /\ PinsNext /\ pinsVars' # pinsVars
       /\ UNCHANGED <<part, intVars, spi0Vars, wdogVars, rtc0Vars, hpmVars, pmpVars,
                      privVars, boardVars, trapVars, callVars, clicVars, metalUartVars, metalPwmVars>>
    \/ /\ part = "watchdog" /\ WdogNext /\ wdogVars' # wdogVars
       /\ UNCHANGED <<part, intVars, spi0Vars, pinsVars, rtc0Vars, hpmVars, pmpVars,
                      privVars, boardVars, trapVars, callVars, clicVars, metalUartVars, metalPwmVars>>
    \/ /\ part = "rtc" /\ Rtc0Next /\ rtc0Vars' # rtc0Vars
       /\ UNCHANGED <<part, intVars, spi0Vars, pinsVars, wdogVars, hpmVars, pmpVars,
                      privVars, boardVars, trapVars, callVars, clicVars, metalUartVars, metalPwmVars>>
    \/ /\ part = "hpm" /\ HpmNext /\ hpmVars' # hpmVars
       /\ UNCHANGED <<part, intVars, spi0Vars, pinsVars, wdogVars, rtc0Vars, pmpVars,
                      privVars, boardVars, trapVars, callVars, clicVars, metalUartVars, metalPwmVars>>
    \/ /\ part = "pmp" /\ PmpNext /\ pmpVars' # pmpVars
       /\ UNCHANGED <<part, intVars, spi0Vars, pinsVars, wdogVars, rtc0Vars, hpmVars,
                      privVars, boardVars, trapVars, callVars, clicVars, metalUartVars, metalPwmVars>>
    \/ /\ part = "privilege" /\ PrivNext /\ privVars' # privVars
       /\ UNCHANGED <<part, intVars, spi0Vars, pinsVars, wdogVars, rtc0Vars, hpmVars,
                      pmpVars, boardVars, trapVars, callVars, clicVars, metalUartVars, metalPwmVars>>
    \/ /\ part = "board" /\ BoardNext /\ boardVars' # boardVars
       /\ UNCHANGED <<part, intVars, spi0Vars, pinsVars, wdogVars, rtc0Vars, hpmVars,
                      pmpVars, privVars, trapVars, callVars, clicVars, metalUartVars, metalPwmVars>>
    \/ /\ part = "traps" /\ TrapsNext /\ trapVars' # trapVars
       /\ UNCHANGED <<part, intVars, spi0Vars, pinsVars, wdogVars, rtc0Vars, hpmVars,
                      pmpVars, privVars, boardVars, callVars, clicVars, metalUartVars, metalPwmVars>>
    \/ /\ part = "calls" /\ CallNext /\ callVars' # callVars
       /\ UNCHANGED <<part, intVars, spi0Vars, pinsVars, wdogVars, rtc0Vars, hpmVars,
                      pmpVars, privVars, boardVars, trapVars, clicVars, metalUartVars, metalPwmVars>>
    \/ /\ part = "clic" /\ ClicNext /\ clicVars' # clicVars
       /\ UNCHANGED <<part, intVars, spi0Vars, pinsVars, wdogVars, rtc0Vars, hpmVars,
                      pmpVars, privVars, boardVars, trapVars, callVars, metalUartVars, metalPwmVars>>
    \/ /\ part = "uart" /\ Uart0Next /\ metalUartVars' # metalUartVars
       /\ UNCHANGED <<part, intVars, spi0Vars, pinsVars, wdogVars, rtc0Vars, hpmVars,
                      pmpVars, privVars, boardVars, trapVars, callVars, clicVars, metalPwmVars>>
    \/ /\ part = "pwm" /\ Pwm0Next /\ metalPwmVars' # metalPwmVars
       /\ UNCHANGED <<part, intVars, spi0Vars, pinsVars, wdogVars, rtc0Vars, hpmVars,
                      pmpVars, privVars, boardVars, trapVars, callVars, clicVars, metalUartVars>>

DevicesSpec == DevicesInit /\ [][DevicesNext]_devicesVars

-----------------------------------------------------------------------------
(* Properties.                                                              *)

(* Interrupts come to their handlers (riscv_plic0.c:176), and the calls that *)
(* set their controllers up reach what they are about (interrupt.h:264).     *)
InterruptsAreServed == SourcesAreServed /\ CallsAreAnswered
=============================================================================
