------------------------------- MODULE Drivers -------------------------------
(***************************************************************************)
(* The parts of the driver collection that do without the interrupt         *)
(* controller: a program that uses one of them.  Each has its model of the  *)
(* pins it needs; what the drivers do to each other's pins is PinMux.       *)
(***************************************************************************)
EXTENDS PinMux, Uart, I2c, Pwm, Clocks, RtcTimer, Watchdog

VARIABLE used       \* the part the program uses

vars == <<used, pinVars, uartVars, i2cVars, pwmVars, clockVars, rtcVars, wdtVars>>

Init ==
    /\ used \in {"pins", "uart", "i2c", "pwm", "clocks", "rtc", "watchdog"}
    /\ PinsInit /\ UartInit /\ I2cInit /\ PwmInit /\ ClocksInit /\ RtcInit /\ WdtInit
    /\ used # "pins" => reg["IOF_EN"] = {}
    /\ used # "uart" => \A u \in Uarts : ~txen[u]
    /\ used # "rtc" => linked = "return" /\ mtimecmp.hi = 0
    /\ used # "watchdog" => cmp = 65535

\* The parts that the program does not use stand still.
Others(p) ==
    /\ UNCHANGED used
    /\ p # "pins" => UNCHANGED pinVars
    /\ p # "uart" => UNCHANGED uartVars
    /\ p # "i2c" => UNCHANGED i2cVars
    /\ p # "pwm" => UNCHANGED pwmVars
    /\ p # "clocks" => UNCHANGED clockVars
    /\ p # "rtc" => UNCHANGED rtcVars
    /\ p # "watchdog" => UNCHANGED wdtVars

Next ==
    \/ used = "pins" /\ PinsNext /\ Others("pins")
    \/ used = "uart" /\ UartNext /\ Others("uart")
    \/ used = "i2c" /\ I2cNext /\ Others("i2c")
    \/ used = "pwm" /\ PwmNext /\ Others("pwm")
    \/ used = "clocks" /\ ClocksNext /\ Others("clocks")
    \/ used = "rtc" /\ RtcNext /\ Others("rtc")
    \/ used = "watchdog" /\ WdtNext /\ Others("watchdog")

\* A port shifts its bytes out, and the hart executes whatever the program uses.
Fairness ==
    /\ UartFairness
    /\ \A who \in Actors : WF_vars(used = "rtc" /\ RtcStep(who) /\ Others("rtc"))

Spec == Init /\ [][Next]_vars /\ Fairness
=============================================================================
