------------------------------ MODULE MetalDemos ------------------------------
(***************************************************************************)
(* The two programs over freedom-metal.  HCSR501 shows a motion sensor on   *)
(* an LED once a second.  HCSR04 once a second starts a pulse that makes a  *)
(* distance sensor answer with an echo, and counts the time while its pin   *)
(* is high.  Both wait for the second with wait_for_timer, whose accesses   *)
(* MetalTimer has; here the compare value is the ticks it is ahead.         *)
(***************************************************************************)
EXTENDS Integers, Sequences

CONSTANTS
    Second,     \* RTC_FREQ
    EchoMost    \* how long after the trigger a sensor's echo ends

ASSUME DemosAssumption == {Second, EchoMost} \subseteq Nat /\ EchoMost < Second

VARIABLES
    demo,       \* the program
    dpc, done,  \* main: where it is, and how many of its preparations are made
    pin,        \* the level of the sensor's pin
    led, level, \* the LED, and the level that was read for it
    ahead,      \* how many ticks mtimecmp is ahead of mtime, 0 when past
    dtie, dflag,    \* mie.MTIE and timer_isr_flag
    pulse, answers, \* the one-shot pulse is on; its echo is still to come
    age         \* the ticks since the trigger

demoSensor == <<pin, pulse, answers, age>>
demosVars  == <<demo, dpc, done, led, level, ahead, dtie, dflag, demoSensor>>

\* What the mains do before their loops.
HCSR501_main == <<"led_enable", "led_off", "enable_input", "cpu", "timer", "register", "enable">>
HCSR04_main  == <<"enable_input", "cpu", "timer", "register", "enable", "set_rate", "pwm_enable">>

Preparations == IF demo = "HCSR04" THEN HCSR04_main ELSE HCSR501_main
Prepared(s)  == \E k \in 1 .. done : Preparations[k] = s

\* An LED that nobody has switched off may be on, a compare value anywhere.
DemosInit ==
    /\ demo \in {"HCSR04", "HCSR501"} /\ dpc = "prepare" /\ done = 0
    /\ pin = FALSE /\ led \in BOOLEAN /\ level = FALSE
    /\ ahead \in {0, Second} /\ dtie = FALSE /\ dflag = 0
    /\ pulse = FALSE /\ answers = FALSE /\ age = EchoMost

MainAt(s, to) == dpc = s /\ dpc' = to

Prepare ==
    /\ dpc = "prepare"
    /\ done' = done + 1
    /\ dpc' = IF done' = Len(Preparations) THEN "loop" ELSE "prepare"
    /\ led' = (led /\ Preparations[done'] # "led_off")
    /\ UNCHANGED <<demo, level, ahead, dtie, dflag, demoSensor>>

-----------------------------------------------------------------------------
(* The rounds.                                                              *)

\* HCSR04: frequency and duties are set, and metal_pwm_trigger starts a pulse.
TriggerSensor ==
    /\ demo = "HCSR04" /\ MainAt("loop", "measure")
    /\ pulse' = Prepared("pwm_enable") /\ answers' = FALSE /\ age' = 0
    /\ UNCHANGED <<demo, done, pin, led, level, ahead, dtie, dflag>>

\* An input that is not enabled reads as 0.
InputHigh == pin /\ Prepared("enable_input")

\* The loop over the echo ends; then the time is printed.
EchoOver ==
    /\ MainAt("measure", "clear") /\ ~InputHigh
    /\ UNCHANGED <<demo, done, led, level, ahead, dtie, dflag, demoSensor>>

\* timer_isr_flag = 0, the first statement of wait_for_timer.
ClearFlag ==
    /\ IF demo = "HCSR04" THEN MainAt("clear", "arm") ELSE MainAt("loop", "read")
    /\ dflag' = 0
    /\ UNCHANGED <<demo, done, led, level, ahead, dtie, demoSensor>>

ReadMotion ==
    /\ MainAt("read", "show")
    /\ level' = InputHigh
    /\ UNCHANGED <<demo, done, led, ahead, dtie, dflag, demoSensor>>

ShowMotion ==
    /\ MainAt("show", "arm")
    /\ led' = level
    /\ UNCHANGED <<demo, done, level, ahead, dtie, dflag, demoSensor>>

\* Mutant: _stale leaves the old compare value.
SetAhead_stale == ahead
SetAhead       == Second

ArmTimer ==
    /\ MainAt("arm", "enable")
    /\ ahead' = SetAhead
    /\ UNCHANGED <<demo, done, led, level, dtie, dflag, demoSensor>>

EnableInterrupt ==
    /\ MainAt("enable", "spin")
    /\ dtie' = TRUE
    /\ UNCHANGED <<demo, done, led, level, ahead, dflag, demoSensor>>

SeeFlag ==
    /\ MainAt("spin", "loop") /\ dflag = 1
    /\ dflag' = 0
    /\ UNCHANGED <<demo, done, led, level, ahead, dtie, demoSensor>>

DemoMain == \/ Prepare \/ TriggerSensor \/ EchoOver \/ ClearFlag \/ ReadMotion \/ ShowMotion
            \/ ArmTimer \/ EnableInterrupt \/ SeeFlag

\* The interrupt, if MIE is set; its handler disables it.
timer_isr ==
    /\ dtie /\ ahead = 0 /\ Prepared("enable") /\ Prepared("register")
    /\ dtie' = FALSE /\ dflag' = 1
    /\ UNCHANGED <<demo, dpc, done, led, level, ahead, demoSensor>>

-----------------------------------------------------------------------------
(* The world.  A motion sensor's pin changes as it likes.  A distance       *)
(* sensor answers a pulse with one echo, which is over in time.             *)

DemoTick ==
    /\ pulse \/ (pin /\ demo = "HCSR04") => age < EchoMost
    /\ ahead' = IF ahead = 0 THEN 0 ELSE ahead - 1
    /\ age' = IF age = EchoMost THEN age ELSE age + 1
    /\ UNCHANGED <<demo, dpc, done, pin, led, level, dtie, dflag, pulse, answers>>

PulseEnds ==
    /\ pulse
    /\ pulse' = FALSE /\ answers' = TRUE
    /\ UNCHANGED <<demo, dpc, done, pin, led, level, ahead, dtie, dflag, age>>

PinRises ==
    /\ ~pin /\ (demo = "HCSR04" => answers /\ age < EchoMost)
    /\ pin' = TRUE /\ answers' = FALSE
    /\ UNCHANGED <<demo, dpc, done, led, level, ahead, dtie, dflag, pulse, age>>

PinFalls ==
    /\ pin /\ pin' = FALSE
    /\ UNCHANGED <<demo, dpc, done, led, level, ahead, dtie, dflag, pulse, answers, age>>

EchoEnds == demo = "HCSR04" /\ PinFalls

DemosNext == DemoMain \/ timer_isr \/ DemoTick \/ PulseEnds \/ PinRises \/ PinFalls

-----------------------------------------------------------------------------
(* HCSR04:132-141, HCSR501:65-90.  A trigger finds the sensor at rest,       *)
(* because a whole wait has passed since the last one: no echo is taken for  *)
(* that of a later pulse.  (Whether its own is counted depends on the moment *)
(* it begins: the loop at HCSR04:135 ends at once if it has not.)  The LED  *)
(* shows whether there is motion whenever that stays as it is for long       *)
(* enough.  Both programs go round for ever.                                 *)
DemosGoOn ==
    /\ [](demo = "HCSR04" /\ dpc = "loop" => ~pulse /\ ~pin)
    /\ (demo = "HCSR501" /\ dpc # "prepare") ~> (led = pin)
    /\ (dpc # "prepare") ~> (dpc = "loop")
=============================================================================
