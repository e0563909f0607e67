-------------------------------- MODULE MetalPins --------------------------------
(***************************************************************************)
(* sifive_gpio0.c and what freedom-metal's LEDs and drivers do with it:      *)
(* every call reads registers and writes them back, and the service routine  *)
(* of a pin may run between the two.  Registers are sets of pins.            *)
(***************************************************************************)
EXTENDS MetalBoard, MetalEdits

CONSTANTS
    PinUsers,       \* drivers, of "i2c0", "pwm2", "spi1" and "pwm0"
    PinLeds,        \* pins of LEDs
    PinTrigger,     \* the pin whose service routine clears its interrupt
    PinKinds        \* of "rise", "fall", "high" and "low"

ASSUME PinAssumption == /\ PinUsers \subseteq {"i2c0", "pwm2", "spi1", "pwm0"}
                        /\ PinKinds \subseteq {"rise", "fall", "high", "low"}
                        /\ PinLeds \cup {PinTrigger} \subseteq 0 .. 31

VARIABLES
    gpio,           \* the registers
    edits,          \* what each of "main" and "irq" has left to do of its call
    seen,           \* what it read for the first of them; <<>> before the read
    ledsAsked,      \* what the calls to the LEDs ask of PORT (history)
    raced           \* the routine wrote PORT while main held what it had read (history)

pinsVars == <<gpio, edits, seen, ledsAsked, raced>>

Enables(k)  == CASE k = "rise" -> "rise_ie" [] k = "fall" -> "fall_ie" [] k = "high" -> "high_ie" [] OTHER -> "low_ie"
Pendings(k) == CASE k = "rise" -> "rise_ip" [] k = "fall" -> "fall_ip" [] k = "high" -> "high_ip" [] OTHER -> "low_ip"
PendingRegs == {Pendings(k) : k \in PinKinds}
GpioRegs == {"input_en", "output_en", "port", "iof_en", "iof_sel"} \cup PendingRegs
                \cup {Enables(k) : k \in PinKinds}

PinsInit ==
    /\ gpio = [r \in GpioRegs |-> {}]
    /\ edits = [a \in {"main", "irq"} |-> <<>>] /\ seen = [a \in {"main", "irq"} |-> <<>>]
    /\ ledsAsked = {} /\ raced = FALSE

-----------------------------------------------------------------------------
(* The calls, as what they do to registers, in order.                       *)

\* The pins of a driver, and those whose second function it takes.
Source(u)   == Registers(u).pins
Selector(u) == Registers(u).sel
enable_io(u)  == <<Edit("iof_sel", "set", Selector(u)), Edit("iof_en", "set", Source(u))>>
disable_io(u) == <<Edit("iof_en", "clear", Source(u))>>

led_enable(p) == <<Edit("input_en", "clear", {p}), Edit("output_en", "set", {p})>>

\* output_set, output_clear and output_toggle.
Output(o, p) == <<Edit("port", o, {p})>>

\* One edit for each kind of a set of kinds, which clear_int and config_int take.
ForKinds(ks, reg(_), o, p) ==
    LET one(k) == IF k \in ks \cap PinKinds THEN <<Edit(reg(k), o, {p})>> ELSE <<>>
    IN  one("rise") \o one("fall") \o one("high") \o one("low")

IntTypes == {{"rise"}, {"fall"}, {"rise", "fall"}, {"high"}, {"low"}, {"high", "low"},
             {"rise", "fall", "high", "low"}}
\* config_int only adds kinds, but for METAL_GPIO_INT_DISABLE.
config_int(p, ks) == ForKinds(ks, Enables, "set", p)
config_int_off(p) == ForKinds(PinKinds, Enables, "clear", p)
clear_int(p, ks)  == ForKinds(ks, Pendings, "set", p)

\* What gpio.h offers for a pin, and led.h for an LED's.
DirectionCalls(p) == {<<Edit(r, o, {p})>> : r \in {"input_en", "output_en"}, o \in {"set", "clear"}}
set_pin(p, value) == Output(IF value THEN "set" ELSE "clear", p)
OutputCalls(p)    == {set_pin(p, value) : value \in BOOLEAN} \cup {Output(o, p) : o \in {"clear", "toggle"}}
PinIntCalls(p)    == {config_int_off(p)} \cup UNION {{config_int(p, ks), clear_int(p, ks)} : ks \in IntTypes}

PinCalls ==
    {enable_io(u) : u \in PinUsers} \cup {disable_io(u) : u \in PinUsers \cap {"pwm0", "pwm2"}}
        \cup (UNION {{led_enable(p)} \cup OutputCalls(p) : p \in PinLeds})
        \cup DirectionCalls(PinTrigger) \cup PinIntCalls(PinTrigger)

\* The service routine: it clears what interrupted and toggles an LED.
IrqCalls == {clear_int(PinTrigger, PinKinds) \o Output("toggle", p) : p \in PinLeds}

-----------------------------------------------------------------------------

EnterCall ==
    /\ edits["main"] = <<>>
    /\ \E c \in PinCalls : edits' = [edits EXCEPT !["main"] = c]
    /\ UNCHANGED <<gpio, seen, ledsAsked, raced>>

\* The hart takes the interrupt of a pin that is pending and enabled.
Interrupt ==
    /\ edits["irq"] = <<>>
    /\ \E k \in PinKinds : PinTrigger \in gpio[Enables(k)] \cap gpio[Pendings(k)]
    /\ \E c \in IrqCalls : edits' = [edits EXCEPT !["irq"] = c]
    /\ UNCHANGED <<gpio, seen, ledsAsked, raced>>

Runs(a) == edits[a] # <<>> /\ (a = "main" => edits["irq"] = <<>>)

ReadReg(a) ==
    /\ Runs(a) /\ seen[a] = <<>>
    /\ seen' = [seen EXCEPT ![a] = <<gpio[Head(edits[a]).reg]>>]
    /\ UNCHANGED <<gpio, edits, ledsAsked, raced>>

\* A one written to a pending bit clears it.
Stored(r, v) == IF r \in PendingRegs THEN gpio[r] \ v ELSE v

\* What is written back.  Mutant: _source writes the pins alone.
Result_source(e, v)   == e.pins
Result(e, v)          == Apply(e, v)

WriteReg(a) ==
    /\ Runs(a) /\ seen[a] # <<>>
    /\ LET e == Head(edits[a])
       IN  /\ gpio' = [gpio EXCEPT ![e.reg] = Stored(e.reg, Result(e, seen[a][1]))]
           /\ ledsAsked' = IF e.reg = "port" THEN Apply(e, ledsAsked) ELSE ledsAsked
           /\ raced' = (raced \/ (a = "irq" /\ e.reg = "port" /\ seen["main"] # <<>>
                                    /\ Head(edits["main"]).reg = "port"))
    /\ edits' = [edits EXCEPT ![a] = Tail(@)]
    /\ seen' = [seen EXCEPT ![a] = <<>>]

\* An edge or a level on the pin, or on an LED's.
PinChanges ==
    /\ \E k \in PinKinds, p \in PinLeds \cup {PinTrigger} :
        gpio' = [gpio EXCEPT ![Pendings(k)] = @ \cup {p}]
    /\ UNCHANGED <<edits, seen, ledsAsked, raced>>

PinsNext == EnterCall \/ Interrupt \/ PinChanges \/ \E a \in {"main", "irq"} : ReadReg(a) \/ WriteReg(a)

PinsSpec == PinsInit /\ [][PinsNext]_pinsVars

-----------------------------------------------------------------------------
(* sifive_gpio0.c:102-105: a pin that served a PWM serves no other device   *)
(* until a reset: nothing takes the second function from it, so that I2C    *)
(* after PWM 2 is on pins that still are the PWM's.                         *)
PwmKeepsItsPins == gpio["iof_sel"] \subseteq gpio'["iof_sel"]

(* sifive_gpio0.c:181-219: clearing the interrupt of one pin clears that of *)
(* every pin which was pending when the register was read.                  *)
ClearSweepsAll ==
    \A a \in {"main", "irq"} :
        (seen[a] # <<>> /\ edits'[a] # edits[a] /\ Head(edits[a]).reg \in PendingRegs)
            => gpio'[Head(edits[a]).reg] \cap seen[a][1] = {}

(* sifive_gpio0.c:70-219: what a call about some pins does to the others.   *)
(* The LEDs are as the calls asked, as long as the routine never wrote them *)
(* between a read and the write of the program.                             *)
PinsAreShared == [][PwmKeepsItsPins /\ ClearSweepsAll]_pinsVars /\ [](raced \/ gpio["port"] = ledsAsked)
=============================================================================
