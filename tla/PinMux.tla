------------------------------- MODULE PinMux -------------------------------
(***************************************************************************)
(* The GPIO configuration registers, which every driver changes a few bits  *)
(* of.  A C statement REG |= mask is a load, and a store of the value with  *)
(* the bits changed: what is written to the register in between is undone.  *)
(* The foreground opens and closes devices; a service routine may set an    *)
(* output between any two of its accesses, and is not interrupted itself.   *)
(*                                                                         *)
(* claimed and served are history variables: the pins the open devices      *)
(* count on, and whether the service routine has run since the last load.   *)
(***************************************************************************)
EXTENDS Integers, Sequences

CONSTANTS
    Devices,    \* the devices that are opened and closed
    CsPins,     \* the pins passed to spi_set_cs
    Outputs,    \* the pins passed to gpio_init_output and gpio_setoutput
    Inputs,     \* the pins passed to gpio_init_input
    PwmPins,    \* the pins passed to pwm_set_pulsewidth
    IsrPins     \* the pins a service routine sets

MAXPIN == 20

ASSUME DevicesAssumption == Devices \subseteq {"uart0", "uart1", "spi", "i2c"}
ASSUME PinsAssumption    == Outputs \cup Inputs \cup IsrPins \subseteq Nat

\* spi_set_cs and pwm_set_pulsewidth index variant_pin_map without a check.
ASSUME UncheckedAssumption == CsPins \cup PwmPins \subseteq 0 .. MAXPIN - 1

Gpios == 0 .. 30
Regs  == {"OUTPUT_XOR", "IOF_EN", "INPUT_EN", "OUTPUT_EN", "PULLUP_EN", "IOF_SEL", "OUTPUT_VAL"}

\* variant_pin_map[pin].bit_pos
bit_pos(pin) == IF pin < 8 THEN 16 + pin ELSE IF pin < 14 THEN pin - 8 ELSE pin - 6

UART0 == {16, 17}
UART1 == {18, 19}
SPI1_MISO == 4
SPI1_MOSI == 3
SPI1_SCK  == 5
SPI1_SS   == {2, 8, 9, 10}

\* GPIO_I2C_SCL is 12 and GPIO_I2C_SDA 13, and i2c.c uses them as masks.
SCL_MASK == {2, 3}
SDA_MASK == {0, 2, 3}

-----------------------------------------------------------------------------
(* The statements of each call: a register, a mask, and set or clear.      *)

Sets(r, mask)   == [reg |-> r, mask |-> mask, set |-> TRUE]
Clears(r, mask) == [reg |-> r, mask |-> mask, set |-> FALSE]

Iof0(g)    == <<Sets("IOF_EN", {g}), Clears("IOF_SEL", {g})>>
Release(g) == <<Clears("OUTPUT_XOR", {g}), Clears("IOF_EN", {g}), Clears("INPUT_EN", {g}),
                Clears("OUTPUT_EN", {g}), Clears("PULLUP_EN", {g}), Clears("IOF_SEL", {g})>>

uart0_init == Iof0(16) \o Iof0(17)
uart1_init ==
       <<Clears("OUTPUT_XOR", {19}), Sets("IOF_EN", {19}), Sets("INPUT_EN", {19}),
         Clears("OUTPUT_EN", {19}), Clears("PULLUP_EN", {19}), Clears("IOF_SEL", {19})>>
    \o <<Sets("OUTPUT_XOR", {18}), Sets("IOF_EN", {18}), Clears("INPUT_EN", {18}),
         Sets("OUTPUT_EN", {18}), Clears("PULLUP_EN", {18}), Clears("IOF_SEL", {18})>>
uart0_close == Release(16) \o Release(17)
\* Mutant: the pins of UART0 are released instead.
uart1_close_copied == Release(17) \o Release(18)
uart1_close == Release(19) \o Release(18)

spi_init   == Iof0(SPI1_MISO) \o Iof0(SPI1_MOSI) \o Iof0(SPI1_SCK)
spi_set_cs(pin) == Iof0(bit_pos(pin))
spi_close  == Release(4) \o Release(3) \o Release(5)
           \o Release(2) \o Release(8) \o Release(9) \o Release(10)

i2c_pin   == <<Sets("IOF_EN", SDA_MASK), Sets("IOF_EN", SCL_MASK),
               Clears("IOF_SEL", SDA_MASK), Clears("IOF_SEL", SCL_MASK)>>
i2c_unpin == <<Clears("IOF_EN", SDA_MASK), Clears("IOF_EN", SCL_MASK),
               Clears("IOF_SEL", SDA_MASK), Clears("IOF_SEL", SCL_MASK)>>

pwm_pin(g) ==
    <<Clears("OUTPUT_XOR", {g}), Clears("IOF_EN", {g}), Clears("INPUT_EN", {g}),
      Sets("OUTPUT_EN", {g}), Clears("PULLUP_EN", {g}),
      Sets("IOF_EN", {g}), Sets("IOF_SEL", {g}), Sets("OUTPUT_XOR", {g})>>

gpio_init_output(g, xor) ==
    <<Clears("INPUT_EN", {g}), Sets("OUTPUT_EN", {g}), Clears("PULLUP_EN", {g}),
      [reg |-> "OUTPUT_XOR", mask |-> {g}, set |-> xor]>>
gpio_init_input(g, pup) ==
    <<Sets("INPUT_EN", {g}), Clears("OUTPUT_EN", {g}), Clears("OUTPUT_XOR", {g}),
      [reg |-> "PULLUP_EN", mask |-> {g}, set |-> pup]>>
gpio_setoutput(g, val) == <<[reg |-> "OUTPUT_VAL", mask |-> {g}, set |-> val]>>

InitOf(d) ==
    CASE d = "uart0" -> uart0_init [] d = "uart1" -> uart1_init
      [] d = "spi"   -> spi_init   [] d = "i2c"   -> i2c_pin
CloseOf(d) ==
    CASE d = "uart0" -> uart0_close [] d = "uart1" -> uart1_close
      [] d = "spi"   -> spi_close   [] d = "i2c"   -> i2c_unpin

VARIABLES
    reg,        \* the registers, each as the set of its bits that are 1
    inUse,      \* uart_active, s->spi_num and isc->active
    access,     \* the foreground's call: its statements, the next one,
                \* and the value it has loaded
    claimed, served

pinVars == <<reg, inUse, access, claimed, served>>

NoClaim == [iof0 |-> {}, iof1 |-> {}]

NoAccess == [claims |-> NoClaim, pins |-> {}, todo |-> <<>>, loaded |-> {}, stage |-> "idle"]

\* The boot loader may have left UART0 connected.
PinsInit ==
    /\ \E iof \in {{}, UART0} : reg = [r \in Regs |-> IF r = "IOF_EN" THEN iof ELSE {}]
    /\ inUse = {} /\ access = NoAccess
    /\ claimed = NoClaim /\ served = FALSE

-----------------------------------------------------------------------------
(* The calls.  `pins' are those the call is about, `claims' the ones that   *)
(* are connected to a device once the call has returned.                   *)

PinsOf(d) ==
    CASE d = "uart0" -> UART0 [] d = "uart1" -> UART1
      [] d = "spi"   -> {SPI1_MISO, SPI1_MOSI, SPI1_SCK}
      [] d = "i2c"   -> {12, 13}

Iof0Claim(pins) == [iof0 |-> pins, iof1 |-> {}]
Iof1Claim(pins) == [iof0 |-> {}, iof1 |-> pins]

BeginPins(claims, pins, todo) ==
    /\ access.stage = "idle"
    /\ access' = [claims |-> claims, pins |-> pins, todo |-> todo, loaded |-> {}, stage |-> "load"]
    /\ UNCHANGED <<reg, served>>

\* uart_init refuses an active UART; spi_init and i2c_init do not look.
Open(d) ==
    /\ d \in {"uart0", "uart1"} => d \notin inUse
    /\ inUse' = inUse \cup {d}
    /\ BeginPins(Iof0Claim(PinsOf(d)), PinsOf(d), InitOf(d))
    /\ UNCHANGED claimed

\* uart_close leaves the UART active.
Close(d) ==
    /\ d \in inUse
    /\ inUse' = IF d \in {"uart0", "uart1"} THEN inUse ELSE inUse \ {d}
    /\ LET pins == PinsOf(d) \cup (IF d = "spi" THEN SPI1_SS ELSE {}) IN
        /\ BeginPins(NoClaim, pins, CloseOf(d))
        /\ claimed' = [claimed EXCEPT !.iof0 = @ \ pins]

\* A call on one pin.
OnPin(pin, claims, todo) ==
    /\ BeginPins(claims, {bit_pos(pin)}, todo)
    /\ UNCHANGED <<inUse, claimed>>

SetCs == "spi" \in inUse /\ \E p \in CsPins : OnPin(p, Iof0Claim({bit_pos(p)}), spi_set_cs(p))

InitOutput ==
    \E p \in Outputs, xor \in BOOLEAN :
        p < MAXPIN /\ OnPin(p, NoClaim, gpio_init_output(bit_pos(p), xor))

InitInput ==
    \E p \in Inputs, pup \in BOOLEAN :
        p < MAXPIN /\ OnPin(p, NoClaim, gpio_init_input(bit_pos(p), pup))

\* The test of OUTPUT_EN is OUTPUT_EN & (mask == 0): it never refuses.
SetOutput ==
    \E p \in Outputs, val \in BOOLEAN :
        p < MAXPIN /\ OnPin(p, NoClaim, gpio_setoutput(bit_pos(p), val))

\* It reports an error after having set up the pin all the same.
SetPulsewidth ==
    \E p \in PwmPins : OnPin(p, Iof1Claim({bit_pos(p)}), pwm_pin(bit_pos(p)))

-----------------------------------------------------------------------------
(* The accesses.                                                           *)

LoadReg ==
    /\ access.stage = "load"
    /\ access' = [access EXCEPT !.loaded = reg[Head(access.todo).reg], !.stage = "store"]
    /\ served' = FALSE
    /\ UNCHANGED <<reg, inUse, claimed>>

Changed(value, stmt) == IF stmt.set THEN value \cup stmt.mask ELSE value \ stmt.mask

StoreReg ==
    /\ access.stage = "store"
    /\ LET stmt == Head(access.todo) IN
        reg' = [reg EXCEPT ![stmt.reg] = Changed(access.loaded, stmt)]
    /\ IF Len(access.todo) > 1
       THEN access' = [access EXCEPT !.todo = Tail(@), !.loaded = {}, !.stage = "load"] /\ UNCHANGED claimed
       ELSE access' = NoAccess /\ claimed' = [i \in {"iof0", "iof1"} |-> claimed[i] \cup access.claims[i]]
    /\ UNCHANGED <<inUse, served>>

\* The service routine calls gpio_setoutput; its load and store are one step
\* because main stands still meanwhile.
Isr ==
    \E p \in IsrPins, val \in BOOLEAN :
        /\ p < MAXPIN
        /\ reg' = [reg EXCEPT !["OUTPUT_VAL"] = Changed(@, gpio_setoutput(bit_pos(p), val)[1])]
        /\ served' = TRUE
        /\ UNCHANGED <<inUse, access, claimed>>

PinsNext ==
    \/ \E d \in Devices : Open(d) \/ Close(d)
    \/ SetCs \/ InitOutput \/ InitInput \/ SetOutput \/ SetPulsewidth
    \/ LoadReg \/ StoreReg
    \/ Isr

PinsSpec == PinsInit /\ [][PinsNext]_pinVars

-----------------------------------------------------------------------------
(* Properties.                                                             *)

IsrGpios == {bit_pos(p) : p \in IsrPins}

\* A step changes the bits of the pins its call is about and no others, in any
\* register; only an output the service routine sets between main's load and
\* store of the same register is undone by that store (gpio.h:92-135,
\* uart.c:24-64, 152-184, spi.h:212-231, 263-267, 413-460, pwm.c:159-173).
OnlyNamedPins ==
    [][\A r \in Regs :
        LET changed == (reg[r] \ reg'[r]) \cup (reg'[r] \ reg[r])
        IN  changed \subseteq access.pins
                \cup (IF served' /\ r = "OUTPUT_VAL" THEN IsrGpios ELSE {})]_pinVars

\* Between calls, a device that was opened and not closed is connected to its
\* pins, whatever other devices were opened and closed since (hifive1.h:89-104,
\* uart.c:28-61, spi.h:212-231, 263-267, pwm.c:171-173).
Iof0IsOpen == claimed.iof0 \subseteq reg["IOF_EN"] \ reg["IOF_SEL"]
Iof1IsOpen == claimed.iof1 \subseteq reg["IOF_EN"] \cap reg["IOF_SEL"] \cap reg["OUTPUT_EN"]
OpenHasItsPins == access.stage = "idle" => Iof0IsOpen /\ Iof1IsOpen

\* Neither what a call is not about nor what an open device needs is changed by
\* the drivers that share the port (hifive1.h:89-104, gpio.h:92-135).
PinsStayTheirs ==
    OnlyNamedPins /\ [](access.stage = "idle" => Iof0IsOpen /\ Iof1IsOpen)
=============================================================================
