------------------------------- MODULE MetalBoard -------------------------------
(***************************************************************************)
(* bsp/metal.h, the description of the board freedom-metal is built with:     *)
(* what a handle is, which registers, pins, clock and interrupt lines the     *)
(* calls on it use; and a program that gets handles by their index,           *)
(* initialises devices and asks for their interrupts.  The driver             *)
(* collection describes the same board in platform.h.  Addresses are in       *)
(* pages of 4 KiB.                                                            *)
(***************************************************************************)
EXTENDS MetalRegisters, Sequences, FiniteSets

CONSTANTS
    BoardPins,      \* pins whose interrupts programs ask for
    BoardIndex,     \* a bound: the highest index programs ask for
    BoardMost       \* a bound: how many interrupts a program asks for

ASSUME BoardAssumption == BoardPins \subseteq 0 .. 31 /\ {BoardIndex, BoardMost} \subseteq Nat

-----------------------------------------------------------------------------
(* The sections of metal.h, one for each driver.                            *)

Lines(parent, line)           == [parent |-> parent, line |-> line]
Entry(base, clock, pins, sel) == [base |-> base, clock |-> clock, pins |-> pins, sel |-> sel]
NoLines == Lines("NULL", <<>>)

sifive_clint0 == Entry(\h2000, "NULL", {}, {})
clint0_lines  == Lines("cpu", [i \in 0 .. 1 |-> IF i = 0 THEN 3 ELSE 7])
sifive_plic0  == Entry(\hC000, "NULL", {}, {})
plic0_lines   == Lines("cpu", [i \in {0} |-> 11])
num_interrupts(controller) == IF controller = "plic" THEN 53 ELSE 12

sifive_gpio0 == Entry(\h10012, "NULL", {}, {})
gpio0_lines  == Lines("plic", [i \in 0 .. 31 |-> IF i <= 28 THEN i + 8 ELSE i - 2])
sifive_gpio_led(c) ==
    Entry(sifive_gpio0.base, "NULL", IF c = "red" THEN {22} ELSE IF c = "green" THEN {19} ELSE {21}, {})

sifive_i2c0 == [registers |-> Entry(\h10016, "clock_4", {12, 13}, {}), lines |-> Lines("plic", [i \in {0} |-> 52])]

sifive_pwm0(n) ==
    LET pins == CASE n = 0 -> 0 .. 3 [] n = 1 -> 19 .. 22 [] n = 2 -> 10 .. 13
    IN  Entry(\h10015 + n * \h10, "clock_4", pins, pins)
\* Mutant: _first takes those of the first unit for all three.
pwm0_line_first(n, i) == 40 + i
pwm0_line(n, i)       == 40 + 4 * n + i
pwm0_lines(n)         == Lines("plic", [i \in 0 .. 3 |-> pwm0_line(n, i)])

sifive_rtc0  == [registers |-> Entry(\h10000, "clock_7", {}, {}), lines |-> Lines("plic", [i \in {0} |-> 2])]
sifive_wdog0 == [registers |-> Entry(\h10000, "clock_7", {}, {}), lines |-> Lines("plic", [i \in {0} |-> 1])]

sifive_spi0(n) ==
    Entry(\h10014 + n * \h10, "clock_4", CASE n = 0 -> {} [] n = 1 -> 2 .. 5 [] n = 2 -> 26 .. 31, {})

sifive_uart0(n) ==
    [registers |-> Entry(\h10013 + n * \h10, "clock_4", IF n = 0 THEN {16, 17} ELSE {18, 23}, {}),
     lines     |-> Lines("plic", [i \in {0} |-> 3 + n])]

\* The registers that give the rate of a clock.  The low frequency oscillator's
\* have the offsets 112 and 124 for addresses.
pll_page    == \h10008
lfrosc_page == 0
RatePage(clock) == CASE clock = "clock_4" -> pll_page [] clock = "clock_7" -> lfrosc_page

Registers(d) ==
    CASE d = "clint" -> sifive_clint0             [] d = "plic" -> sifive_plic0
      [] d = "gpio0" -> sifive_gpio0              [] d = "i2c0" -> sifive_i2c0.registers
      [] d = "red" -> sifive_gpio_led("red")      [] d = "green" -> sifive_gpio_led("green")
      [] d = "blue" -> sifive_gpio_led("blue")    [] d = "rtc" -> sifive_rtc0.registers
      [] d = "wdog" -> sifive_wdog0.registers     [] d = "pwm0" -> sifive_pwm0(0)
      [] d = "pwm1" -> sifive_pwm0(1)             [] d = "pwm2" -> sifive_pwm0(2)
      [] d = "spi0" -> sifive_spi0(0)             [] d = "spi1" -> sifive_spi0(1)
      [] d = "spi2" -> sifive_spi0(2)             [] d = "uart0" -> sifive_uart0(0).registers
      [] d = "uart1" -> sifive_uart0(1).registers

\* The offsets by which the driver of a device reaches its registers.
Offsets(d) ==
    CASE d = "clint" -> METAL_RISCV_CLINT0                [] d = "plic" -> METAL_RISCV_PLIC0
      [] d \in {"gpio0", "red", "green", "blue"} -> METAL_SIFIVE_GPIO0
      [] d = "i2c0" -> METAL_SIFIVE_I2C0                  [] d = "rtc" -> METAL_SIFIVE_RTC0
      [] d = "wdog" -> METAL_SIFIVE_WDOG0                 [] d \in {"pwm0", "pwm1", "pwm2"} -> METAL_SIFIVE_PWM0
      [] d \in {"spi0", "spi1", "spi2"} -> METAL_SIFIVE_SPI0 [] d \in {"uart0", "uart1"} -> METAL_SIFIVE_UART0

InterruptsOf(d) ==
    CASE d = "clint" -> clint0_lines              [] d = "plic" -> plic0_lines
      [] d = "gpio0" -> gpio0_lines               [] d = "i2c0" -> sifive_i2c0.lines
      [] d = "rtc" -> sifive_rtc0.lines           [] d = "wdog" -> sifive_wdog0.lines
      [] d = "pwm0" -> pwm0_lines(0)              [] d = "pwm1" -> pwm0_lines(1)
      [] d = "pwm2" -> pwm0_lines(2)              [] d = "uart0" -> sifive_uart0(0).lines
      [] d = "uart1" -> sifive_uart0(1).lines     [] OTHER -> NoLines

-----------------------------------------------------------------------------
(* The tables of handles, and who gets what by which index.                 *)

Tables == [gpio |-> <<"gpio0">>, i2c |-> <<"i2c0">>, pwm |-> <<"pwm0", "pwm1", "pwm2">>, rtc |-> <<"rtc">>,
           spi |-> <<"spi0", "spi1", "spi2">>, uart |-> <<"uart0", "uart1">>, watchdog |-> <<"wdog">>]

\* An index that a call lets pass; all but those of RTC and watchdog are unsigned.
pwm_get_device(i)      == 0 <= i /\ i < Len(Tables.pwm)
i2c_get_device(i)      == 0 <= i /\ i < Len(Tables.i2c)
spi_get_device(i)      == 0 <= i /\ i < Len(Tables.spi)
uart_get_device(i)     == 0 <= i /\ i < Len(Tables.uart)
gpio_get_device(i)     == 0 <= i /\ i <= Len(Tables.gpio)
rtc_get_device(i)      == i < Len(Tables.rtc)
watchdog_get_device(i) == i <= Len(Tables.watchdog)

Passes(k, i) ==
    CASE k = "pwm" -> pwm_get_device(i)   [] k = "i2c" -> i2c_get_device(i)
      [] k = "spi" -> spi_get_device(i)   [] k = "uart" -> uart_get_device(i)
      [] k = "gpio" -> gpio_get_device(i) [] k = "rtc" -> rtc_get_device(i)
      [] k = "watchdog" -> watchdog_get_device(i)

\* Beside the table is whatever the linker put there.
Got(k, i) == IF ~Passes(k, i) THEN {"NULL"}
             ELSE IF i + 1 \in DOMAIN Tables[k] THEN {Tables[k][i + 1]} ELSE {"NULL", "stray"}

\* The labels are LD0red, LD0green and LD0blue.
metal_led_get_rgb(c) == IF c \in {"red", "green", "blue"} THEN c ELSE "NULL"
metal_interrupt_get_controller(c) == IF c \in {"clint", "plic"} THEN c ELSE "NULL"

-----------------------------------------------------------------------------
(* The board, as platform.h has it.                                         *)

Unit(page) ==
    CASE page = \h2000 -> "clint"  [] page = \hC000 -> "plic"   [] page = \h10000 -> "aon"  [] page = \h10008 -> "prci"
      [] page = \h10012 -> "gpio0" [] page = \h10013 -> "uart0" [] page = \h10014 -> "spi0" [] page = \h10015 -> "pwm0"
      [] page = \h10016 -> "i2c0"  [] page = \h10023 -> "uart1" [] page = \h10024 -> "spi1" [] page = \h10025 -> "pwm1"
      [] page = \h10034 -> "spi2"  [] page = \h10035 -> "pwm2"  [] OTHER -> "nothing"
UnitOf(d) == CASE d \in {"rtc", "wdog"} -> "aon" [] d \in {"red", "green", "blue"} -> "gpio0" [] OTHER -> d

\* What the driver collection has at a unit's addresses.
RegistersAt(unit) ==
    CASE unit = "clint" -> CLINT  [] unit = "plic" -> PLIC  [] unit = "aon" -> AON  [] unit = "prci" -> PRCI
      [] unit = "gpio0" -> GPIO   [] unit = "i2c0" -> I2C   [] unit \in {"uart0", "uart1"} -> UART
      [] unit \in {"spi0", "spi1", "spi2"} -> SPI           [] unit \in {"pwm0", "pwm1", "pwm2"} -> PWM

\* The pins a unit can drive.
IofMask(d) ==
    CASE d = "spi1" -> 2 .. 10     [] d = "spi2" -> 26 .. 31 [] d = "uart0" -> {16, 17} [] d = "uart1" -> {24, 25}
      [] d = "pwm0" -> 0 .. 3      [] d = "pwm1" -> 19 .. 22 [] d = "pwm2" -> 10 .. 13
      [] OTHER -> {}

Wire(s) ==
    s.idx + CASE s.dev = "wdog" -> 1   [] s.dev = "rtc" -> 2   [] s.dev = "uart0" -> 3 [] s.dev = "uart1" -> 4
              [] s.dev = "gpio0" -> 8  [] s.dev = "pwm0" -> 40 [] s.dev = "pwm1" -> 44 [] s.dev = "pwm2" -> 48
              [] s.dev = "i2c0" -> 52  [] s.dev = "plic" -> 11 [] s.dev = "clint" -> IF s.idx = 0 THEN 3 ELSE 6

-----------------------------------------------------------------------------
(* The program.                                                             *)

VARIABLES
    handle,         \* what it got last: a device, "NULL" or "stray"
    access,         \* its last access to registers with it: the unit it is about, page, offsets, pins given to it
    tableOf,        \* where handlers are: controller, line, and the source they were registered for
    linesOn,        \* lines that are enabled, with their controllers
    registered, askedFor,   \* sources it registered a handler for, and enabled (history)
    arrived         \* the last interrupt since: its source and that of its handler

boardVars == <<handle, access, tableOf, linesOn, registered, askedFor, arrived>>

Source0   == [dev |-> "none", idx |-> 0]
NothingArrived == [source |-> Source0, handler |-> Source0]
Access0   == [unit |-> "none", page |-> 0, offsets |-> Block(0, <<>>), pins |-> {}, rate |-> FALSE]
IsDevice  == handle \notin {"NULL", "stray"}

BoardInit ==
    /\ handle = "NULL" /\ access = Access0 /\ tableOf = {} /\ linesOn = {}
    /\ registered = {} /\ askedFor = {} /\ arrived = NothingArrived

\* An access or an interrupt ends before the next call.
NoAccess == access = Access0 /\ arrived = NothingArrived
EndOfAccess ==
    /\ ~NoAccess /\ access' = Access0 /\ arrived' = NothingArrived
    /\ UNCHANGED <<handle, tableOf, linesOn, registered, askedFor>>

get_device ==
    /\ NoAccess
    /\ handle' \in (UNION {Got(k, i) : k \in DOMAIN Tables, i \in -1 .. BoardIndex})
                  \cup {metal_led_get_rgb(c) : c \in {"red", "green", "blue", "white"}}
                  \cup {metal_interrupt_get_controller(c) : c \in {"clint", "plic", "clic"}}
    /\ UNCHANGED <<access, tableOf, linesOn, registered, askedFor, arrived>>

\* A call that uses the device: its registers, and its pins if it gives it pins.
CallDevice ==
    /\ NoAccess /\ IsDevice
    /\ access' = [unit |-> UnitOf(handle), page |-> Registers(handle).base, offsets |-> Offsets(handle),
                  pins |-> Registers(handle).pins, rate |-> FALSE]
    /\ UNCHANGED <<handle, tableOf, linesOn, registered, askedFor, arrived>>

\* A call that needs the rate of the device's clock.
GetRate ==
    /\ NoAccess /\ IsDevice /\ Registers(handle).clock # "NULL"
    /\ access' = [unit |-> IF Registers(handle).clock = "clock_4" THEN "prci" ELSE "aon",
                  page |-> RatePage(Registers(handle).clock), offsets |-> METAL_SIFIVE_PRCI, pins |-> {}, rate |-> TRUE]
    /\ UNCHANGED <<handle, tableOf, linesOn, registered, askedFor, arrived>>

SourceOf(d, i) == [dev |-> d, idx |-> i]
Indices(d)     == DOMAIN InterruptsOf(d).line \cap (IF d = "gpio0" THEN BoardPins ELSE {0, 1, 3})
LineAt(d, i)       == <<InterruptsOf(d).parent, InterruptsOf(d).line[i]>>
Accepted(at)   == at[2] < num_interrupts(at[1])

\* metal_interrupt_register_handler with the device's controller and identifier.
register_handler ==
    /\ NoAccess /\ IsDevice
    /\ \E i \in Indices(handle) :
        /\ Cardinality(registered \cup {SourceOf(handle, i)}) <= BoardMost
        /\ Accepted(LineAt(handle, i))
        /\ tableOf' = {e \in tableOf : e.at # LineAt(handle, i)} \cup {[at |-> LineAt(handle, i), source |-> SourceOf(handle, i)]}
        /\ registered' = registered \cup {SourceOf(handle, i)}
    /\ UNCHANGED <<handle, access, linesOn, askedFor, arrived>>

interrupt_enable ==
    /\ NoAccess /\ IsDevice
    /\ \E i \in Indices(handle) :
        /\ SourceOf(handle, i) \in registered
        /\ linesOn' = linesOn \cup {LineAt(handle, i)}
        /\ askedFor' = askedFor \cup {SourceOf(handle, i)}
    /\ UNCHANGED <<handle, access, tableOf, registered, arrived>>

\* A device interrupts through its wire.
Fires ==
    /\ NoAccess
    /\ \E s \in askedFor :
        LET at == <<InterruptsOf(s.dev).parent, Wire(s)>>
        IN  /\ at \in linesOn
            /\ \E e \in tableOf : e.at = at /\ arrived' = [source |-> s, handler |-> e.source]
    /\ UNCHANGED <<handle, access, tableOf, linesOn, registered, askedFor>>

BoardNext == get_device \/ CallDevice \/ GetRate \/ register_handler \/ interrupt_enable \/ Fires \/ EndOfAccess
BoardSpec == BoardInit /\ [][BoardNext]_boardVars

-----------------------------------------------------------------------------
(* Properties.                                                              *)

(* metal.h:1302, metal-platform.h:279: a call reaches registers of the unit   *)
(* it is about, those it means and no other, and gives it only pins it can    *)
(* drive.  The rate of the low frequency clock is looked for elsewhere; UART1 *)
(* is on other pins than the driver collection has it.                       *)
LandsOnItsUnit ==
    access.unit # "none" =>
        /\ \/ Unit(access.page) = access.unit /\ Agrees(access.offsets, RegistersAt(access.unit))
           \/ access.rate /\ access.unit = "aon"
        /\ access.pins \subseteq IofMask(access.unit) \/ access.unit \in {"uart1", "i2c0", "gpio0"}

(* Pins 29 to 31 have the lines of pins 19 to 21.                            *)
SharesLine(s) == s.dev = "gpio0" /\ (s.idx >= 29 \/ SourceOf("gpio0", s.idx + 10) \in registered)

(* metal.h:469: an interrupt that is asked for comes, and comes to the       *)
(* handler that was registered for it, but for pins whose line is taken.     *)
SourcesArrive ==
    /\ \A s \in askedFor : ~SharesLine(s) =>
        LET at == <<InterruptsOf(s.dev).parent, Wire(s)>>
        IN  at \in linesOn /\ [at |-> at, source |-> s] \in tableOf
    /\ arrived.handler = arrived.source \/ (arrived.source.dev = "gpio0" /\ arrived.handler.idx = arrived.source.idx + 10)

(* What the calls do with the board is what the board is.                    *)
BoardIsAsDescribed == LandsOnItsUnit /\ SourcesArrive

(* gpio.h:55: a call for a handle gives a device, or NULL if there is none.  *)
HandlesAreDevices == handle # "stray"
=============================================================================
