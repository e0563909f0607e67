------------------------------- MODULE Clocks -------------------------------
(***************************************************************************)
(* The clock presets of prci.h, cpu_freq, and the dividers the drivers      *)
(* compute from it.  A preset reprograms the PLL and then tells cpu_freq;   *)
(* a driver divides cpu_freq when it is opened and never looks again.       *)
(* Frequencies are in Hz.  freq, in a client, is a history variable.        *)
(***************************************************************************)
EXTENDS Integers, Sequences

CONSTANTS
    Presets,    \* the presets called: "hyperspace", "320MHz", "32MHz", "16MHz", "sloth"
    Rosc,       \* the frequency of HFROSC, which cpu_freq is initialised for
    UartBauds, SpiBauds, I2cBauds   \* the rates the drivers are opened with

Xosc == 16000000

SPI_FREQ_MAX == 100000

ASSUME PresetsAssumption == Presets \subseteq {"hyperspace", "320MHz", "32MHz", "16MHz", "sloth"}
ASSUME RoscAssumption    == Rosc \in Nat
ASSUME BaudsAssumption   == UartBauds \cup SpiBauds \cup I2cBauds \subseteq Nat \ {0}

-----------------------------------------------------------------------------
(* The statements of each preset.                                          *)

Pll(r, f, q, refsel, sel) == [r |-> r, f |-> f, q |-> q, refsel |-> refsel, sel |-> sel]

Store(pll)   == [do |-> "store", pll |-> pll]
AwaitLock    == [do |-> "wait"]
Select       == [do |-> "select"]
FinalDiv(d)  == [do |-> "div", div |-> d]
Tell(f)      == [do |-> "tell", freq |-> f]

\* Mutant: a final division a bit too small.
sloth_32   == <<Store(Pll(2, 23, 3, 1, 0)), AwaitLock, Select, FinalDiv(31), Tell(375000)>>

hyperspace == <<Store(Pll(1, 47, 1, 1, 0)), AwaitLock, Select, Tell(384000000)>>
MHz320     == <<Store(Pll(1, 39, 1, 1, 0)), AwaitLock, Select, Tell(320000000)>>
MHz32      == <<Store(Pll(1, 23, 2, 0, 1)), AwaitLock, Select, FinalDiv(1), Tell(32000000)>>
MHz16      == <<Store(Pll(0, 0, 0, 0, 0)), Tell(16000000)>>
sloth      == <<Store(Pll(2, 23, 3, 1, 0)), AwaitLock, Select, FinalDiv(63), Tell(375000)>>

Program(p) ==
    CASE p = "hyperspace" -> hyperspace
      [] p = "320MHz"     -> MHz320
      [] p = "32MHz"      -> MHz32
      [] p = "16MHz"      -> MHz16
      [] p = "sloth"      -> sloth

VARIABLES
    pll,        \* PLLCFG
    locked,     \* the PLL's lock bit
    div,        \* the divisor PLLDIV stands for
    cpu_freq,
    todo,       \* the statements of the preset still to be executed
    client      \* what the UART, SPI and I2C dividers were computed from, and hold

clockVars == <<pll, locked, div, cpu_freq, todo, client>>

Clients == {"uart", "spi", "i2c"}

Closed == [baud |-> 0, div |-> 0, freq |-> 0]

ClocksInit ==
    /\ pll = Pll(1, 31, 3, 0, 0) /\ locked = FALSE /\ div = 1
    /\ cpu_freq = 16000000
    /\ todo = <<>>
    /\ client = [c \in Clients |-> Closed]

-----------------------------------------------------------------------------
(* The presets.                                                            *)

Call ==
    /\ todo = <<>>
    /\ \E p \in Presets : todo' = Program(p)
    /\ UNCHANGED <<pll, locked, div, cpu_freq, client>>

Does(what) == todo # <<>> /\ Head(todo).do = what /\ todo' = Tail(todo)

\* Anything but SEL changed makes the PLL lose its lock.
StorePll ==
    /\ Does("store")
    /\ pll' = Head(todo).pll
    /\ locked' = (locked /\ pll' = [pll EXCEPT !.sel = pll'.sel])
    /\ UNCHANGED <<div, cpu_freq, client>>

\* while (PLLCFG & PLL_LOCK(1) == 0): == binds first, so that the condition is
\* PLLCFG & 0 and the loop waits for nothing.
WaitForLock ==
    /\ Does("wait")
    /\ UNCHANGED <<pll, locked, div, cpu_freq, client>>

SelectPll ==
    /\ Does("select")
    /\ pll' = [pll EXCEPT !.sel = 1]
    /\ UNCHANGED <<locked, div, cpu_freq, client>>

\* Writing PLLDIV clears the bit that divides by 1.
StoreDiv ==
    /\ Does("div")
    /\ div' = 2 * (Head(todo).div + 1)
    /\ UNCHANGED <<pll, locked, cpu_freq, client>>

TellFreq ==
    /\ Does("tell")
    /\ cpu_freq' = Head(todo).freq
    /\ UNCHANGED <<pll, locked, div, client>>

Lock ==
    /\ ~locked /\ locked' = TRUE
    /\ UNCHANGED <<pll, div, cpu_freq, todo, client>>

\* The output division of PLL_Q's two bits.
PLL_Q == <<1, 2, 4, 8>>

\* ref / (R + 1) * 2 (F + 1) / 2^Q / div, or HFROSC itself.
Core ==
    IF pll.sel = 0 THEN Rosc
    ELSE LET ref == IF pll.refsel = 1 THEN Xosc ELSE Rosc
         IN  (ref * 2 * (pll.f + 1)) \div ((pll.r + 1) * PLL_Q[pll.q + 1] * div)

-----------------------------------------------------------------------------
(* The drivers.                                                            *)

\* A device divides the core clock by its factor times its divisor plus 1.
Factor(c) == CASE c = "uart" -> 1 [] c = "spi" -> 2 [] c = "i2c" -> 5

Quotient(c, baud) == cpu_freq \div (Factor(c) * baud)

\* SCKDIV has twelve bits, of the uint16_t that is stored there; the divisors
\* of the UART and of I2C have sixteen.
DivValues(c) == IF c = "spi" THEN 4096 ELSE 65536

Divisor(c, baud) == (Quotient(c, baud) - 1) % DivValues(c)

Opened(c, baud) ==
    /\ client' = [client EXCEPT ![c] =
                    [baud |-> baud, div |-> Divisor(c, baud), freq |-> cpu_freq]]
    /\ UNCHANGED <<pll, locked, div, cpu_freq, todo>>

\* Not a second time: uart_close leaves the UART active.
uart_divisor ==
    /\ todo = <<>> /\ client["uart"] = Closed
    /\ \E baud \in UartBauds : baud <= cpu_freq /\ Opened("uart", baud)

\* A second spi_init or i2c_init simply programs the divisor again.
spi_divisor ==
    /\ todo = <<>>
    /\ \E baud \in SpiBauds : baud <= SPI_FREQ_MAX /\ Opened("spi", baud)

i2c_divisor ==
    /\ todo = <<>>
    /\ \E baud \in I2cBauds : Opened("i2c", baud)

ClosedWith(c, d) ==
    /\ todo = <<>> /\ client[c].baud # 0
    /\ client' = [client EXCEPT ![c] = [Closed EXCEPT !.div = d]]
    /\ UNCHANGED <<pll, locked, div, cpu_freq, todo>>

spi_divisor_off == ClosedWith("spi", 0)
i2c_divisor_off == ClosedWith("i2c", 65535)

-----------------------------------------------------------------------------
ClocksNext ==
    \/ Call \/ StorePll \/ WaitForLock \/ SelectPll \/ StoreDiv \/ TellFreq \/ Lock
    \/ uart_divisor \/ spi_divisor \/ i2c_divisor \/ spi_divisor_off \/ i2c_divisor_off

ClocksSpec == ClocksInit /\ [][ClocksNext]_clockVars

-----------------------------------------------------------------------------
(* What the presets and the dividers promise.                              *)

\* No preset is being executed and the clock the core runs on is stable.
Steady == todo = <<>> /\ (pll.sel = 1 => locked)

\* A final division left over from another preset, or the preset's own, is at
\* work after the PLL.
Divided == pll.sel = 1 /\ div > 1

\* Whichever presets were called, in whatever order, once the clock is stable
\* the core runs at the frequency cpu_freq tells the drivers, unless a final
\* division is at work: the four multipliers of the last preset, and what the
\* ones before it left in the registers it does not write, give its number.
FreqTold == Steady /\ ~Divided => Core = cpu_freq

\* prci.h:106: "final divide by 4 to get 32"; so with the final division too.
FreqToldDivided == Steady => Core = cpu_freq

\* The presets, in whatever order, leave the core no faster than cpu_freq
\* says, so that no device is clocked above the rate it was opened with, although
\* the final division of one preset outlives it and slows the next one down.
NeverFasterThanTold == Steady => Core <= cpu_freq

\* The PLL's parameters change only while the core runs on the oscillator, so
\* that the core is never clocked from a PLL that was just reprogrammed.
PllChangedOnlyOffLine ==
    [][pll' # [pll EXCEPT !.sel = pll'.sel] => pll'.sel = 0]_clockVars

\* A device opened since the last preset runs at the rate it was opened with:
\* dividing by one less would make it faster than was asked.  That needs a
\* quotient its divisor register can hold.
RateAsAsked ==
    \A c \in Clients :
        LET k == client[c].baud * Factor(c)
        IN  /\ Steady /\ ~Divided /\ k # 0 /\ client[c].freq = cpu_freq
            /\ Quotient(c, client[c].baud) \in 1 .. DivValues(c)
            => /\ k * (client[c].div + 1) <= Core
               /\ Core < k * (client[c].div + 1) + k

\* A quotient the register cannot hold is cut, and no driver looks: the device
\* then runs faster than it was opened for (spi.h:200-201, 233).
CutIsFaster ==
    \A c \in Clients :
        LET k == client[c].baud * Factor(c)
        IN  /\ Steady /\ ~Divided /\ k # 0 /\ client[c].freq = cpu_freq
            /\ Quotient(c, client[c].baud) > DivValues(c)
            => k * (client[c].div + 1) + k <= Core

\* The four presets agree with what they tell the drivers, and the drivers
\* divide by what they were told (prci.h:69-144, uart.c:21, spi.h:201, i2c.c:9).
RatesAsTold ==
    [](FreqTold /\ NeverFasterThanTold /\ RateAsAsked /\ CutIsFaster) /\ PllChangedOnlyOffLine
=============================================================================
