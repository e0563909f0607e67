------------------------------- MODULE MetalClock -------------------------------
(***************************************************************************)
(* The core clock of freedom-metal: the PLL driver, the callbacks that      *)
(* clock.h calls around a rate change, and the drivers that register them.  *)
(* Every registration appends a node to the list of calls before and to the *)
(* list of calls after a change, so one list stands for both.  The PLL's    *)
(* reference is HFXOSC.  Rates are in kHz.                                  *)
(***************************************************************************)
EXTENDS Powers, FiniteSets

CONSTANTS
    ClkMost,        \* how many of the drivers a program uses
    ClkRates,       \* the rates it asks for
    UartBaud, SpiBaud, I2cBaud,
    PwmRates,       \* the PWM frequencies
    PwmDuties,      \* in percent
    PwmMaxCount     \* what a compare register holds

ASSUME ClkMostAssumption == ClkMost \in 1 .. 4
ASSUME ClkRatesAssumption == /\ ClkRates \cup PwmRates \cup {PwmMaxCount} \subseteq Nat \ {0}
                             /\ PwmDuties \subseteq 0 .. 100
                             /\ {UartBaud, SpiBaud, I2cBaud} \subseteq Nat \ {0}

VARIABLES
    users,          \* the drivers the program uses
    pll,            \* PLLCFG and PLLOUTDIV: sel, bypass, the multiplication set; and the lock
    wanted,         \* the rate last asked for
    phase,          \* "idle" or how far metal_clock_set_rate_hz has come
    node,           \* the callback it is at
    head, nextNode, \* the list of callbacks
    registered,     \* how often each driver registered, up to 2 (history)
    divider,        \* each driver's divider register
    sending,        \* a byte of the UART: "no", "fifo" or on the "line"
    pwmDev          \* the PWM unit and its driver

pllVars   == <<pll, wanted>>
walkVars  == <<phase, node>>
listVars  == <<head, nextNode, registered>>
clkVars   == <<users, pllVars, walkVars, listVars, divider, sending, pwmDev>>

Nil == "nil"

-----------------------------------------------------------------------------
(* Rates.                                                                   *)

Hfxosc == 16000
Hfrosc == 14400         \* 72 MHz / 5, as it comes out of reset

\* The rows of pll_configs for this reference: R, F, Q and the final division,
\* 0 where it is disabled, as the registers hold them.
PllRow(f, q, d) == [f |-> f, q |-> q, d |-> d]
pll_configs ==
    {PllRow(31, 3, 128), PllRow(31, 2, 128), PllRow(31, 2, 64), PllRow(31, 2, 32),
     PllRow(31, 1, 32), PllRow(31, 1, 8), PllRow(31, 3, 0), PllRow(47, 3, 0),
     PllRow(23, 2, 0), PllRow(31, 2, 0), PllRow(39, 2, 0), PllRow(47, 2, 0),
     PllRow(23, 1, 0), PllRow(27, 1, 0), PllRow(31, 1, 0), PllRow(35, 1, 0),
     PllRow(39, 1, 0), PllRow(43, 1, 0), PllRow(47, 1, 0)}

\* What get_rate_hz makes of the fields; R is 1 and Q from 1 to 3 in these rows.
DivQ       == <<2, 4, 8>>
RowRate(c) == (((Hfxosc \div 2) * 2 * (c.f + 1)) \div DivQ[c.q]) \div (IF c.d = 0 THEN 1 ELSE c.d)

get_rate_hz == IF ~pll.sel THEN Hfrosc ELSE IF pll.bypass THEN Hfxosc ELSE RowRate(pll.row)

Off(c, rate) == LET d == RowRate(c) - rate IN IF d < 0 THEN -d ELSE d

\* Any of the closest rows.
Closest(rate) == {c \in pll_configs : \A e \in pll_configs : Off(c, rate) <= Off(e, rate)}

Bypasses(rate) == (Hfxosc * 3) \div 4 <= rate /\ rate <= (Hfxosc * 5) \div 4

-----------------------------------------------------------------------------
(* The list of callbacks.                                                   *)

\* The nodes that the loop of _append passes from n on, and those of them that have
\* no successor: one where it stops, or none if it walks for ever.
Passed(nx, n) ==
    {m \in users : \A S \in SUBSET users : (n \in S /\ \A s \in S : nx[s] \in S \cup {Nil}) => m \in S}
Ends(nx, n)   == {m \in Passed(nx, n) : nx[m] = Nil}

\* cb->_next = NULL comes first: a node that is in the list becomes its end,
\* and then its own successor.
Detached(d) == [nextNode EXCEPT ![d] = Nil]

Endless(d) == head # Nil /\ Ends(Detached(d), head) = {}

_metal_clock_append_to_callbacks(d) ==
    /\ head' = IF head = Nil THEN d ELSE head
    /\ nextNode' = [m \in users |-> IF head # Nil /\ m \in Ends(Detached(d), head) THEN d ELSE Detached(d)[m]]
    /\ registered' = [registered EXCEPT ![d] = IF @ = 0 THEN 1 ELSE 2]

\* Nobody registers twice, and I2C, whose callback registers, not at all.
ListIsSound == \A d \in users : registered[d] <= (IF d = "i2c" THEN 0 ELSE 1)

-----------------------------------------------------------------------------
(* The drivers.                                                             *)

ClkInit ==
    /\ users \in SUBSET {"uart", "spi", "i2c", "pwm"} /\ Cardinality(users) = ClkMost
    /\ pll = [sel |-> FALSE, bypass |-> TRUE, row |-> PllRow(31, 1, 0), locked |-> FALSE]
    /\ wanted = 0 /\ phase = "idle" /\ node = Nil
    /\ head = Nil /\ nextNode = [d \in users |-> Nil]
    /\ registered = [d \in users |-> 0] /\ divider = [d \in users |-> 0]
    /\ sending = "no"
    /\ pwmDev = [freq |-> 0, count |-> 0, scale |-> {}, running |-> {}, duty |-> 0, cmp |-> 0]

\* The divider for a rate.
DividerFor(d, rate) ==
    CASE d = "uart" -> rate \div UartBaud - 1
      [] d = "spi"  -> rate \div (2 * SpiBaud) - 1
      [] OTHER      -> rate \div (5 * I2cBaud) - 1

\* SPI has 12 bits for it, the others have 16.
DividerMost(d)     == IF d = "spi" THEN 4095 ELSE 65535
Encodable(d, rate) == DividerFor(d, rate) \in 0 .. DividerMost(d)

\* SPI refuses a divider that is too large and I2C one that is out of range; the
\* UART writes whatever comes out.
Refused(d, rate) ==
    \/ d = "spi" /\ DividerFor(d, rate) > DividerMost(d)
    \/ d = "i2c" /\ ~Encodable(d, rate)

\* What is refused leaves the register as it is, what is written is cut to it.
SetBaudRate(d) ==
    divider' = IF Refused(d, get_rate_hz) THEN divider
               ELSE [divider EXCEPT ![d] = DividerFor(d, get_rate_hz) % (DividerMost(d) + 1)]

\* uart0_init, spi0_init and i2c0_set_baud_rate, which i2c0_init calls.
SerialInit(d) ==
    /\ phase = "idle" /\ registered[d] < 2
    /\ _metal_clock_append_to_callbacks(d)
    /\ IF Endless(d) THEN phase' = "stuck" /\ UNCHANGED divider
       ELSE SetBaudRate(d) /\ UNCHANGED phase
    /\ UNCHANGED <<users, pllVars, node, sending, pwmDev>>

putc ==
    /\ phase = "idle" /\ "uart" \in users /\ registered["uart"] > 0 /\ sending = "no"
    /\ sending' = "fifo"
    /\ UNCHANGED <<users, pllVars, walkVars, listVars, divider, pwmDev>>

Line ==
    /\ sending # "no"
    /\ sending' = IF sending = "fifo" THEN "line" ELSE "no"
    /\ UNCHANGED <<users, pllVars, walkVars, listVars, divider, pwmDev>>

-----------------------------------------------------------------------------
(* PWM.  The unit runs in the modes it was triggered in: for ever, or until  *)
(* its counter starts over.                                                 *)

RunModes == {"always", "oneshot"}

\* Unsigned division: by zero it gives all ones.
AllOnes == 2147483647
Over(a, b) == IF b = 0 THEN AllOnes ELSE a \div b

CountAt(f, p) == Over(get_rate_hz \div PowerOf2[p], f)

\* The first prescaler whose count fits, or 16.
Prescale(f) ==
    IF \E p \in 0 .. 15 : CountAt(f, p) <= PwmMaxCount
    THEN CHOOSE p \in 0 .. 15 : /\ CountAt(f, p) <= PwmMaxCount
                                /\ \A k \in 0 .. p - 1 : CountAt(f, k) > PwmMaxCount
    ELSE 16

PwmCount(f) == CountAt(f, IF Prescale(f) = 16 THEN 15 ELSE Prescale(f))

\* PWMCFG |= prescale & 0xF.
PrescaleBits(p)     == {b \in 0 .. 3 : (p \div PowerOf2[b]) % 2 = 1}

PwmWith(f) == [pwmDev EXCEPT !.freq = Over(get_rate_hz \div PowerOf2[Prescale(f)], PwmCount(f)),
                             !.count = PwmCount(f) - 1,
                             !.scale = @ \cup PrescaleBits(Prescale(f))]

CompareFor(duty, count) == (duty * count) \div 100

pwm_enable ==
    /\ phase = "idle" /\ "pwm" \in users
    /\ pwmDev' = [pwmDev EXCEPT !.freq = 0, !.count = 0, !.scale = {}, !.running = {}]
    /\ UNCHANGED <<users, pllVars, walkVars, listVars, divider, sending>>

\* The first frequency after pwm_enable registers the callbacks.
pwm_set_freq ==
    /\ phase = "idle" /\ "pwm" \in users
    /\ IF pwmDev.freq # 0
       THEN UNCHANGED <<phase, listVars>>
       ELSE /\ registered["pwm"] < 2 /\ _metal_clock_append_to_callbacks("pwm")
            /\ phase' = IF Endless("pwm") THEN "stuck" ELSE phase
    /\ IF phase' = "stuck" THEN UNCHANGED pwmDev
       ELSE \E f \in PwmRates : f <= get_rate_hz /\ pwmDev' = PwmWith(f)
    /\ UNCHANGED <<users, pllVars, node, divider, sending>>

pwm_set_duty ==
    /\ phase = "idle" /\ "pwm" \in users
    /\ \E d \in PwmDuties :
        pwmDev' = [pwmDev EXCEPT !.duty = d, !.cmp = CompareFor(d, pwmDev.count)]
    /\ UNCHANGED <<users, pllVars, walkVars, listVars, divider, sending>>

pwm_trigger ==
    /\ phase = "idle" /\ "pwm" \in users
    /\ \E m \in RunModes : pwmDev' = [pwmDev EXCEPT !.running = @ \cup {m}]
    /\ UNCHANGED <<users, pllVars, walkVars, listVars, divider, sending>>

\* Stopping takes back the continuous mode only.
\* Mutant: _oneshot takes back the other one.
PwmStopped_oneshot == [pwmDev EXCEPT !.running = @ \ {"oneshot"}]
PwmStopped         == [pwmDev EXCEPT !.running = @ \ {"always"}]

pwm_stop ==
    /\ phase = "idle" /\ "pwm" \in users
    /\ pwmDev' = PwmStopped
    /\ UNCHANGED <<users, pllVars, walkVars, listVars, divider, sending>>

\* The counter starts over, which ends a single cycle, whatever the program does.
PwmCycleEnds ==
    /\ "oneshot" \in pwmDev.running
    /\ pwmDev' = [pwmDev EXCEPT !.running = @ \ {"oneshot"}]
    /\ UNCHANGED <<users, pllVars, walkVars, listVars, divider, sending>>

-----------------------------------------------------------------------------
(* metal_clock_set_rate_hz of the PLL.                                      *)

SetRate ==
    /\ phase = "idle"
    /\ wanted' \in ClkRates /\ phase' = "pre" /\ node' = head
    /\ UNCHANGED <<users, pll, listVars, divider, sending, pwmDev>>

\* 10 bits at the present rate, as a long of 32 bits: above 214 MHz it is negative
\* and the UART's callback does not wait for the byte on the line.
Drains == 10 * get_rate_hz <= 2147483

PreWaits(d) ==
    \/ d = "uart" /\ sending = "fifo"
    \/ d = "uart" /\ sending = "line" /\ Drains

PreCallback ==
    /\ phase = "pre" /\ node # Nil /\ ~PreWaits(node)
    /\ pwmDev' = IF node = "pwm" THEN PwmStopped ELSE pwmDev
    /\ node' = nextNode[node]
    /\ UNCHANGED <<users, pllVars, phase, listVars, divider, sending>>

Deselect ==
    /\ phase = "pre" /\ node = Nil
    /\ pll' = [pll EXCEPT !.sel = FALSE] /\ phase' = "config"
    /\ UNCHANGED <<users, wanted, node, listVars, divider, sending, pwmDev>>

Configure ==
    /\ phase = "config"
    /\ IF Bypasses(wanted)
       THEN pll' = [pll EXCEPT !.bypass = TRUE] /\ phase' = "select"
       ELSE /\ \E c \in Closest(wanted) :
                pll' = [pll EXCEPT !.row = c, !.bypass = FALSE, !.locked = FALSE]
            /\ phase' = "lock"
    /\ UNCHANGED <<users, wanted, node, listVars, divider, sending, pwmDev>>

Lock ==
    /\ ~pll.locked
    /\ pll' = [pll EXCEPT !.locked = TRUE]
    /\ UNCHANGED <<users, wanted, walkVars, listVars, divider, sending, pwmDev>>

\* Mutant: _inverted waits for the PLL to have no lock.
LockSeen_inverted == ~pll.locked
LockSeen         == pll.locked

AwaitPllLock ==
    /\ phase = "lock" /\ LockSeen
    /\ phase' = "select"
    /\ UNCHANGED <<users, pllVars, node, listVars, divider, sending, pwmDev>>

Select ==
    /\ phase = "select"
    /\ pll' = [pll EXCEPT !.sel = TRUE] /\ phase' = "post" /\ node' = head
    /\ UNCHANGED <<users, wanted, listVars, divider, sending, pwmDev>>

\* The PWM's callback sets frequency and duty again, unless there is none.
PwmRestored      ==
    LET set == PwmWith(pwmDev.freq)
    IN  IF pwmDev.duty = 0 THEN set ELSE [set EXCEPT !.cmp = CompareFor(pwmDev.duty, set.count)]

\* I2C's callback calls set_baud_rate, which registers.
Reregisters(d)     == d = "i2c"

PostCallback ==
    /\ phase = "post" /\ node # Nil
    /\ IF Reregisters(node) THEN _metal_clock_append_to_callbacks(node) ELSE UNCHANGED listVars
    /\ phase' = IF Reregisters(node) /\ Endless(node) THEN "stuck" ELSE phase
    /\ IF node = "pwm" THEN UNCHANGED divider ELSE SetBaudRate(node)
    /\ pwmDev' = IF node = "pwm" /\ pwmDev.freq # 0 THEN PwmRestored ELSE pwmDev
    /\ node' = nextNode'[node]
    /\ UNCHANGED <<users, pllVars, sending>>

Return ==
    /\ phase = "post" /\ node = Nil
    /\ phase' = "idle"
    /\ UNCHANGED <<users, pllVars, node, listVars, divider, sending, pwmDev>>

RateChange == PreCallback \/ Deselect \/ Configure \/ AwaitPllLock \/ Select \/ PostCallback \/ Return

ClkNext ==
    \/ \E d \in users \ {"pwm"} : SerialInit(d)
    \/ putc \/ Line \/ Lock
    \/ pwm_enable \/ pwm_set_freq \/ pwm_set_duty \/ pwm_trigger \/ pwm_stop \/ PwmCycleEnds
    \/ SetRate \/ RateChange

ClkSpec == ClkInit /\ [][ClkNext]_clkVars

-----------------------------------------------------------------------------
(* sifive_fe310-g000_pll.c:340-384: the core never runs from a PLL that has *)
(* not locked, whatever rates follow one another.                           *)
CoreClockIsStable == pll.sel => pll.bypass \/ pll.locked

(* sifive_fe310-g000_pll.c:253-273: the rate that set_rate_hz reports from  *)
(* the registers is the closest the table has, if it is not the reference.  *)
ReportsClosest ==
    (phase = "idle" /\ wanted # 0) =>
        IF Bypasses(wanted) THEN get_rate_hz = Hfxosc
        ELSE \A c \in pll_configs : LET off == get_rate_hz - wanted
                                    IN  off <= Off(c, wanted) /\ -off <= Off(c, wanted)

(* sifive_uart0.c:184, sifive_spi0.c:379: between rate changes the dividers  *)
(* of the serial devices fit the core's rate, or the rate is out of reach.  *)
DividersFollow ==
    (phase = "idle" /\ ListIsSound) =>
        \A d \in users \ {"pwm"} : (registered[d] > 0 /\ Encodable(d, get_rate_hz)) =>
            divider[d] = DividerFor(d, get_rate_hz)

(* sifive_uart0.c:174-181: no byte is on the line when the core is switched  *)
(* off the PLL, if the rate before was below 214 MHz.                       *)
BytesSurviveRateChange ==
    [][phase = "pre" /\ phase' = "config" /\ sending # "no" => ~Drains]_clkVars

(* clock.h:63-79: a change of the rate ends, if nobody registered twice.    *)
RateChangeReturns == (phase # "idle" /\ ListIsSound) ~> (phase = "idle" \/ ~ListIsSound)

(* sifive_i2c0.c:137-143: once I2C is initialised, the next change of the   *)
(* rate does not return.                                                    *)
I2cRateChangeNeverReturns ==
    [][phase = "post" /\ phase' = "idle" => "i2c" \notin users \/ registered["i2c"] = 0]_clkVars

(* sifive_pwm0.c:162-172: the unit is never faster than get_freq tells: the *)
(* bits of an earlier prescaler stay.  A frequency whose count fits with no *)
(* prescaler is out of its reach.                                           *)
ScaleOf(bits) == LET bit(b) == IF b \in bits THEN PowerOf2[b] ELSE 0 IN bit(0) + bit(1) + bit(2) + bit(3)
PwmNoFasterThanTold ==
    (phase = "idle" /\ ListIsSound /\ pwmDev.freq > 0 /\ pwmDev.count < PwmMaxCount) =>
        (get_rate_hz \div PowerOf2[ScaleOf(pwmDev.scale)]) \div ((pwmDev.count % (PwmMaxCount + 1)) + 1)
            <= pwmDev.freq

(* sifive_pwm0.c:51-55, 274: no PWM unit that has its frequency runs on after *)
(* a change of the rate, until it is triggered again; all that may be left is *)
(* the cycle of a one-shot from before, which the callback does not stop.    *)
PwmSilentAfterChange ==
    [][/\ phase = "post" /\ phase' = "idle" /\ pwmDev.freq # 0 => "always" \notin pwmDev.running
       /\ phase # "idle" => pwmDev'.running \subseteq pwmDev.running]_clkVars

(* sifive_pwm0.c:70-77: a change of the rate gives every channel back the   *)
(* share of the new period it had been asked for.                           *)
DutySurvivesChange ==
    [][phase = "post" /\ phase' = "idle" /\ ListIsSound /\ pwmDev.freq # 0 =>
        pwmDev.cmp = CompareFor(pwmDev.duty, pwmDev.count)]_clkVars

(* What holds of the core's clock and of every device that lives on it      *)
(* between two changes of the rate; and what a device was doing, and what it *)
(* had been asked for, when the rate is changed under it.                    *)
DevicesFollow == /\ [](CoreClockIsStable /\ ReportsClosest /\ DividersFollow /\ PwmNoFasterThanTold)
                 /\ BytesSurviveRateChange /\ PwmSilentAfterChange /\ DutySurvivesChange

(* clock.h:63-79: which changes of the rate end.                            *)
RateChangesEnd == RateChangeReturns /\ I2cRateChangeNeverReturns
=============================================================================
