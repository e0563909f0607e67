--------------------------------- MODULE Pwm ---------------------------------
(***************************************************************************)
(* The three PWM units and everything of this repository that drives them: *)
(* the calls of pwm.c, the Servo library and the HCSR04 library.  Nothing  *)
(* arbitrates between them: each writes the registers of the units it      *)
(* likes.  A register is named by its place: pwmcmp[0] is a period.        *)
(*                                                                         *)
(* Times are small numbers; Freq stands for cpu_freq over the scale, and     *)
(* PwmWord for 2^32 over it: a product is cut to a word before it is scaled. *)
(***************************************************************************)
EXTENDS Integers

CONSTANTS
    Units,              \* the units in use, of 0 .. 2
    Comparators,        \* the comparators of the pins in use, of 0 .. 3
    Freq, PwmWord,      \* counts in one unit of time, and in a word
    Times,              \* the periods and pulses callers ask for
    ServoPulses,        \* the pulse widths of the servo's positions
    MaxStored           \* the bound on the stores of callers to a period field

ASSUME PwmUnitsAssumption == Units \subseteq 0 .. 2 /\ Comparators \subseteq 0 .. 3
ASSUME PwmFreqAssumption  == {Freq, PwmWord} \subseteq Nat \ {0}
ASSUME PwmTimesAssumption == Times \subseteq Nat /\ ServoPulses \subseteq Nat
ASSUME MaxStoredAssumption == MaxStored \in Nat

Cmps  == 0 .. 3

Scaled(t) == (t * Freq) % PwmWord

ServoPeriod == Freq      \* 20 ms

VARIABLES
    scale,          \* p->scale # 0
    period, pulse,  \* p->period and p->pulse[0]
    pwmcfg,         \* "off", "always" or "oneshot"
    count,          \* COUNT of the unit that times an echo
    pwmcmp,         \* CMP0 .. CMP3
    stored,         \* the stores of callers to the period fields so far
    timing,         \* the unit ReadPosition waits with, or -1
    limit           \* the period that unit had when it was called (history)

pwmVars == <<scale, period, pulse, pwmcfg, count, pwmcmp, stored, timing, limit>>

PwmInit ==
    /\ scale = [n \in Units |-> FALSE]
    /\ period = [n \in Units |-> 0] /\ pulse = period
    /\ pwmcfg = [n \in Units |-> "off"] /\ count = 0
    /\ pwmcmp = [n \in Units |-> [c \in Cmps |-> 0]]
    /\ stored = 0 /\ timing = -1 /\ limit = 0

pwm_init(n, c) ==
    /\ timing = -1 /\ c # 0
    /\ scale' = [scale EXCEPT ![n] = TRUE]
    /\ UNCHANGED <<period, pulse, pwmcfg, count, pwmcmp, stored, timing, limit>>

\* The fields are not static, and nothing in pwm.c writes this one.
StorePeriod(n, t) ==
    /\ timing = -1 /\ stored < MaxStored /\ t > 0
    /\ period' = [period EXCEPT ![n] = t] /\ stored' = stored + 1
    /\ UNCHANGED <<scale, pulse, pwmcfg, count, pwmcmp, timing, limit>>

\* What pwm_set_period leaves in the field.
PeriodField(n, t) == period[n]

pwm_set_period(n, t, mode) ==
    /\ timing = -1 /\ scale[n]
    /\ pwmcfg' = [pwmcfg EXCEPT ![n] = mode] /\ pwmcmp' = [pwmcmp EXCEPT ![n][0] = Scaled(t)]
    /\ period' = [period EXCEPT ![n] = PeriodField(n, t)]
    /\ UNCHANGED <<scale, pulse, count, stored, timing, limit>>

\* The units whose comparator a pulse is written to: no case ends in a break of
\* its own, so that every call ends in the error of the default case.
WrittenUnits(n) == {m \in Units : m >= n}

\* pwm_set_pulsewidth, and pwm_set_duty for the pulse it comes to.
pwm_set_pulsewidth(n, c, t) ==
    /\ timing = -1 /\ scale[n] /\ t <= period[n]
    /\ IF c = 0 THEN UNCHANGED <<pwmcmp, pulse>>
       ELSE /\ pwmcmp' = [m \in Units |-> IF m \in WrittenUnits(n)
                                       THEN [pwmcmp[m] EXCEPT ![c] = Scaled(t)] ELSE pwmcmp[m]]
            /\ pulse' = [pulse EXCEPT ![n] = t]
    /\ UNCHANGED <<scale, period, pwmcfg, count, stored, timing, limit>>

\* pwm_get_duty divides by the period unless the pulse is zero.  Mutant:
\* _unchecked divides whatever the pulse is.
Divides_unchecked(n, c) == scale[n] /\ c # 0
Divides(n, c)           == scale[n] /\ c = 1 /\ pulse[n] # 0

\* One unit as MoveServo leaves it: the period in CMP0 and the pulse in CMPc,
\* or the other way round for comparator 0.
Servoed(c, w) == LET p == IF c = 0 THEN 1 ELSE 0 IN
    [k \in {p, c} |-> IF k = p THEN ServoPeriod ELSE w]

\* The case of PWM1 runs into that of PWM2, and both into the error.
ServoUnits(n) == {m \in Units : m >= n}

MoveServo(n, c, w) ==
    /\ timing = -1 /\ n # 0
    /\ pwmcfg' = [m \in Units |-> IF m \in ServoUnits(n) THEN "always" ELSE pwmcfg[m]]
    /\ pwmcmp' = [m \in Units |-> IF m \notin ServoUnits(n) THEN pwmcmp[m]
                 ELSE [k \in Cmps |-> IF k \in DOMAIN Servoed(c, w)
                                      THEN Servoed(c, w)[k] ELSE pwmcmp[m][k]]]
    /\ UNCHANGED <<scale, period, pulse, count, stored, timing, limit>>

InitServo(n, c) == \E w \in ServoPulses : (\A v \in ServoPulses : w <= v) /\ MoveServo(n, c, w)

EndServo(n) ==
    /\ timing = -1 /\ n # 0
    /\ pwmcfg' = [pwmcfg EXCEPT ![n] = "off"]
    /\ UNCHANGED <<scale, period, pulse, count, pwmcmp, stored, timing, limit>>

\* ReadPosition up to its wait: one shot, a pulse in CMP3, and the period it
\* computes is not written.
ReadCmp0(n) == pwmcmp[n][0]

ReadPosition(n, w) ==
    /\ timing = -1
    /\ pwmcfg' = [pwmcfg EXCEPT ![n] = "oneshot"] /\ count' = 0
    /\ pwmcmp' = [pwmcmp EXCEPT ![n][3] = w, ![n][0] = ReadCmp0(n)]
    /\ timing' = n /\ limit' = pwmcmp[n][0]
    /\ UNCHANGED <<scale, period, pulse, stored>>

\* The echo pin goes high at any time, or never; the count is the distance.
Echo ==
    /\ timing # -1
    /\ pwmcfg' = [pwmcfg EXCEPT ![timing] = "off"] /\ timing' = -1 /\ count' = 0 /\ limit' = 0
    /\ UNCHANGED <<scale, period, pulse, pwmcmp, stored>>

\* The unit: it counts up to CMP0 once.
Counts ==
    /\ timing # -1 /\ pwmcfg[timing] = "oneshot"
    /\ IF count < pwmcmp[timing][0]
       THEN count' = count + 1 /\ UNCHANGED pwmcfg
       ELSE count' = 0 /\ pwmcfg' = [pwmcfg EXCEPT ![timing] = "off"]
    /\ UNCHANGED <<scale, period, pulse, pwmcmp, stored, timing, limit>>

PwmNext ==
    \/ \E n \in Units, c \in Comparators :
         \/ pwm_init(n, c) \/ InitServo(n, c)
         \/ \E t \in Times : pwm_set_pulsewidth(n, c, t)
         \/ \E w \in ServoPulses : MoveServo(n, c, w)
    \/ \E n \in Units :
         \/ \E t \in Times : StorePeriod(n, t) \/ \E m \in {"always", "oneshot"} : pwm_set_period(n, t, m)
         \/ EndServo(n)
         \/ \E w \in ServoPulses : ReadPosition(n, w)
    \/ Counts \/ Echo

-----------------------------------------------------------------------------
(* pwm.c:33-138: pwm_set_period computes the period and does not keep it,   *)
(* so every pulse but zero is refused until a caller stores one itself.     *)
PwmPulseNeedsStore == \A n \in Units : pulse[n] # 0 => stored > 0

(* HCSR04:34-83: no period is written for the measurement.  The reading is  *)
(* bounded by the one the unit's last user left, and is 0 after a reset.    *)
EchoWithinStalePeriod == timing # -1 => count <= limit

(* pwm.c:284-296: pwm_get_duty divides by the period only when a pulse has  *)
(* been set, and a pulse is never set without a period.                     *)
PwmNeverDividesByZero == \A n \in Units, c \in Cmps : Divides(n, c) => period[n] # 0

(* pwm.c, HCSR04: what the fields of a unit and its registers, which three  *)
(* libraries write, still have in common.                                   *)
PwmFieldsAgree == PwmPulseNeedsStore /\ PwmNeverDividesByZero /\ EchoWithinStalePeriod
=============================================================================
