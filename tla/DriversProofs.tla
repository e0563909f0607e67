---------------------------- MODULE DriversProofs ----------------------------
(***************************************************************************)
(* What holds of the driver collection for any pins, ports, units, depths,   *)
(* rates and times.  Each part comes with the invariant that its steps       *)
(* preserve; at the end the parts are put together into Drivers, whose step  *)
(* is a step of the part in use and leaves the others alone.                 *)
(***************************************************************************)
EXTENDS Drivers, WatchdogProofs, SequenceTheorems, TLAPS

-----------------------------------------------------------------------------
\* What is taken off a list and what is left of it.
LEMMA HeadAndTail ==
    ASSUME NEW S, NEW s \in Seq(S), s # <<>>
    PROVE  /\ Head(s) \in S /\ Tail(s) \in Seq(S)
           /\ Len(s) \in Nat \ {0} /\ (Tail(s) = <<>> <=> Len(s) = 1)
           /\ Len(Tail(s)) = Len(s) - 1 /\ Head(s) = s[1]
           /\ \A k \in 1 .. Len(s) - 1 : Tail(s)[k] = s[k + 1]
<1>1. Len(s) \in Nat \ {0} /\ Head(s) = s[1] /\ Head(s) \in S /\ Tail(s) \in Seq(S)
  OBVIOUS
<1>2. Len(Tail(s)) = Len(s) - 1 /\ \A k \in 1 .. Len(s) - 1 : Tail(s)[k] = s[k + 1]
  <2>1. Len(Tail(s)) = Len(s) - 1
    BY <1>1
  <2>2. ASSUME NEW k \in 1 .. Len(s) - 1 PROVE Tail(s)[k] = s[k + 1]
    BY <1>1
  <2>3. QED
    BY <2>1, <2>2
<1>3. Tail(s) = <<>> <=> Len(Tail(s)) = 0
  BY <1>1, EmptySeq
<1>4. QED
  BY <1>1, <1>2, <1>3

-----------------------------------------------------------------------------
(* The PWM units: fields and registers agree                               *)

PwmSpec == PwmInit /\ [][PwmNext]_pwmVars

Modes == {"off", "always", "oneshot"}

PwmTypeOK ==
    /\ scale \in [Units -> BOOLEAN] /\ pwmcfg \in [Units -> Modes]
    /\ period \in [Units -> Nat] /\ pulse \in [Units -> Nat]
    /\ pwmcmp \in [Units -> [Cmps -> Nat]]
    /\ count \in Nat /\ limit \in Nat /\ stored \in Nat
    /\ timing \in Units \cup {-1}

FieldsNeedStore ==
    \A n \in Units : /\ pulse[n] # 0 => period[n] # 0
                     /\ period[n] # 0 => stored > 0

CountIsBounded == timing # -1 => pwmcmp[timing][0] = limit /\ count <= limit

PwmIInv == PwmTypeOK /\ FieldsNeedStore /\ CountIsBounded

\* The registers' values are numbers.
LEMMA Numbers ==
    /\ \A t \in Times : t \in Nat /\ Scaled(t) \in Nat
    /\ \A w \in ServoPulses : w \in Nat
    /\ ServoPeriod \in Nat
<1>1. \A x, y \in Nat : x * y \in Nat
  OBVIOUS
<1>2. \A x \in Nat, y \in Nat \ {0} : x % y \in Nat
  OBVIOUS
<1>3. Freq \in Nat /\ PwmWord \in Nat \ {0} /\ Times \subseteq Nat /\ ServoPulses \subseteq Nat
  BY PwmFreqAssumption, PwmTimesAssumption
<1>4. QED
  BY <1>1, <1>2, <1>3 DEF Scaled, ServoPeriod

\* The units are numbers other than the -1 that stands for none.
LEMMA UnitsAreNumbers == \A n \in Units : n \in 0 .. 2 /\ n # -1
  BY PwmUnitsAssumption

LEMMA PwmStarts == PwmInit => PwmIInv
<1>1. SUFFICES ASSUME PwmInit PROVE PwmIInv
  OBVIOUS
<1>2. PwmTypeOK
  BY <1>1 DEF PwmInit, PwmTypeOK, Modes
<1>3. FieldsNeedStore /\ CountIsBounded
  BY <1>1 DEF PwmInit, FieldsNeedStore, CountIsBounded
<1>4. QED
  BY <1>2, <1>3 DEF PwmIInv

\* The calls of pwm.c.
LEMMA CallsKeepIInv ==
    ASSUME PwmIInv, NEW n \in Units, NEW t \in Times,
           \/ StorePeriod(n, t)
           \/ \E m \in {"always", "oneshot"} : pwm_set_period(n, t, m)
           \/ \E c \in Comparators : pwm_set_pulsewidth(n, c, t)
    PROVE  PwmIInv'
<1>0. PwmTypeOK /\ FieldsNeedStore /\ t \in Nat /\ Scaled(t) \in Nat /\ Comparators \subseteq Cmps
  BY Numbers, PwmUnitsAssumption DEF PwmIInv, Cmps
<1>1. CASE StorePeriod(n, t)
  <2>1. PwmTypeOK'
    BY <1>0, <1>1 DEF StorePeriod, PwmTypeOK
  <2>2. FieldsNeedStore'
    BY <1>0, <1>1 DEF StorePeriod, PwmTypeOK, FieldsNeedStore
  <2>3. CountIsBounded'
    BY <1>1 DEF StorePeriod, CountIsBounded
  <2>4. QED
    BY <2>1, <2>2, <2>3 DEF PwmIInv
<1>2. ASSUME NEW m \in {"always", "oneshot"}, pwm_set_period(n, t, m) PROVE PwmIInv'
  <2>1. period' = period
    BY <1>0, <1>2 DEF pwm_set_period, PeriodField, PwmTypeOK
  <2>2. [pwmcmp[n] EXCEPT ![0] = Scaled(t)] \in [Cmps -> Nat]
    BY <1>0 DEF PwmTypeOK, Cmps
  <2>3. pwmcmp' \in [Units -> [Cmps -> Nat]]
    BY <1>0, <1>2, <2>2 DEF pwm_set_period, PwmTypeOK
  <2>4. pwmcfg' \in [Units -> Modes]
    BY <1>0, <1>2 DEF pwm_set_period, PwmTypeOK, Modes
  <2>5. QED
    BY <1>0, <1>2, <2>1, <2>3, <2>4
       DEF pwm_set_period, PwmIInv, PwmTypeOK, FieldsNeedStore, CountIsBounded
<1>3. ASSUME NEW c \in Comparators, pwm_set_pulsewidth(n, c, t) PROVE PwmIInv'
  <2>1. CASE c = 0
    BY <1>0, <1>3, <2>1 DEF pwm_set_pulsewidth, PwmIInv, PwmTypeOK, FieldsNeedStore, CountIsBounded
  <2>2. CASE c # 0
    <3>1. pulse' = [pulse EXCEPT ![n] = t] /\ UNCHANGED <<scale, period, pwmcfg, count, stored, timing, limit>>
      BY <1>3, <2>2 DEF pwm_set_pulsewidth
    <3>2. \A u \in Units : [pwmcmp[u] EXCEPT ![c] = Scaled(t)] \in [Cmps -> Nat]
      BY <1>0 DEF PwmTypeOK
    <3>3. pwmcmp' \in [Units -> [Cmps -> Nat]]
      BY <1>0, <1>3, <2>2, <3>2 DEF pwm_set_pulsewidth, PwmTypeOK
    <3>4. PwmTypeOK'
      BY <1>0, <3>1, <3>3 DEF PwmTypeOK
    <3>5. FieldsNeedStore'
      <4>1. t # 0 => period[n] # 0
        BY <1>0, <1>3 DEF pwm_set_pulsewidth, PwmTypeOK
      <4>2. QED
        BY <1>0, <3>1, <4>1 DEF FieldsNeedStore, PwmTypeOK
    <3>6. CountIsBounded'
      BY <1>3 DEF pwm_set_pulsewidth, CountIsBounded
    <3>7. QED
      BY <3>4, <3>5, <3>6 DEF PwmIInv
  <2>3. QED
    BY <2>1, <2>2
<1>4. QED
  BY <1>1, <1>2, <1>3

\* The Servo library.
LEMMA ServosKeepIInv ==
    ASSUME PwmIInv, NEW n \in Units,
           EndServo(n) \/ \E c \in Comparators, w \in ServoPulses : MoveServo(n, c, w)
    PROVE  PwmIInv'
<1>0. PwmTypeOK /\ FieldsNeedStore /\ ServoPeriod \in Nat /\ \A w \in ServoPulses : w \in Nat
  BY Numbers DEF PwmIInv
<1>1. timing = -1 /\ UNCHANGED <<scale, period, pulse, count, stored, timing, limit>>
  BY DEF MoveServo, EndServo
<1>2. pwmcfg' \in [Units -> Modes]
  BY <1>0 DEF MoveServo, EndServo, PwmTypeOK, Modes
<1>3. pwmcmp' \in [Units -> [Cmps -> Nat]]
  <2>1. ASSUME NEW c \in Comparators, NEW w \in ServoPulses, MoveServo(n, c, w)
        PROVE  pwmcmp' \in [Units -> [Cmps -> Nat]]
    <3>1. \A k \in DOMAIN Servoed(c, w) : Servoed(c, w)[k] \in Nat
      BY <1>0 DEF Servoed
    <3>2. \A u \in Units : [k \in Cmps |-> IF k \in DOMAIN Servoed(c, w)
                                           THEN Servoed(c, w)[k] ELSE pwmcmp[u][k]] \in [Cmps -> Nat]
      BY <1>0, <3>1 DEF PwmTypeOK
    <3>3. QED
      BY <1>0, <2>1, <3>2 DEF MoveServo, PwmTypeOK
  <2>2. CASE EndServo(n)
    BY <1>0, <2>2 DEF EndServo, PwmTypeOK
  <2>3. QED
    BY <2>1, <2>2
<1>4. QED
  BY <1>0, <1>1, <1>2, <1>3 DEF PwmIInv, PwmTypeOK, FieldsNeedStore, CountIsBounded

\* The HCSR04 library and the unit it waits with.
LEMMA EchoesKeepIInv ==
    ASSUME PwmIInv, Counts \/ Echo \/ \E n \in Units, w \in ServoPulses : ReadPosition(n, w)
    PROVE  PwmIInv'
<1>0. PwmTypeOK /\ FieldsNeedStore /\ CountIsBounded /\ \A w \in ServoPulses : w \in Nat
  BY Numbers DEF PwmIInv
<1>1. UNCHANGED <<scale, period, pulse, stored>>
  BY DEF ReadPosition, Counts, Echo
<1>2. FieldsNeedStore'
  BY <1>0, <1>1 DEF FieldsNeedStore
<1>3. ASSUME NEW n \in Units, NEW w \in ServoPulses, ReadPosition(n, w) PROVE PwmIInv'
  <2>1. [pwmcmp[n] EXCEPT ![3] = w, ![0] = pwmcmp[n][0]] \in [Cmps -> Nat]
    BY <1>0 DEF PwmTypeOK, Cmps
  <2>2. pwmcmp[n][0] \in Nat
    BY <1>0 DEF PwmTypeOK, Cmps
  <2>3. pwmcmp' \in [Units -> [Cmps -> Nat]] /\ pwmcmp'[n][0] = pwmcmp[n][0]
    BY <1>0, <1>3, <2>1 DEF ReadPosition, ReadCmp0, PwmTypeOK, Cmps
  <2>4. pwmcfg' \in [Units -> Modes]
    BY <1>0, <1>3 DEF ReadPosition, PwmTypeOK, Modes
  <2>5. timing' = n /\ limit' = pwmcmp[n][0] /\ count' = 0
    BY <1>3 DEF ReadPosition
  <2>6. QED
    BY <1>0, <1>1, <1>2, <2>2, <2>3, <2>4, <2>5 DEF PwmIInv, PwmTypeOK, CountIsBounded
<1>4. CASE Echo
  <2>1. pwmcfg' \in [Units -> Modes]
    BY <1>0, <1>4 DEF Echo, PwmTypeOK, Modes
  <2>2. QED
    BY <1>0, <1>1, <1>2, <1>4, <2>1 DEF Echo, PwmIInv, PwmTypeOK, CountIsBounded
<1>5. CASE Counts
  <2>1. pwmcfg' \in [Units -> Modes] /\ UNCHANGED <<pwmcmp, timing, limit>>
    BY <1>0, <1>5 DEF Counts, PwmTypeOK, Modes
  <2>2. timing # -1 /\ pwmcmp[timing][0] = limit /\ limit \in Nat /\ count \in Nat
    BY <1>0, <1>5 DEF Counts, CountIsBounded, PwmTypeOK
  <2>3. count' \in Nat /\ count' <= limit
    BY <1>5, <2>2 DEF Counts
  <2>4. QED
    BY <1>0, <1>1, <1>2, <2>1, <2>2, <2>3 DEF PwmIInv, PwmTypeOK, CountIsBounded
<1>6. QED
  BY <1>3, <1>4, <1>5

(* The inductive invariant of the PWM units (pwm.c, Servo, HCSR04): a pulse  *)
(* has a period, a period a store, and a count its bound.                    *)
THEOREM PwmInductive == PwmSpec => []PwmIInv
<1>1. PwmInit => PwmIInv
  BY PwmStarts
<1>2. PwmIInv /\ [PwmNext]_pwmVars => PwmIInv'
  <2>1. SUFFICES ASSUME PwmIInv, [PwmNext]_pwmVars PROVE PwmIInv'
    OBVIOUS
  <2>2. CASE UNCHANGED pwmVars
    BY <2>1, <2>2 DEF pwmVars, PwmIInv, PwmTypeOK, FieldsNeedStore, CountIsBounded
  <2>3. ASSUME NEW n \in Units, NEW c \in Comparators, pwm_init(n, c) PROVE PwmIInv'
    BY <2>1, <2>3 DEF pwm_init, PwmIInv, PwmTypeOK, FieldsNeedStore, CountIsBounded
  <2>4. ASSUME NEW n \in Units, NEW c \in Comparators, InitServo(n, c) PROVE PwmIInv'
    BY <2>1, <2>4, ServosKeepIInv DEF InitServo
  <2>5. QED
    BY <2>1, <2>2, <2>3, <2>4, CallsKeepIInv, ServosKeepIInv, EchoesKeepIInv DEF PwmNext
<1>3. QED
  BY <1>1, <1>2, PTL DEF PwmSpec

(* pwm.c:33-138, 284-296 and HCSR04:34-83: for any units, times and number   *)
(* of stores, a pulse that is not zero means that somebody stored a period,  *)
(* no call divides by zero, and what is read of an echo is bounded by the    *)
(* period that the unit's last user left.                                    *)
THEOREM PwmAgrees == PwmSpec => []PwmFieldsAgree
<1>1. PwmIInv => PwmFieldsAgree
  <2>1. SUFFICES ASSUME PwmIInv PROVE PwmFieldsAgree
    OBVIOUS
  <2>2. PwmPulseNeedsStore /\ PwmNeverDividesByZero
    BY <2>1 DEF PwmIInv, FieldsNeedStore, PwmPulseNeedsStore, PwmNeverDividesByZero, Divides
  <2>3. EchoWithinStalePeriod
    BY <2>1 DEF PwmIInv, CountIsBounded, EchoWithinStalePeriod
  <2>4. QED
    BY <2>2, <2>3 DEF PwmFieldsAgree
<1>2. QED
  BY <1>1, PwmInductive, PTL

-----------------------------------------------------------------------------
(* The UARTs: what may lose a byte                                         *)

UartSpec == UartInit /\ [][UartNext]_uartVars

(* Where main and the service routine can be: main in any call, the service  *)
(* routine in a send; a call names a port.                                   *)
UartTypeOK ==
    /\ uart_int_active \in [Uarts -> [IntTypes -> BOOLEAN]]
    /\ uart_active \in [Uarts -> BOOLEAN]
    /\ txq \in [Uarts -> 0 .. Depth] /\ rxq \in [Uarts -> Nat]
    /\ upc \in [Callers -> {"idle", "poll", "push", "wait", "read"}]
    /\ on \in [Callers -> Uarts]
    /\ opened \in [Uarts -> Nat] /\ dropped \in Nat /\ raced \in BOOLEAN
    /\ popped \in [Uarts -> Nat] /\ good \in [Uarts -> Nat]

\* Whoever is about to write has found room, unless the service routine sent in between.
RoomAtPush ==
    /\ upc["isr"] = "push" => txq[on["isr"]] < Depth
    /\ upc["main"] = "push" /\ ~raced => txq[on["main"]] < Depth

\* A port that was opened stays active.
OpenedIsActive == \A u \in Uarts : opened[u] = IF uart_active[u] THEN 1 ELSE 0

NeverEnabled == \A u \in Uarts, t \in IntTypes : ~uart_int_active[u][t]

UartIInv ==
    UartTypeOK /\ RoomAtPush /\ OpenedIsActive /\ NeverEnabled /\ UartEveryOtherByte

LEMMA UartStarts == UartInit => UartIInv
<1>1. SUFFICES ASSUME UartInit PROVE UartIInv
  OBVIOUS
<1>2. UartTypeOK
  <2>1. uart_int_active \in [Uarts -> [IntTypes -> BOOLEAN]] /\ uart_active \in [Uarts -> BOOLEAN]
    BY <1>1 DEF UartInit
  <2>2. txq \in [Uarts -> 0 .. Depth] /\ rxq \in [Uarts -> Nat]
    BY <1>1, UartDepthAssumption DEF UartInit
  <2>3. upc \in [Callers -> {"idle"}] /\ on \in [Callers -> Uarts]
    BY <1>1 DEF UartInit, Uarts
  <2>4. QED
    BY <1>1, <2>1, <2>2, <2>3 DEF UartInit, UartTypeOK
<1>3. RoomAtPush /\ OpenedIsActive /\ NeverEnabled
  BY <1>1 DEF UartInit, RoomAtPush, OpenedIsActive, NeverEnabled, Callers
<1>4. UartEveryOtherByte
  BY <1>1 DEF UartInit, UartEveryOtherByte, Callers
<1>5. QED
  BY <1>2, <1>3, <1>4 DEF UartIInv

\* The calls that only set or read the fields of a port.
LEMMA SettingsKeepUartIInv ==
    ASSUME UartIInv, NEW u \in Uarts,
           \/ uart_init(u) \/ uart_close(u)
           \/ \E t \in IntTypes : uart_interrupt_enable(u, t) \/ uart_interrupt_disable(u, t)
    PROVE  UartIInv'
<1>0. UartTypeOK /\ RoomAtPush /\ OpenedIsActive /\ NeverEnabled /\ UartEveryOtherByte
  BY DEF UartIInv
<1>1. UNCHANGED <<txq, rxq, upc, on, dropped, raced, popped, good>>
  BY DEF uart_init, uart_close, uart_interrupt_enable, uart_interrupt_disable, uartCall, uartRx
<1>2. RoomAtPush' /\ UartEveryOtherByte'
  BY <1>0, <1>1 DEF RoomAtPush, UartEveryOtherByte
<1>3. uart_int_active' = uart_int_active
  <2>1. CASE uart_init(u) \/ uart_close(u)
    BY <2>1 DEF uart_init, uart_close
  <2>2. ASSUME NEW t \in IntTypes, uart_interrupt_enable(u, t) PROVE uart_int_active' = uart_int_active
    <3>1. ~uart_int_active[t][u]
      BY <1>0 DEF NeverEnabled, Uarts, IntTypes
    <3>2. QED
      BY <2>2, <3>1 DEF uart_interrupt_enable, MayEnable
  <2>3. ASSUME NEW t \in IntTypes, uart_interrupt_disable(u, t) PROVE uart_int_active' = uart_int_active
    <3>1. uart_int_active[u][t] = FALSE
      BY <1>0 DEF NeverEnabled, UartTypeOK
    <3>2. QED
      BY <1>0, <2>3, <3>1 DEF uart_interrupt_disable, UartTypeOK
  <2>4. QED
    BY <2>1, <2>2, <2>3
<1>4. uart_active' \in [Uarts -> BOOLEAN] /\ opened' \in [Uarts -> Nat] /\ OpenedIsActive'
  <2>1. CASE uart_init(u)
    BY <1>0, <2>1 DEF uart_init, UartTypeOK, OpenedIsActive
  <2>2. CASE uart_close(u)
    BY <1>0, <2>2 DEF uart_close, UartTypeOK, OpenedIsActive, StateAfterClose
  <2>3. QED
    BY <1>0, <2>1, <2>2 DEF uart_interrupt_enable, uart_interrupt_disable, UartTypeOK, OpenedIsActive
<1>5. QED
  BY <1>0, <1>1, <1>2, <1>3, <1>4 DEF UartIInv, UartTypeOK, NeverEnabled

\* The calls that send and receive, and the port itself.
LEMMA TransfersKeepUartIInv ==
    ASSUME UartIInv,
           \/ \E a \in Callers : UartStep(a) \/ \E u \in Uarts : uart_send(a, u)
           \/ \E u \in Uarts : uart_receive(u) \/ Leaves(u) \/ Arrives(u)
    PROVE  UartIInv'
<1>0. UartTypeOK /\ RoomAtPush /\ OpenedIsActive /\ NeverEnabled /\ UartEveryOtherByte /\ Depth \in Nat \ {0}
  BY UartDepthAssumption DEF UartIInv
<1>1. UNCHANGED <<uart_active, uart_int_active, opened>>
  BY DEF UartStep, Poll, Push, Wait, Read, uart_send, uart_receive, Leaves, Arrives, uartSet
<1>2. OpenedIsActive' /\ NeverEnabled'
  BY <1>0, <1>1 DEF OpenedIsActive, NeverEnabled
<1>3. ASSUME NEW a \in Callers, NEW u \in Uarts, uart_send(a, u) PROVE UartIInv'
  BY <1>0, <1>1, <1>2, <1>3 DEF Callers, uart_send, Free, Alone, uartRx, UartIInv, UartTypeOK, RoomAtPush, UartEveryOtherByte
<1>4. ASSUME NEW a \in Callers, Poll(a) PROVE UartIInv'
  BY <1>0, <1>1, <1>2, <1>4 DEF Callers, Poll, Alone, NotFull, uartRx, UartIInv, UartTypeOK, RoomAtPush, UartEveryOtherByte
<1>5. ASSUME NEW a \in Callers, Push(a) PROVE UartIInv'
  <2>1. on[a] \in Uarts /\ upc[a] = "push" /\ txq[on[a]] \in 0 .. Depth
    BY <1>0, <1>5 DEF Push, UartTypeOK
  <2>2. UNCHANGED <<on, rxq, popped, good>> /\ upc' = [upc EXCEPT ![a] = "idle"]
    BY <1>5 DEF Push, uartRx
  <2>3. UartTypeOK'
    BY <1>0, <1>1, <1>5, <2>1, <2>2 DEF Push, UartTypeOK
  <2>4. RoomAtPush'
    <3>1. CASE a = "isr"
      BY <1>0, <1>5, <2>1, <2>2, <3>1 DEF Push, RoomAtPush, UartTypeOK, Callers
    <3>2. CASE a = "main"
      BY <1>0, <1>5, <2>1, <2>2, <3>2 DEF Push, Alone, RoomAtPush, UartTypeOK, Callers
    <3>3. QED
      BY <3>1, <3>2 DEF Callers
  <2>5. UartEveryOtherByte'
    BY <1>0, <2>1, <2>2 DEF UartEveryOtherByte, UartTypeOK, Callers
  <2>6. QED
    BY <1>2, <2>3, <2>4, <2>5 DEF UartIInv
<1>6. CASE Wait
  <2>1. on["main"] \in Uarts /\ upc["main"] = "wait" /\ rxq[on["main"]] > 0
    BY <1>0, <1>6 DEF Wait, UartTypeOK, Callers
  <2>2. UartTypeOK' /\ RoomAtPush'
    BY <1>0, <1>1, <1>6, <2>1 DEF Wait, AfterWait, uartCall, Callers, UartTypeOK, RoomAtPush
  <2>3. UartEveryOtherByte'
    BY <1>0, <1>6, <2>1 DEF Wait, AfterWait, Callers, UartTypeOK, UartEveryOtherByte
  <2>4. QED
    BY <1>2, <2>2, <2>3 DEF UartIInv
<1>7. CASE Read
  BY <1>0, <1>1, <1>2, <1>7 DEF Callers, Read, Alone, uartCall, UartIInv, UartTypeOK, RoomAtPush, UartEveryOtherByte
<1>8. ASSUME NEW u \in Uarts, uart_receive(u) \/ Leaves(u) \/ Arrives(u) PROVE UartIInv'
  <2>1. CASE uart_receive(u)
    BY <1>0, <1>1, <1>2, <2>1 DEF Callers, uart_receive, Free, uartCall, uartRx,
       UartIInv, UartTypeOK, RoomAtPush, UartEveryOtherByte
  <2>2. CASE Leaves(u)
    BY <1>0, <1>1, <1>2, <2>2 DEF Callers, Leaves, uartCall, uartRx,
       UartIInv, UartTypeOK, RoomAtPush, UartEveryOtherByte
  <2>3. CASE Arrives(u)
    BY <1>0, <1>1, <1>2, <2>3 DEF Callers, Arrives, uartCall,
       UartIInv, UartTypeOK, RoomAtPush, UartEveryOtherByte
  <2>4. QED
    BY <1>8, <2>1, <2>2, <2>3
<1>9. ASSUME NEW a \in Callers, UartStep(a) PROVE UartIInv'
  BY <1>4, <1>5, <1>6, <1>7, <1>9 DEF UartStep
<1>10. QED
  BY <1>3, <1>8, <1>9

(* uart.c:66-128: the inductive invariant of the ports.                      *)
THEOREM UartInductive == UartSpec => []UartIInv
<1>1. UartIInv /\ [UartNext]_uartVars => UartIInv'
  <2>1. SUFFICES ASSUME UartIInv, [UartNext]_uartVars PROVE UartIInv'
    OBVIOUS
  <2>2. CASE UNCHANGED uartVars
    BY <2>1, <2>2 DEF uartVars, UartIInv, UartTypeOK, RoomAtPush, OpenedIsActive, NeverEnabled, UartEveryOtherByte
  <2>3. QED
    BY <2>1, <2>2, SettingsKeepUartIInv, TransfersKeepUartIInv DEF UartNext
<1>2. QED
  BY <1>1, UartStarts, PTL DEF UartSpec

(* uart.c:87-91: with FIFOs of any depth and any number of sends, a byte is  *)
(* dropped only in a call that the service routine overtook on its port, and *)
(* only one; a receive returns every other byte at most (lines 122-124); a   *)
(* port opens once and no interrupt of a port is ever enabled (191, 202).    *)
THEOREM UartLosesOnlyByRace == UartSpec => UartLossNeedsRace /\ [](UartEveryOtherByte /\ UartStatesStick)
<1>1. UartIInv => UartEveryOtherByte /\ UartStatesStick
  BY DEF UartIInv, UartStatesStick, OpenedIsActive, NeverEnabled
<1>2. UartIInv /\ [UartNext]_uartVars
      => [dropped' # dropped => (dropped' = dropped + 1 /\ raced /\ upc["isr"] = "idle")]_uartVars
  <2>1. SUFFICES ASSUME UartIInv, UartNext, dropped' # dropped
                 PROVE  dropped' = dropped + 1 /\ raced /\ upc["isr"] = "idle"
    BY DEF uartVars
  <2>2. PICK a \in Callers : Push(a)
    BY <2>1 DEF UartNext, uart_init, uart_close, uart_receive, Leaves, Arrives, uart_send,
       uart_interrupt_enable, uart_interrupt_disable, UartStep, Poll, Wait, Read, uartCall
  <2>3. ~(txq[on[a]] < Depth) /\ dropped' = dropped + 1
    BY <2>1, <2>2 DEF Push
  <2>4. QED
    BY <2>1, <2>2, <2>3 DEF Push, Alone, Callers, UartIInv, RoomAtPush, UartTypeOK
<1>3. QED
  BY <1>1, <1>2, UartInductive, PTL DEF UartSpec, UartLossNeedsRace

-----------------------------------------------------------------------------
(* The I2C bus: traffic of a call                                          *)

I2cSpec == I2cInit /\ [][I2cNext]_i2cVars

AfterStop  == {"idle", "tip2", "ack2"}
BeforeRead == {"start", "tip1", "ack1", "unwr", "rd"}
Between    == {"txr", "tipN", "stop", "rx", "cack", "rstop"}

I2cTypeOK ==
    /\ cr \subseteq {"STA", "STO", "RD", "WR", "ACK"}
    /\ loaded = NotLoaded \/ loaded \subseteq {"STA", "STO"}
    /\ shifter \in {"none", "byte", "read", "stop"}
    /\ busy \in BOOLEAN /\ nack \in BOOLEAN
    /\ ipc \in AfterStop \cup BeforeRead \cup Between
    /\ puts \in Nat /\ reads \in Nat /\ held \in Nat

\* The bytes that a command not yet taken, and the commands the call has still
\* to write, can put on the bus; and the reads they can make.
PutPending  == IF shifter = "none" /\ "WR" \in cr THEN 1 ELSE 0
PutsToCome  == IF ipc = "start" THEN 2 ELSE IF ipc \in AfterStop THEN 0 ELSE 1
ReadPending == IF shifter = "none" /\ "RD" \in cr THEN 1 ELSE 0
ReadsToCome == IF ipc \in BeforeRead THEN 1 ELSE 0

PutsAccount  == puts + PutPending + PutsToCome <= 3
ReadsAccount == /\ reads + ReadPending + ReadsToCome <= 1
                /\ "RD" \in cr => ipc \in {"rx", "cack", "rstop"}

\* CR |= has loaded the status before the bus was taken.
Stale == loaded # NotLoaded /\ "STO" \notin loaded /\ busy

\* A bus that is held has its stop in the next command but a stale one, and a
\* load is stale over one start only.
StopFollows ==
    /\ held <= 3 /\ (held >= 1 => busy)
    /\ held = 3 => "STO" \in cr /\ shifter # "none"
    /\ shifter = "none" /\ busy => held <= 1 \/ cr = {} \/ "STO" \in cr
    /\ Stale => held <= 1 /\ (shifter = "none" => cr = {})

I2cIInv == I2cTypeOK /\ PutsAccount /\ ReadsAccount /\ StopFollows

\* A store of what was loaded, stale or not, keeps the stop coming.
LEMMA StoreKeepsStop ==
    ASSUME I2cIInv, NEW bits, bits \subseteq {"STA", "STO", "RD", "WR", "ACK"}, StoreCommand(bits),
           UNCHANGED <<shifter, busy, held>>
    PROVE  StopFollows' /\ cr' = loaded \cup bits /\ cr' \subseteq {"STA", "STO", "RD", "WR", "ACK"}
           /\ loaded' = NotLoaded /\ loaded \subseteq {"STA", "STO"}
<1>1. /\ loaded # NotLoaded /\ cr' = loaded \cup bits /\ loaded' = NotLoaded
      /\ loaded \subseteq {"STA", "STO"} /\ held \in Nat /\ StopFollows
  BY DEF StoreCommand, I2cIInv, I2cTypeOK
<1>2. cr' \subseteq {"STA", "STO", "RD", "WR", "ACK"} /\ ~Stale'
  BY <1>1 DEF Stale
<1>3. CASE busy /\ "STO" \notin loaded
  <2>1. held <= 1
    BY <1>1, <1>3 DEF Stale, StopFollows
  <2>2. QED
    BY <1>1, <1>2, <1>3, <2>1 DEF StopFollows
<1>4. CASE "STO" \in loaded
  <2>1. "STO" \in cr'
    BY <1>1, <1>4
  <2>2. QED
    BY <1>1, <1>2, <2>1 DEF StopFollows
<1>5. CASE ~busy
  BY <1>1, <1>2, <1>5 DEF StopFollows
<1>6. QED
  BY <1>1, <1>2, <1>3, <1>4, <1>5

LEMMA CommandKeepsI2cIInv ==
    ASSUME I2cIInv, NEW bits, NEW to, Command(bits, to),
           bits \subseteq {"STA", "STO", "RD", "WR"},
           to \in AfterStop \cup BeforeRead \cup Between, to # "start", ipc \notin AfterStop,
           "WR" \in bits => (ipc = "start" /\ to = "tip1") \/ to \in AfterStop,
           "RD" \in bits => ipc = "rd" /\ to \in {"rx", "rstop"},
           to \in BeforeRead => ipc \in BeforeRead
    PROVE  I2cIInv'
<1>1. UNCHANGED <<shifter, busy, nack, puts, reads, held>> /\ ipc' = to /\ StoreCommand(bits)
  BY DEF Command, wire
<1>2. StopFollows' /\ cr' = loaded \cup bits /\ cr' \subseteq {"STA", "STO", "RD", "WR", "ACK"}
      /\ loaded' = NotLoaded /\ loaded \subseteq {"STA", "STO"}
  BY <1>1, StoreKeepsStop
<1>3. I2cTypeOK /\ PutsAccount /\ ReadsAccount /\ StopFollows
  BY DEF I2cIInv
<1>4. I2cTypeOK'
  BY <1>1, <1>2, <1>3 DEF I2cTypeOK, AfterStop, BeforeRead, Between
<1>5. PutsAccount'
  BY <1>1, <1>2, <1>3 DEF I2cTypeOK, PutsAccount, PutPending, PutsToCome, AfterStop
<1>6. ReadsAccount'
  BY <1>1, <1>2, <1>3 DEF I2cTypeOK, ReadsAccount, ReadPending, ReadsToCome, BeforeRead
<1>7. QED
  BY <1>2, <1>4, <1>5, <1>6 DEF I2cIInv

\* The steps of a call.
LEMMA CallKeepsI2cIInv ==
    ASSUME I2cIInv, I2cCall
    PROVE  I2cIInv'
<1>0. I2cTypeOK /\ PutsAccount /\ ReadsAccount /\ StopFollows
  BY DEF I2cIInv
<1> USE DEF AfterStop, BeforeRead, Between
<1>1. ASSUME NEW from, NEW to, Goto(from, to), from # "start",
             to \in AfterStop => from \in AfterStop \cup {"ack1"}, from \in AfterStop => to \in AfterStop,
             to \in BeforeRead => from \in BeforeRead, to # "start",
             to \in AfterStop \cup BeforeRead \cup Between,
             from \in {"rx", "cack", "rstop"} => to \in {"rx", "cack", "rstop"}
      PROVE  I2cIInv'
  <2>1. ipc = from /\ ipc' = to /\ UNCHANGED <<loaded, cr, shifter, busy, nack, puts, reads, held>>
    BY <1>1 DEF Goto, wire
  <2>2. I2cTypeOK' /\ StopFollows'
    BY <1>0, <1>1, <2>1 DEF I2cTypeOK, StopFollows, Stale
  <2>3. PutsAccount'
    BY <1>0, <1>1, <2>1 DEF PutsAccount, PutPending, PutsToCome, I2cTypeOK
  <2>4. ReadsAccount'
    BY <1>0, <1>1, <2>1 DEF ReadsAccount, ReadPending, ReadsToCome, I2cTypeOK
  <2>5. QED
    BY <2>2, <2>3, <2>4 DEF I2cIInv
<1>14. CASE LoadCommand
  <2>1. /\ UNCHANGED <<cr, ipc, shifter, busy, nack, puts, reads, held>>
        /\ loaded' = Status /\ Status \subseteq {"STA", "STO"} /\ ~Stale'
    BY <1>14 DEF LoadCommand, wire, Status, Stale
  <2>2. QED
    BY <1>0, <2>1 DEF I2cIInv, I2cTypeOK, PutsAccount, PutPending, PutsToCome, ReadsAccount, ReadPending,
                      ReadsToCome, StopFollows, Stale
<1>2. CASE Start
  <2>1. ipc = "start" /\ Command({"STA", "WR"}, "tip1")
    BY <1>2 DEF Start
  <2>2. QED
    BY <2>1, CommandKeepsI2cIInv
<1>3. CASE Stop
  <2>1. ipc = "stop" /\ Command({"STO", "WR"}, "tip2")
    BY <1>3 DEF Stop
  <2>2. QED
    BY <2>1, CommandKeepsI2cIInv
<1>4. CASE ClearWrite
  <2>1. ipc = "unwr" /\ Command({}, "rd")
    BY <1>4 DEF ClearWrite
  <2>2. QED
    BY <2>1, CommandKeepsI2cIInv
<1>5. CASE SetRead
  <2>1. PICK to \in {"rx", "rstop"} : ipc = "rd" /\ Command({"RD"}, to)
    BY <1>5 DEF SetRead
  <2>2. to \in Between /\ to \notin AfterStop \cup BeforeRead /\ ipc \notin AfterStop /\ to # "start"
    BY <2>1
  <2>3. QED
    BY <2>1, <2>2, CommandKeepsI2cIInv
<1>6. CASE ReceiveStop
  <2>1. ipc = "rstop" /\ Command({"STO", "WR"}, "idle")
    BY <1>6 DEF ReceiveStop
  <2>2. QED
    BY <2>1, CommandKeepsI2cIInv
<1>7. CASE WaitTip
  <2>1. CASE Goto("tip1", "ack1")
    BY <1>1, <2>1
  <2>2. CASE Goto("tip2", "ack2")
    BY <1>1, <2>2
  <2>3. CASE ipc = "tipN" /\ ipc' \in {"txr", "stop"} /\ UNCHANGED <<loaded, cr, wire>>
    BY <1>0, <2>3 DEF wire, Stale, I2cIInv, I2cTypeOK, PutsAccount, PutPending, PutsToCome,
                      ReadsAccount, ReadPending, ReadsToCome, StopFollows, Stale
  <2>4. QED
    BY <1>7, <2>1, <2>2, <2>3 DEF WaitTip
<1>8. CASE FirstAck
  <2>1. CASE nack
    BY <1>1, <1>8, <2>1 DEF FirstAck
  <2>2. CASE ~nack
    <3>1. PICK to \in {"unwr", "txr", "stop"} : Goto("ack1", to)
      BY <1>8, <2>2 DEF FirstAck
    <3>2. QED
      BY <1>1, <3>1
  <2>3. QED
    BY <2>1, <2>2
<1>9. CASE LastAck
  <2>1. CASE Goto("ack2", "idle")
    BY <1>1, <2>1
  <2>2. CASE ~Goto("ack2", "idle")
    <3>1. ipc = "ack2" /\ ipc' = "start" /\ puts' = 0 /\ reads' = 0
          /\ UNCHANGED <<loaded, cr, shifter, busy, nack, held>>
      BY <1>9, <2>2 DEF LastAck
    <3>2. QED
      BY <1>0, <3>1 DEF I2cIInv, I2cTypeOK, PutsAccount, PutPending, PutsToCome,
                        ReadsAccount, ReadPending, ReadsToCome, StopFollows, Stale
  <2>3. QED
    BY <2>1, <2>2
<1>10. CASE LoadByte
  <2>1. ipc = "txr" /\ ipc' = "tipN" /\ UNCHANGED <<loaded, cr, shifter, busy, nack, puts, reads, held>>
    BY <1>10 DEF LoadByte, ByteCommand, wire
  <2>2. QED
    BY <1>0, <2>1 DEF I2cIInv, I2cTypeOK, PutsAccount, PutPending, PutsToCome,
                      ReadsAccount, ReadPending, ReadsToCome, StopFollows, Stale
<1>11. CASE ReadByte
  BY <1>1, <1>11 DEF ReadByte
<1>12. CASE Acknowledge
  <2>1. /\ ipc = "cack" /\ ipc' \in {"rx", "rstop"} /\ StoreCommand({"ACK"})
        /\ UNCHANGED <<shifter, busy, nack, puts, reads, held>>
    BY <1>12 DEF Acknowledge, NextByte, wire
  <2>2. StopFollows' /\ cr' = loaded \cup {"ACK"} /\ loaded' = NotLoaded /\ loaded \subseteq {"STA", "STO"}
    BY <2>1, StoreKeepsStop
  <2>3. I2cTypeOK' /\ StopFollows'
    BY <1>0, <2>1, <2>2 DEF I2cTypeOK
  <2>4. PutsAccount' /\ ReadsAccount'
    BY <1>0, <2>1, <2>2 DEF I2cTypeOK, PutsAccount, PutPending, PutsToCome,
                            ReadsAccount, ReadPending, ReadsToCome
  <2>5. QED
    BY <2>3, <2>4 DEF I2cIInv
<1>13. QED
  BY <1>2, <1>3, <1>4, <1>5, <1>6, <1>7, <1>8, <1>9, <1>10, <1>11, <1>12, <1>14 DEF I2cCall

\* The controller takes a command and finishes it.
LEMMA ControllerKeepsI2cIInv ==
    ASSUME I2cIInv, Take \/ Finish
    PROVE  I2cIInv'
<1>0. I2cTypeOK /\ PutsAccount /\ ReadsAccount /\ StopFollows
  BY DEF I2cIInv
<1>1. CASE Take
  <2>1. UNCHANGED <<loaded, cr, nack, ipc>> /\ shifter = "none" /\ shifter' # "none"
        /\ cr \cap {"RD", "WR", "STO"} # {}
    BY <1>1 DEF Take
  <2>2. I2cTypeOK'
    BY <1>0, <1>1 DEF Take, I2cTypeOK
  <2>3. PutsAccount'
    BY <1>0, <1>1, <2>1 DEF Take, I2cTypeOK, PutsAccount, PutPending, PutsToCome
  <2>4. ReadsAccount'
    BY <1>0, <1>1, <2>1 DEF Take, I2cTypeOK, ReadsAccount, ReadPending, ReadsToCome
  <2>5. StopFollows'
    <3>1. /\ held \in Nat /\ held <= 2 /\ (held >= 1 => busy) /\ ~Stale
          /\ held = 2 => "STO" \in cr
      BY <1>0, <2>1 DEF I2cTypeOK, StopFollows
    <3>2. CASE "STA" \in cr
      <4>1. held' = held + 1 /\ busy' = TRUE /\ cr' = cr /\ loaded' = loaded
        BY <1>1, <3>2 DEF Take
      <4>2. Stale' => ~busy
        BY <3>1, <4>1 DEF Stale
      <4>3. QED
        BY <2>1, <3>1, <4>1, <4>2 DEF StopFollows
    <3>3. CASE "STA" \notin cr
      <4>1. held' = held /\ busy' = busy /\ cr' = cr /\ loaded' = loaded
        BY <1>0, <1>1, <3>3 DEF Take, I2cTypeOK
      <4>2. ~Stale'
        BY <3>1, <4>1 DEF Stale
      <4>3. QED
        BY <2>1, <3>1, <4>1, <4>2 DEF StopFollows
    <3>4. QED
      BY <3>2, <3>3
  <2>6. QED
    BY <2>2, <2>3, <2>4, <2>5 DEF I2cIInv
<1>2. CASE Finish
  <2>1. UNCHANGED <<loaded, ipc, puts, reads>> /\ shifter # "none" /\ shifter' = "none" /\ cr' = {}
        /\ nack' \in BOOLEAN
    BY <1>0, <1>2 DEF Finish, I2cTypeOK
  <2>2. I2cTypeOK'
    BY <1>0, <1>2, <2>1 DEF Finish, I2cTypeOK
  <2>3. PutsAccount' /\ ReadsAccount'
    BY <1>0, <2>1 DEF I2cTypeOK, PutsAccount, PutPending, PutsToCome, ReadsAccount, ReadPending, ReadsToCome
  <2>4. StopFollows'
    <3>1. /\ held \in Nat /\ held <= 3 /\ (held = 3 => "STO" \in cr) /\ (held >= 1 => busy)
          /\ Stale => held <= 1
      BY <1>0 DEF I2cTypeOK, StopFollows
    <3>2. CASE "STO" \in cr
      <4>1. held' = 0 /\ busy' = FALSE
        BY <1>2, <3>2 DEF Finish
      <4>2. QED
        BY <2>1, <4>1 DEF StopFollows, Stale
    <3>3. CASE "STO" \notin cr
      <4>1. busy' = busy /\ held' = IF busy THEN held ELSE 0
        BY <1>0, <1>2, <3>3 DEF Finish, I2cTypeOK
      <4>2. Stale' <=> Stale
        BY <2>1, <4>1 DEF Stale
      <4>3. QED
        BY <2>1, <3>1, <3>3, <4>1, <4>2 DEF StopFollows
    <3>4. QED
      BY <3>2, <3>3
  <2>5. QED
    BY <2>2, <2>3, <2>4 DEF I2cIInv
<1>3. QED
  BY <1>1, <1>2

(* i2c.c:27-110: the inductive invariant of the transfers.                   *)
THEOREM I2cInductive == I2cSpec => []I2cIInv
<1>1. I2cInit => I2cIInv
  <2>1. SUFFICES ASSUME I2cInit PROVE I2cIInv
    OBVIOUS
  <2>2. I2cTypeOK
    BY <2>1 DEF I2cInit, I2cTypeOK, AfterStop
  <2>a. StopFollows
    BY <2>1 DEF I2cInit, StopFollows, Stale
  <2>3. PutsAccount /\ ReadsAccount
    BY <2>1 DEF I2cInit, PutsAccount, PutPending, PutsToCome, ReadsAccount, ReadPending, ReadsToCome,
                AfterStop, BeforeRead
  <2>4. QED
    BY <2>2, <2>a, <2>3 DEF I2cIInv
<1>2. I2cIInv /\ [I2cNext]_i2cVars => I2cIInv'
  <2>1. SUFFICES ASSUME I2cIInv, [I2cNext]_i2cVars PROVE I2cIInv'
    OBVIOUS
  <2>2. CASE UNCHANGED i2cVars \/ i2c_init
    <3>1. UNCHANGED <<loaded, cr, shifter, busy, nack, ipc, puts, reads, held>>
      BY <2>2 DEF i2cVars, i2c_init, wire
    <3>2. QED
      BY <2>1, <3>1 DEF I2cIInv, I2cTypeOK, PutsAccount, PutPending, PutsToCome, ReadsAccount, ReadPending,
                        ReadsToCome, StopFollows, Stale
  <2>3. CASE i2c_close
    <3>1. UNCHANGED <<loaded, busy, nack, ipc, puts, reads>> /\ cr' = {} /\ shifter' = "none" /\ held' = 0
      BY <2>3 DEF i2c_close
    <3>2. QED
      BY <2>1, <3>1 DEF I2cIInv, I2cTypeOK, PutsAccount, PutPending, PutsToCome, ReadsAccount, ReadPending,
                        ReadsToCome, StopFollows, Stale
  <2>4. ASSUME NEW o, NEW n, Begin(o, n) PROVE I2cIInv'
    <3>1. UNCHANGED <<loaded, cr, shifter, busy, nack, held>> /\ ipc = "idle" /\ ipc' = "start" /\ puts' = 0 /\ reads' = 0
      BY <2>4 DEF Begin
    <3>2. QED
      BY <2>1, <3>1 DEF I2cIInv, I2cTypeOK, PutsAccount, PutPending, PutsToCome, ReadsAccount, ReadPending,
                        ReadsToCome, StopFollows, Stale, AfterStop, BeforeRead, Between
  <2>5. QED
    BY <2>1, <2>2, <2>3, <2>4, CallKeepsI2cIInv, ControllerKeepsI2cIInv DEF I2cNext
<1>3. QED
  BY <1>1, <1>2, PTL DEF I2cSpec

(* i2c.c:27-110: for buffers of any size and any acknowledges, three bytes   *)
(* at most go on the bus during a call, one is read, a call that is late to  *)
(* its inverted wait never ends, and the bus is held over three starts at most. *)
THEOREM I2cTrafficBounded == I2cSpec => I2cBusTraffic
<1>1. I2cIInv => I2cThreeBytesAtMost /\ I2cReadsOnce /\ I2cHoldIsShort
  BY DEF I2cIInv, I2cTypeOK, PutsAccount, PutPending, PutsToCome, ReadsAccount, ReadPending, ReadsToCome,
         StopFollows, I2cThreeBytesAtMost, I2cReadsOnce, I2cHoldIsShort
<1>2. [I2cNext]_i2cVars => [I2cLate => I2cLate']_i2cVars
  <2>1. SUFFICES ASSUME I2cNext, I2cLate PROVE I2cLate'
    BY DEF i2cVars
  <2>2. cr = {} /\ ipc # "idle" /\ ipc \in {"tip1", "tipN", "tip2"} /\ ~tip
    BY <2>1 DEF I2cLate, tip
  <2>3. CASE Take \/ Finish
    BY <2>2, <2>3 DEF Take, Finish, I2cLate
  <2>4. ~I2cCall
    BY <2>2 DEF I2cCall, LoadCommand, Start, WaitTip, Waited, FirstAck, LastAck, LoadByte, Stop, ClearWrite, SetRead,
                ReadByte, Acknowledge, ReceiveStop, Goto
  <2>5. QED
    BY <2>1, <2>2, <2>3, <2>4 DEF I2cNext, i2c_init, i2c_close, Begin
<1>3. QED
  BY <1>1, <1>2, I2cInductive, PTL DEF I2cSpec, I2cBusTraffic, I2cLateWaitNeverEnds

-----------------------------------------------------------------------------
(* The pins: a device keeps the pins it opened                             *)

(***************************************************************************)
(* Statements and what a list of them does to one bit of one register.      *)
(***************************************************************************)
Stmts(pins) == [reg : Regs, mask : SUBSET pins, set : BOOLEAN]

Touches(s, k, r, g)  == s[k].reg = r /\ g \in s[k].mask
LeavesAlone(s, r, g) == \A k \in 1 .. Len(s) : ~Touches(s, k, r, g)
Ends(s, r, g, v)     == \E k \in 1 .. Len(s) : /\ Touches(s, k, r, g) /\ s[k].set = v
                                               /\ \A j \in k + 1 .. Len(s) : ~Touches(s, j, r, g)
Will(s, r, g, v)     == Ends(s, r, g, v) \/ (LeavesAlone(s, r, g) /\ ((g \in reg[r]) = v))

LEMMA LastWins ==
    ASSUME NEW pins, NEW s \in Seq(Stmts(pins)), NEW t \in Seq(Stmts(pins)),
           NEW r, NEW g, NEW v
    PROVE  /\ s \o t \in Seq(Stmts(pins))
           /\ LeavesAlone(s, r, g) /\ LeavesAlone(t, r, g) => LeavesAlone(s \o t, r, g)
           /\ Ends(t, r, g, v) => Ends(s \o t, r, g, v)
           /\ Ends(s, r, g, v) /\ LeavesAlone(t, r, g) => Ends(s \o t, r, g, v)
<1>1. s \o t \in Seq(Stmts(pins))
  OBVIOUS
<1>2. /\ Len(s) \in Nat /\ Len(t) \in Nat /\ Len(s \o t) = Len(s) + Len(t)
      /\ \A k \in 1 .. Len(s) : (s \o t)[k] = s[k]
      /\ \A k \in 1 .. Len(t) : (s \o t)[Len(s) + k] = t[k]
      /\ \A k \in Len(s) + 1 .. Len(s) + Len(t) : k - Len(s) \in 1 .. Len(t) /\ (s \o t)[k] = t[k - Len(s)]
  OBVIOUS
<1>3. ASSUME LeavesAlone(s, r, g), LeavesAlone(t, r, g) PROVE LeavesAlone(s \o t, r, g)
  BY <1>2, <1>3 DEF LeavesAlone, Touches
<1>4. ASSUME Ends(t, r, g, v) PROVE Ends(s \o t, r, g, v)
  <2>1. PICK k \in 1 .. Len(t) : /\ Touches(t, k, r, g) /\ t[k].set = v
                                 /\ \A j \in k + 1 .. Len(t) : ~Touches(t, j, r, g)
    BY <1>4 DEF Ends
  <2>2. Len(s) + k \in 1 .. Len(s \o t) /\ Touches(s \o t, Len(s) + k, r, g) /\ (s \o t)[Len(s) + k].set = v
    BY <1>2, <2>1 DEF Touches
  <2>3. ASSUME NEW j \in Len(s) + k + 1 .. Len(s \o t) PROVE ~Touches(s \o t, j, r, g)
    <3>1. j - Len(s) \in k + 1 .. Len(t) /\ j \in Len(s) + 1 .. Len(s) + Len(t)
      BY <1>2
    <3>2. QED
      BY <1>2, <2>1, <3>1 DEF Touches
  <2>4. QED
    BY <2>2, <2>3 DEF Ends
<1>5. ASSUME Ends(s, r, g, v), LeavesAlone(t, r, g) PROVE Ends(s \o t, r, g, v)
  <2>1. PICK k \in 1 .. Len(s) : /\ Touches(s, k, r, g) /\ s[k].set = v
                                 /\ \A j \in k + 1 .. Len(s) : ~Touches(s, j, r, g)
    BY <1>5 DEF Ends
  <2>2. k \in 1 .. Len(s \o t) /\ Touches(s \o t, k, r, g) /\ (s \o t)[k].set = v
    BY <1>2, <2>1 DEF Touches
  <2>3. ASSUME NEW j \in k + 1 .. Len(s \o t) PROVE ~Touches(s \o t, j, r, g)
    <3>1. CASE j \in 1 .. Len(s)
      BY <1>2, <2>1, <3>1 DEF Touches
    <3>2. CASE j \in Len(s) + 1 .. Len(s) + Len(t)
      BY <1>2, <1>5, <3>2 DEF Touches, LeavesAlone
    <3>3. QED
      BY <1>2, <3>1, <3>2
  <2>4. QED
    BY <2>2, <2>3 DEF Ends
<1>6. QED
  BY <1>1, <1>3, <1>4, <1>5

\* A list on some pins leaves the others alone, in every register.
LEMMA OthersAlone ==
    ASSUME NEW pins, NEW s \in Seq(Stmts(pins)), NEW r, NEW g, g \notin pins
    PROVE  LeavesAlone(s, r, g)
<1>1. ASSUME NEW k \in 1 .. Len(s) PROVE s[k].mask \subseteq pins
  <2>1. s[k] \in Stmts(pins)
    OBVIOUS
  <2>2. QED
    BY <2>1 DEF Stmts
<1>2. QED
  BY <1>1 DEF LeavesAlone, Touches

\* A list on some pins is one on more pins.
LEMMA MorePins ==
    ASSUME NEW pins, NEW more, pins \subseteq more
    PROVE  Seq(Stmts(pins)) \subseteq Seq(Stmts(more))
<1>1. Stmts(pins) \subseteq Stmts(more)
  BY DEF Stmts
<1>2. QED
  BY <1>1

(* What the calls' lists do to the bits that connect a pin.                 *)

LEMMA Iof0Does ==
    ASSUME NEW g
    PROVE  /\ Iof0(g) \in Seq(Stmts({g}))
           /\ Ends(Iof0(g), "IOF_EN", g, TRUE) /\ Ends(Iof0(g), "IOF_SEL", g, FALSE)
<1>1. /\ Iof0(g) \in Seq(Stmts({g})) /\ Len(Iof0(g)) = 2
      /\ Iof0(g)[1] = Sets("IOF_EN", {g}) /\ Iof0(g)[2] = Clears("IOF_SEL", {g})
  BY DEF Iof0, Stmts, Sets, Clears, Regs
<1>2. Ends(Iof0(g), "IOF_EN", g, TRUE)
  <2>1. Touches(Iof0(g), 1, "IOF_EN", g) /\ Iof0(g)[1].set = TRUE
    BY <1>1 DEF Touches, Sets
  <2>2. \A j \in 2 .. 2 : ~Touches(Iof0(g), j, "IOF_EN", g)
    BY <1>1 DEF Touches, Clears
  <2>3. QED
    BY <1>1, <2>1, <2>2 DEF Ends
<1>3. Ends(Iof0(g), "IOF_SEL", g, FALSE)
  <2>1. Touches(Iof0(g), 2, "IOF_SEL", g) /\ Iof0(g)[2].set = FALSE
    BY <1>1 DEF Touches, Clears
  <2>2. QED
    BY <1>1, <2>1 DEF Ends
<1>4. QED
  BY <1>1, <1>2, <1>3

LEMMA ReleaseDoes == ASSUME NEW g PROVE Release(g) \in Seq(Stmts({g}))
  BY DEF Release, Stmts, Sets, Clears, Regs

\* The pins of a call, at the device each connects them to.
Connects(s, pins) ==
    /\ s \in Seq(Stmts(pins))
    /\ \A g \in pins : Ends(s, "IOF_EN", g, TRUE) /\ Ends(s, "IOF_SEL", g, FALSE)

LEMMA ConnectsBoth ==
    ASSUME NEW p, NEW q, NEW s, NEW t, Connects(s, p), Connects(t, q), p \cap q = {}
    PROVE  Connects(s \o t, p \cup q)
<1>1. /\ s \in Seq(Stmts(p)) /\ t \in Seq(Stmts(q))
      /\ s \in Seq(Stmts(p \cup q)) /\ t \in Seq(Stmts(p \cup q))
  BY MorePins DEF Connects
<1>2. s \o t \in Seq(Stmts(p \cup q))
  BY <1>1, LastWins
<1>3. ASSUME NEW g \in p \cup q
      PROVE  Ends(s \o t, "IOF_EN", g, TRUE) /\ Ends(s \o t, "IOF_SEL", g, FALSE)
  <2>1. CASE g \in q
    BY <1>1, <2>1, LastWins DEF Connects
  <2>2. CASE g \in p
    <3>1. LeavesAlone(t, "IOF_EN", g) /\ LeavesAlone(t, "IOF_SEL", g)
      BY <1>1, <2>2, OthersAlone
    <3>2. QED
      BY <1>1, <2>2, <3>1, LastWins DEF Connects
  <2>3. QED
    BY <2>1, <2>2
<1>4. QED
  BY <1>2, <1>3 DEF Connects

LEMMA Uart1Does ==
    /\ Connects(<<Clears("OUTPUT_XOR", {19}), Sets("IOF_EN", {19}), Sets("INPUT_EN", {19}),
         Clears("OUTPUT_EN", {19}), Clears("PULLUP_EN", {19}), Clears("IOF_SEL", {19})>>, {19})
    /\ Connects(<<Sets("OUTPUT_XOR", {18}), Sets("IOF_EN", {18}), Clears("INPUT_EN", {18}),
         Sets("OUTPUT_EN", {18}), Clears("PULLUP_EN", {18}), Clears("IOF_SEL", {18})>>, {18})
<1> DEFINE rx == <<Clears("OUTPUT_XOR", {19}), Sets("IOF_EN", {19}), Sets("INPUT_EN", {19}),
         Clears("OUTPUT_EN", {19}), Clears("PULLUP_EN", {19}), Clears("IOF_SEL", {19})>>
           tx == <<Sets("OUTPUT_XOR", {18}), Sets("IOF_EN", {18}), Clears("INPUT_EN", {18}),
         Sets("OUTPUT_EN", {18}), Clears("PULLUP_EN", {18}), Clears("IOF_SEL", {18})>>
<1>1. rx \in Seq(Stmts({19})) /\ tx \in Seq(Stmts({18}))
  BY DEF Stmts, Sets, Clears, Regs
<1>2. Ends(rx, "IOF_EN", 19, TRUE) /\ Ends(tx, "IOF_EN", 18, TRUE)
  <2>1. /\ Len(rx) = 6 /\ Touches(rx, 2, "IOF_EN", 19) /\ rx[2].set = TRUE
        /\ Len(tx) = 6 /\ Touches(tx, 2, "IOF_EN", 18) /\ tx[2].set = TRUE
    BY DEF Touches, Sets, Clears
  <2>2. \A j \in 3 .. 6 : ~Touches(rx, j, "IOF_EN", 19) /\ ~Touches(tx, j, "IOF_EN", 18)
    BY DEF Touches, Sets, Clears
  <2>3. QED
    BY <2>1, <2>2 DEF Ends
<1>3. Ends(rx, "IOF_SEL", 19, FALSE) /\ Ends(tx, "IOF_SEL", 18, FALSE)
  <2>1. /\ Len(rx) = 6 /\ Touches(rx, 6, "IOF_SEL", 19) /\ rx[6].set = FALSE
        /\ Len(tx) = 6 /\ Touches(tx, 6, "IOF_SEL", 18) /\ tx[6].set = FALSE
    BY DEF Touches, Sets, Clears
  <2>2. \A j \in 7 .. 6 : ~Touches(rx, j, "IOF_SEL", 19) /\ ~Touches(tx, j, "IOF_SEL", 18)
    OBVIOUS
  <2>3. QED
    BY <2>1, <2>2 DEF Ends
<1>4. QED
  BY <1>1, <1>2, <1>3 DEF Connects

\* Every initialisation but I2C's connects the pins of its device.
LEMMA InitConnects ==
    ASSUME NEW d \in {"uart0", "uart1", "spi"}
    PROVE  Connects(InitOf(d), PinsOf(d))
<1>1. \A g : Connects(Iof0(g), {g})
  BY Iof0Does DEF Connects
<1>2. CASE d = "uart0"
  <2>1. Connects(Iof0(16) \o Iof0(17), {16} \cup {17})
    <3>1. Connects(Iof0(16), {16}) /\ Connects(Iof0(17), {17}) /\ {16} \cap {17} = {}
      BY <1>1
    <3>2. QED
      BY <3>1, ConnectsBoth
  <2>2. {16} \cup {17} = UART0
    BY DEF UART0
  <2>3. QED
    BY <1>2, <2>1, <2>2 DEF InitOf, PinsOf, uart0_init
<1>3. CASE d = "uart1"
  <2>1. Connects(uart1_init, {19} \cup {18})
    BY Uart1Does, ConnectsBoth DEF uart1_init
  <2>2. {19} \cup {18} = UART1
    BY DEF UART1
  <2>3. QED
    BY <1>3, <2>1, <2>2 DEF InitOf, PinsOf
<1>4. CASE d = "spi"
  <2>1. Connects(Iof0(4) \o Iof0(3), {4} \cup {3})
    <3>1. Connects(Iof0(4), {4}) /\ Connects(Iof0(3), {3}) /\ {4} \cap {3} = {}
      BY <1>1
    <3>2. QED
      BY <3>1, ConnectsBoth
  <2>2. Connects((Iof0(4) \o Iof0(3)) \o Iof0(5), ({4} \cup {3}) \cup {5})
    <3>1. Connects(Iof0(5), {5}) /\ ({4} \cup {3}) \cap {5} = {}
      BY <1>1
    <3>2. QED
      BY <2>1, <3>1, ConnectsBoth
  <2>3. ({4} \cup {3}) \cup {5} = {SPI1_MISO, SPI1_MOSI, SPI1_SCK}
    BY DEF SPI1_MISO, SPI1_MOSI, SPI1_SCK
  <2>4. QED
    BY <1>4, <2>2, <2>3 DEF InitOf, PinsOf, spi_init, SPI1_MISO, SPI1_MOSI, SPI1_SCK
<1>5. QED
  BY <1>2, <1>3, <1>4

\* Every closing touches the pins of its device, and of the chip selects.
ClosePins(d) == PinsOf(d) \cup (IF d = "spi" THEN SPI1_SS ELSE {})

LEMMA CloseStays ==
    ASSUME NEW d \in {"uart0", "uart1", "spi"}
    PROVE  CloseOf(d) \in Seq(Stmts(ClosePins(d)))
<1>1. ASSUME NEW pins, NEW g \in pins PROVE Release(g) \in Seq(Stmts(pins))
  <2>1. {g} \subseteq pins /\ Release(g) \in Seq(Stmts({g}))
    BY ReleaseDoes
  <2>2. QED
    BY <2>1, MorePins
<1>2. ASSUME NEW pins, NEW s \in Seq(Stmts(pins)), NEW g \in pins
      PROVE  s \o Release(g) \in Seq(Stmts(pins))
  BY <1>1, LastWins
<1>3. CASE d = "uart0"
  BY <1>1, <1>2, <1>3 DEF CloseOf, uart0_close, ClosePins, PinsOf, UART0
<1>4. CASE d = "uart1"
  BY <1>1, <1>2, <1>4 DEF CloseOf, uart1_close, ClosePins, PinsOf, UART1
<1>5. CASE d = "spi"
  <2> DEFINE all == {4, 3, 5, 2, 8, 9, 10}
  <2>1. ClosePins(d) = all
    BY <1>5 DEF ClosePins, PinsOf, SPI1_SS, SPI1_MISO, SPI1_MOSI, SPI1_SCK
  <2>2. Release(4) \in Seq(Stmts(all))
    BY <1>1
  <2>3. Release(4) \o Release(3) \in Seq(Stmts(all))
    BY <1>2, <2>2
  <2>4. Release(4) \o Release(3) \o Release(5) \in Seq(Stmts(all))
    BY <1>2, <2>3
  <2>5. Release(4) \o Release(3) \o Release(5) \o Release(2) \in Seq(Stmts(all))
    BY <1>2, <2>4
  <2>6. Release(4) \o Release(3) \o Release(5) \o Release(2) \o Release(8) \in Seq(Stmts(all))
    BY <1>2, <2>5
  <2>7. Release(4) \o Release(3) \o Release(5) \o Release(2) \o Release(8) \o Release(9) \in Seq(Stmts(all))
    BY <1>2, <2>6
  <2>8. spi_close \in Seq(Stmts(all))
    BY <1>2, <2>7 DEF spi_close
  <2>9. QED
    BY <1>5, <2>1, <2>8 DEF CloseOf
<1>6. QED
  BY <1>3, <1>4, <1>5

\* The calls on one pin.
LEMMA OnePinDoes ==
    ASSUME NEW g, NEW b \in BOOLEAN
    PROVE  /\ pwm_pin(g) \in Seq(Stmts({g})) /\ gpio_init_output(g, b) \in Seq(Stmts({g}))
           /\ gpio_init_input(g, b) \in Seq(Stmts({g})) /\ gpio_setoutput(g, b) \in Seq(Stmts({g}))
           /\ pwm_pin(g) # <<>> /\ gpio_init_output(g, b) # <<>>
           /\ gpio_init_input(g, b) # <<>> /\ gpio_setoutput(g, b) # <<>>
           /\ Ends(pwm_pin(g), "IOF_EN", g, TRUE) /\ Ends(pwm_pin(g), "IOF_SEL", g, TRUE)
           /\ Ends(pwm_pin(g), "OUTPUT_EN", g, TRUE)
           /\ Ends(gpio_init_output(g, b), "OUTPUT_EN", g, TRUE)
           /\ \A h : /\ LeavesAlone(gpio_init_output(g, b), "IOF_EN", h)
                    /\ LeavesAlone(gpio_init_output(g, b), "IOF_SEL", h)
                    /\ LeavesAlone(gpio_init_input(g, b), "IOF_EN", h)
                    /\ LeavesAlone(gpio_init_input(g, b), "IOF_SEL", h)
                    /\ \A r : r # "OUTPUT_VAL" => LeavesAlone(gpio_setoutput(g, b), r, h)
<1>1. pwm_pin(g) \in Seq(Stmts({g})) /\ pwm_pin(g) # <<>>
  BY DEF pwm_pin, Stmts, Sets, Clears, Regs
<1>2. gpio_init_output(g, b) \in Seq(Stmts({g})) /\ gpio_init_output(g, b) # <<>>
  BY DEF gpio_init_output, Stmts, Sets, Clears, Regs
<1>3. gpio_init_input(g, b) \in Seq(Stmts({g})) /\ gpio_init_input(g, b) # <<>>
  BY DEF gpio_init_input, Stmts, Sets, Clears, Regs
<1>4. gpio_setoutput(g, b) \in Seq(Stmts({g})) /\ gpio_setoutput(g, b) # <<>>
  BY DEF gpio_setoutput, Stmts, Regs
<1>5. Ends(pwm_pin(g), "IOF_EN", g, TRUE)
  <2>1. Len(pwm_pin(g)) = 8 /\ Touches(pwm_pin(g), 6, "IOF_EN", g) /\ pwm_pin(g)[6].set = TRUE
    BY DEF pwm_pin, Touches, Sets, Clears
  <2>2. \A j \in 7 .. 8 : ~Touches(pwm_pin(g), j, "IOF_EN", g)
    BY DEF pwm_pin, Touches, Sets, Clears
  <2>3. QED
    BY <2>1, <2>2 DEF Ends
<1>6. Ends(pwm_pin(g), "IOF_SEL", g, TRUE)
  <2>1. Len(pwm_pin(g)) = 8 /\ Touches(pwm_pin(g), 7, "IOF_SEL", g) /\ pwm_pin(g)[7].set = TRUE
    BY DEF pwm_pin, Touches, Sets, Clears
  <2>2. \A j \in 8 .. 8 : ~Touches(pwm_pin(g), j, "IOF_SEL", g)
    BY DEF pwm_pin, Touches, Sets, Clears
  <2>3. QED
    BY <2>1, <2>2 DEF Ends
<1>7. Ends(pwm_pin(g), "OUTPUT_EN", g, TRUE)
  <2>1. Len(pwm_pin(g)) = 8 /\ Touches(pwm_pin(g), 4, "OUTPUT_EN", g) /\ pwm_pin(g)[4].set = TRUE
    BY DEF pwm_pin, Touches, Sets, Clears
  <2>2. \A j \in 5 .. 8 : ~Touches(pwm_pin(g), j, "OUTPUT_EN", g)
    BY DEF pwm_pin, Touches, Sets, Clears
  <2>3. QED
    BY <2>1, <2>2 DEF Ends
<1>8. Ends(gpio_init_output(g, b), "OUTPUT_EN", g, TRUE)
  <2>1. /\ Len(gpio_init_output(g, b)) = 4 /\ Touches(gpio_init_output(g, b), 2, "OUTPUT_EN", g)
        /\ gpio_init_output(g, b)[2].set = TRUE
    BY DEF gpio_init_output, Touches, Sets, Clears
  <2>2. \A j \in 3 .. 4 : ~Touches(gpio_init_output(g, b), j, "OUTPUT_EN", g)
    BY DEF gpio_init_output, Touches, Sets, Clears
  <2>3. QED
    BY <2>1, <2>2 DEF Ends
<1>9. ASSUME NEW h
      PROVE  /\ LeavesAlone(gpio_init_output(g, b), "IOF_EN", h)
             /\ LeavesAlone(gpio_init_output(g, b), "IOF_SEL", h)
  BY DEF gpio_init_output, LeavesAlone, Touches, Sets, Clears
<1>10. ASSUME NEW h
      PROVE  /\ LeavesAlone(gpio_init_input(g, b), "IOF_EN", h)
             /\ LeavesAlone(gpio_init_input(g, b), "IOF_SEL", h)
  BY DEF gpio_init_input, LeavesAlone, Touches, Sets, Clears
<1>11. ASSUME NEW h, NEW r, r # "OUTPUT_VAL" PROVE LeavesAlone(gpio_setoutput(g, b), r, h)
  BY <1>11 DEF gpio_setoutput, LeavesAlone, Touches
<1>12. QED
  BY <1>1, <1>2, <1>3, <1>4, <1>5, <1>6, <1>7, <1>8, <1>9, <1>10, <1>11

(* The invariants.                                                         *)

Iof0Gpios == (UNION {ClosePins(d) : d \in Devices}) \cup {bit_pos(p) : p \in CsPins}
Iof1Gpios == {bit_pos(p) : p \in PwmPins}
Claims    == [iof0 : SUBSET Iof0Gpios, iof1 : SUBSET Iof1Gpios]

PinTypeOK ==
    /\ reg \in [Regs -> SUBSET Int]
    /\ access \in [claims : Claims, pins : SUBSET Int, todo : Seq(Stmts(Int)), loaded : SUBSET Int,
                   stage : {"idle", "load", "store"}]
    /\ access.todo \in Seq(Stmts(access.pins))
    /\ access.todo = <<>> <=> access.stage = "idle"
    /\ access.stage = "idle" => access.claims = NoClaim
    /\ claimed \in Claims /\ served \in BOOLEAN

\* What main has loaded is what the register holds, but for the outputs that
\* the service routine has set since.
LoadedIsCurrent ==
    access.stage = "store" =>
        LET r == Head(access.todo).reg IN
        /\ r # "OUTPUT_VAL" \/ ~served => access.loaded = reg[r]
        /\ access.loaded \subseteq reg[r] \cup IsrGpios
        /\ reg[r] \subseteq access.loaded \cup IsrGpios

PinsInv == PinTypeOK /\ LoadedIsCurrent

\* The call in progress will leave the open devices connected.
PromisesKept ==
    /\ \A g \in claimed.iof0 \cup access.claims.iof0 :
        Will(access.todo, "IOF_EN", g, TRUE) /\ Will(access.todo, "IOF_SEL", g, FALSE)
    /\ \A g \in claimed.iof1 \cup access.claims.iof1 :
        /\ Will(access.todo, "IOF_EN", g, TRUE) /\ Will(access.todo, "IOF_SEL", g, TRUE)
        /\ Will(access.todo, "OUTPUT_EN", g, TRUE)

\* I2C's masks are not its pins, and setting up a pin for PWM or as an input
\* takes it from the device it was connected to.
I2cUnused == "i2c" \notin Devices
PinsApart == Iof1Gpios \cap (Iof0Gpios \cup {bit_pos(p) : p \in Inputs}) = {}

LEMMA PinNumbers ==
    ASSUME I2cUnused
    PROVE  /\ \A p \in Nat : bit_pos(p) \in Int
           /\ \A d \in Devices : d \in {"uart0", "uart1", "spi"} /\ PinsOf(d) \subseteq ClosePins(d)
                                  /\ PinsOf(d) \subseteq Int /\ ClosePins(d) \subseteq Int
           /\ \A p \in CsPins \cup PwmPins \cup Outputs \cup Inputs \cup IsrPins : bit_pos(p) \in Int
<1>1. \A p \in Nat : bit_pos(p) \in Int
  BY DEF bit_pos
<1>2. ASSUME NEW d \in Devices
      PROVE  d \in {"uart0", "uart1", "spi"} /\ PinsOf(d) \subseteq ClosePins(d)
             /\ PinsOf(d) \subseteq Int /\ ClosePins(d) \subseteq Int
  <2>1. d \in {"uart0", "uart1", "spi"}
    BY DevicesAssumption DEF I2cUnused
  <2>2. PinsOf(d) \subseteq Int
    BY <2>1 DEF PinsOf, UART0, UART1, SPI1_MISO, SPI1_MOSI, SPI1_SCK
  <2>3. QED
    BY <2>1, <2>2 DEF ClosePins, SPI1_SS
<1>3. CsPins \cup PwmPins \cup Outputs \cup Inputs \cup IsrPins \subseteq Nat
  BY PinsAssumption, UncheckedAssumption DEF MAXPIN
<1>4. QED
  BY <1>1, <1>2, <1>3

\* A call that begins on some pins with a list on those pins.
LEMMA BeginKeepsPinsInv ==
    ASSUME PinsInv, NEW claims \in Claims, NEW pins \in SUBSET Int, NEW plan \in Seq(Stmts(pins)),
           plan # <<>>, BeginPins(claims, pins, plan), claimed' \in Claims
    PROVE  PinsInv'
<1>1. plan \in Seq(Stmts(Int))
  BY MorePins
<1>2. /\ access' = [claims |-> claims, pins |-> pins, todo |-> plan, loaded |-> {}, stage |-> "load"]
      /\ UNCHANGED <<reg, served>>
  BY DEF BeginPins
<1>3. PinTypeOK'
  BY <1>1, <1>2 DEF PinsInv, PinTypeOK
<1>4. LoadedIsCurrent'
  BY <1>2 DEF LoadedIsCurrent
<1>5. QED
  BY <1>3, <1>4 DEF PinsInv

LEMMA CallsAreOnTheirPins ==
    ASSUME I2cUnused
    PROVE  /\ \A d \in Devices :
                /\ InitOf(d) \in Seq(Stmts(PinsOf(d))) /\ InitOf(d) # <<>>
                /\ CloseOf(d) \in Seq(Stmts(ClosePins(d))) /\ CloseOf(d) # <<>>
                /\ Iof0Claim(PinsOf(d)) \in Claims
           /\ \A p \in CsPins :
                /\ spi_set_cs(p) \in Seq(Stmts({bit_pos(p)})) /\ spi_set_cs(p) # <<>>
                /\ Iof0Claim({bit_pos(p)}) \in Claims
           /\ \A p \in PwmPins : Iof1Claim({bit_pos(p)}) \in Claims
           /\ NoClaim \in Claims
<1>1. ASSUME NEW d \in Devices
      PROVE  /\ InitOf(d) \in Seq(Stmts(PinsOf(d))) /\ InitOf(d) # <<>>
             /\ CloseOf(d) \in Seq(Stmts(ClosePins(d))) /\ CloseOf(d) # <<>>
             /\ Iof0Claim(PinsOf(d)) \in Claims
  <2>1. d \in {"uart0", "uart1", "spi"} /\ PinsOf(d) \subseteq ClosePins(d)
    BY PinNumbers
  <2>2. InitOf(d) \in Seq(Stmts(PinsOf(d))) /\ CloseOf(d) \in Seq(Stmts(ClosePins(d)))
    BY <2>1, InitConnects, CloseStays DEF Connects
  <2>3. PinsOf(d) # {}
    BY <2>1 DEF PinsOf, UART0, UART1
  <2>4. InitOf(d) # <<>>
    <3>1. PICK g \in PinsOf(d) : Ends(InitOf(d), "IOF_EN", g, TRUE)
      BY <2>1, <2>3, InitConnects DEF Connects
    <3>2. \A s : Ends(s, "IOF_EN", g, TRUE) => s # <<>>
      BY DEF Ends
    <3>3. QED
      BY <3>1, <3>2
  <2>5. \A g, s, pins : s \in Seq(Stmts(pins)) /\ Release(g) \in Seq(Stmts(pins)) => s \o Release(g) # <<>>
    <3>1. \A g : Len(Release(g)) = 6
      BY DEF Release
    <3>2. QED
      BY <3>1
  <2>6. CloseOf(d) # <<>>
    <3>1. \A g, h : Release(g) \o Release(h) # <<>>
      BY <2>5, ReleaseDoes DEF Release
    <3>2. CASE d # "spi"
      BY <2>1, <3>1, <3>2 DEF CloseOf, uart0_close, uart1_close
    <3>3. CASE d = "spi"
      BY <3>3 DEF CloseOf, spi_close, Release
    <3>4. QED
      BY <3>2, <3>3
  <2>7. Iof0Claim(PinsOf(d)) \in Claims
    BY <2>1 DEF Iof0Claim, Claims, Iof0Gpios
  <2>8. QED
    BY <2>2, <2>4, <2>6, <2>7
<1>2. ASSUME NEW p \in CsPins
      PROVE  /\ spi_set_cs(p) \in Seq(Stmts({bit_pos(p)})) /\ spi_set_cs(p) # <<>>
             /\ Iof0Claim({bit_pos(p)}) \in Claims
  <2>1. spi_set_cs(p) \in Seq(Stmts({bit_pos(p)})) /\ spi_set_cs(p) # <<>>
    BY Iof0Does DEF spi_set_cs, Iof0
  <2>2. {bit_pos(p)} \subseteq Iof0Gpios
    <3>1. bit_pos(p) \in {bit_pos(q) : q \in CsPins}
      OBVIOUS
    <3>2. bit_pos(p) \in Iof0Gpios
      BY <3>1 DEF Iof0Gpios
    <3>3. QED
      BY <3>2
  <2>3. Iof0Claim({bit_pos(p)}) \in Claims
    BY <2>2 DEF Iof0Claim, Claims
  <2>4. QED
    BY <2>1, <2>3
<1>3. \A p \in PwmPins : Iof1Claim({bit_pos(p)}) \in Claims
  BY DEF Iof1Claim, Claims, Iof1Gpios
<1>4. NoClaim \in Claims
  BY DEF NoClaim, Claims
<1>5. QED
  BY <1>1, <1>2, <1>3, <1>4

\* A call begins.
LEMMA BeginningsKeepPinsInv ==
    ASSUME I2cUnused, PinsInv,
           \/ \E d \in Devices : Open(d) \/ Close(d)
           \/ SetCs \/ InitOutput \/ InitInput \/ SetOutput \/ SetPulsewidth
    PROVE  PinsInv'
<1>0. claimed \in Claims /\ NoClaim \in Claims /\ \A g \in Int : {g} \in SUBSET Int
  BY CallsAreOnTheirPins DEF PinsInv, PinTypeOK
<1>1. ASSUME NEW d \in Devices, Open(d) PROVE PinsInv'
  <2>1. BeginPins(Iof0Claim(PinsOf(d)), PinsOf(d), InitOf(d)) /\ claimed' = claimed
    BY <1>1 DEF Open
  <2>2. QED
    BY <1>0, <2>1, CallsAreOnTheirPins, PinNumbers, BeginKeepsPinsInv
<1>2. ASSUME NEW d \in Devices, Close(d) PROVE PinsInv'
  <2>1. /\ BeginPins(NoClaim, ClosePins(d), CloseOf(d))
        /\ claimed' = [claimed EXCEPT !.iof0 = @ \ ClosePins(d)]
    BY <1>2 DEF Close, ClosePins
  <2>2. claimed' \in Claims
    BY <1>0, <2>1 DEF Claims
  <2>3. QED
    BY <1>0, <2>1, <2>2, CallsAreOnTheirPins, PinNumbers, BeginKeepsPinsInv
<1>3. ASSUME NEW p \in CsPins \cup PwmPins \cup Outputs \cup Inputs, NEW claims \in Claims,
             NEW plan \in Seq(Stmts({bit_pos(p)})), plan # <<>>, OnPin(p, claims, plan)
      PROVE  PinsInv'
  <2>1. BeginPins(claims, {bit_pos(p)}, plan) /\ claimed' = claimed
    BY <1>3 DEF OnPin
  <2>2. bit_pos(p) \in Int
    BY PinNumbers
  <2>3. {bit_pos(p)} \in SUBSET Int
    BY <2>2
  <2>4. QED
    BY <1>0, <1>3, <2>1, <2>3, BeginKeepsPinsInv
<1>4. CASE SetCs
  BY <1>3, <1>4, CallsAreOnTheirPins DEF SetCs
<1>5. CASE InitOutput
  BY <1>0, <1>3, <1>5, OnePinDoes DEF InitOutput
<1>6. CASE InitInput
  BY <1>0, <1>3, <1>6, OnePinDoes DEF InitInput
<1>7. CASE SetOutput
  BY <1>0, <1>3, <1>7, OnePinDoes DEF SetOutput
<1>8. CASE SetPulsewidth
  <2>1. PICK p \in PwmPins : OnPin(p, Iof1Claim({bit_pos(p)}), pwm_pin(bit_pos(p)))
    BY <1>8 DEF SetPulsewidth
  <2>2. pwm_pin(bit_pos(p)) \in Seq(Stmts({bit_pos(p)})) /\ pwm_pin(bit_pos(p)) # <<>>
    BY OnePinDoes
  <2>3. QED
    BY <1>3, <2>1, <2>2, CallsAreOnTheirPins
<1>9. QED
  BY <1>1, <1>2, <1>4, <1>5, <1>6, <1>7, <1>8

\* The accesses of a call, and the service routine's.
LEMMA AccessesKeepPinsInv ==
    ASSUME I2cUnused, PinsInv, LoadReg \/ StoreReg \/ Isr
    PROVE  PinsInv'
<1>0. PinTypeOK /\ LoadedIsCurrent
  BY DEF PinsInv
<1>1. ASSUME access.stage # "idle"
      PROVE  /\ Head(access.todo) \in Stmts(access.pins) /\ Head(access.todo) \in Stmts(Int)
             /\ Tail(access.todo) \in Seq(Stmts(access.pins)) /\ Tail(access.todo) \in Seq(Stmts(Int))
             /\ Len(access.todo) \in Nat \ {0} /\ (Tail(access.todo) = <<>> <=> Len(access.todo) = 1)
  <2>1. access.todo \in Seq(Stmts(Int)) /\ access.todo \in Seq(Stmts(access.pins)) /\ access.todo # <<>>
    BY <1>0, <1>1 DEF PinTypeOK
  <2>2. QED
    BY <2>1, HeadAndTail
<1>2. CASE LoadReg
  <2>1. access.stage = "load" /\ Head(access.todo).reg \in Regs
    BY <1>1, <1>2 DEF LoadReg, Stmts
  <2>2. reg[Head(access.todo).reg] \in SUBSET Int
    BY <1>0, <2>1 DEF PinTypeOK
  <2>3. PinTypeOK'
    BY <1>0, <1>2, <2>1, <2>2 DEF LoadReg, PinTypeOK
  <2>4. access'.todo = access.todo /\ access'.loaded = reg[Head(access.todo).reg] /\ reg' = reg
    BY <1>0, <1>2 DEF LoadReg, PinTypeOK
  <2>5. LoadedIsCurrent'
    BY <2>4 DEF LoadedIsCurrent
  <2>6. QED
    BY <2>3, <2>5 DEF PinsInv
<1>3. CASE StoreReg
  <2>1. /\ access.stage = "store" /\ served' = served
        /\ reg' = [reg EXCEPT ![Head(access.todo).reg] = Changed(access.loaded, Head(access.todo))]
    BY <1>3 DEF StoreReg
  <2>2. Changed(access.loaded, Head(access.todo)) \in SUBSET Int
    BY <1>0, <1>1, <2>1 DEF Changed, PinTypeOK, Stmts
  <2>3. reg' \in [Regs -> SUBSET Int]
    BY <1>0, <2>1, <2>2 DEF PinTypeOK
  <2>4. CASE Len(access.todo) > 1
    <3>1. /\ access' = [access EXCEPT !.todo = Tail(@), !.loaded = {}, !.stage = "load"]
          /\ claimed' = claimed
      BY <1>3, <2>4 DEF StoreReg
    <3>2. Tail(access.todo) # <<>>
      <4>1. Len(access.todo) \in Nat
        BY <1>1, <2>1
      <4>2. \A n \in Nat : n > 1 => n # 1
        OBVIOUS
      <4>3. Len(access.todo) # 1
        BY <2>4, <4>1, <4>2, Zenon
      <4>4. QED
        BY <1>1, <2>1, <4>3
    <3>3. PinTypeOK'
      BY <1>0, <1>1, <2>1, <2>3, <3>1, <3>2 DEF PinTypeOK
    <3>4. LoadedIsCurrent'
      BY <1>0, <3>1 DEF LoadedIsCurrent, PinTypeOK
    <3>5. QED
      BY <3>3, <3>4 DEF PinsInv
  <2>5. CASE ~(Len(access.todo) > 1)
    <3>1. /\ access' = NoAccess
          /\ claimed' = [c \in {"iof0", "iof1"} |-> claimed[c] \cup access.claims[c]]
      BY <1>3, <2>5 DEF StoreReg
    <3>2. claimed' \in Claims
      BY <1>0, <3>1 DEF PinTypeOK, Claims
    <3>3. PinTypeOK'
      BY <1>0, <2>1, <2>3, <3>1, <3>2, CallsAreOnTheirPins DEF NoAccess, PinTypeOK
    <3>4. LoadedIsCurrent'
      BY <3>1 DEF LoadedIsCurrent, NoAccess
    <3>5. QED
      BY <3>3, <3>4 DEF PinsInv
  <2>6. QED
    BY <2>4, <2>5
<1>4. CASE Isr
  <2>1. PICK p \in IsrPins, val \in BOOLEAN :
           reg' = [reg EXCEPT !["OUTPUT_VAL"] = Changed(@, gpio_setoutput(bit_pos(p), val)[1])]
    BY <1>4 DEF Isr
  <2>2. served' = TRUE /\ UNCHANGED <<access, claimed>>
    BY <1>4 DEF Isr
  <2>3. bit_pos(p) \in Int /\ bit_pos(p) \in IsrGpios /\ "OUTPUT_VAL" \in Regs
    BY PinNumbers DEF IsrGpios, Regs
  <2>4. /\ Changed(reg["OUTPUT_VAL"], gpio_setoutput(bit_pos(p), val)[1]) \in SUBSET Int
        /\ Changed(reg["OUTPUT_VAL"], gpio_setoutput(bit_pos(p), val)[1]) \subseteq reg["OUTPUT_VAL"] \cup IsrGpios
        /\ reg["OUTPUT_VAL"] \subseteq Changed(reg["OUTPUT_VAL"], gpio_setoutput(bit_pos(p), val)[1]) \cup IsrGpios
    BY <1>0, <2>3 DEF Changed, gpio_setoutput, PinTypeOK
  <2>5. PinTypeOK'
    BY <1>0, <2>1, <2>2, <2>4 DEF PinTypeOK
  <2>6. LoadedIsCurrent'
    <3>1. SUFFICES ASSUME access.stage = "store"
                   PROVE  LET r == Head(access.todo).reg IN
                          /\ r # "OUTPUT_VAL" => access.loaded = reg'[r]
                          /\ access.loaded \subseteq reg'[r] \cup IsrGpios
                          /\ reg'[r] \subseteq access.loaded \cup IsrGpios
      BY <2>2 DEF LoadedIsCurrent
    <3>2. Head(access.todo).reg \in Regs
      BY <1>1, <3>1 DEF Stmts
    <3>3. CASE Head(access.todo).reg = "OUTPUT_VAL"
      BY <1>0, <2>1, <2>3, <2>4, <3>1, <3>3 DEF LoadedIsCurrent, PinTypeOK
    <3>4. CASE Head(access.todo).reg # "OUTPUT_VAL"
      BY <1>0, <2>1, <3>1, <3>2, <3>4 DEF LoadedIsCurrent, PinTypeOK
    <3>5. QED
      BY <3>3, <3>4
  <2>7. QED
    BY <2>5, <2>6 DEF PinsInv
<1>5. QED
  BY <1>2, <1>3, <1>4

LEMMA PinsStart == PinsInit => PinsInv
<1>1. SUFFICES ASSUME PinsInit PROVE PinsInv
  OBVIOUS
<1>2. NoClaim \in Claims
  BY DEF NoClaim, Claims
<1>3. reg \in [Regs -> SUBSET Int]
  BY <1>1 DEF PinsInit, UART0
<1>4. PinTypeOK
  <2>1. access = NoAccess /\ claimed = NoClaim /\ served = FALSE
    BY <1>1 DEF PinsInit
  <2>2. <<>> \in Seq(Stmts(Int)) /\ <<>> \in Seq(Stmts({}))
    OBVIOUS
  <2>3. QED
    BY <1>2, <1>3, <2>1, <2>2 DEF PinTypeOK, NoAccess
<1>5. LoadedIsCurrent
  BY <1>1 DEF PinsInit, NoAccess, LoadedIsCurrent
<1>6. QED
  BY <1>4, <1>5 DEF PinsInv

(* gpio.h:92-135 and the drivers' init and close: what main has loaded of a  *)
(* register is current but for the service routine's outputs.                *)
THEOREM PinsInductive == ASSUME I2cUnused PROVE PinsSpec => []PinsInv
<1>1. PinsInv /\ [PinsNext]_pinVars => PinsInv'
  <2>1. SUFFICES ASSUME PinsInv, [PinsNext]_pinVars PROVE PinsInv'
    OBVIOUS
  <2>2. CASE UNCHANGED pinVars
    BY <2>1, <2>2 DEF pinVars, PinsInv, PinTypeOK, LoadedIsCurrent
  <2>3. QED
    BY <2>1, <2>2, BeginningsKeepPinsInv, AccessesKeepPinsInv DEF PinsNext
<1>2. QED
  BY <1>1, PinsStart, PTL DEF PinsSpec

(* What a step changes.                                                    *)

LEMMA StepsChangeNamedPins ==
    ASSUME I2cUnused, PinsInv, [PinsNext]_pinVars, NEW r \in Regs
    PROVE  (reg[r] \ reg'[r]) \cup (reg'[r] \ reg[r]) \subseteq access.pins
                \cup (IF served' /\ r = "OUTPUT_VAL" THEN IsrGpios ELSE {})
<1>1. CASE reg' = reg
  BY <1>1
<1>2. CASE StoreReg
  <2> DEFINE h == Head(access.todo)
  <2>1. /\ access.stage = "store" /\ served' = served
        /\ reg' = [reg EXCEPT ![h.reg] = Changed(access.loaded, h)]
    BY <1>2 DEF StoreReg
  <2>2. access.todo \in Seq(Stmts(access.pins)) /\ access.todo # <<>> /\ reg \in [Regs -> SUBSET Int]
    BY <2>1 DEF PinsInv, PinTypeOK
  <2>3. h \in Stmts(access.pins)
    BY <2>2, HeadAndTail
  <2>4. h.reg \in Regs /\ h.mask \subseteq access.pins
    BY <2>3 DEF Stmts
  <2>5. CASE r # h.reg
    BY <2>1, <2>2, <2>5
  <2>6. CASE r = h.reg
    <3>1. reg'[r] = Changed(access.loaded, h)
      BY <2>1, <2>2, <2>6
    <3>2. /\ r # "OUTPUT_VAL" \/ ~served => access.loaded = reg[r]
          /\ access.loaded \subseteq reg[r] \cup IsrGpios
          /\ reg[r] \subseteq access.loaded \cup IsrGpios
      BY <2>1, <2>6 DEF PinsInv, LoadedIsCurrent
    <3>3. CASE r # "OUTPUT_VAL" \/ ~served
      BY <2>4, <3>1, <3>2, <3>3 DEF Changed
    <3>4. CASE r = "OUTPUT_VAL" /\ served
      BY <2>1, <2>4, <3>1, <3>2, <3>4 DEF Changed
    <3>5. QED
      BY <3>3, <3>4
  <2>7. QED
    BY <2>5, <2>6
<1>3. CASE Isr
  <2>1. PICK p \in IsrPins, val \in BOOLEAN :
           reg' = [reg EXCEPT !["OUTPUT_VAL"] = Changed(@, gpio_setoutput(bit_pos(p), val)[1])]
    BY <1>3 DEF Isr
  <2>2. served' = TRUE /\ reg \in [Regs -> SUBSET Int] /\ bit_pos(p) \in IsrGpios
    BY <1>3 DEF Isr, PinsInv, PinTypeOK, IsrGpios
  <2>3. CASE r # "OUTPUT_VAL"
    BY <2>1, <2>2, <2>3
  <2>4. CASE r = "OUTPUT_VAL"
    <3>1. reg'[r] = Changed(reg[r], gpio_setoutput(bit_pos(p), val)[1])
      BY <2>1, <2>2, <2>4
    <3>2. gpio_setoutput(bit_pos(p), val)[1].mask = {bit_pos(p)}
      BY DEF gpio_setoutput
    <3>3. QED
      BY <2>2, <2>4, <3>1, <3>2 DEF Changed
  <2>5. QED
    BY <2>3, <2>4
<1>4. QED
  BY <1>1, <1>2, <1>3 DEF PinsNext, pinVars, Open, Close, SetCs, InitOutput, InitInput, SetOutput,
                          SetPulsewidth, OnPin, BeginPins, LoadReg

(* What is promised to the open devices.                                   *)

LEMMA NothingLeft ==
    ASSUME NEW r, NEW g, NEW v \in BOOLEAN
    PROVE  /\ Will(<<>>, r, g, v) => (g \in reg[r]) = v
           /\ LeavesAlone(<<>>, r, g) /\ ~Ends(<<>>, r, g, v)
  BY DEF Will, Ends, LeavesAlone

LEMMA StoresKeepTheEnd ==
    ASSUME PinsInv, StoreReg, NEW r \in Regs, r # "OUTPUT_VAL", NEW g, NEW v \in BOOLEAN,
           Will(access.todo, r, g, v)
    PROVE  Will(access.todo, r, g, v)'
<1> DEFINE s == access.todo
           h == Head(s)
           t == Tail(s)
<1>1. /\ access.stage = "store"
      /\ reg' = [reg EXCEPT ![h.reg] = Changed(access.loaded, h)]
  BY DEF StoreReg
<1>2. s \in Seq(Stmts(Int)) /\ s # <<>> /\ reg \in [Regs -> SUBSET Int]
  BY <1>1 DEF PinsInv, PinTypeOK
<1>3. /\ h \in Stmts(Int) /\ t \in Seq(Stmts(Int)) /\ Len(s) \in Nat \ {0}
      /\ (t = <<>> <=> Len(s) = 1) /\ Len(t) = Len(s) - 1 /\ h = s[1]
      /\ \A k \in 1 .. Len(s) - 1 : t[k] = s[k + 1]
  BY <1>2, HeadAndTail
<1>4. h.reg \in Regs /\ h.set \in BOOLEAN
  BY <1>3 DEF Stmts
<1>5. access'.todo = t
  <2>1. CASE Len(s) > 1
    BY <2>1 DEF StoreReg, PinsInv, PinTypeOK
  <2>2. CASE ~(Len(s) > 1)
    <3>1. access'.todo = <<>>
      BY <2>2 DEF StoreReg, NoAccess
    <3>2. \A n \in Nat \ {0} : ~(n > 1) => n = 1
      OBVIOUS
    <3>3. Len(s) = 1
      BY <1>3, <2>2, <3>2, Zenon
    <3>4. QED
      BY <1>3, <3>1, <3>3
  <2>3. QED
    BY <2>1, <2>2
<1>6. ASSUME h.reg = r, g \in h.mask, h.set = v PROVE (g \in reg'[r]) = v
  BY <1>1, <1>2, <1>4, <1>6 DEF Changed
<1>7. ASSUME ~(h.reg = r /\ g \in h.mask) PROVE (g \in reg'[r]) = (g \in reg[r])
  <2>1. CASE h.reg # r
    BY <1>1, <1>2, <1>4, <2>1
  <2>2. CASE h.reg = r
    <3>1. access.loaded = reg[r]
      BY <1>1, <2>2 DEF PinsInv, LoadedIsCurrent
    <3>2. QED
      BY <1>1, <1>2, <1>4, <1>7, <2>2, <3>1 DEF Changed
  <2>3. QED
    BY <2>1, <2>2
<1>8. CASE LeavesAlone(s, r, g) /\ ((g \in reg[r]) = v)
  <2>1. LeavesAlone(t, r, g)
    BY <1>3, <1>8 DEF LeavesAlone, Touches
  <2>2. ~(h.reg = r /\ g \in h.mask)
    BY <1>3, <1>8 DEF LeavesAlone, Touches
  <2>3. QED
    BY <1>5, <1>7, <1>8, <2>1, <2>2 DEF Will, LeavesAlone, Touches
<1>9. CASE Ends(s, r, g, v)
  <2>1. PICK k \in 1 .. Len(s) : /\ Touches(s, k, r, g) /\ s[k].set = v
                                 /\ \A j \in k + 1 .. Len(s) : ~Touches(s, j, r, g)
    BY <1>9 DEF Ends
  <2>2. CASE k = 1
    <3>1. LeavesAlone(t, r, g)
      BY <1>3, <2>1, <2>2 DEF LeavesAlone, Touches
    <3>2. (g \in reg'[r]) = v
      BY <1>3, <1>6, <2>1, <2>2 DEF Touches
    <3>3. QED
      BY <1>5, <3>1, <3>2 DEF Will, LeavesAlone, Touches
  <2>3. CASE k # 1
    <3>1. k - 1 \in 1 .. Len(t) /\ t[k - 1] = s[k]
      BY <1>3, <2>1, <2>3
    <3>2. \A j \in k .. Len(t) : ~Touches(t, j, r, g)
      BY <1>3, <2>1, <2>3 DEF Touches
    <3>3. Ends(t, r, g, v)
      BY <2>1, <3>1, <3>2 DEF Ends, Touches
    <3>4. QED
      BY <1>5, <3>3 DEF Will, Ends, Touches
  <2>4. QED
    BY <2>2, <2>3
<1>10. QED
  BY <1>8, <1>9 DEF Will

\* A call that begins keeps the promises when each open device's pins are
\* either connected again by it or left alone.
Opens(plan, g)  == Ends(plan, "IOF_EN", g, TRUE) /\ Ends(plan, "IOF_SEL", g, FALSE)
Lends(plan, g)  == Ends(plan, "IOF_EN", g, TRUE) /\ Ends(plan, "IOF_SEL", g, TRUE)
                   /\ Ends(plan, "OUTPUT_EN", g, TRUE)
Spares(plan, g) == LeavesAlone(plan, "IOF_EN", g) /\ LeavesAlone(plan, "IOF_SEL", g)

LEMMA BeginKeepsPromises ==
    ASSUME PinsInv, PromisesKept, NEW claims, NEW pins, NEW plan, BeginPins(claims, pins, plan),
           \A g \in claimed'.iof0 \cup claims.iof0 :
                Opens(plan, g) \/ (g \in claimed.iof0 /\ Spares(plan, g)),
           \A g \in claimed'.iof1 \cup claims.iof1 :
                \/ Lends(plan, g)
                \/ /\ g \in claimed.iof1 /\ Spares(plan, g)
                   /\ LeavesAlone(plan, "OUTPUT_EN", g) \/ Ends(plan, "OUTPUT_EN", g, TRUE)
    PROVE  PromisesKept'
<1>1. access.todo = <<>> /\ reg' = reg /\ access'.todo = plan /\ access'.claims = claims
  BY DEF BeginPins, PinsInv, PinTypeOK
<1>2. ASSUME NEW r, NEW g, NEW v \in BOOLEAN,
             Ends(plan, r, g, v) \/ (LeavesAlone(plan, r, g) /\ Will(<<>>, r, g, v))
      PROVE  Will(access.todo, r, g, v)'
  BY <1>1, <1>2, NothingLeft DEF Will, Ends, LeavesAlone, Touches
<1>3. \A g \in claimed.iof0 : Will(<<>>, "IOF_EN", g, TRUE) /\ Will(<<>>, "IOF_SEL", g, FALSE)
  BY <1>1 DEF PromisesKept
<1>4. \A g \in claimed.iof1 : /\ Will(<<>>, "IOF_EN", g, TRUE) /\ Will(<<>>, "IOF_SEL", g, TRUE)
                              /\ Will(<<>>, "OUTPUT_EN", g, TRUE)
  BY <1>1 DEF PromisesKept
<1>5. ASSUME NEW g \in claimed'.iof0 \cup claims.iof0
      PROVE  Will(access.todo, "IOF_EN", g, TRUE)' /\ Will(access.todo, "IOF_SEL", g, FALSE)'
  <2>1. CASE Opens(plan, g)
    BY <1>2, <2>1 DEF Opens
  <2>2. CASE g \in claimed.iof0 /\ Spares(plan, g)
    BY <1>2, <1>3, <2>2 DEF Spares
  <2>3. QED
    BY <2>1, <2>2
<1>6. ASSUME NEW g \in claimed'.iof1 \cup claims.iof1
      PROVE  /\ Will(access.todo, "IOF_EN", g, TRUE)' /\ Will(access.todo, "IOF_SEL", g, TRUE)'
             /\ Will(access.todo, "OUTPUT_EN", g, TRUE)'
  <2>1. CASE Lends(plan, g)
    BY <1>2, <2>1 DEF Lends
  <2>2. CASE /\ g \in claimed.iof1 /\ Spares(plan, g)
             /\ LeavesAlone(plan, "OUTPUT_EN", g) \/ Ends(plan, "OUTPUT_EN", g, TRUE)
    BY <1>2, <1>4, <2>2 DEF Spares
  <2>3. QED
    BY <2>1, <2>2
<1>7. QED
  BY <1>1, <1>5, <1>6 DEF PromisesKept

LEMMA BeginningsKeepPromises ==
    ASSUME I2cUnused, PinsApart, PinsInv, PromisesKept,
           \/ \E d \in Devices : Open(d) \/ Close(d)
           \/ SetCs \/ InitOutput \/ InitInput \/ SetOutput \/ SetPulsewidth
    PROVE  PromisesKept'
<1>0. claimed.iof0 \subseteq Iof0Gpios /\ claimed.iof1 \subseteq Iof1Gpios
  BY DEF PinsInv, PinTypeOK, Claims
<1>1. ASSUME NEW pins, NEW plan \in Seq(Stmts(pins)), NEW g, g \notin pins
      PROVE  Spares(plan, g) /\ LeavesAlone(plan, "OUTPUT_EN", g)
  BY <1>1, OthersAlone DEF Spares
<1>2. ASSUME NEW d \in Devices, Open(d) PROVE PromisesKept'
  <2>1. BeginPins(Iof0Claim(PinsOf(d)), PinsOf(d), InitOf(d)) /\ claimed' = claimed
    BY <1>2 DEF Open
  <2>2. Connects(InitOf(d), PinsOf(d)) /\ PinsOf(d) \subseteq Iof0Gpios
    BY PinNumbers, InitConnects DEF Iof0Gpios
  <2>3. \A g \in PinsOf(d) : Opens(InitOf(d), g)
    BY <2>2 DEF Connects, Opens
  <2>4. \A g : g \notin PinsOf(d) => Spares(InitOf(d), g) /\ LeavesAlone(InitOf(d), "OUTPUT_EN", g)
    BY <1>1, <2>2 DEF Connects
  <2>5. \A g \in claimed.iof1 : g \notin PinsOf(d)
    BY <1>0, <2>2 DEF PinsApart
  <2>6. Iof0Claim(PinsOf(d)).iof0 = PinsOf(d) /\ Iof0Claim(PinsOf(d)).iof1 = {}
    BY DEF Iof0Claim
  <2>7. QED
    BY <2>1, <2>3, <2>4, <2>5, <2>6, BeginKeepsPromises
<1>3. ASSUME NEW d \in Devices, Close(d) PROVE PromisesKept'
  <2>1. /\ BeginPins(NoClaim, ClosePins(d), CloseOf(d))
        /\ claimed' = [claimed EXCEPT !.iof0 = @ \ ClosePins(d)]
    BY <1>3 DEF Close, ClosePins
  <2>2. claimed'.iof0 = claimed.iof0 \ ClosePins(d) /\ claimed'.iof1 = claimed.iof1
    BY <2>1 DEF PinsInv, PinTypeOK, Claims
  <2>3. CloseOf(d) \in Seq(Stmts(ClosePins(d))) /\ ClosePins(d) \subseteq Iof0Gpios
    BY CallsAreOnTheirPins DEF Iof0Gpios
  <2>4. \A g : g \notin ClosePins(d) => Spares(CloseOf(d), g) /\ LeavesAlone(CloseOf(d), "OUTPUT_EN", g)
    BY <1>1, <2>3
  <2>5. \A g \in claimed.iof1 : g \notin ClosePins(d)
    BY <1>0, <2>3 DEF PinsApart
  <2>6. NoClaim.iof0 = {} /\ NoClaim.iof1 = {}
    BY DEF NoClaim
  <2>7. QED
    BY <2>1, <2>2, <2>4, <2>5, <2>6, BeginKeepsPromises
<1>4. CASE SetCs
  <2>1. PICK p \in CsPins : OnPin(p, Iof0Claim({bit_pos(p)}), spi_set_cs(p))
    BY <1>4 DEF SetCs
  <2> DEFINE b == bit_pos(p)
  <2>2. BeginPins(Iof0Claim({b}), {b}, spi_set_cs(p)) /\ claimed' = claimed
    BY <2>1 DEF OnPin
  <2>3. Opens(spi_set_cs(p), b) /\ b \in Iof0Gpios
    BY Iof0Does DEF spi_set_cs, Opens, Iof0Gpios
  <2>4. spi_set_cs(p) \in Seq(Stmts({b}))
    BY CallsAreOnTheirPins
  <2>5. \A g : g # b => Spares(spi_set_cs(p), g) /\ LeavesAlone(spi_set_cs(p), "OUTPUT_EN", g)
    BY <1>1, <2>4
  <2>6. \A g \in claimed.iof1 : g # b
    BY <1>0, <2>3 DEF PinsApart
  <2>7. Iof0Claim({b}).iof0 = {b} /\ Iof0Claim({b}).iof1 = {}
    BY DEF Iof0Claim
  <2>8. QED
    BY <2>2, <2>3, <2>5, <2>6, <2>7, BeginKeepsPromises
<1>5. ASSUME NEW g, NEW plan \in Seq(Stmts({g})), BeginPins(NoClaim, {g}, plan), claimed' = claimed,
             \A h : LeavesAlone(plan, "IOF_EN", h) /\ LeavesAlone(plan, "IOF_SEL", h),
             \/ g \notin Iof1Gpios
             \/ Ends(plan, "OUTPUT_EN", g, TRUE)
             \/ LeavesAlone(plan, "OUTPUT_EN", g)
      PROVE  PromisesKept'
  <2>1. \A h : Spares(plan, h)
    BY <1>5 DEF Spares
  <2>2. \A h : h # g => LeavesAlone(plan, "OUTPUT_EN", h)
    BY <1>1
  <2>3. NoClaim.iof0 = {} /\ NoClaim.iof1 = {}
    BY DEF NoClaim
  <2>4. QED
    BY <1>0, <1>5, <2>1, <2>2, <2>3, BeginKeepsPromises
<1>6. CASE InitOutput
  <2>1. PICK p \in Outputs, xor \in BOOLEAN : OnPin(p, NoClaim, gpio_init_output(bit_pos(p), xor))
    BY <1>6 DEF InitOutput
  <2>2. QED
    BY <1>5, <2>1, OnePinDoes DEF OnPin
<1>7. CASE InitInput
  <2>1. PICK p \in Inputs, pup \in BOOLEAN : OnPin(p, NoClaim, gpio_init_input(bit_pos(p), pup))
    BY <1>7 DEF InitInput
  <2>2. bit_pos(p) \notin Iof1Gpios
    BY DEF PinsApart
  <2>3. QED
    BY <1>5, <2>1, <2>2, OnePinDoes DEF OnPin
<1>8. CASE SetOutput
  <2>1. PICK p \in Outputs, val \in BOOLEAN : OnPin(p, NoClaim, gpio_setoutput(bit_pos(p), val))
    BY <1>8 DEF SetOutput
  <2>2. QED
    BY <1>5, <2>1, OnePinDoes DEF OnPin
<1>9. CASE SetPulsewidth
  <2>1. PICK p \in PwmPins : OnPin(p, Iof1Claim({bit_pos(p)}), pwm_pin(bit_pos(p)))
    BY <1>9 DEF SetPulsewidth
  <2> DEFINE b == bit_pos(p)
  <2>2. BeginPins(Iof1Claim({b}), {b}, pwm_pin(b)) /\ claimed' = claimed
    BY <2>1 DEF OnPin
  <2>3. Lends(pwm_pin(b), b) /\ b \in Iof1Gpios /\ pwm_pin(b) \in Seq(Stmts({b}))
    BY OnePinDoes DEF Lends, Iof1Gpios
  <2>4. \A g : g # b => Spares(pwm_pin(b), g) /\ LeavesAlone(pwm_pin(b), "OUTPUT_EN", g)
    BY <1>1, <2>3
  <2>5. \A g \in claimed.iof0 : g # b
    BY <1>0, <2>3 DEF PinsApart
  <2>6. Iof1Claim({b}).iof1 = {b} /\ Iof1Claim({b}).iof0 = {}
    BY DEF Iof1Claim
  <2>7. QED
    BY <2>2, <2>3, <2>4, <2>5, <2>6, BeginKeepsPromises
<1>10. QED
  BY <1>2, <1>3, <1>4, <1>6, <1>7, <1>8, <1>9

LEMMA AccessesKeepPromises ==
    ASSUME PinsInv, PromisesKept, LoadReg \/ StoreReg \/ Isr \/ UNCHANGED pinVars
    PROVE  PromisesKept'
<1>1. CASE LoadReg \/ Isr \/ UNCHANGED pinVars
  <2>1. /\ access'.todo = access.todo /\ access'.claims = access.claims /\ claimed' = claimed
        /\ \A r \in Regs : r # "OUTPUT_VAL" => reg'[r] = reg[r]
    <3>1. CASE LoadReg
      BY <3>1 DEF LoadReg, PinsInv, PinTypeOK
    <3>2. CASE Isr
      BY <3>2 DEF Isr, PinsInv, PinTypeOK
    <3>3. CASE UNCHANGED pinVars
      BY <3>3 DEF pinVars
    <3>4. QED
      BY <1>1, <3>1, <3>2, <3>3
  <2>2. \A r \in {"IOF_EN", "IOF_SEL", "OUTPUT_EN"} : reg'[r] = reg[r]
    BY <2>1 DEF Regs
  <2>3. ASSUME NEW r \in {"IOF_EN", "IOF_SEL", "OUTPUT_EN"}, NEW g, NEW v \in BOOLEAN,
               Will(access.todo, r, g, v)
        PROVE  Will(access.todo, r, g, v)'
    BY <2>1, <2>2, <2>3 DEF Will, Ends, LeavesAlone, Touches
  <2>4. ASSUME NEW g \in claimed'.iof0 \cup access'.claims.iof0
        PROVE  Will(access.todo, "IOF_EN", g, TRUE)' /\ Will(access.todo, "IOF_SEL", g, FALSE)'
    BY <2>1, <2>3 DEF PromisesKept
  <2>5. ASSUME NEW g \in claimed'.iof1 \cup access'.claims.iof1
        PROVE  /\ Will(access.todo, "IOF_EN", g, TRUE)' /\ Will(access.todo, "IOF_SEL", g, TRUE)'
               /\ Will(access.todo, "OUTPUT_EN", g, TRUE)'
    BY <2>1, <2>3 DEF PromisesKept
  <2>6. QED
    BY <2>4, <2>5 DEF PromisesKept
<1>2. CASE StoreReg
  <2>1. /\ claimed'.iof0 \cup access'.claims.iof0 = claimed.iof0 \cup access.claims.iof0
        /\ claimed'.iof1 \cup access'.claims.iof1 = claimed.iof1 \cup access.claims.iof1
    <3>1. CASE Len(access.todo) > 1
      BY <1>2, <3>1 DEF StoreReg, PinsInv, PinTypeOK
    <3>2. CASE ~(Len(access.todo) > 1)
      <4>1. access' = NoAccess /\ claimed' = [k \in {"iof0", "iof1"} |-> claimed[k] \cup access.claims[k]]
        BY <1>2, <3>2 DEF StoreReg
      <4>2. access'.claims.iof0 = {} /\ access'.claims.iof1 = {}
        BY <4>1 DEF NoAccess, NoClaim
      <4>3. QED
        BY <4>1, <4>2
    <3>3. QED
      BY <3>1, <3>2
  <2>2. ASSUME NEW r \in {"IOF_EN", "IOF_SEL", "OUTPUT_EN"}, NEW g, NEW v \in BOOLEAN,
               Will(access.todo, r, g, v)
        PROVE  Will(access.todo, r, g, v)'
    BY <1>2, <2>2, StoresKeepTheEnd DEF Regs
  <2>3. ASSUME NEW g \in claimed'.iof0 \cup access'.claims.iof0
        PROVE  Will(access.todo, "IOF_EN", g, TRUE)' /\ Will(access.todo, "IOF_SEL", g, FALSE)'
    BY <2>1, <2>2 DEF PromisesKept
  <2>4. ASSUME NEW g \in claimed'.iof1 \cup access'.claims.iof1
        PROVE  /\ Will(access.todo, "IOF_EN", g, TRUE)' /\ Will(access.todo, "IOF_SEL", g, TRUE)'
               /\ Will(access.todo, "OUTPUT_EN", g, TRUE)'
    BY <2>1, <2>2 DEF PromisesKept
  <2>5. QED
    BY <2>3, <2>4 DEF PromisesKept
<1>3. QED
  BY <1>1, <1>2

(* hifive1.h:89-104, gpio.h:92-135, uart.c:24-64, 152-184, spi.h:212-267,    *)
(* pwm.c:159-173: a statement changes its own pins only, whatever the service *)
(* routine does meanwhile, and an open device keeps its pins while others are *)
(* opened and closed.                                                        *)
THEOREM PinsArePrivate ==
    ASSUME I2cUnused, PinsApart
    PROVE  PinsSpec => PinsStayTheirs
<1>1. PinsInit => PromisesKept
  <2>1. NoClaim.iof0 = {} /\ NoClaim.iof1 = {} /\ NoAccess.claims = NoClaim
    BY DEF NoClaim, NoAccess
  <2>2. QED
    BY <2>1 DEF PinsInit, PromisesKept
<1>2. PinsInv /\ PromisesKept /\ [PinsNext]_pinVars => PromisesKept'
  <2>1. SUFFICES ASSUME PinsInv, PromisesKept, [PinsNext]_pinVars PROVE PromisesKept'
    OBVIOUS
  <2>2. QED
    BY <2>1, BeginningsKeepPromises, AccessesKeepPromises DEF PinsNext
<1>3. PinsInv /\ PromisesKept => (access.stage = "idle" => Iof0IsOpen /\ Iof1IsOpen)
  <2>1. SUFFICES ASSUME PinsInv, PromisesKept, access.stage = "idle" PROVE Iof0IsOpen /\ Iof1IsOpen
    OBVIOUS
  <2>2. access.todo = <<>>
    BY <2>1 DEF PinsInv, PinTypeOK
  <2>3. \A g \in claimed.iof0 : g \in reg["IOF_EN"] /\ g \notin reg["IOF_SEL"]
    BY <2>1, <2>2, NothingLeft DEF PromisesKept
  <2>4. \A g \in claimed.iof1 : g \in reg["IOF_EN"] /\ g \in reg["IOF_SEL"] /\ g \in reg["OUTPUT_EN"]
    BY <2>1, <2>2, NothingLeft DEF PromisesKept
  <2>5. QED
    BY <2>3, <2>4 DEF Iof0IsOpen, Iof1IsOpen
<1>4. PinsInv /\ [PinsNext]_pinVars =>
        [\A r \in Regs :
            LET changed == (reg[r] \ reg'[r]) \cup (reg'[r] \ reg[r])
            IN  changed \subseteq access.pins
                    \cup (IF served' /\ r = "OUTPUT_VAL" THEN IsrGpios ELSE {})]_pinVars
  BY StepsChangeNamedPins
<1>5. QED
  BY <1>1, <1>2, <1>3, <1>4, PinsInductive, PTL DEF PinsSpec, PinsStayTheirs, OnlyNamedPins

-----------------------------------------------------------------------------
(* The clocks: rates are as told                                           *)

\* HFROSC runs at the frequency cpu_freq is initialised with.
RoscIsTrimmed == Rosc = 16000000

\* The 32 MHz preset selects the PLL in the store that changes it.
SelectsLast == "32MHz" \notin Presets

AllPresets == {"hyperspace", "320MHz", "32MHz", "16MHz", "sloth"}

Statements == {Store(Pll(1, 47, 1, 1, 0)), Store(Pll(1, 39, 1, 1, 0)), Store(Pll(1, 23, 2, 0, 1)),
               Store(Pll(0, 0, 0, 0, 0)), Store(Pll(2, 23, 3, 1, 0)), AwaitLock, Select,
               FinalDiv(1), FinalDiv(63), Tell(384000000), Tell(320000000), Tell(32000000),
               Tell(16000000), Tell(375000)}

Plls == [r : Nat, f : Nat, q : 0 .. 3, refsel : {0, 1}, sel : {0, 1}]

ClocksTypeOK ==
    /\ pll \in Plls /\ locked \in BOOLEAN /\ div \in {1, 4, 128} /\ cpu_freq \in Nat
    /\ todo \in Seq(Statements)
    /\ client \in [Clients -> [baud : Nat, div : Int, freq : Nat]]

\* Every preset starts with the PLL and ends with the frequency.
Stored(p) == Program(p)[1].pll
Last(p)   == Len(Program(p))

\* Preset p has executed its first k statements.
Progress(p, k) ==
    /\ Len(todo) = Last(p) - k
    /\ \A j \in 1 .. Last(p) - k : todo[j] = Program(p)[k + j]
    /\ k >= 1 => /\ pll.r = Stored(p).r /\ pll.f = Stored(p).f /\ pll.q = Stored(p).q
                 /\ pll.refsel = Stored(p).refsel
                 /\ pll.sel = IF k >= 3 THEN 1 ELSE Stored(p).sel
    /\ k >= 4 /\ p = "32MHz" => div = 4
    /\ k >= 4 /\ p = "sloth" => div = 128
    /\ k = Last(p) => cpu_freq = Program(p)[k].freq

Fresh == todo = <<>> /\ pll = Pll(1, 31, 3, 0, 0) /\ cpu_freq = 16000000

\* A divisor was computed from the frequency the client was opened at.
ClientsSound ==
    \A c \in Clients : client[c].baud # 0 =>
        /\ client[c].div = ((client[c].freq \div (Factor(c) * client[c].baud)) - 1) % DivValues(c)

ClocksInv ==
    /\ ClocksTypeOK /\ ClientsSound
    /\ Fresh \/ \E p \in Presets, k \in Nat : k <= Last(p) /\ Progress(p, k)

(* The statements.                                                         *)


LEMMA ProgramsAre ==
    /\ Len(Program("hyperspace")) = 4 /\ Program("hyperspace")[1] = Store(Pll(1, 47, 1, 1, 0))
    /\ Program("hyperspace")[2] = AwaitLock /\ Program("hyperspace")[3] = Select
    /\ Program("hyperspace")[4] = Tell(384000000)
    /\ Len(Program("320MHz")) = 4 /\ Program("320MHz")[1] = Store(Pll(1, 39, 1, 1, 0))
    /\ Program("320MHz")[2] = AwaitLock /\ Program("320MHz")[3] = Select
    /\ Program("320MHz")[4] = Tell(320000000)
    /\ Len(Program("32MHz")) = 5 /\ Program("32MHz")[1] = Store(Pll(1, 23, 2, 0, 1))
    /\ Program("32MHz")[2] = AwaitLock /\ Program("32MHz")[3] = Select
    /\ Program("32MHz")[4] = FinalDiv(1) /\ Program("32MHz")[5] = Tell(32000000)
    /\ Len(Program("16MHz")) = 2 /\ Program("16MHz")[1] = Store(Pll(0, 0, 0, 0, 0))
    /\ Program("16MHz")[2] = Tell(16000000)
    /\ Len(Program("sloth")) = 5 /\ Program("sloth")[1] = Store(Pll(2, 23, 3, 1, 0))
    /\ Program("sloth")[2] = AwaitLock /\ Program("sloth")[3] = Select
    /\ Program("sloth")[4] = FinalDiv(63) /\ Program("sloth")[5] = Tell(375000)
<1>1. Len(hyperspace) = 4 /\ hyperspace[1] = Store(Pll(1, 47, 1, 1, 0)) /\ hyperspace[2] = AwaitLock
      /\ hyperspace[3] = Select /\ hyperspace[4] = Tell(384000000)
  BY DEF hyperspace
<1>2. Len(MHz320) = 4 /\ MHz320[1] = Store(Pll(1, 39, 1, 1, 0)) /\ MHz320[2] = AwaitLock
      /\ MHz320[3] = Select /\ MHz320[4] = Tell(320000000)
  BY DEF MHz320
<1>3. Len(MHz32) = 5 /\ MHz32[1] = Store(Pll(1, 23, 2, 0, 1)) /\ MHz32[2] = AwaitLock
      /\ MHz32[3] = Select /\ MHz32[4] = FinalDiv(1) /\ MHz32[5] = Tell(32000000)
  BY DEF MHz32
<1>4. Len(MHz16) = 2 /\ MHz16[1] = Store(Pll(0, 0, 0, 0, 0)) /\ MHz16[2] = Tell(16000000)
  BY DEF MHz16
<1>5. Len(sloth) = 5 /\ sloth[1] = Store(Pll(2, 23, 3, 1, 0)) /\ sloth[2] = AwaitLock
      /\ sloth[3] = Select /\ sloth[4] = FinalDiv(63) /\ sloth[5] = Tell(375000)
  BY DEF sloth
<1>6. \A p : /\ p = "hyperspace" => Program(p) = hyperspace
             /\ p = "320MHz" => Program(p) = MHz320
             /\ p = "32MHz" => Program(p) = MHz32
             /\ p = "16MHz" => Program(p) = MHz16
             /\ p = "sloth" => Program(p) = sloth
  BY SMT DEF Program
<1>7. Program("hyperspace") = hyperspace /\ Program("320MHz") = MHz320 /\ Program("32MHz") = MHz32
      /\ Program("16MHz") = MHz16 /\ Program("sloth") = sloth
  BY <1>6, Zenon
<1>8. QED
  BY <1>1, <1>2, <1>3, <1>4, <1>5, <1>7, SMT

LEMMA StatementsAre ==
    /\ \A p : Store(p).do = "store" /\ Store(p).pll = p
    /\ AwaitLock.do = "wait" /\ Select.do = "select"
    /\ \A d : FinalDiv(d).do = "div" /\ FinalDiv(d).div = d
    /\ \A f : Tell(f).do = "tell" /\ Tell(f).freq = f
    /\ \A r, f, q, e, s : LET x == Pll(r, f, q, e, s) IN
            x.r = r /\ x.f = f /\ x.q = q /\ x.refsel = e /\ x.sel = s
  BY DEF Store, AwaitLock, Select, FinalDiv, Tell, Pll

LEMMA ProgramsAreLists == \A p \in AllPresets : Program(p) \in Seq(Statements) /\ Program(p) # <<>>
<1>1. hyperspace \in Seq(Statements) /\ hyperspace # <<>>
  BY SMT DEF hyperspace, Statements
<1>2. MHz320 \in Seq(Statements) /\ MHz320 # <<>>
  BY SMT DEF MHz320, Statements
<1>3. MHz32 \in Seq(Statements) /\ MHz32 # <<>>
  BY SMT DEF MHz32, Statements
<1>4. MHz16 \in Seq(Statements) /\ MHz16 # <<>>
  BY SMT DEF MHz16, Statements
<1>5. sloth \in Seq(Statements) /\ sloth # <<>>
  BY SMT DEF sloth, Statements
<1>6. \A p \in AllPresets : Program(p) \in {hyperspace, MHz320, MHz32, MHz16, sloth}
  BY SMT DEF Program, AllPresets
<1>7. \A s \in {hyperspace, MHz320, MHz32, MHz16, sloth} : s \in Seq(Statements) /\ s # <<>>
  BY <1>1, <1>2, <1>3, <1>4, <1>5, SMT
<1>8. QED
  BY <1>6, <1>7, Zenon

\* How many statements a preset has.
LEMMA Lengths == \A p \in AllPresets : Last(p) \in {2, 4, 5}
<1>1. /\ Len(Program("hyperspace")) = 4 /\ Len(Program("320MHz")) = 4
      /\ Len(Program("32MHz")) = 5 /\ Len(Program("16MHz")) = 2 /\ Len(Program("sloth")) = 5
  BY ProgramsAre, SMTT(30)
<1>2. QED
  BY <1>1, SMTT(30) DEF Last, AllPresets

\* Which statement of a preset stands where.
LEMMA Places ==
    ASSUME NEW p \in AllPresets, NEW k \in Nat, 1 <= k, k <= Last(p)
    PROVE  /\ Last(p) \in {2, 4, 5} /\ Stored(p) \in Plls
           /\ Program(p)[k].do = "store" => k = 1 /\ Program(p)[k].pll = Stored(p)
           /\ Program(p)[k].do = "wait" => k = 2 /\ Last(p) # 2
           /\ Program(p)[k].do = "select" => k = 3
           /\ Program(p)[k].do = "div" =>
                /\ k = 4 /\ Last(p) = 5
                /\ \/ p = "32MHz" /\ Program(p)[k].div = 1
                   \/ p = "sloth" /\ Program(p)[k].div = 63
           /\ Program(p)[k].do = "tell" => k = Last(p) /\ Program(p)[k].freq \in Nat
           /\ p \in {"32MHz", "sloth"} => Last(p) = 5
           /\ p # "32MHz" => Stored(p).sel = 0
<1>1. k \in {1, 2, 3, 4, 5} /\ Last(p) \in {2, 4, 5}
  <2>1. Last(p) \in {2, 4, 5}
    BY Lengths, Zenon
  <2>2. QED
    BY <2>1
<1>2. Stored(p) \in Plls /\ (p # "32MHz" => Stored(p).sel = 0)
  <2>1. \A r, f \in Nat, q \in 0 .. 3, e, x \in {0, 1} : Pll(r, f, q, e, x) \in Plls /\ Pll(r, f, q, e, x).sel = x
    BY DEF Pll, Plls
  <2>2. Stored(p) \in {Pll(1, 47, 1, 1, 0), Pll(1, 39, 1, 1, 0), Pll(1, 23, 2, 0, 1), Pll(0, 0, 0, 0, 0), Pll(2, 23, 3, 1, 0)}
    BY ProgramsAre, StatementsAre, SMTT(30) DEF Stored, AllPresets
  <2>3. p # "32MHz" => Stored(p) \in {Pll(1, 47, 1, 1, 0), Pll(1, 39, 1, 1, 0), Pll(0, 0, 0, 0, 0), Pll(2, 23, 3, 1, 0)}
    BY ProgramsAre, StatementsAre, SMTT(30) DEF Stored, AllPresets
  <2>4. ASSUME NEW x \in {Pll(1, 47, 1, 1, 0), Pll(1, 39, 1, 1, 0), Pll(0, 0, 0, 0, 0), Pll(2, 23, 3, 1, 0)}
        PROVE  x \in Plls /\ x.sel = 0
    <3>1. Pll(1, 47, 1, 1, 0) \in Plls /\ Pll(1, 47, 1, 1, 0).sel = 0
      BY SMT DEF Pll, Plls
    <3>2. Pll(1, 39, 1, 1, 0) \in Plls /\ Pll(1, 39, 1, 1, 0).sel = 0
      BY SMT DEF Pll, Plls
    <3>3. Pll(0, 0, 0, 0, 0) \in Plls /\ Pll(0, 0, 0, 0, 0).sel = 0
      BY SMT DEF Pll, Plls
    <3>4. Pll(2, 23, 3, 1, 0) \in Plls /\ Pll(2, 23, 3, 1, 0).sel = 0
      BY SMT DEF Pll, Plls
    <3>5. QED
      BY <3>1, <3>2, <3>3, <3>4
  <2>5. Pll(1, 23, 2, 0, 1) \in Plls
    BY <2>1, SMT
  <2>6. QED
    BY <2>2, <2>3, <2>4, <2>5
<1>3. CASE p = "hyperspace"
  <2>1. /\ Last(p) = 4 /\ Program(p)[1].do = "store" /\ Program(p)[1].pll = Stored(p)
        /\ Program(p)[2].do = "wait"
        /\ Program(p)[3].do = "select"
        /\ Program(p)[4].do = "tell" /\ Program(p)[4].freq = 384000000
    BY <1>3, ProgramsAre, StatementsAre, SMTT(30) DEF Last, Stored
  <2>2. QED
    BY <1>1, <1>2, <1>3, <2>1, SMT
<1>4. CASE p = "320MHz"
  <2>1. /\ Last(p) = 4 /\ Program(p)[1].do = "store" /\ Program(p)[1].pll = Stored(p)
        /\ Program(p)[2].do = "wait"
        /\ Program(p)[3].do = "select"
        /\ Program(p)[4].do = "tell" /\ Program(p)[4].freq = 320000000
    BY <1>4, ProgramsAre, StatementsAre, SMTT(30) DEF Last, Stored
  <2>2. QED
    BY <1>1, <1>2, <1>4, <2>1, SMT
<1>5. CASE p = "32MHz"
  <2>1. /\ Last(p) = 5 /\ Program(p)[1].do = "store" /\ Program(p)[1].pll = Stored(p)
        /\ Program(p)[2].do = "wait"
        /\ Program(p)[3].do = "select"
        /\ Program(p)[4].do = "div" /\ Program(p)[4].div = 1
        /\ Program(p)[5].do = "tell" /\ Program(p)[5].freq = 32000000
    BY <1>5, ProgramsAre, StatementsAre, SMTT(30) DEF Last, Stored
  <2>2. QED
    BY <1>1, <1>2, <1>5, <2>1, SMT
<1>6. CASE p = "16MHz"
  <2>1. /\ Last(p) = 2 /\ Program(p)[1].do = "store" /\ Program(p)[1].pll = Stored(p)
        /\ Program(p)[2].do = "tell" /\ Program(p)[2].freq = 16000000
    BY <1>6, ProgramsAre, StatementsAre, SMTT(30) DEF Last, Stored
  <2>2. QED
    BY <1>1, <1>2, <1>6, <2>1, SMT
<1>7. CASE p = "sloth"
  <2>1. /\ Last(p) = 5 /\ Program(p)[1].do = "store" /\ Program(p)[1].pll = Stored(p)
        /\ Program(p)[2].do = "wait"
        /\ Program(p)[3].do = "select"
        /\ Program(p)[4].do = "div" /\ Program(p)[4].div = 63
        /\ Program(p)[5].do = "tell" /\ Program(p)[5].freq = 375000
    BY <1>7, ProgramsAre, StatementsAre, SMTT(30) DEF Last, Stored
  <2>2. QED
    BY <1>1, <1>2, <1>7, <2>1, SMT
<1>8. QED
  BY <1>3, <1>4, <1>5, <1>6, <1>7 DEF AllPresets

LEMMA Executes ==
    ASSUME ClocksTypeOK, NEW p \in AllPresets, NEW k \in Nat, k <= Last(p), Progress(p, k), todo # <<>>
    PROVE  /\ k + 1 \in Nat /\ k + 1 <= Last(p) /\ Head(todo) = Program(p)[k + 1]
           /\ Tail(todo) \in Seq(Statements) /\ Len(Tail(todo)) = Last(p) - (k + 1)
           /\ \A j \in 1 .. Last(p) - (k + 1) : Tail(todo)[j] = Program(p)[(k + 1) + j]
<1>1. /\ Head(todo) \in Statements /\ Tail(todo) \in Seq(Statements) /\ Len(todo) \in Nat \ {0}
      /\ Len(Tail(todo)) = Len(todo) - 1 /\ Head(todo) = todo[1]
      /\ \A j \in 1 .. Len(todo) - 1 : Tail(todo)[j] = todo[j + 1]
  <2>1. todo \in Seq(Statements)
    BY DEF ClocksTypeOK
  <2>2. QED
    BY <2>1, HeadAndTail
<1>2. Last(p) \in Nat
  <2>1. Program(p) \in Seq(Statements)
    BY ProgramsAreLists
  <2>2. QED
    BY <2>1 DEF Last
<1>3. Len(todo) = Last(p) - k /\ \A j \in 1 .. Last(p) - k : todo[j] = Program(p)[k + j]
  BY DEF Progress
<1>4. k + 1 <= Last(p) /\ Head(todo) = Program(p)[k + 1] /\ Len(Tail(todo)) = Last(p) - (k + 1)
  BY <1>1, <1>2, <1>3
<1>5. ASSUME NEW j \in 1 .. Last(p) - (k + 1) PROVE Tail(todo)[j] = Program(p)[(k + 1) + j]
  <2>1. j \in 1 .. Len(todo) - 1 /\ j + 1 \in 1 .. Last(p) - k /\ k + (j + 1) = (k + 1) + j
    BY <1>2, <1>3
  <2>2. Tail(todo)[j] = todo[j + 1]
    BY <1>1, <2>1
  <2>3. todo[j + 1] = Program(p)[k + (j + 1)]
    BY <1>3, <2>1
  <2>4. QED
    BY <2>1, <2>2, <2>3
<1>6. QED
  BY <1>1, <1>4, <1>5

\* A statement of a preset.
LEMMA StatementsKeepClocksInv ==
    ASSUME ClocksInv, StorePll \/ WaitForLock \/ SelectPll \/ StoreDiv \/ TellFreq
    PROVE  ClocksInv'
<1>1. todo # <<>> /\ todo' = Tail(todo) /\ client' = client
  BY DEF StorePll, WaitForLock, SelectPll, StoreDiv, TellFreq, Does
<1>2. PICK p \in Presets, k \in Nat : k <= Last(p) /\ Progress(p, k)
  BY <1>1 DEF ClocksInv, Fresh
<1>3. p \in AllPresets /\ ClocksTypeOK
  BY PresetsAssumption DEF AllPresets, ClocksInv
<1> DEFINE n == k + 1
           h == Program(p)[n]
<1>4. /\ n \in Nat /\ n <= Last(p) /\ Head(todo) = h
      /\ todo' \in Seq(Statements) /\ Len(todo') = Last(p) - n
      /\ \A j \in 1 .. Last(p) - n : todo'[j] = Program(p)[n + j]
  BY <1>1, <1>2, <1>3, Executes
<1>5. 1 <= n
  OBVIOUS
<1>6. /\ Last(p) \in {2, 4, 5} /\ Stored(p) \in Plls
      /\ h.do = "store" => n = 1 /\ h.pll = Stored(p)
      /\ h.do = "wait" => n = 2 /\ Last(p) # 2
      /\ h.do = "select" => n = 3
      /\ h.do = "div" => /\ n = 4 /\ Last(p) = 5
                         /\ (p = "32MHz" /\ h.div = 1) \/ (p = "sloth" /\ h.div = 63)
      /\ h.do = "tell" => n = Last(p) /\ h.freq \in Nat
      /\ p \in {"32MHz", "sloth"} => Last(p) = 5
  BY <1>3, <1>4, <1>5, Places
<1>7. ClientsSound'
  BY <1>1 DEF ClocksInv, ClientsSound
<1>8. SUFFICES ClocksTypeOK' /\ Progress(p, n)'
  BY <1>4, <1>7 DEF ClocksInv, Last
<1>9. CASE StorePll
  <2>1. h.do = "store" /\ pll' = h.pll /\ UNCHANGED <<div, cpu_freq>> /\ locked' \in BOOLEAN
    BY <1>3, <1>4, <1>9 DEF StorePll, Does, ClocksTypeOK
  <2>2. n = 1 /\ pll' = Stored(p) /\ Last(p) # 1
    BY <1>6, <2>1
  <2>3. ClocksTypeOK'
    BY <1>1, <1>3, <1>4, <1>6, <2>1, <2>2 DEF ClocksTypeOK
  <2>4. QED
    BY <1>4, <2>2, <2>3 DEF Progress, Last, Stored
<1>10. CASE WaitForLock
  <2>1. h.do = "wait" /\ UNCHANGED <<pll, div, cpu_freq, locked>>
    BY <1>4, <1>10 DEF WaitForLock, Does
  <2>2. n = 2 /\ k = 1 /\ Last(p) # 2
    BY <1>6, <2>1
  <2>3. ClocksTypeOK'
    BY <1>1, <1>3, <1>4, <2>1 DEF ClocksTypeOK
  <2>4. QED
    BY <1>2, <1>4, <2>1, <2>2, <2>3 DEF Progress, Last, Stored
<1>11. CASE SelectPll
  <2>1. h.do = "select" /\ pll' = [pll EXCEPT !.sel = 1] /\ UNCHANGED <<div, cpu_freq, locked>>
    BY <1>4, <1>11 DEF SelectPll, Does
  <2>2. n = 3 /\ k = 2 /\ Last(p) # 3
    BY <1>6, <2>1
  <2>3. /\ pll' \in Plls /\ pll'.r = pll.r /\ pll'.f = pll.f /\ pll'.q = pll.q
        /\ pll'.refsel = pll.refsel /\ pll'.sel = 1
    BY <1>3, <2>1 DEF ClocksTypeOK, Plls
  <2>4. ClocksTypeOK'
    BY <1>1, <1>3, <1>4, <2>1, <2>3 DEF ClocksTypeOK
  <2>5. QED
    BY <1>2, <1>4, <2>1, <2>2, <2>3, <2>4 DEF Progress, Last, Stored
<1>12. CASE StoreDiv
  <2>1. h.do = "div" /\ div' = 2 * (h.div + 1) /\ UNCHANGED <<pll, cpu_freq, locked>>
    BY <1>4, <1>12 DEF StoreDiv, Does
  <2>2. n = 4 /\ k = 3 /\ Last(p) = 5
    BY <1>6, <2>1
  <2>3. (p = "32MHz" /\ div' = 4) \/ (p = "sloth" /\ div' = 128)
    BY <1>6, <2>1
  <2>4. ClocksTypeOK'
    BY <1>1, <1>3, <1>4, <2>1, <2>3 DEF ClocksTypeOK
  <2>5. QED
    BY <1>2, <1>4, <2>1, <2>2, <2>3, <2>4 DEF Progress, Last, Stored
<1>13. CASE TellFreq
  <2>1. h.do = "tell" /\ cpu_freq' = h.freq /\ UNCHANGED <<pll, div, locked>>
    BY <1>4, <1>13 DEF TellFreq, Does
  <2>2. n = Last(p) /\ cpu_freq' = Program(p)[n].freq
    BY <1>6, <2>1
  <2>3. k >= 1 /\ (n >= 3 <=> k >= 3) /\ (p \in {"32MHz", "sloth"} => k >= 4)
    BY <1>6, <2>2
  <2>4. ClocksTypeOK'
    BY <1>1, <1>3, <1>4, <1>6, <2>1, <2>2 DEF ClocksTypeOK
  <2>5. QED
    BY <1>2, <1>4, <2>1, <2>2, <2>3, <2>4 DEF Progress, Last, Stored
<1>14. QED
  BY <1>9, <1>10, <1>11, <1>12, <1>13

\* A call of a preset, the lock, and the drivers.
LEMMA RestKeepsClocksInv ==
    ASSUME ClocksInv,
           \/ Call \/ Lock \/ uart_divisor \/ spi_divisor \/ i2c_divisor
           \/ spi_divisor_off \/ i2c_divisor_off \/ UNCHANGED clockVars
    PROVE  ClocksInv'
<1>1. ClocksTypeOK /\ ClientsSound /\ pll' = pll /\ div' = div /\ cpu_freq' = cpu_freq
  BY DEF ClocksInv, Call, Lock, uart_divisor, spi_divisor, i2c_divisor, Opened, ClosedWith,
         spi_divisor_off, i2c_divisor_off, clockVars
<1>2. CASE Call
  <2>1. PICK p \in Presets : todo' = Program(p)
    BY <1>2 DEF Call
  <2>2. p \in AllPresets /\ todo' \in Seq(Statements) /\ UNCHANGED <<locked, client>>
    BY <1>2, <2>1, PresetsAssumption, ProgramsAreLists DEF AllPresets, Call
  <2>3. Last(p) \in {2, 4, 5}
    BY <2>2, Lengths, Zenon
  <2>4. Progress(p, 0)'
    BY <2>1, <2>3 DEF Progress, Last
  <2>5. ClocksTypeOK' /\ ClientsSound'
    BY <1>1, <2>2 DEF ClocksTypeOK, ClientsSound
  <2>6. QED
    BY <2>3, <2>4, <2>5 DEF ClocksInv, Last
<1>3. ASSUME todo' = todo, ClocksTypeOK', ClientsSound' PROVE ClocksInv'
  <2>1. Fresh => Fresh'
    BY <1>1, <1>3 DEF Fresh
  <2>2. \A p \in Presets, k \in Nat : Progress(p, k) => Progress(p, k)'
    BY <1>1, <1>3 DEF Progress, Last, Stored
  <2>3. QED
    BY <1>3, <2>1, <2>2 DEF ClocksInv, Last
<1>4. CASE Lock \/ UNCHANGED clockVars
  <2>1. todo' = todo /\ client' = client /\ locked' \in BOOLEAN
    BY <1>1, <1>4 DEF Lock, clockVars, ClocksTypeOK
  <2>2. QED
    BY <1>1, <1>3, <2>1 DEF ClocksTypeOK, ClientsSound
<1>5. ASSUME NEW c \in Clients, NEW baud \in Nat \ {0}, Opened(c, baud) PROVE ClocksInv'
  <2>1. /\ client' = [client EXCEPT ![c] = [baud |-> baud, div |-> Divisor(c, baud), freq |-> cpu_freq]]
        /\ todo' = todo /\ locked' = locked
    BY <1>5 DEF Opened
  <2>2. Divisor(c, baud) = ((cpu_freq \div (Factor(c) * baud)) - 1) % DivValues(c)
    BY DEF Divisor, Quotient
  <2>3. Divisor(c, baud) \in Int
    <3>2. Factor(c) \in {1, 2, 5}
      BY DEF Factor, Clients
    <3>3. Factor(c) * baud \in Nat \ {0}
      BY <3>2
    <3>4. cpu_freq \div (Factor(c) * baud) \in Int
      BY <1>1, <3>3 DEF ClocksTypeOK
    <3>5. DivValues(c) \in Nat \ {0}
      BY SMT DEF DivValues
    <3>6. QED
      BY <2>2, <3>4, <3>5
  <2>4. [baud |-> baud, div |-> Divisor(c, baud), freq |-> cpu_freq] \in [baud : Nat, div : Int, freq : Nat]
    BY <1>1, <2>3 DEF ClocksTypeOK
  <2>5. ClocksTypeOK'
    BY <1>1, <2>1, <2>4 DEF ClocksTypeOK
  <2>6. ClientsSound'
    BY <1>1, <2>1, <2>2 DEF ClientsSound, ClocksTypeOK
  <2>7. QED
    BY <1>3, <2>1, <2>5, <2>6
<1>6. ASSUME NEW c \in Clients, NEW d \in Int, ClosedWith(c, d) PROVE ClocksInv'
  <2>1. /\ client' = [client EXCEPT ![c] = [Closed EXCEPT !.div = d]]
        /\ todo' = todo /\ locked' = locked
    BY <1>6 DEF ClosedWith
  <2>2. Closed \in [baud : {0}, div : {0}, freq : {0}]
    BY DEF Closed
  <2>3. [Closed EXCEPT !.div = d] \in [baud : {0}, div : Int, freq : {0}]
    BY <2>2
  <2>4. /\ [Closed EXCEPT !.div = d] \in [baud : Nat, div : Int, freq : Nat]
        /\ [Closed EXCEPT !.div = d].baud = 0
    BY <2>3
  <2>5. ClocksTypeOK'
    BY <1>1, <2>1, <2>4 DEF ClocksTypeOK
  <2>6. ClientsSound'
    BY <1>1, <2>1, <2>4 DEF ClientsSound, ClocksTypeOK
  <2>7. QED
    BY <1>3, <2>1, <2>5, <2>6
<1>7. QED
  BY <1>2, <1>4, <1>5, <1>6, BaudsAssumption DEF uart_divisor, spi_divisor, i2c_divisor,
        spi_divisor_off, i2c_divisor_off, Clients

LEMMA ClocksStart == ClocksInit => ClocksInv
<1>1. SUFFICES ASSUME ClocksInit PROVE ClocksInv
  OBVIOUS
<1>2. pll \in Plls
  <2>1. Pll(1, 31, 3, 0, 0) \in Plls
    BY SMT DEF Pll, Plls
  <2>2. QED
    BY <1>1, <2>1 DEF ClocksInit
<1>3. Closed \in [baud : Nat, div : Int, freq : Nat] /\ Closed.baud = 0
  BY DEF Closed
<1>4. cpu_freq = 16000000 /\ cpu_freq \in Nat
  BY <1>1, SMT DEF ClocksInit
<1>5. ClocksTypeOK
  <2>1. todo \in Seq(Statements) /\ div = 1 /\ locked \in BOOLEAN
    <3>1. todo = <<>> /\ div = 1 /\ locked = FALSE
      BY <1>1, SMT DEF ClocksInit
    <3>2. <<>> \in Seq(Statements)
      BY SMT
    <3>3. locked \in BOOLEAN
      BY <3>1, Zenon
    <3>4. QED
      BY <3>1, <3>2, <3>3, Zenon
  <2>2. client \in [Clients -> [baud : Nat, div : Int, freq : Nat]]
    <3>1. client = [c \in Clients |-> Closed]
      BY <1>1, SMT DEF ClocksInit
    <3>2. QED
      BY <1>3, <3>1
  <2>3. QED
    BY <1>2, <1>4, <2>1, <2>2, SMT DEF ClocksTypeOK
<1>6. ClientsSound
  BY <1>1, <1>3, SMT DEF ClocksInit, ClientsSound
<1>7. Fresh
  BY <1>1, SMT DEF ClocksInit, Fresh
<1>8. QED
  BY <1>5, <1>6, <1>7 DEF ClocksInv

(* prci.h:69-144: between and within the presets, in whatever order they are  *)
(* called, the PLL, the divisor and cpu_freq are those of the last one.       *)
THEOREM ClocksInductive == ClocksSpec => []ClocksInv
<1>1. ClocksInv /\ [ClocksNext]_clockVars => ClocksInv'
  BY StatementsKeepClocksInv, RestKeepsClocksInv DEF ClocksNext
<1>2. QED
  BY <1>1, ClocksStart, PTL DEF ClocksSpec

(* The core clock.                                                         *)

PllRate(ref, r, f, q, d) == (ref * 2 * (f + 1)) \div ((r + 1) * PLL_Q[q + 1] * d)

LEMMA CoreIs ==
    ASSUME ClocksTypeOK
    PROVE  /\ pll.sel = 0 => Core = Rosc
           /\ pll.sel = 1 => Core = PllRate(IF pll.refsel = 1 THEN 16000000 ELSE Rosc, pll.r, pll.f, pll.q, div)
<1>1. pll.sel = 0 => Core = Rosc
  BY DEF Core
<1>2. pll.sel = 1 => Core = PllRate(IF pll.refsel = 1 THEN 16000000 ELSE Rosc, pll.r, pll.f, pll.q, div)
  BY SMT DEF Core, PllRate, Xosc
<1>3. QED
  BY <1>1, <1>2

LEMMA Rates ==
    /\ PllRate(16000000, 1, 47, 1, 1) = 384000000
    /\ \A d \in {4, 128} : PllRate(16000000, 1, 47, 1, d) <= 384000000
    /\ PllRate(16000000, 1, 39, 1, 1) = 320000000
    /\ \A d \in {4, 128} : PllRate(16000000, 1, 39, 1, d) <= 320000000
    /\ PllRate(16000000, 1, 23, 2, 4) = 24000000
    /\ PllRate(16000000, 2, 23, 3, 128) = 250000
<1>1. PLL_Q[2] = 2 /\ PLL_Q[3] = 4 /\ PLL_Q[4] = 8
  BY SMT DEF PLL_Q
<1>2. QED
  BY <1>1, SMT DEF PllRate

\* Between presets.
LEMMA SettledRates ==
    ASSUME ClocksInv, RoscIsTrimmed, todo = <<>>
    PROVE  Core <= cpu_freq /\ (~Divided => Core = cpu_freq)
<1>1. ClocksTypeOK
  BY DEF ClocksInv
<1>2. CASE Fresh
  <2>1. pll.sel = 0 /\ cpu_freq = 16000000
    BY <1>2, StatementsAre, SMT DEF Fresh
  <2>2. Core = 16000000
    BY <1>1, <2>1, CoreIs, SMT DEF RoscIsTrimmed
  <2>3. QED
    BY <2>1, <2>2, SMT
<1>3. ASSUME NEW p \in Presets, NEW k \in Nat, k <= Last(p), Progress(p, k)
      PROVE  Core <= cpu_freq /\ (~Divided => Core = cpu_freq)
  <2>1. p \in AllPresets /\ Last(p) \in {2, 4, 5}
    BY PresetsAssumption, Lengths, SMT DEF AllPresets
  <2>2. k = Last(p)
    <3>1. Len(todo) = 0 /\ Len(todo) = Last(p) - k
      BY <1>3 DEF Progress
    <3>2. QED
      BY <2>1, <3>1
  <2> DEFINE s == Stored(p)
  <2>3. /\ pll.r = s.r /\ pll.f = s.f /\ pll.q = s.q /\ pll.refsel = s.refsel
        /\ pll.sel = (IF k >= 3 THEN 1 ELSE s.sel)
        /\ k >= 4 /\ p = "32MHz" => div = 4
        /\ k >= 4 /\ p = "sloth" => div = 128
        /\ cpu_freq = Program(p)[k].freq
    BY <1>3, <2>1, <2>2, SMT DEF Progress
  <2>4. CASE p = "hyperspace"
    <3>1. /\ pll.r = 1 /\ pll.f = 47 /\ pll.q = 1 /\ pll.refsel = 1 /\ pll.sel = 1
          /\ cpu_freq = 384000000
      <4>1. k = 4 /\ Program(p)[1] = Store(Pll(1, 47, 1, 1, 0)) /\ Program(p)[k] = Tell(384000000)
        BY <2>2, <2>4, ProgramsAre, SMTT(30) DEF Last
      <4>2. s = Pll(1, 47, 1, 1, 0) /\ cpu_freq = 384000000
        BY <2>3, <4>1, StatementsAre, SMT DEF Stored
      <4>3. s.r = 1 /\ s.f = 47 /\ s.q = 1 /\ s.refsel = 1
        BY <4>2, StatementsAre, SMT
      <4>4. QED
        BY <2>3, <2>4, <4>1, <4>2, <4>3, SMT
    <3>2. Core = PllRate(16000000, 1, 47, 1, div)
      BY <1>1, <3>1, CoreIs, SMT
    <3>3. div \in {1, 4, 128} /\ (~Divided => div = 1)
      BY <1>1, <3>1, SMT DEF ClocksTypeOK, Divided
    <3>4. QED
      BY <3>1, <3>2, <3>3, Rates, SMT
  <2>5. CASE p = "320MHz"
    <3>1. /\ pll.r = 1 /\ pll.f = 39 /\ pll.q = 1 /\ pll.refsel = 1 /\ pll.sel = 1
          /\ cpu_freq = 320000000
      <4>1. k = 4 /\ Program(p)[1] = Store(Pll(1, 39, 1, 1, 0)) /\ Program(p)[k] = Tell(320000000)
        BY <2>2, <2>5, ProgramsAre, SMTT(30) DEF Last
      <4>2. s = Pll(1, 39, 1, 1, 0) /\ cpu_freq = 320000000
        BY <2>3, <4>1, StatementsAre, SMT DEF Stored
      <4>3. s.r = 1 /\ s.f = 39 /\ s.q = 1 /\ s.refsel = 1
        BY <4>2, StatementsAre, SMT
      <4>4. QED
        BY <2>3, <2>5, <4>1, <4>2, <4>3, SMT
    <3>2. Core = PllRate(16000000, 1, 39, 1, div)
      BY <1>1, <3>1, CoreIs, SMT
    <3>3. div \in {1, 4, 128} /\ (~Divided => div = 1)
      BY <1>1, <3>1, SMT DEF ClocksTypeOK, Divided
    <3>4. QED
      BY <3>1, <3>2, <3>3, Rates, SMT
  <2>6. CASE p = "32MHz"
    <3>1. /\ pll.r = 1 /\ pll.f = 23 /\ pll.q = 2 /\ pll.refsel = 0 /\ pll.sel = 1
          /\ div = 4 /\ cpu_freq = 32000000
      <4>1. k = 5 /\ Program(p)[1] = Store(Pll(1, 23, 2, 0, 1)) /\ Program(p)[k] = Tell(32000000)
        BY <2>2, <2>6, ProgramsAre, SMTT(30) DEF Last
      <4>2. s = Pll(1, 23, 2, 0, 1) /\ cpu_freq = 32000000
        BY <2>3, <4>1, StatementsAre, SMT DEF Stored
      <4>3. s.r = 1 /\ s.f = 23 /\ s.q = 2 /\ s.refsel = 0
        BY <4>2, StatementsAre, SMT
      <4>4. QED
        BY <2>3, <2>6, <4>1, <4>2, <4>3, SMT
    <3>2. Core = PllRate(16000000, 1, 23, 2, 4)
      BY <1>1, <3>1, CoreIs, SMT DEF RoscIsTrimmed
    <3>3. Divided
      BY <3>1, SMT DEF Divided
    <3>4. QED
      BY <3>1, <3>2, <3>3, Rates, SMT
  <2>7. CASE p = "16MHz"
    <3>1. pll.sel = 0 /\ cpu_freq = 16000000
      BY <2>2, <2>3, <2>7, ProgramsAre, StatementsAre, SMTT(30) DEF Last, Stored
    <3>2. Core = 16000000
      BY <1>1, <3>1, CoreIs, SMT DEF RoscIsTrimmed
    <3>3. QED
      BY <3>1, <3>2, SMT
  <2>8. CASE p = "sloth"
    <3>1. /\ pll.r = 2 /\ pll.f = 23 /\ pll.q = 3 /\ pll.refsel = 1 /\ pll.sel = 1
          /\ div = 128 /\ cpu_freq = 375000
      <4>1. k = 5 /\ Program(p)[1] = Store(Pll(2, 23, 3, 1, 0)) /\ Program(p)[k] = Tell(375000)
        BY <2>2, <2>8, ProgramsAre, SMTT(30) DEF Last
      <4>2. s = Pll(2, 23, 3, 1, 0) /\ cpu_freq = 375000
        BY <2>3, <4>1, StatementsAre, SMT DEF Stored
      <4>3. s.r = 2 /\ s.f = 23 /\ s.q = 3 /\ s.refsel = 1
        BY <4>2, StatementsAre, SMT
      <4>4. QED
        BY <2>3, <2>8, <4>1, <4>2, <4>3, SMT
    <3>2. Core = PllRate(16000000, 2, 23, 3, 128)
      BY <1>1, <3>1, CoreIs, SMT
    <3>3. Divided
      BY <3>1, SMT DEF Divided
    <3>4. QED
      BY <3>1, <3>2, <3>3, Rates, SMT
  <2>9. QED
    BY <2>1, <2>4, <2>5, <2>6, <2>7, <2>8 DEF AllPresets
<1>4. QED
  BY <1>2, <1>3 DEF ClocksInv

\* A client's rate.
LEMMA DivisionBounds ==
    ASSUME NEW f \in Nat, NEW k \in Nat \ {0}
    PROVE  /\ f \div k \in Nat
           /\ k * (f \div k) <= f /\ f < k * (f \div k) + k
<1>1. (f \div k) * k + (f % k) = f
  OBVIOUS
<1>2. f % k \in 0 .. k - 1
  OBVIOUS
<1>3. f \div k \in Nat
  OBVIOUS
<1>4. ASSUME NEW q \in Nat, NEW r \in 0 .. k - 1, q * k + r = f
      PROVE  k * q <= f /\ f < k * q + k
  <2>1. q * k \in Nat /\ k * q = q * k
    OBVIOUS
  <2>2. q * k <= f /\ f < q * k + k
    BY <1>4, <2>1
  <2>3. QED
    BY <2>1, <2>2
<1>5. QED
  BY <1>1, <1>2, <1>3, <1>4, Zenon

\* A divisor that was cut stays two below the quotient at least.
LEMMA CutProducts ==
    ASSUME NEW k \in Nat \ {0}, NEW d \in Nat, NEW q \in Nat, d + 2 <= q
    PROVE  k * (d + 1) + k <= k * q
<1>1. PICK e \in Nat : q = d + 2 + e
  <2>1. q - (d + 2) \in Nat /\ q = d + 2 + (q - (d + 2))
    BY SMT
  <2>2. QED
    BY <2>1, SMT
<1>2. k * q = k * (d + 1) + k + k * e
  BY <1>1, SMT
<1>3. k * e \in Nat
  BY SMT
<1>4. k * (d + 1) \in Nat
  BY SMT
<1>5. QED
  BY <1>2, <1>3, <1>4, SMT

LEMMA ClientRates ==
    ASSUME ClocksInv, RoscIsTrimmed
    PROVE  RateAsAsked /\ CutIsFaster
<1>1. ASSUME NEW c \in Clients, Steady, ~Divided, client[c].baud * Factor(c) # 0,
             client[c].freq = cpu_freq, Quotient(c, client[c].baud) >= 1
      PROVE  LET k == client[c].baud * Factor(c)
                 d == client[c].div
             IN  /\ Quotient(c, client[c].baud) <= DivValues(c) => k * (d + 1) <= Core /\ Core < k * (d + 1) + k
                 /\ Quotient(c, client[c].baud) > DivValues(c) => k * (d + 1) + k <= Core
  <2>1. PICK b \in Nat : b = client[c].baud
    BY SMT DEF ClocksInv, ClocksTypeOK
  <2>2. PICK m \in {1, 2, 5} : m = Factor(c)
    BY SMT DEF Factor, Clients
  <2>3. PICK f \in Nat : f = cpu_freq
    BY SMT DEF ClocksInv, ClocksTypeOK
  <2>4. b # 0 /\ b * m \in Nat \ {0} /\ m * b = b * m
    BY <1>1, <2>1, <2>2, SMT
  <2>5. PICK k \in Nat \ {0} : k = b * m
    BY <2>4
  <2>6. PICK q \in Nat : q = f \div k
    BY DivisionBounds
  <2>7. Quotient(c, client[c].baud) = q
    BY <2>1, <2>2, <2>3, <2>4, <2>5, <2>6, SMT DEF Quotient
  <2>8. q \in Nat \ {0}
    BY <1>1, <2>6, <2>7, SMT
  <2>9. PICK v \in {4096, 65536} : v = DivValues(c)
    BY SMT DEF DivValues
  <2>10. client[c].div = (q - 1) % v
    <3>1. client[c].div = ((client[c].freq \div (Factor(c) * client[c].baud)) - 1) % DivValues(c)
      BY <2>1, <2>4, SMT DEF ClocksInv, ClientsSound
    <3>2. client[c].freq \div (Factor(c) * client[c].baud) = q
      BY <1>1, <2>1, <2>2, <2>3, <2>4, <2>5, <2>6, SMT
    <3>3. QED
      BY <2>9, <3>1, <3>2, SMT
  <2>11. PICK d \in Nat : d = client[c].div /\ d < v /\ (q <= v => d + 1 = q)
    BY <2>8, <2>9, <2>10, SMT
  <2>12. Core = f
    <3>1. todo = <<>>
      BY <1>1, SMT DEF Steady
    <3>2. QED
      BY <1>1, <2>3, <3>1, SettledRates, SMT
  <2>13. k * q <= f /\ f < k * q + k
    BY <2>6, DivisionBounds, SMT
  <2>14. client[c].baud * Factor(c) = k
    BY <2>1, <2>2, <2>5, SMT
  <2>15. q <= v => k * (d + 1) <= f /\ f < k * (d + 1) + k
    BY <2>11, <2>13, SMT
  <2>16. ASSUME q > v PROVE k * (d + 1) + k <= f
    <3>1. d + 2 <= q
      BY <2>9, <2>11, <2>16, SMT
    <3>2. k * (d + 1) + k <= k * q
      BY <3>1, CutProducts
    <3>3. k * (d + 1) \in Nat /\ k * q \in Nat
      BY SMT
    <3>4. QED
      BY <2>13, <3>2, <3>3, SMT
  <2>17. QED
    BY <2>7, <2>9, <2>11, <2>12, <2>14, <2>15, <2>16
<1>2. RateAsAsked
  BY <1>1, SMT DEF RateAsAsked
<1>3. CutIsFaster
  <2>1. \A c \in Clients : DivValues(c) >= 1 /\ DivValues(c) \in Nat
    BY SMT DEF DivValues
  <2>2. \A c \in Clients : client[c].baud * Factor(c) # 0 => Quotient(c, client[c].baud) \in Int
    <3>1. SUFFICES ASSUME NEW c \in Clients, client[c].baud * Factor(c) # 0
                   PROVE  Quotient(c, client[c].baud) \in Int
      OBVIOUS
    <3>2. PICK b \in Nat : b = client[c].baud
      BY SMT DEF ClocksInv, ClocksTypeOK
    <3>3. PICK m \in {1, 2, 5} : m = Factor(c)
      BY SMT DEF Factor, Clients
    <3>4. m * b \in Nat \ {0} /\ cpu_freq \in Nat
      BY <3>1, <3>2, <3>3, SMT DEF ClocksInv, ClocksTypeOK
    <3>5. QED
      BY <3>2, <3>3, <3>4, SMT DEF Quotient
  <2>3. QED
    BY <1>1, <2>1, <2>2, SMT DEF CutIsFaster
<1>4. QED
  BY <1>2, <1>3

LEMMA PllStepsOffLine ==
    ASSUME ClocksInv, SelectsLast, [ClocksNext]_clockVars
    PROVE  pll' # [pll EXCEPT !.sel = pll'.sel] => pll'.sel = 0
<1>1. pll \in Plls
  BY DEF ClocksInv, ClocksTypeOK
<1>2. pll = [pll EXCEPT !.sel = pll.sel]
  BY <1>1 DEF Plls
<1>3. CASE pll' = pll
  BY <1>2, <1>3
<1>4. CASE SelectPll
  <2>1. pll' = [pll EXCEPT !.sel = 1]
    BY <1>4 DEF SelectPll
  <2>2. pll'.sel = 1
    BY <1>1, <2>1 DEF Plls
  <2>3. QED
    BY <2>1, <2>2
<1>5. CASE StorePll
  <2>1. todo # <<>> /\ Head(todo).do = "store" /\ pll' = Head(todo).pll
    BY <1>5 DEF StorePll, Does
  <2>2. PICK p \in Presets, k \in Nat : k <= Last(p) /\ Progress(p, k)
    BY <2>1 DEF ClocksInv, Fresh
  <2>3. p \in AllPresets /\ p # "32MHz"
    BY PresetsAssumption DEF AllPresets, SelectsLast
  <2>4. k + 1 \in Nat /\ k + 1 <= Last(p) /\ Head(todo) = Program(p)[k + 1]
    BY <2>1, <2>2, <2>3, Executes DEF ClocksInv
  <2>5. 1 <= k + 1
    OBVIOUS
  <2>6. pll' = Stored(p) /\ Stored(p).sel = 0
    BY <2>1, <2>3, <2>4, <2>5, Places
  <2>7. QED
    BY <2>6
<1>6. QED
  BY <1>3, <1>4, <1>5 DEF ClocksNext, Call, WaitForLock, StoreDiv, TellFreq, Lock, uart_divisor, spi_divisor,
        i2c_divisor, Opened, ClosedWith, spi_divisor_off, i2c_divisor_off, clockVars

(* prci.h:69-144, uart.c:21, spi.h:201, i2c.c:9: the core runs at the rate    *)
(* the presets tell, never faster, whatever order they are called in, and an  *)
(* opened device runs at no more than it was asked for, as long as its        *)
(* register holds the divisor, and faster where it does not.                  *)
THEOREM ClocksRunAsTold ==
    ASSUME RoscIsTrimmed
    PROVE  /\ ClocksSpec => [](FreqTold /\ NeverFasterThanTold /\ RateAsAsked /\ CutIsFaster)
           /\ SelectsLast => (ClocksSpec => RatesAsTold)
<1>1. ClocksInv => FreqTold /\ NeverFasterThanTold /\ RateAsAsked /\ CutIsFaster
  BY SettledRates, ClientRates DEF FreqTold, NeverFasterThanTold, Steady
<1>2. ClocksSpec => [](FreqTold /\ NeverFasterThanTold /\ RateAsAsked /\ CutIsFaster)
  BY <1>1, ClocksInductive, PTL
<1>3. ASSUME SelectsLast PROVE ClocksSpec => RatesAsTold
  <2>1. ClocksInv /\ [ClocksNext]_clockVars =>
            [pll' # [pll EXCEPT !.sel = pll'.sel] => pll'.sel = 0]_clockVars
    BY <1>3, PllStepsOffLine
  <2>2. QED
    BY <1>2, <2>1, ClocksInductive, PTL DEF ClocksSpec, RatesAsTold, PllChangedOnlyOffLine
<1>4. QED
  BY <1>2, <1>3

-----------------------------------------------------------------------------
(* The timer: an alarm is never early                                      *)

RtcSpec == RtcInit /\ [][RtcNext]_rtcVars

(* How far each call has come, and what the two halves it has read are worth: *)
(* with the delay, no less than what was promised, and no more than a wrap of *)
(* the low half above the clock.                                              *)
CallSound(a) ==
    LET c == call[a] IN
    /\ c.step = "idle" => c = NoCall
    /\ c.step # "idle" => c.next \in Delays
    /\ c.step = "loadlo" => c.due <= mtime + c.next
    /\ c.step = "loadhi" => c.lo < WordSize /\ c.due <= Hi(mtime) * WordSize + c.lo + c.next
    /\ c.step \in {"storelo", "storehi", "on"} =>
        /\ c.due <= Target(a) /\ Value(c) < mtime + WordSize
    /\ c.step = "storehi" => mtimecmp.lo = Lo(Target(a))
    /\ c.step = "on" => mtimecmp.lo = Lo(Target(a)) /\ mtimecmp.hi = Hi(Target(a))

RtcTypeOK ==
    /\ linked \in Handlers /\ mtime \in Nat /\ mtie \in BOOLEAN /\ taken \in BOOLEAN
    /\ mtimecmp \in [lo : Nat, hi : Nat]
    /\ call \in [Actors -> [step : Steps \cup {"idle"}, next : Nat, due : Nat, lo : Nat, hi : Nat]]
    /\ loop \in {"wait", "toggle", "clear", "again", "call"}
    /\ trap \in {"none", "handler", "call", "taken"}

(* Main and the service routine are never both in the middle of a call, and   *)
(* the interrupt is off while either is.                                      *)
CallsApart ==
    /\ call["main"].step # "idle" <=> loop = "call"
    /\ call["isr"].step # "idle" <=> trap = "call"
    /\ Requesting("main") => trap = "none"
    /\ \A a \in Actors : Requesting(a) => ~mtie

RtcInv == RtcTypeOK /\ CallsApart /\ \A a \in Actors : CallSound(a)

LEMMA Halves ==
    /\ \A n \in Nat : /\ Lo(n) \in 0 .. WordSize - 1 /\ Hi(n) \in Nat
                      /\ Hi(n) * WordSize + Lo(n) = n
    /\ \A n \in Nat : Hi(n) <= Hi(n + 1)
    /\ \A h, k \in Nat : h <= k => h * WordSize <= k * WordSize
    /\ \A h, l \in Nat : h * WordSize \in Nat /\ h * WordSize + l \in Nat
<1>0. WordSize \in Nat \ {0}
  BY WordSizeAssumption
<1>1. ASSUME NEW n \in Nat
      PROVE  Lo(n) \in 0 .. WordSize - 1 /\ Hi(n) \in Nat /\ Hi(n) * WordSize + Lo(n) = n
  <2>1. n \div WordSize \in Nat
    BY <1>0
  <2>2. n % WordSize \in 0 .. WordSize - 1
    BY <1>0
  <2>3. (n \div WordSize) * WordSize + (n % WordSize) = n
    BY <1>0
  <2>4. QED
    BY <2>1, <2>2, <2>3 DEF Lo, Hi
<1>2. ASSUME NEW n \in Nat PROVE Hi(n) <= Hi(n + 1)
  <2>1. \A W \in Nat \ {0} : n \div W <= (n + 1) \div W
    OBVIOUS
  <2>2. QED
    BY <1>0, <2>1 DEF Hi
<1>3. ASSUME NEW h \in Nat, NEW k \in Nat, h <= k PROVE h * WordSize <= k * WordSize
  BY <1>0, <1>3
<1>4. ASSUME NEW h \in Nat, NEW l \in Nat PROVE h * WordSize \in Nat /\ h * WordSize + l \in Nat
  BY <1>0
<1>5. QED
  BY <1>1, <1>2, <1>3, <1>4

LEMMA Types ==
    ASSUME RtcInv, NEW a \in Actors
    PROVE  /\ call[a] \in [step : Steps \cup {"idle"}, next : Nat, due : Nat, lo : Nat, hi : Nat]
           /\ Value(call[a]) \in Nat /\ Target(a) \in Nat
           /\ call[a].step # "idle" => call[a].next \in Delays
<1>1. call[a] \in [step : Steps \cup {"idle"}, next : Nat, due : Nat, lo : Nat, hi : Nat]
  BY DEF RtcInv, RtcTypeOK
<1>2. Value(call[a]) \in Nat
  BY <1>1, Halves DEF Value
<1>3. QED
  BY <1>1, <1>2 DEF Target, RtcInv, CallSound

\* What a step of a call leaves as it is.
LEMMA CallsStay ==
    ASSUME RtcInv, NEW a \in Actors, call'[a] = call[a], mtime' = mtime, mtimecmp' = mtimecmp
    PROVE  CallSound(a)'
<1>1. CallSound(a)
  BY DEF RtcInv
<1>2. QED
  BY <1>1 DEF CallSound, Target, Value

LEMMA TickKeepsRtcInv ==
    ASSUME RtcInv, Tick
    PROVE  RtcInv'
<1>1. mtime' = mtime + 1 /\ UNCHANGED <<linked, mtimecmp, mtie, call, loop, trap, taken>>
  BY DEF Tick
<1>2. RtcTypeOK' /\ CallsApart'
  BY <1>1 DEF RtcInv, RtcTypeOK, CallsApart, Requesting
<1>3. ASSUME NEW a \in Actors PROVE CallSound(a)'
  <2>1. /\ call[a] \in [step : Steps \cup {"idle"}, next : Nat, due : Nat, lo : Nat, hi : Nat]
        /\ Value(call[a]) \in Nat /\ Target(a) \in Nat /\ mtime \in Nat /\ CallSound(a)
    BY Types DEF RtcInv, RtcTypeOK
  <2>2. Value(call[a])' = Value(call[a]) /\ Target(a)' = Target(a) /\ call'[a] = call[a]
    BY <1>1 DEF Value, Target
  <2>3. Hi(mtime) * WordSize <= Hi(mtime') * WordSize
    BY <1>1, <2>1, Halves
  <2>4. Hi(mtime) * WordSize \in Nat /\ Hi(mtime') * WordSize \in Nat /\ WordSize \in Nat
    <3>1. mtime' \in Nat /\ WordSize \in Nat
      BY <1>1, <2>1, WordSizeAssumption
    <3>2. Hi(mtime) \in Nat /\ Hi(mtime') \in Nat
      BY <2>1, <3>1, Halves, Zenon
    <3>3. QED
      BY <3>1, <3>2
  <2>5. call[a].step = "loadlo" => call[a].due <= mtime' + call[a].next
    BY <1>1, <2>1 DEF CallSound
  <2>6. call[a].step = "loadhi" => call[a].lo < WordSize /\ call[a].due <= Hi(mtime') * WordSize + call[a].lo + call[a].next
    <3>1. \A h, k, d, l, n \in Nat : h <= k /\ d <= h + l + n => d <= k + l + n
      OBVIOUS
    <3>2. QED
      BY <2>1, <2>3, <2>4, <3>1 DEF CallSound
  <2>7. Value(call[a]) < mtime + WordSize => Value(call[a]) < mtime' + WordSize
    BY <1>1, <2>1, <2>4
  <2>8. QED
    BY <1>1, <2>1, <2>2, <2>5, <2>6, <2>7 DEF CallSound, Lo, Hi
<1>4. QED
  BY <1>2, <1>3 DEF RtcInv

\* The steps of aon_rtc_next_wake_time.
LEMMA CallKeepsRtcInv ==
    ASSUME RtcInv, NEW a \in Actors, NextWakeTime(a)
    PROVE  RtcInv'
<1>0. /\ call[a] \in [step : Steps \cup {"idle"}, next : Nat, due : Nat, lo : Nat, hi : Nat]
      /\ Value(call[a]) \in Nat /\ Target(a) \in Nat /\ mtime \in Nat /\ mtime' = mtime
      /\ CallSound(a) /\ RtcTypeOK /\ WordSize \in Nat /\ UNCHANGED <<linked, taken>>
      /\ Runs(a) /\ call[a].step # "idle" /\ call[a].next \in Delays
  BY Types, WordSizeAssumption DEF RtcInv, RtcTypeOK, CallSound, NextWakeTime, Off, LoadLo, LoadHi, StoreLo, StoreHi, On, At
<1>1. ASSUME NEW b \in Actors, b # a PROVE call'[b] = call[b] /\ ~Requesting(b)
  BY <1>0, <1>1 DEF RtcInv, RtcTypeOK, CallsApart, NextWakeTime, Off, LoadLo, LoadHi, StoreLo, StoreHi, On, At, Runs, Actors,
                    Requesting, Steps
<1>2. ASSUME RtcTypeOK', CallSound(a)', CallsApart', NEW b \in Actors PROVE CallSound(b)'
  <2>1. CASE b = a
    BY <1>2, <2>1
  <2>2. CASE b # a
    <3>1. call'[b] = call[b] /\ call[b].step \in {"off", "idle"}
      BY <1>1, <2>2, Types DEF Requesting
    <3>2. CallSound(b)
      BY DEF RtcInv
    <3>3. QED
      BY <3>1, <3>2 DEF CallSound
  <2>3. QED
    BY <2>1, <2>2
<1>10. ASSUME call'[a].step \in Steps, mtie' = FALSE, UNCHANGED <<loop, trap>> PROVE CallsApart'
  <2>1. ASSUME NEW b \in Actors PROVE (call'[b].step # "idle") = (call[b].step # "idle")
    <3>1. CASE b = a
      BY <1>0, <1>10, <3>1 DEF Steps
    <3>2. CASE b # a
      BY <1>1, <3>2
    <3>3. QED
      BY <3>1, <3>2
  <2>2. Requesting("main")' => trap = "none"
    <3>1. CASE a = "main"
      BY <1>0, <3>1 DEF Runs
    <3>2. CASE a # "main"
      BY <1>1, <3>2 DEF Requesting, Actors
    <3>3. QED
      BY <3>1, <3>2
  <2>3. "main" \in Actors /\ "isr" \in Actors
    BY DEF Actors
  <2>4. QED
    BY <1>10, <2>1, <2>2, <2>3 DEF RtcInv, CallsApart
<1>11. call[a].step # "off" => mtie = FALSE
  BY <1>0 DEF RtcInv, CallsApart, Requesting, RtcTypeOK, Steps
<1>3. CASE Off(a)
  <2>1. /\ call[a].step = "off" /\ mtie' = FALSE /\ UNCHANGED <<mtimecmp, loop, trap>>
        /\ call' = [call EXCEPT ![a].step = "loadlo", ![a].due = mtime + call[a].next]
    BY <1>3 DEF Off
  <2>2. call'[a] = [call[a] EXCEPT !.step = "loadlo", !.due = mtime + call[a].next]
    BY <1>0, <2>1 DEF RtcTypeOK
  <2>3. RtcTypeOK'
    <3>1. mtime + call[a].next \in Nat
      BY <1>0
    <3>2. QED
      BY <1>0, <2>1, <3>1 DEF RtcTypeOK, Steps
  <2>4. CallsApart'
    BY <1>0, <1>10, <1>11, <2>1, <2>2 DEF Steps
  <2>5. CallSound(a)'
    BY <1>0, <2>2 DEF CallSound
  <2>6. QED
    BY <1>2, <2>3, <2>4, <2>5 DEF RtcInv
<1>4. CASE LoadLo(a)
  <2>1. /\ call[a].step = "loadlo" /\ UNCHANGED <<mtie, mtimecmp, loop, trap>>
        /\ call' = [call EXCEPT ![a].step = "loadhi", ![a].lo = Lo(mtime)]
    BY <1>4 DEF LoadLo
  <2>2. call'[a] = [call[a] EXCEPT !.step = "loadhi", !.lo = Lo(mtime)]
    BY <1>0, <2>1 DEF RtcTypeOK
  <2>3. Lo(mtime) \in Nat /\ Lo(mtime) < WordSize /\ Hi(mtime) * WordSize + Lo(mtime) = mtime
    <3>1. Lo(mtime) \in 0 .. WordSize - 1 /\ Hi(mtime) * WordSize + Lo(mtime) = mtime
      BY <1>0, Halves, Zenon
    <3>2. QED
      BY <1>0, <3>1
  <2>4. RtcTypeOK'
    BY <1>0, <2>1, <2>3 DEF RtcTypeOK, Steps
  <2>5. CallsApart'
    BY <1>0, <1>10, <1>11, <2>1, <2>2 DEF Steps
  <2>6. CallSound(a)'
    <3>1. call[a].due <= Hi(mtime) * WordSize + Lo(mtime) + call[a].next
      BY <1>0, <2>1, <2>3 DEF CallSound
    <3>2. QED
      BY <1>0, <2>2, <2>3, <3>1 DEF CallSound
  <2>7. QED
    BY <1>2, <2>4, <2>5, <2>6 DEF RtcInv
<1>5. CASE LoadHi(a)
  <2>1. /\ call[a].step = "loadhi" /\ UNCHANGED <<mtie, mtimecmp, loop, trap>>
        /\ call' = [call EXCEPT ![a].step = "storelo", ![a].hi = Hi(mtime)]
    BY <1>5 DEF LoadHi
  <2>2. call'[a] = [call[a] EXCEPT !.step = "storelo", !.hi = Hi(mtime)]
    BY <1>0, <2>1 DEF RtcTypeOK
  <2>3. /\ Hi(mtime) \in Nat /\ Lo(mtime) \in Nat /\ Hi(mtime) * WordSize \in Nat
        /\ Hi(mtime) * WordSize + Lo(mtime) = mtime
    <3>1. /\ Lo(mtime) \in 0 .. WordSize - 1 /\ Hi(mtime) \in Nat
          /\ Hi(mtime) * WordSize + Lo(mtime) = mtime
      BY <1>0, Halves, Zenon
    <3>2. Hi(mtime) * WordSize \in Nat
      BY <3>1, Halves, Zenon
    <3>3. QED
      BY <1>0, <3>1, <3>2
  <2>4. RtcTypeOK'
    BY <1>0, <2>1, <2>3 DEF RtcTypeOK, Steps
  <2>5. CallsApart'
    BY <1>0, <1>10, <1>11, <2>1, <2>2 DEF Steps
  <2>6. /\ Value(call[a])' = Hi(mtime) * WordSize + call[a].lo
        /\ Target(a)' = Hi(mtime) * WordSize + call[a].lo + call[a].next
    BY <2>2 DEF Value, Target
  <2>7. Value(call[a])' < mtime + WordSize
    <3>1. call[a].lo < WordSize
      BY <1>0, <2>1 DEF CallSound
    <3>2. QED
      BY <1>0, <2>3, <2>6, <3>1
  <2>8. CallSound(a)'
    <3>1. call[a].due <= Hi(mtime) * WordSize + call[a].lo + call[a].next
      BY <1>0, <2>1 DEF CallSound
    <3>2. call'[a].step = "storelo" /\ call'[a].due = call[a].due /\ call'[a].next = call[a].next
      BY <1>0, <2>2
    <3>3. QED
      BY <1>0, <2>6, <2>7, <3>1, <3>2 DEF CallSound
  <2>9. QED
    BY <1>2, <2>4, <2>5, <2>8 DEF RtcInv
<1>6. CASE StoreLo(a)
  <2>1. /\ call[a].step = "storelo" /\ UNCHANGED <<mtie, loop, trap>>
        /\ call' = [call EXCEPT ![a].step = "storehi"]
        /\ mtimecmp' = [mtimecmp EXCEPT !.lo = Lo(Target(a))]
    BY <1>6 DEF StoreLo, At
  <2>2. call'[a] = [call[a] EXCEPT !.step = "storehi"]
    BY <1>0, <2>1 DEF RtcTypeOK
  <2>3. Lo(Target(a)) \in Nat
    BY <1>0, Halves
  <2>4. RtcTypeOK'
    BY <1>0, <2>1, <2>3 DEF RtcTypeOK, Steps
  <2>5. CallsApart'
    BY <1>0, <1>10, <1>11, <2>1, <2>2 DEF Steps
  <2>6. Value(call[a])' = Value(call[a]) /\ Target(a)' = Target(a)
    BY <1>0, <2>2 DEF Value, Target
  <2>7. CallSound(a)'
    BY <1>0, <2>1, <2>2, <2>6 DEF CallSound, RtcTypeOK
  <2>8. QED
    BY <1>2, <2>4, <2>5, <2>7 DEF RtcInv
<1>7. CASE StoreHi(a)
  <2>1. /\ call[a].step = "storehi" /\ UNCHANGED <<mtie, loop, trap>>
        /\ call' = [call EXCEPT ![a].step = "on"]
        /\ mtimecmp' = [mtimecmp EXCEPT !.hi = Hi(Target(a))]
    BY <1>7 DEF StoreHi, At
  <2>2. call'[a] = [call[a] EXCEPT !.step = "on"]
    BY <1>0, <2>1 DEF RtcTypeOK
  <2>3. Hi(Target(a)) \in Nat
    BY <1>0, Halves
  <2>4. RtcTypeOK'
    BY <1>0, <2>1, <2>3 DEF RtcTypeOK, Steps
  <2>5. CallsApart'
    BY <1>0, <1>10, <1>11, <2>1, <2>2 DEF Steps
  <2>6. Value(call[a])' = Value(call[a]) /\ Target(a)' = Target(a)
    BY <1>0, <2>2 DEF Value, Target
  <2>7. CallSound(a)'
    BY <1>0, <2>1, <2>2, <2>6 DEF CallSound, RtcTypeOK
  <2>8. QED
    BY <1>2, <2>4, <2>5, <2>7 DEF RtcInv
<1>8. CASE On(a)
  <2>1. /\ call[a].step = "on" /\ mtie' = TRUE /\ mtimecmp' = mtimecmp
        /\ call' = [call EXCEPT ![a] = NoCall]
        /\ loop' = IF a = "main" THEN "wait" ELSE loop
        /\ trap' = IF a = "isr" THEN "taken" ELSE trap
    BY <1>8 DEF On
  <2>2. call'[a] = NoCall /\ NoCall.step = "idle"
    BY <1>0, <2>1 DEF RtcTypeOK, NoCall
  <2>3. RtcTypeOK'
    BY <1>0, <2>1 DEF RtcTypeOK, NoCall
  <2>4. ASSUME NEW b \in Actors PROVE ~Requesting(b)'
    <3>1. CASE b = a
      BY <2>2, <3>1 DEF Requesting, Steps
    <3>2. CASE b # a
      BY <1>1, <3>2 DEF Requesting
    <3>3. QED
      BY <3>1, <3>2
  <2>5. CallsApart'
    BY <1>0, <1>1, <2>1, <2>2, <2>4 DEF RtcInv, CallsApart, Runs, Actors
  <2>6. CallSound(a)'
    BY <2>2 DEF CallSound
  <2>7. QED
    BY <1>2, <2>3, <2>5, <2>6 DEF RtcInv
<1>9. QED
  BY <1>3, <1>4, <1>5, <1>6, <1>7, <1>8 DEF NextWakeTime

\* The main loop, and the service routine outside its call.
LEMMA RestKeepsRtcInv ==
    ASSUME RtcInv, WaitTimer \/ Toggle \/ Clear \/ Again \/ Trap \/ Handler \/ SetTaken
    PROVE  RtcInv'
<1>1. RtcTypeOK /\ CallsApart /\ UNCHANGED <<linked, mtime, mtimecmp, mtie>> /\ "main" \in Actors /\ "isr" \in Actors
  BY DEF RtcInv, WaitTimer, Toggle, Clear, Again, Trap, Handler, SetTaken, Actors
<1>2. ASSUME NEW a \in Actors, call[a].step = "idle", Called(a)
      PROVE  /\ call' \in [Actors -> [step : Steps \cup {"idle"}, next : Nat, due : Nat, lo : Nat, hi : Nat]]
             /\ call'[a].step = "off" /\ \A b \in Actors : b # a => call'[b] = call[b]
             /\ \A b \in Actors : CallSound(b)'
  <2>1. PICK next \in Delays : call' = [call EXCEPT ![a] = [NoCall EXCEPT !.step = "off", !.next = next]]
    BY <1>2 DEF Called
  <2>2. [NoCall EXCEPT !.step = "off", !.next = next] = [step |-> "off", next |-> next, due |-> 0, lo |-> 0, hi |-> 0]
    <3>1. NoCall \in [step : {"idle"}, next : {0}, due : {0}, lo : {0}, hi : {0}]
      BY DEF NoCall
    <3>2. ASSUME NEW r \in [step : {"idle"}, next : {0}, due : {0}, lo : {0}, hi : {0}]
          PROVE  [r EXCEPT !.step = "off", !.next = next]
                    \in [step : {"off"}, next : {next}, due : {0}, lo : {0}, hi : {0}]
      OBVIOUS
    <3>3. ASSUME NEW r \in [step : {"off"}, next : {next}, due : {0}, lo : {0}, hi : {0}]
          PROVE  r = [step |-> "off", next |-> next, due |-> 0, lo |-> 0, hi |-> 0]
      OBVIOUS
    <3>4. QED
      BY <3>1, <3>2, <3>3
  <2>3. /\ call'[a] = [step |-> "off", next |-> next, due |-> 0, lo |-> 0, hi |-> 0]
        /\ \A b \in Actors : b # a => call'[b] = call[b]
    BY <1>1, <2>1, <2>2 DEF RtcTypeOK
  <2>4. call' \in [Actors -> [step : Steps \cup {"idle"}, next : Nat, due : Nat, lo : Nat, hi : Nat]]
    <3>1. [step |-> "off", next |-> next, due |-> 0, lo |-> 0, hi |-> 0]
            \in [step : Steps \cup {"idle"}, next : Nat, due : Nat, lo : Nat, hi : Nat]
      BY DelaysAssumption DEF Steps
    <3>2. call' = [call EXCEPT ![a] = [step |-> "off", next |-> next, due |-> 0, lo |-> 0, hi |-> 0]]
      BY <2>1, <2>2
    <3>3. QED
      BY <1>1, <3>1, <3>2 DEF RtcTypeOK
  <2>5. CallSound(a)'
    BY <2>3 DEF CallSound
  <2>6. QED
    BY <1>1, <2>3, <2>4, <2>5, CallsStay
<1>3. CASE call' = call
  <2>1. \A a \in Actors : CallSound(a)'
    BY <1>1, <1>3, CallsStay
  <2>2. RtcTypeOK'
    BY <1>1, <1>3 DEF RtcTypeOK, WaitTimer, Toggle, Clear, Again, Trap, Handler, SetTaken
  <2>3. CallsApart'
    <3>0. \A a \in Actors : call[a].step = "idle" => ~Called(a)
      BY <1>2, <1>3
    <3>1. CASE WaitTimer \/ Toggle \/ Clear \/ Again
      <4>1. loop # "call" /\ loop' # "call" /\ trap' = trap
        BY <1>1, <3>0, <3>1 DEF CallsApart, WaitTimer, Toggle, Clear, Again
      <4>2. QED
        BY <1>1, <1>3, <4>1 DEF CallsApart, Requesting
    <3>2. CASE Trap
      BY <1>1, <1>3, <3>2 DEF CallsApart, Requesting, Trap
    <3>3. CASE Handler \/ SetTaken
      <4>1. trap \notin {"none", "call"} /\ trap' # "call" /\ loop' = loop
        BY <1>1, <3>0, <3>3 DEF CallsApart, Handler, SetTaken
      <4>2. QED
        BY <1>1, <1>3, <4>1 DEF CallsApart, Requesting
    <3>4. QED
      BY <3>1, <3>2, <3>3
  <2>4. QED
    BY <2>1, <2>2, <2>3 DEF RtcInv
<1>4. CASE Again /\ loop' = "call" /\ Called("main")
  <2>1. call["main"].step = "idle" /\ trap = "none" /\ trap' = trap /\ taken' = taken
    BY <1>1, <1>4 DEF Again, CallsApart
  <2>2. RtcTypeOK' /\ \A b \in Actors : CallSound(b)'
    BY <1>1, <1>2, <1>4, <2>1 DEF RtcTypeOK
  <2>3. call'["isr"] = call["isr"] /\ call'["main"].step = "off"
    BY <1>1, <1>2, <1>4, <2>1
  <2>4. CallsApart'
    BY <1>1, <1>4, <2>1, <2>3 DEF CallsApart, Requesting, Actors
  <2>5. QED
    BY <2>2, <2>4 DEF RtcInv
<1>5. CASE Handler /\ trap' = "call" /\ Called("isr")
  <2>1. call["isr"].step = "idle" /\ trap = "handler" /\ loop' = loop /\ taken' = taken
    BY <1>1, <1>5 DEF Handler, CallsApart
  <2>2. RtcTypeOK' /\ \A b \in Actors : CallSound(b)'
    BY <1>1, <1>2, <1>5, <2>1 DEF RtcTypeOK
  <2>3. call'["main"] = call["main"] /\ call'["isr"].step = "off"
    BY <1>1, <1>2, <1>5, <2>1
  <2>4. CallsApart'
    BY <1>1, <1>5, <2>1, <2>3 DEF CallsApart, Requesting, Actors
  <2>5. QED
    BY <2>2, <2>4 DEF RtcInv
<1>6. QED
  BY <1>3, <1>4, <1>5 DEF WaitTimer, Toggle, Clear, Again, Trap, Handler, SetTaken

LEMMA RtcStart == RtcInit => RtcInv
<1>1. SUFFICES ASSUME RtcInit PROVE RtcInv
  OBVIOUS
<1>2. Hi(MaxTime) \in Nat /\ WordSize - 1 \in Nat
  BY Halves, MaxTimeAssumption, WordSizeAssumption
<1>3. RtcTypeOK
  <2>1. mtimecmp \in [lo : Nat, hi : Nat]
    BY <1>1, <1>2 DEF RtcInit
  <2>2. NoCall \in [step : Steps \cup {"idle"}, next : Nat, due : Nat, lo : Nat, hi : Nat]
    BY DEF NoCall
  <2>3. QED
    BY <1>1, <2>1, <2>2 DEF RtcInit, RtcTypeOK
<1>4. CallsApart /\ \A a \in Actors : CallSound(a)
  BY <1>1 DEF RtcInit, CallsApart, CallSound, NoCall, Requesting, Steps, Actors
<1>5. QED
  BY <1>3, <1>4 DEF RtcInv

LEMMA RtcStepKeepsInv == RtcInv /\ [RtcNext]_rtcVars => RtcInv'
<1>1. SUFFICES ASSUME RtcInv, [RtcNext]_rtcVars PROVE RtcInv'
  OBVIOUS
<1>2. CASE UNCHANGED rtcVars
  BY <1>1, <1>2 DEF rtcVars, RtcInv, RtcTypeOK, CallsApart, CallSound, Requesting, Target, Value, Lo, Hi
<1>3. ASSUME NEW a \in Actors, NextWakeTime(a) PROVE RtcInv'
  BY <1>1, <1>3, CallKeepsRtcInv
<1>4. QED
  BY <1>1, <1>2, <1>3, RestKeepsRtcInv, TickKeepsRtcInv DEF RtcNext, Main, ServiceRoutine, Actors

(* aon.h:145-166: the halves read and written while the clock runs add up to  *)
(* a compare value no earlier than was asked for, and no interrupt is taken   *)
(* while one is being written.                                                *)
THEOREM RtcInductive == RtcSpec => []RtcInv
<1>1. QED
  BY RtcStart, RtcStepKeepsInv, PTL DEF RtcSpec

(* The alarm a caller may count on.                                        *)

mode == IF \E a \in Actors : Requesting(a) THEN "requested" ELSE IF mtie THEN "set" ELSE "off"
due  == IF \E a \in Actors : Requesting(a)
        THEN call[CHOOSE a \in Actors : Requesting(a)].due
        ELSE IF mtie THEN Value(mtimecmp) ELSE 0
delay == IF \E a \in Actors : Requesting(a)
         THEN call[CHOOSE a \in Actors : Requesting(a)].next ELSE 0

AsRequested ==
    /\ \A a \in Actors : Requesting(a) =>
            mode = "requested" /\ due = call[a].due /\ delay = call[a].next
    /\ (\A a \in Actors : ~Requesting(a)) =>
            /\ mode = (IF mtie THEN "set" ELSE "off")
            /\ due = (IF mtie THEN Value(mtimecmp) ELSE 0)
            /\ delay = 0

LEMMA WhoRequests == RtcInv => AsRequested
<1>0. SUFFICES ASSUME RtcInv PROVE AsRequested
  OBVIOUS
<1>1. ASSUME NEW a \in Actors, Requesting(a)
      PROVE  mode = "requested" /\ due = call[a].due /\ delay = call[a].next
  <2>1. \A b \in Actors : Requesting(b) => b = a
    BY <1>0, <1>1 DEF RtcInv, CallsApart, Requesting, Actors, Steps
  <2>2. (CHOOSE b \in Actors : Requesting(b)) = a
    BY <1>1, <2>1
  <2>3. QED
    BY <1>1, <2>2 DEF mode, due, delay
<1>2. QED
  BY <1>1 DEF AsRequested, mode, due, delay

LEMMA RequestsMap ==
    ASSUME RtcInv, AsRequested, AsRequested', NEW a \in Actors, NextWakeTime(a)
    PROVE  [Promise!Next]_<<mtime, mode, due, delay, trap # "none">>
<1>0. /\ call[a] \in [step : Steps \cup {"idle"}, next : Nat, due : Nat, lo : Nat, hi : Nat]
      /\ Value(call[a]) \in Nat /\ Target(a) \in Nat /\ mtime \in Nat /\ mtime' = mtime
      /\ CallSound(a) /\ RtcTypeOK /\ Runs(a) /\ WordSize \in Nat
      /\ call[a].step # "idle" /\ call[a].next \in Delays
  BY Types, WordSizeAssumption DEF RtcInv, RtcTypeOK, CallSound, NextWakeTime, Off, LoadLo, LoadHi, StoreLo, StoreHi, On, At
<1>1. \A b \in Actors : b # a => call'[b] = call[b] /\ ~Requesting(b)
  BY <1>0 DEF RtcInv, RtcTypeOK, CallsApart, NextWakeTime, Off, LoadLo, LoadHi, StoreLo, StoreHi, On, At, Runs, Actors,
              Requesting, Steps
<1>2. Requesting(a)' => mode' = "requested" /\ due' = call'[a].due /\ delay' = call'[a].next
  BY DEF AsRequested
<1>3. Requesting(a) => mode = "requested" /\ due = call[a].due /\ delay = call[a].next
  BY DEF AsRequested
<1>4. CASE Off(a)
  <2>1. /\ call[a].step = "off" /\ trap' = trap
        /\ call' = [call EXCEPT ![a].step = "loadlo", ![a].due = mtime + call[a].next]
    BY <1>4 DEF Off
  <2>2. call'[a] = [call[a] EXCEPT !.step = "loadlo", !.due = mtime + call[a].next]
    BY <1>0, <2>1 DEF RtcTypeOK
  <2>3. call'[a].step = "loadlo" /\ call'[a].due = mtime + call[a].next /\ call'[a].next = call[a].next
    BY <1>0, <2>2
  <2>4. \A b \in Actors : ~Requesting(b)
    BY <1>1, <2>1 DEF Requesting
  <2>5. mode # "requested"
    BY <2>4 DEF AsRequested
  <2>6. mode' = "requested" /\ due' = mtime + call[a].next /\ delay' = call[a].next
    BY <1>2, <2>3 DEF Requesting, Steps
  <2>7. \E next \in Delays : delay' = next /\ due' = mtime + next
    BY <1>0, <2>6
  <2>8. mtime' = mtime /\ (trap # "none")' = (trap # "none")
    BY <1>0, <2>1
  <2>9. Promise!Request
    BY <2>5, <2>6, <2>7, <2>8, Zenon DEF Promise!Request, mode, due, delay
  <2>10. QED
    BY <2>9 DEF Promise!Next
<1>5. CASE LoadLo(a) \/ LoadHi(a) \/ StoreLo(a) \/ StoreHi(a)
  <2>1. /\ Requesting(a) /\ Requesting(a)' /\ trap' = trap
        /\ call'[a].due = call[a].due /\ call'[a].next = call[a].next
    BY <1>0, <1>5 DEF RtcTypeOK, LoadLo, LoadHi, StoreLo, StoreHi, At, Requesting, Steps
  <2>2. QED
    BY <1>0, <1>2, <1>3, <2>1
<1>6. CASE On(a)
  <2>1. /\ call[a].step = "on" /\ mtie' = TRUE /\ mtimecmp' = mtimecmp
        /\ call' = [call EXCEPT ![a] = NoCall]
        /\ trap' = IF a = "isr" THEN "taken" ELSE trap
    BY <1>6 DEF On
  <2>2. call'[a] = NoCall /\ NoCall.step = "idle"
    BY <1>0, <2>1 DEF RtcTypeOK, NoCall
  <2>3. \A b \in Actors : ~Requesting(b)'
    BY <1>1, <2>2 DEF Requesting, Steps
  <2>4. mode' = "set" /\ due' = Value(mtimecmp)' /\ delay' = 0
    <3>1. /\ mode' = IF mtie' THEN "set" ELSE "off"
          /\ due' = IF mtie' THEN Value(mtimecmp)' ELSE 0
          /\ delay' = 0
      BY <2>3 DEF AsRequested
    <3>2. QED
      BY <2>1, <3>1
  <2>5. mode = "requested" /\ due = call[a].due /\ delay = call[a].next
    BY <1>3, <2>1 DEF Requesting, Steps
  <2>6. Value(mtimecmp)' = Target(a)
    <3>1. mtimecmp'.lo = Lo(Target(a)) /\ mtimecmp'.hi = Hi(Target(a))
      BY <1>0, <2>1 DEF CallSound
    <3>2. Hi(Target(a)) * WordSize + Lo(Target(a)) = Target(a)
      BY <1>0, Halves, Zenon
    <3>3. QED
      BY <3>1, <3>2 DEF Value
  <2>7. Target(a) \in call[a].due .. mtime + call[a].next + WordSize
    <3>1. call[a].due <= Target(a) /\ Value(call[a]) < mtime + WordSize
      BY <1>0, <2>1 DEF CallSound
    <3>2. QED
      BY <1>0, <3>1 DEF Target
  <2>8. (trap # "none")' = (trap # "none")
    BY <1>0, <2>1 DEF Runs
  <2>9. due' \in due .. mtime + delay + WordSize
    BY <2>4, <2>5, <2>6, <2>7
  <2>10. Promise!Set
    BY <1>0, <2>4, <2>5, <2>8, <2>9, Zenon DEF Promise!Set, mode, due, delay
  <2>11. QED
    BY <2>10 DEF Promise!Next
<1>7. QED
  BY <1>4, <1>5, <1>6 DEF NextWakeTime

LEMMA RestMaps ==
    ASSUME RtcInv, AsRequested, AsRequested', WaitTimer \/ Toggle \/ Clear \/ Again \/ Trap \/ Handler \/ SetTaken \/ Tick
    PROVE  [Promise!Next]_<<mtime, mode, due, delay, trap # "none">>
<1>1. /\ UNCHANGED <<mtie, mtimecmp>> /\ Value(mtimecmp)' = Value(mtimecmp)
      /\ Tick \/ mtime' = mtime
  BY DEF WaitTimer, Toggle, Clear, Again, Trap, Handler, SetTaken, Tick, Value
<1>2. \A a \in Actors : /\ Requesting(a)' = Requesting(a)
                        /\ Requesting(a) => call'[a].due = call[a].due /\ call'[a].next = call[a].next
  <2>1. CASE call' = call
    BY <2>1 DEF Requesting
  <2>2. ASSUME NEW a \in Actors, call[a].step = "idle", Called(a)
        PROVE  /\ \A b \in Actors : b # a => call'[b] = call[b]
               /\ call'[a].step = "off"
    <3>1. PICK next \in Delays : call' = [call EXCEPT ![a] = [NoCall EXCEPT !.step = "off", !.next = next]]
      BY <2>2 DEF Called
    <3>2. NoCall \in [step : {"idle"}, next : {0}, due : {0}, lo : {0}, hi : {0}]
      BY DEF NoCall
    <3>3. ASSUME NEW r \in [step : {"idle"}, next : {0}, due : {0}, lo : {0}, hi : {0}]
          PROVE  [r EXCEPT !.step = "off", !.next = next].step = "off"
      OBVIOUS
    <3>4. QED
      BY <3>1, <3>2, <3>3 DEF RtcInv, RtcTypeOK
  <2>3. ASSUME NEW a \in Actors, call[a].step = "idle", Called(a), NEW b \in Actors
        PROVE  /\ Requesting(b)' = Requesting(b)
               /\ Requesting(b) => call'[b].due = call[b].due /\ call'[b].next = call[b].next
    BY <2>2, <2>3 DEF Requesting, Steps
  <2>4. CASE Again /\ loop' = "call" /\ Called("main")
    BY <2>3, <2>4 DEF Again, RtcInv, CallsApart, Actors
  <2>5. CASE Handler /\ trap' = "call" /\ Called("isr")
    BY <2>3, <2>5 DEF Handler, RtcInv, CallsApart, Actors
  <2>6. QED
    BY <2>1, <2>4, <2>5 DEF WaitTimer, Toggle, Clear, Again, Trap, Handler, SetTaken, Tick
<1>3. mode' = mode /\ due' = due /\ delay' = delay
  <2>1. CASE \E a \in Actors : Requesting(a)
    <3>1. PICK a \in Actors : Requesting(a) /\ Requesting(a)'
      BY <1>2, <2>1
    <3>2. mode = "requested" /\ due = call[a].due /\ delay = call[a].next
      BY <3>1 DEF AsRequested
    <3>3. mode' = "requested" /\ due' = call'[a].due /\ delay' = call'[a].next
      BY <3>1 DEF AsRequested
    <3>4. QED
      BY <1>2, <3>1, <3>2, <3>3
  <2>2. CASE \A a \in Actors : ~Requesting(a)
    <3>1. /\ mode = (IF mtie THEN "set" ELSE "off")
          /\ due = (IF mtie THEN Value(mtimecmp) ELSE 0) /\ delay = 0
      BY <2>2 DEF AsRequested
    <3>2. \A a \in Actors : ~Requesting(a)'
      BY <1>2, <2>2
    <3>3. /\ mode' = (IF mtie' THEN "set" ELSE "off")
          /\ due' = (IF mtie' THEN Value(mtimecmp)' ELSE 0) /\ delay' = 0
      BY <3>2 DEF AsRequested
    <3>4. QED
      BY <1>1, <3>1, <3>3
  <2>3. QED
    BY <2>1, <2>2
<1>4. CASE Trap
  <2>1. mtie /\ mtime >= Value(mtimecmp) /\ trap = "none" /\ trap' = "handler" /\ mtime' = mtime
    BY <1>4 DEF Trap, mtip
  <2>2. \A a \in Actors : ~Requesting(a)
    BY <2>1 DEF RtcInv, CallsApart
  <2>3. mode = "set" /\ due = Value(mtimecmp)
    BY <2>1, <2>2 DEF AsRequested
  <2>4. mtime >= due /\ ~(trap # "none") /\ (trap # "none")'
    BY <2>1, <2>3
  <2>5. Promise!Ring
    BY <1>3, <2>1, <2>3, <2>4, Zenon DEF Promise!Ring, mode, due, delay
  <2>6. QED
    BY <2>5 DEF Promise!Next
<1>5. CASE SetTaken
  <2>1. (trap # "none") /\ ~(trap # "none")' /\ mtime' = mtime
    BY <1>5 DEF SetTaken
  <2>2. Promise!Quiet
    BY <1>3, <2>1, Zenon DEF Promise!Quiet, mode, due, delay
  <2>3. QED
    BY <2>2 DEF Promise!Next
<1>6. CASE Tick
  <2>1. mtime' = mtime + 1 /\ (trap # "none")' = (trap # "none")
    BY <1>6 DEF Tick
  <2>2. Promise!Tick
    BY <1>3, <2>1, Zenon DEF Promise!Tick, mode, due, delay
  <2>3. QED
    BY <2>2 DEF Promise!Next
<1>7. CASE WaitTimer \/ Toggle \/ Clear \/ Again \/ Handler
  <2>1. (trap # "none")' = (trap # "none") /\ mtime' = mtime
    BY <1>7 DEF WaitTimer, Toggle, Clear, Again, Handler
  <2>2. QED
    BY <1>3, <2>1
<1>8. QED
  BY <1>4, <1>5, <1>6, <1>7

(* aon.h:145-166: the code's halves, masks and restarts implement the alarm:  *)
(* never early, never while it is being set, late by one wrap at the most.    *)
THEOREM RtcKeepsItsPromise == RtcSpec => ImplementsAlarm
<1>1. RtcInit => Promise!Init
  <2>1. SUFFICES ASSUME RtcInit PROVE Promise!Init
    OBVIOUS
  <2>2. RtcInv /\ \A a \in Actors : ~Requesting(a)
    BY <2>1, RtcStart DEF RtcInit, NoCall, Requesting, Steps
  <2>3. mode = "off" /\ due = 0 /\ delay = 0
    BY <2>1, <2>2, WhoRequests DEF RtcInit, AsRequested
  <2>4. mtime = 0 /\ ~(trap # "none")
    BY <2>1 DEF RtcInit
  <2>5. QED
    BY <2>3, <2>4, Zenon DEF Promise!Init, mode, due, delay
<1>2. RtcInv /\ AsRequested /\ AsRequested' /\ [RtcNext]_rtcVars => [Promise!Next]_<<mtime, mode, due, delay, trap # "none">>
  <2>1. SUFFICES ASSUME RtcInv, AsRequested, AsRequested', [RtcNext]_rtcVars
                 PROVE  [Promise!Next]_<<mtime, mode, due, delay, trap # "none">>
    OBVIOUS
  <2>2. CASE UNCHANGED rtcVars
    BY <2>2 DEF rtcVars, mode, due, delay, Requesting, Value
  <2>3. ASSUME NEW a \in Actors, NextWakeTime(a)
        PROVE  [Promise!Next]_<<mtime, mode, due, delay, trap # "none">>
    BY <2>1, <2>3, RequestsMap
  <2>4. QED
    BY <2>1, <2>2, <2>3, RestMaps DEF RtcNext, Main, ServiceRoutine, Actors
<1>3. RtcInv /\ AsRequested /\ AsRequested' /\ [RtcNext]_rtcVars => [Promise!Next]_Promise!vars
  BY <1>2, Zenon DEF Promise!vars, mode, due, delay
<1>4. QED
  BY <1>1, <1>3, RtcInductive, WhoRequests, PTL DEF RtcSpec, ImplementsAlarm, Promise!Spec

-----------------------------------------------------------------------------
(* The collection.                                                         *)

\* A step of the program is a step of the part it uses and of no other part.
LEMMA PartsStep ==
    ASSUME [Next]_vars
    PROVE  /\ [PinsNext]_pinVars /\ [UartNext]_uartVars /\ [I2cNext]_i2cVars
           /\ [PwmNext]_pwmVars /\ [ClocksNext]_clockVars /\ [RtcNext]_rtcVars
           /\ [WdtNext]_wdtVars
<1>1. CASE UNCHANGED vars
  BY <1>1 DEF vars
<1>2. CASE Next
  BY <1>2 DEF Next, Others
<1>3. QED
  BY <1>1, <1>2

(* So the collection implements each of its parts, and what a part promises  *)
(* holds of the program.                                                     *)
THEOREM DriversImplementParts ==
    Spec => /\ PinsSpec /\ UartSpec /\ I2cSpec /\ PwmSpec
            /\ ClocksSpec /\ RtcSpec /\ WdtSpec
<1>1. Init => /\ PinsInit /\ UartInit /\ I2cInit /\ PwmInit
              /\ ClocksInit /\ RtcInit /\ WdtInit
  BY DEF Init
<1>2. [Next]_vars => /\ [PinsNext]_pinVars /\ [UartNext]_uartVars /\ [I2cNext]_i2cVars
                     /\ [PwmNext]_pwmVars /\ [ClocksNext]_clockVars /\ [RtcNext]_rtcVars
                     /\ [WdtNext]_wdtVars
  BY PartsStep
<1>3. QED
  BY <1>1, <1>2, PTL DEF Spec, PinsSpec, UartSpec, I2cSpec, PwmSpec, ClocksSpec, RtcSpec, WdtSpec

(* What a program that uses the collection can rely on, whatever the pins,   *)
(* ports, units, presets and times are.                                      *)
THEOREM DriversAreSafe ==
    Spec => /\ []PwmFieldsAgree
            /\ UartLossNeedsRace
            /\ I2cBusTraffic
            /\ ImplementsAlarm
<1>1. QED
  BY DriversImplementParts, PwmAgrees, UartLosesOnlyByRace, I2cTrafficBounded,
     RtcKeepsItsPromise, PTL

(* gpio.h:92-135: and what it can rely on for the pins, if the devices it     *)
(* uses have no pin in common and I2C, which uses the numbers of its pins as    *)
(* masks of other pins, is not among them.                                   *)
THEOREM DriversKeepPins ==
    ASSUME I2cUnused, PinsApart
    PROVE  Spec => PinsStayTheirs
<1>1. QED
  BY DriversImplementParts, PinsArePrivate, PTL

(* prci.h:69-144: and for its clocks, if the chip's oscillator is trimmed to  *)
(* what cpu_freq starts with and the 32 MHz preset, which rewrites the PLL    *)
(* while it drives the core, is not called.                                  *)
THEOREM DriversRunAsTold ==
    ASSUME RoscIsTrimmed, SelectsLast
    PROVE  Spec => RatesAsTold
<1>1. ClocksSpec => RatesAsTold
  BY ClocksRunAsTold
<1>2. QED
  BY <1>1, DriversImplementParts, PTL
=============================================================================
