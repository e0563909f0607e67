-------------------------- MODULE InterruptsProofs --------------------------
(***************************************************************************)
(* Theorems about Interrupts, for every set of sources, priorities, edges   *)
(* and calls, and for both builds.                                          *)
(***************************************************************************)
EXTENDS Interrupts, TLAPS

AllCalls == EnableCalls \cup DisableCalls \cup CpuCalls

(***************************************************************************)
(* The shape of the drivers' write sequences: which call performs a write   *)
(* of the table or of the PLIC enables, and as which of its steps.          *)
(***************************************************************************)
LEMMA ProgramLength ==
    ASSUME NEW op \in AllCalls
    PROVE  Len(Program(op)) \in 1 .. 6
<1>1. CASE op \in EnableCalls
  BY <1>1 DEF EnableCalls, Program, gpio_interrupt_enable, spi_interrupt_enable,
     i2c_interrupt_enable, pwm_interrupt_enable
<1>2. CASE op \in DisableCalls
  BY <1>2 DEF DisableCalls, Program, gpio_interrupt_disable, uart_interrupt_disable,
     spi_interrupt_disable, i2c_interrupt_disable, pwm_interrupt_disable
<1>3. CASE op \in CpuCalls
  BY <1>3 DEF CpuCalls, Program, cpu_interrupt_enable, plic_interrupt_enable,
     clint_interrupt_timer_enable, clint_interrupt_software_enable, aon_rtc_next_wake_time
<1> QED BY <1>1, <1>2, <1>3 DEF AllCalls

LEMMA EnableSteps ==
    ASSUME NEW op \in EnableCalls, NEW i \in 1 .. Len(Program(op))
    PROVE  /\ Program(op)[1] = "handler=isr"
           /\ Program(op)[2] = "active=1"
           /\ i > 2 => Program(op)[i] \in {"PRIORITY=prio", "ENABLE|=", "IE|="}
<1> USE DEF Program, gpio_interrupt_enable, spi_interrupt_enable,
        i2c_interrupt_enable, pwm_interrupt_enable
<1>1. CASE op = "gpio_interrupt_enable" /\ Build = "header"  BY <1>1
<1>2. CASE op = "gpio_interrupt_enable" /\ Build # "header"  BY <1>2
<1>3. CASE op = "spi_interrupt_enable"   BY <1>3
<1>4. CASE op = "i2c_interrupt_enable"   BY <1>4
<1>5. CASE op = "pwm_interrupt_enable"   BY <1>5
<1> QED BY <1>1, <1>2, <1>3, <1>4, <1>5 DEF EnableCalls

LEMMA DisableSteps ==
    ASSUME NEW op \in DisableCalls, NEW i \in 1 .. Len(Program(op))
    PROVE  /\ Program(op)[i] \in {"handler=NULL", "active=0", "ENABLE&=~", "IE&=~"}
           /\ op = "gpio_interrupt_disable" =>
                /\ Len(Program(op)) = 4
                /\ Program(op)[1] = "handler=NULL" /\ Program(op)[2] = "active=0"
                /\ Program(op)[3] = "ENABLE&=~"    /\ Program(op)[4] = "IE&=~"
           /\ op = "uart_interrupt_disable" =>
                /\ Len(Program(op)) = 3
                /\ Program(op)[1] = "active=0" /\ Program(op)[2] = "handler=NULL"
                /\ Program(op)[3] = "ENABLE&=~"
           /\ op \in {"spi_interrupt_disable", "pwm_interrupt_disable"} =>
                /\ Len(Program(op)) = 3
                /\ Program(op)[1] = "ENABLE&=~" /\ Program(op)[2] = "handler=NULL"
                /\ Program(op)[3] = "active=0"
           /\ op = "i2c_interrupt_disable" =>
                /\ Len(Program(op)) = 4
                /\ Program(op)[1] = "ENABLE&=~"    /\ Program(op)[2] = "IE&=~"
                /\ Program(op)[3] = "handler=NULL" /\ Program(op)[4] = "active=0"
<1> USE DEF Program, gpio_interrupt_disable, uart_interrupt_disable,
        spi_interrupt_disable, i2c_interrupt_disable, pwm_interrupt_disable
<1>1. CASE op = "gpio_interrupt_disable"  BY <1>1
<1>2. CASE op = "uart_interrupt_disable"  BY <1>2
<1>3. CASE op = "spi_interrupt_disable"   BY <1>3
<1>4. CASE op = "i2c_interrupt_disable"   BY <1>4
<1>5. CASE op = "pwm_interrupt_disable"   BY <1>5
<1> QED BY <1>1, <1>2, <1>3, <1>4, <1>5 DEF DisableCalls

CpuWrites == {"mstatus=0", "mstatus=MIE", "mie=0", "mie|=MEIE", "mie|=MTIE",
              "mie|=MSIE", "mie&=~MTIE", "MTIMECMP", "mtvec=isr", "ENABLE=0"}

LEMMA CpuSteps ==
    ASSUME NEW op \in CpuCalls, NEW i \in 1 .. Len(Program(op))
    PROVE  Program(op)[i] \in CpuWrites
<1> USE DEF CpuWrites, Program, cpu_interrupt_enable, plic_interrupt_enable,
        clint_interrupt_timer_enable, clint_interrupt_software_enable, aon_rtc_next_wake_time
<1>1. CASE op = "cpu_interrupt_enable" /\ Build = "header"  BY <1>1
<1>2. CASE op = "cpu_interrupt_enable" /\ Build # "header"  BY <1>2
<1>3. CASE op = "plic_interrupt_enable"            BY <1>3
<1>4. CASE op = "clint_interrupt_timer_enable"     BY <1>4
<1>5. CASE op = "clint_interrupt_software_enable"  BY <1>5
<1>6. CASE op = "aon_rtc_next_wake_time"           BY <1>6
<1> QED BY <1>1, <1>2, <1>3, <1>4, <1>5, <1>6 DEF CpuCalls

-----------------------------------------------------------------------------
(***************************************************************************)
(* Type correctness.                                                        *)
(***************************************************************************)
LEMMA TargetsAreSources ==
    ASSUME NEW op, NEW s \in Targets(op)
    PROVE  s \in Sources \cup {0}
BY DEF Targets

LEMMA WritesType ==
    ASSUME ForegroundOK, NEW w, Writes(w)
    PROVE  ForegroundOK' /\ isr' = isr
<1>1. fg.op \in AllCalls
  BY CallsAssumption DEF ForegroundOK, Writes, AllCalls
<1>2. Len(Program(fg.op)) \in 1 .. 6
  BY <1>1, ProgramLength
<1>3. CASE fg.step = Len(Program(fg.op))
  <2>1. fg' = Idle
    BY <1>3 DEF Writes
  <2> QED BY <2>1 DEF ForegroundOK, Idle, AllKinds, Writes
<1>4. CASE fg.step # Len(Program(fg.op))
  <2>1. fg' = [fg EXCEPT !.step = @ + 1]
    BY <1>4 DEF Writes
  <2>2. fg.step + 1 \in 1 .. 6 /\ fg.step + 1 <= Len(Program(fg.op))
    <3> DEFINE last == Len(Program(fg.op))
    <3>1. fg.step \in 1 .. 6 /\ fg.step <= last
      BY DEF ForegroundOK, Writes
    <3>2. last \in 1 .. 6 /\ fg.step # last
      BY <1>2, <1>4
    <3> HIDE DEF last
    <3>3. fg.step + 1 \in 1 .. 6 /\ fg.step + 1 <= last
      BY <3>1, <3>2
    <3> QED BY <3>3 DEF last
  <2>3. /\ fg'.op = fg.op /\ fg'.slot = fg.slot /\ fg'.step = fg.step + 1
        /\ fg' \in [op : Calls \cup {"idle"}, slot : Sources \cup {0},
                    prio : Prios \cup {0}, kind : AllKinds, step : 1 .. 6]
    BY <2>1, <2>2 DEF ForegroundOK
  <2> QED BY <2>2, <2>3 DEF ForegroundOK, Writes
<1> QED BY <1>3, <1>4 DEF Writes

LEMMA CallType ==
    ASSUME ForegroundOK, NEW op \in Calls, Call(op)
    PROVE  ForegroundOK'
<1>1. PICK s \in Targets(op), p \in Prios \cup {0} : \E k \in KindsOf(s) :
        fg' = [op |-> op, slot |-> s, prio |-> p, kind |-> k, step |-> 1]
  BY DEF Call
<1>2. s \in Sources \cup {0} /\ \A k \in KindsOf(s) : k \in AllKinds
  BY TargetsAreSources DEF KindsOf, AllKinds
<1>3. op \in AllCalls
  BY CallsAssumption DEF AllCalls
<1>4. 1 <= Len(Program(op))
  BY <1>3, ProgramLength
<1> QED BY <1>1, <1>2, <1>4 DEF ForegroundOK

\* The write that is next belongs to a call about one source.
LEMMA DriverWrite ==
    ASSUME ForegroundOK, NEW w, Writes(w), w \notin CpuWrites
    PROVE  /\ fg.op \in EnableCalls \cup DisableCalls
           /\ fg.slot \in Sources
           /\ fg.step \in 1 .. Len(Program(fg.op))
<1>1. fg.op \in AllCalls /\ fg.slot \in Targets(fg.op)
  BY CallsAssumption DEF ForegroundOK, Writes, AllCalls
<1>2. fg.step \in 1 .. Len(Program(fg.op))
  BY <1>1, ProgramLength DEF ForegroundOK, Writes
<1>3. fg.op \notin CpuCalls
  BY <1>2, CpuSteps DEF Writes
<1> QED BY <1>1, <1>2, <1>3 DEF AllCalls, Targets

LEMMA PlicEnableType ==
    ASSUME NEW s \in Sources, NEW m \in EnableMasks(s)
    PROVE  m \subseteq Bits
<1>1. s \in 1 .. 52
  BY SourcesAssumption DEF INT_I2C_BASE
<1> QED BY <1>1 DEF EnableMasks, Bits, IsPwm, INT_PWM0_BASE, INT_I2C_BASE

\* What a priority register keeps of a number.
LEMMA ThreeBits ==
    ASSUME NEW n \in Nat
    PROVE  n % 8 \in 0 .. 7
OBVIOUS

LEMMA TypeStep ==
    ASSUME TypeOK, [Next]_vars
    PROVE  TypeOK'
<1> USE DEF TypeOK, table, csrs, plic, devices
<1>1. ASSUME NEW op \in Calls, Call(op) PROVE TypeOK'
  <2>1. ForegroundOK'
    BY <1>1, CallType
  <2> QED BY <1>1, <2>1 DEF Call, TableOK, CsrOK, PlicOK, DeviceOK, RoutineOK
<1>2. CASE WriteHandler
  <2>1. PICK w \in {"handler=isr", "handler=NULL"} : Writes(w)
    BY <1>2 DEF WriteHandler
  <2>2. ForegroundOK' /\ isr' = isr /\ fg.slot \in Sources
    BY <2>1, WritesType, DriverWrite DEF CpuWrites
  <2> QED BY <1>2, <2>2 DEF WriteHandler, TableOK, CsrOK, PlicOK, DeviceOK, RoutineOK
<1>3. CASE WriteActive
  <2>1. PICK w \in {"active=1", "active=0"} : Writes(w)
    BY <1>3 DEF WriteActive
  <2>2. ForegroundOK' /\ isr' = isr /\ fg.slot \in Sources
    BY <2>1, WritesType, DriverWrite DEF CpuWrites
  <2> QED BY <1>3, <2>2 DEF WriteActive, TableOK, CsrOK, PlicOK, DeviceOK, RoutineOK
<1>4. CASE WritePlicEnable
  <2>1. PICK w \in {"ENABLE|=", "ENABLE&=~", "ENABLE=0"} : Writes(w)
    BY <1>4 DEF WritePlicEnable
  <2>2. ForegroundOK' /\ isr' = isr
    BY <2>1, WritesType
  <2>3. enable' \subseteq Bits
    <3>1. CASE Writes("ENABLE|=")
      <4>1. fg.slot \in Sources
        BY <3>1, DriverWrite DEF CpuWrites
      <4>2. \A m \in EnableMasks(fg.slot) : m \subseteq Bits
        BY <4>1, PlicEnableType
      <4> QED BY <1>4, <3>1, <4>2 DEF WritePlicEnable, PlicOK, Writes
    <3>2. CASE ~ Writes("ENABLE|=")
      BY <1>4, <3>2 DEF WritePlicEnable, PlicOK
    <3> QED BY <3>1, <3>2
  <2> QED BY <1>4, <2>2, <2>3 DEF WritePlicEnable, TableOK, CsrOK, PlicOK, DeviceOK, RoutineOK
<1>5. CASE WritePlicPriority
  <2>1. Writes("PRIORITY=prio")
    BY <1>5 DEF WritePlicPriority
  <2>2. ForegroundOK' /\ isr' = isr /\ fg.slot \in Sources
    BY <2>1, WritesType, DriverWrite DEF CpuWrites
  <2>3. fg.prio % 8 \in 0 .. 7
    <3>1. fg.prio \in Prios \cup {0}
      BY DEF ForegroundOK
    <3>2. \A p \in Prios \cup {0} : p \in Nat
      BY PriosAssumption
    <3>3. fg.prio \in Nat
      BY <3>1, <3>2
    <3> QED BY <3>3, ThreeBits
  <2>4. prio' \in [Sources -> 0 .. 7]
    BY <1>5, <2>2, <2>3 DEF WritePlicPriority, PlicOK
  <2> QED BY <1>5, <2>2, <2>4 DEF WritePlicPriority, TableOK, CsrOK, PlicOK, DeviceOK, RoutineOK
<1>6. CASE WriteDeviceIE
  <2>1. PICK w \in {"IE|=", "IE&=~"} : Writes(w)
    BY <1>6 DEF WriteDeviceIE
  <2>2. ForegroundOK' /\ isr' = isr /\ fg.slot \in Sources
    BY <2>1, WritesType, DriverWrite DEF CpuWrites
  <2>3. <<fg.slot, fg.kind>> \in Sources \X AllKinds
    BY <2>2 DEF ForegroundOK
  <2>4. ie' \subseteq Sources \X AllKinds
    BY <1>6, <2>3 DEF WriteDeviceIE, DeviceOK
  <2> QED BY <1>6, <2>2, <2>4 DEF WriteDeviceIE, TableOK, CsrOK, PlicOK, DeviceOK, RoutineOK
<1>7. CASE WriteMstatus
  <2>1. ForegroundOK' /\ isr' = isr
    BY <1>7, WritesType DEF WriteMstatus
  <2> QED BY <1>7, <2>1 DEF WriteMstatus, TableOK, CsrOK, PlicOK, DeviceOK, RoutineOK
<1>8. CASE WriteMie
  <2>1. ForegroundOK' /\ isr' = isr
    BY <1>8, WritesType DEF WriteMie
  <2> QED BY <1>8, <2>1 DEF WriteMie, TableOK, CsrOK, PlicOK, DeviceOK, RoutineOK
<1>9. CASE WriteMtvec
  <2>1. ForegroundOK' /\ isr' = isr
    BY <1>9, WritesType DEF WriteMtvec
  <2> QED BY <1>9, <2>1 DEF WriteMtvec, TableOK, CsrOK, PlicOK, DeviceOK, RoutineOK
<1>10. CASE WriteMtimecmp
  <2>1. ForegroundOK' /\ isr' = isr
    BY <1>10, WritesType DEF WriteMtimecmp
  <2> QED BY <1>10, <2>1 DEF WriteMtimecmp, TableOK, CsrOK, PlicOK, DeviceOK, RoutineOK
<1>11. ASSUME NEW s \in Sources, DeviceEvent(s) \/ GatewayLatch(s) PROVE TypeOK'
  <2>1. \A k \in KindsOf(s) : <<s, k>> \in Sources \X AllKinds
    BY DEF KindsOf, AllKinds
  <2>2. CASE DeviceEvent(s)
    BY <2>1, <2>2 DEF DeviceEvent, ForegroundOK, TableOK, CsrOK, PlicOK, DeviceOK, RoutineOK
  <2>3. CASE GatewayLatch(s)
    BY <2>3 DEF GatewayLatch, ForegroundOK, TableOK, CsrOK, PlicOK, DeviceOK, RoutineOK
  <2> QED BY <1>11, <2>2, <2>3
<1>12. CASE TimerExpire
  BY <1>12 DEF TimerExpire, ForegroundOK, TableOK, CsrOK, PlicOK, DeviceOK, RoutineOK
<1>13. CASE ServiceRoutine
  <2> SUFFICES RoutineOK' /\ CsrOK' /\ PlicOK' /\ DeviceOK' /\ ForegroundOK' /\ TableOK'
    OBVIOUS
  <2>1. CASE Trap
    BY <2>1 DEF Trap, Decode, ForegroundOK, TableOK, CsrOK, PlicOK, DeviceOK, RoutineOK
  <2>2. CASE WildTrap
    BY <2>2 DEF WildTrap, ForegroundOK, TableOK, CsrOK, PlicOK, DeviceOK, RoutineOK
  <2>3. CASE Claim
    BY <2>3 DEF Claim, Candidates, ForegroundOK, TableOK, CsrOK, PlicOK, DeviceOK, RoutineOK
  <2>4. CASE Dispatch
    BY <2>4 DEF Dispatch, ForegroundOK, TableOK, CsrOK, PlicOK, DeviceOK, RoutineOK
  <2>5. CASE HandlerRead
    BY <2>5 DEF HandlerRead, ForegroundOK, TableOK, CsrOK, PlicOK, DeviceOK, RoutineOK
  <2>6. CASE HandlerAck
    BY <2>6 DEF HandlerAck, ForegroundOK, TableOK, CsrOK, PlicOK, DeviceOK, RoutineOK
  <2>7. CASE Complete
    BY <2>7 DEF Complete, ForegroundOK, TableOK, CsrOK, PlicOK, DeviceOK, RoutineOK
  <2>8. CASE TimerHandler
    BY <2>8 DEF TimerHandler, ForegroundOK, TableOK, CsrOK, PlicOK, DeviceOK, RoutineOK
  <2>9. CASE Return
    BY <2>9 DEF Return, NoTrap, ForegroundOK, TableOK, CsrOK, PlicOK, DeviceOK, RoutineOK
  <2> QED BY <1>13, <2>1, <2>2, <2>3, <2>4, <2>5, <2>6, <2>7, <2>8, <2>9 DEF ServiceRoutine
<1>14. CASE UNCHANGED vars
  BY <1>14 DEF vars, ForegroundOK, TableOK, CsrOK, PlicOK, DeviceOK, RoutineOK
<1> QED
  BY <1>1, <1>2, <1>3, <1>4, <1>5, <1>6, <1>7, <1>8, <1>9, <1>10, <1>11, <1>12, <1>13, <1>14
  DEF Next, Foreground

LEMMA TypeInit == Init => TypeOK
<1> SUFFICES ASSUME Init PROVE TypeOK
  OBVIOUS
<1>1. ForegroundOK
  BY DEF Init, Idle, ForegroundOK, AllKinds
<1>2. TableOK /\ CsrOK /\ DeviceOK
  BY DEF Init, TableOK, CsrOK, DeviceOK
<1>3. PlicOK
  BY DEF Init, PlicOK
<1>4. RoutineOK
  BY DEF Init, NoTrap, RoutineOK
<1> QED BY <1>1, <1>2, <1>3, <1>4 DEF TypeOK

\* Every variable keeps its type: in particular the foreground never steps
\* past the end of a driver's write sequence, and every table slot that is
\* written belongs to a wired source (or is I2C's, one past the table).
THEOREM TypeCorrect == Spec => []TypeOK
<1>1. Init => TypeOK
  BY TypeInit
<1>2. TypeOK /\ [Next]_vars => TypeOK'
  BY TypeStep
<1> QED BY <1>1, <1>2, PTL DEF Spec

-----------------------------------------------------------------------------
(***************************************************************************)
(* The inductive invariant.  What the safety properties say of the table    *)
(* and the PLIC holds only because of where the foreground stands in its    *)
(* call; these conjuncts record what the writes already done establish.     *)
(***************************************************************************)
Direct == enable \ Stray

\* An enable call has installed the handler, then the active field.
Installing ==
    fg.op \in EnableCalls =>
        /\ fg.step > 1 => fg.slot \in handler
        /\ fg.step > 2 => fg.slot \in active

\* A disable call has cleared active (UART) or the PLIC bit (the others).
Removing ==
    /\ fg.op = "uart_interrupt_disable" /\ fg.step > 1 => fg.slot \notin active
    /\ fg.op = "spi_interrupt_disable" /\ fg.step > 1 => fg.slot \notin Direct
    /\ fg.op = "gpio_interrupt_disable" /\ fg.step > 3 => fg.slot \notin Direct

\* An active slot has a handler unless its clearing is the next write.
HandlerPresent == \A n \in active : n \in handler \/ Clearing(n)

\* PWM and I2C never set the bit of their own source.
NoMaskedDirect == \A s \in Direct : ~ IsPwm(s) /\ s # INT_I2C_BASE

\* A trap for the PLIC finds something to claim, and NULL is called only as
\* the table is, because the foreground does not move meanwhile.
RoutineSees ==
    /\ isr.pc = "claim" => Candidates # {}
    /\ isr.pc = "null" => IntNumber(isr.claim) \in active \ handler

TableInv   == Installing /\ Removing /\ HandlerPresent /\ NoMaskedDirect /\ ReadyBeforeEnabled
RoutineInv == RoutineSees /\ ClaimsBalance
IInv       == TypeOK /\ TableInv /\ RoutineInv

\* Which call performs each write, and at which step.
LEMMA Writer ==
    ASSUME ForegroundOK, NEW w, Writes(w)
    PROVE  /\ w \in CpuWrites => fg.op \in CpuCalls
           /\ w = "handler=isr" => fg.op \in EnableCalls /\ fg.step = 1
           /\ w = "active=1"    => fg.op \in EnableCalls /\ fg.step = 2
           /\ w \in {"PRIORITY=prio", "ENABLE|=", "IE|="} => fg.op \in EnableCalls /\ fg.step > 2
           /\ w \in {"handler=NULL", "active=0", "ENABLE&=~", "IE&=~"} => fg.op \in DisableCalls
<1>1. fg.op \in AllCalls
  BY CallsAssumption DEF ForegroundOK, Writes, AllCalls
<1>2. fg.step \in 1 .. Len(Program(fg.op)) /\ Program(fg.op)[fg.step] = w
  BY <1>1, ProgramLength DEF ForegroundOK, Writes
<1>3. CASE fg.op \in EnableCalls
  <2>1. /\ Program(fg.op)[1] = "handler=isr"
        /\ Program(fg.op)[2] = "active=1"
        /\ fg.step > 2 => w \in {"PRIORITY=prio", "ENABLE|=", "IE|="}
    BY <1>2, <1>3, EnableSteps
  <2>2. CASE fg.step = 1
    BY <1>2, <1>3, <2>1, <2>2 DEF CpuWrites
  <2>3. CASE fg.step = 2
    BY <1>2, <1>3, <2>1, <2>3 DEF CpuWrites
  <2>4. CASE fg.step > 2
    BY <1>3, <2>1, <2>4 DEF CpuWrites
  <2>5. fg.step \in Nat /\ fg.step >= 1
    BY DEF ForegroundOK
  <2> QED BY <2>2, <2>3, <2>4, <2>5
<1>4. CASE fg.op \in DisableCalls
  <2>1. w \in {"handler=NULL", "active=0", "ENABLE&=~", "IE&=~"}
    BY <1>2, <1>4, DisableSteps
  <2> QED BY <1>4, <2>1 DEF CpuWrites
<1>5. CASE fg.op \in CpuCalls
  <2>1. w \in CpuWrites
    BY <1>2, <1>5, CpuSteps
  <2> QED BY <1>5, <2>1 DEF CpuWrites
<1> QED BY <1>1, <1>3, <1>4, <1>5 DEF AllCalls

\* The step of each write of a disable call, and the source it is about.
LEMMA Disabler ==
    ASSUME ForegroundOK, NEW w, Writes(w), fg.op \in DisableCalls
    PROVE  /\ w = "handler=NULL" =>
                \/ fg.op = "gpio_interrupt_disable" /\ fg.step = 1
                \/ fg.op = "uart_interrupt_disable" /\ fg.step = 2
                \/ fg.op \in {"spi_interrupt_disable", "pwm_interrupt_disable"} /\ fg.step = 2
                \/ fg.op = "i2c_interrupt_disable" /\ fg.step = 3
           /\ w = "active=0" =>
                \/ fg.op = "gpio_interrupt_disable" /\ fg.step = 2
                \/ fg.op = "uart_interrupt_disable" /\ fg.step = 1
                \/ fg.op \in {"spi_interrupt_disable", "pwm_interrupt_disable"} /\ fg.step = 3
                \/ fg.op = "i2c_interrupt_disable" /\ fg.step = 4
           /\ w = "ENABLE&=~" =>
                \/ fg.op \in {"gpio_interrupt_disable", "uart_interrupt_disable"} /\ fg.step = 3
                \/ fg.op \in {"spi_interrupt_disable", "pwm_interrupt_disable",
                              "i2c_interrupt_disable"} /\ fg.step = 1
           /\ w = "IE&=~" =>
                \/ fg.op = "gpio_interrupt_disable" /\ fg.step = 4
                \/ fg.op = "i2c_interrupt_disable" /\ fg.step = 2
           /\ fg' = IF fg.step = Len(Program(fg.op)) THEN Idle ELSE [fg EXCEPT !.step = @ + 1]
           /\ Len(Program(fg.op)) =
                IF fg.op \in {"gpio_interrupt_disable", "i2c_interrupt_disable"} THEN 4 ELSE 3
<1>1. fg.op \in AllCalls
  BY DEF AllCalls
<1>2. fg.step \in 1 .. Len(Program(fg.op)) /\ Program(fg.op)[fg.step] = w
  BY <1>1, ProgramLength DEF ForegroundOK, Writes
<1>3. fg.step \in 1 .. 6
  BY DEF ForegroundOK
<1>4. CASE fg.op = "gpio_interrupt_disable"
  <2>1. /\ Len(Program(fg.op)) = 4
        /\ Program(fg.op)[1] = "handler=NULL" /\ Program(fg.op)[2] = "active=0"
        /\ Program(fg.op)[3] = "ENABLE&=~"    /\ Program(fg.op)[4] = "IE&=~"
    BY <1>2, <1>4, DisableSteps
  <2> QED BY <1>2, <1>3, <1>4, <2>1 DEF Writes
<1>5. CASE fg.op = "uart_interrupt_disable"
  <2>1. /\ Len(Program(fg.op)) = 3
        /\ Program(fg.op)[1] = "active=0" /\ Program(fg.op)[2] = "handler=NULL"
        /\ Program(fg.op)[3] = "ENABLE&=~"
    BY <1>2, <1>5, DisableSteps
  <2> QED BY <1>2, <1>3, <1>5, <2>1 DEF Writes
<1>6. CASE fg.op \in {"spi_interrupt_disable", "pwm_interrupt_disable"}
  <2>1. /\ Len(Program(fg.op)) = 3
        /\ Program(fg.op)[1] = "ENABLE&=~" /\ Program(fg.op)[2] = "handler=NULL"
        /\ Program(fg.op)[3] = "active=0"
    BY <1>2, <1>6, DisableSteps
  <2> QED BY <1>2, <1>3, <1>6, <2>1 DEF Writes
<1>7. CASE fg.op = "i2c_interrupt_disable"
  <2>1. /\ Len(Program(fg.op)) = 4
        /\ Program(fg.op)[1] = "ENABLE&=~"    /\ Program(fg.op)[2] = "IE&=~"
        /\ Program(fg.op)[3] = "handler=NULL" /\ Program(fg.op)[4] = "active=0"
    BY <1>2, <1>7, DisableSteps
  <2> QED BY <1>2, <1>3, <1>7, <2>1 DEF Writes
<1> QED BY <1>4, <1>5, <1>6, <1>7 DEF DisableCalls

\* The sources each family of calls is about.
LEMMA SlotOf ==
    ASSUME ForegroundOK, fg.op \in EnableCalls \cup DisableCalls
    PROVE  /\ fg.slot \in Sources
           /\ fg.op \in {"gpio_interrupt_enable", "gpio_interrupt_disable", "spi_interrupt_enable",
                         "spi_interrupt_disable", "uart_interrupt_disable"} =>
                ~ IsPwm(fg.slot) /\ fg.slot # INT_I2C_BASE
           /\ fg.op \in {"pwm_interrupt_enable", "pwm_interrupt_disable", "i2c_interrupt_enable",
                         "i2c_interrupt_disable"} =>
                IsPwm(fg.slot) \/ fg.slot = INT_I2C_BASE
<1>1. fg.op # "idle" /\ fg.op \notin CpuCalls
  BY DEF EnableCalls, DisableCalls, CpuCalls
<1>2. fg.slot \in Targets(fg.op) /\ fg.slot \in Sources
  BY <1>1 DEF ForegroundOK, Targets
<1>3. \/ fg.op \in {"gpio_interrupt_enable", "gpio_interrupt_disable"} /\ IsGpio(fg.slot)
      \/ fg.op = "uart_interrupt_disable" /\ fg.slot \in {INT_UART0_BASE, INT_UART0_BASE + 1}
      \/ fg.op \in {"spi_interrupt_enable", "spi_interrupt_disable"} /\ fg.slot = INT_SPI1_BASE
      \/ fg.op \in {"i2c_interrupt_enable", "i2c_interrupt_disable"} /\ fg.slot = INT_I2C_BASE
      \/ fg.op \in {"pwm_interrupt_enable", "pwm_interrupt_disable"} /\ IsPwm(fg.slot)
  BY <1>1, <1>2 DEF Targets
<1>4. IsGpio(fg.slot) => ~ IsPwm(fg.slot) /\ fg.slot # INT_I2C_BASE
  BY DEF IsGpio, IsPwm, INT_GPIO_BASE, INT_PWM0_BASE, INT_I2C_BASE
<1>5. fg.slot \in {INT_UART0_BASE, INT_UART0_BASE + 1, INT_SPI1_BASE} =>
        ~ IsPwm(fg.slot) /\ fg.slot # INT_I2C_BASE
  BY DEF IsPwm, INT_UART0_BASE, INT_SPI1_BASE, INT_PWM0_BASE, INT_I2C_BASE
<1> QED BY <1>2, <1>3, <1>4, <1>5

\* What a write of the PLIC enables does to the bits that no mistake touches.
LEMMA MaskOf ==
    ASSUME NEW s \in Sources, NEW m \in EnableMasks(s)
    PROVE  /\ IsPwm(s) \/ s = INT_I2C_BASE => m \subseteq Stray
           /\ ~ IsPwm(s) /\ s # INT_I2C_BASE => m = {s}
<1>1. CASE IsPwm(s) \/ s = INT_I2C_BASE
  <2>1. UNION EnableMasks(s) \subseteq Stray
    BY <1>1 DEF Stray
  <2> QED BY <1>1, <2>1
<1>2. CASE ~ (IsPwm(s) \/ s = INT_I2C_BASE)
  BY <1>2 DEF EnableMasks
<1> QED BY <1>1, <1>2

LEMMA HandlerStep ==
    ASSUME TypeOK, TableInv, WriteHandler
    PROVE  TableInv'
<1> USE DEF TypeOK, TableInv
<1>1. active' = active /\ enable' = enable /\ Direct' = Direct
  BY DEF WriteHandler, plic, Direct, Stray
<1>2. CASE Writes("handler=isr")
  <2>1. fg.op \in EnableCalls /\ fg.step = 1
    BY <1>2, Writer
  <2>2. handler' = handler \cup {fg.slot}
    BY <1>2 DEF WriteHandler, Writes
  <2>3. fg.op \in AllCalls /\ Len(Program(fg.op)) \in 1 .. 6
    BY <2>1, ProgramLength DEF AllCalls
  <2>4. fg' = Idle \/ fg' = [fg EXCEPT !.step = 2]
    BY <1>2, <2>1 DEF Writes
  <2>5. fg'.op \in {"idle", fg.op} /\ (fg'.op = "idle" \/ (fg'.slot = fg.slot /\ fg'.step = 2))
    BY <2>4 DEF Idle, ForegroundOK
  <2>6. \A n : ~ Clearing(n)
    BY <2>1 DEF Clearing, EnableCalls, DisableCalls
  <2>7. Installing'
    BY <2>2, <2>5 DEF Installing, EnableCalls
  <2>8. Removing'
    BY <2>1, <2>5 DEF Removing, EnableCalls
  <2>9. HandlerPresent' /\ NoMaskedDirect'
    BY <1>1, <2>2, <2>6 DEF HandlerPresent, NoMaskedDirect
  <2>10. ReadyBeforeEnabled'
    BY <1>1, <2>1, <2>2 DEF ReadyBeforeEnabled, Direct, EnableCalls
  <2> QED BY <2>7, <2>8, <2>9, <2>10
<1>3. CASE Writes("handler=NULL")
  <2>1. fg.op \in DisableCalls
    BY <1>3, Writer
  <2>2. handler' = handler \ {fg.slot}
    BY <1>3 DEF WriteHandler, Writes
  <2>3. \/ fg.op = "gpio_interrupt_disable" /\ fg.step = 1
        \/ fg.op = "uart_interrupt_disable" /\ fg.step = 2
        \/ fg.op \in {"spi_interrupt_disable", "pwm_interrupt_disable"} /\ fg.step = 2
        \/ fg.op = "i2c_interrupt_disable" /\ fg.step = 3
    BY <1>3, <2>1, Disabler
  <2>4. fg' = [fg EXCEPT !.step = @ + 1]
    BY <1>3, <2>1, <2>3, Disabler
  <2>5. fg'.op = fg.op /\ fg'.slot = fg.slot /\ fg'.step = fg.step + 1
    BY <2>4 DEF ForegroundOK
  <2>6. \A n : ~ Clearing(n)
    BY <1>3 DEF Clearing, Writes
  <2>7. Installing'
    BY <2>1, <2>5 DEF Installing, EnableCalls, DisableCalls
  <2>8. Removing'
    BY <1>1, <2>3, <2>5 DEF Removing
  <2>9. \A n : n = fg.slot => fg.op = "uart_interrupt_disable" \/ Clearing(n)'
    <3>1. fg.step \in 1 .. Len(Program(fg.op))
      <4>1. fg.op \in AllCalls
        BY <2>1 DEF AllCalls
      <4> QED BY <1>3, <4>1, ProgramLength DEF ForegroundOK, Writes
    <3>2. fg.op \in {"gpio_interrupt_disable", "spi_interrupt_disable", "pwm_interrupt_disable",
                     "i2c_interrupt_disable"} => Program(fg.op)[fg.step + 1] = "active=0"
      BY <2>1, <2>3, <3>1, DisableSteps
    <3> QED BY <2>1, <2>3, <2>5, <3>2 DEF Clearing
  <2>10. HandlerPresent'
    <3> SUFFICES ASSUME NEW n \in active PROVE n \in handler' \/ Clearing(n)'
      BY <1>1 DEF HandlerPresent
    <3>1. CASE n # fg.slot
      BY <2>2, <2>6, <3>1 DEF HandlerPresent
    <3>2. CASE n = fg.slot
      BY <2>3, <2>9, <3>2 DEF Removing
    <3> QED BY <3>1, <3>2
  <2>11. NoMaskedDirect'
    BY <1>1 DEF NoMaskedDirect
  <2>12. ReadyBeforeEnabled'
    <3> SUFFICES ASSUME NEW s \in Direct
                 PROVE  \/ s \in active' \cap handler'
                        \/ fg'.slot = s /\ fg'.op \in {"gpio_interrupt_disable", "uart_interrupt_disable"}
      BY <1>1 DEF ReadyBeforeEnabled, Direct, Stray
    <3>1. CASE s # fg.slot
      BY <1>1, <2>2, <3>1 DEF ReadyBeforeEnabled, Direct
    <3>2. CASE s = fg.slot
      <4>1. fg.op \notin {"pwm_interrupt_disable", "i2c_interrupt_disable"}
        BY <2>1, <3>2, SlotOf DEF NoMaskedDirect
      <4>2. fg.op # "spi_interrupt_disable"
        BY <2>3, <3>2 DEF Removing
      <4> QED BY <2>3, <2>5, <3>2, <4>1, <4>2
    <3> QED BY <3>1, <3>2
  <2> QED BY <2>7, <2>8, <2>10, <2>11, <2>12
<1> QED BY <1>2, <1>3 DEF WriteHandler

LEMMA ActiveStep ==
    ASSUME TypeOK, TableInv, WriteActive
    PROVE  TableInv'
<1> USE DEF TypeOK, TableInv
<1>1. handler' = handler /\ enable' = enable /\ Direct' = Direct
  BY DEF WriteActive, plic, Direct, Stray
<1>2. CASE Writes("active=1")
  <2>1. fg.op \in EnableCalls /\ fg.step = 2
    BY <1>2, Writer
  <2>2. active' = active \cup {fg.slot}
    BY <1>2 DEF WriteActive, Writes
  <2>3. fg.slot \in handler
    BY <2>1 DEF Installing
  <2>4. fg' = Idle \/ fg' = [fg EXCEPT !.step = 3]
    BY <1>2, <2>1 DEF Writes
  <2>5. fg'.op \in {"idle", fg.op} /\ (fg'.op = "idle" \/ (fg'.slot = fg.slot /\ fg'.step = 3))
    BY <2>4 DEF Idle, ForegroundOK
  <2>6. \A n : ~ Clearing(n)
    BY <2>1 DEF Clearing, EnableCalls, DisableCalls
  <2>7. Installing'
    BY <1>1, <2>2, <2>3, <2>5 DEF Installing, EnableCalls
  <2>8. Removing'
    BY <2>1, <2>5 DEF Removing, EnableCalls
  <2>9. HandlerPresent' /\ NoMaskedDirect'
    BY <1>1, <2>2, <2>3, <2>6 DEF HandlerPresent, NoMaskedDirect
  <2>10. ReadyBeforeEnabled'
    BY <1>1, <2>1, <2>2 DEF ReadyBeforeEnabled, Direct, EnableCalls
  <2> QED BY <2>7, <2>8, <2>9, <2>10
<1>3. CASE Writes("active=0")
  <2>1. fg.op \in DisableCalls
    BY <1>3, Writer
  <2>2. active' = active \ {fg.slot}
    BY <1>3 DEF WriteActive, Writes
  <2>3. \/ fg.op = "gpio_interrupt_disable" /\ fg.step = 2
        \/ fg.op = "uart_interrupt_disable" /\ fg.step = 1
        \/ fg.op \in {"spi_interrupt_disable", "pwm_interrupt_disable"} /\ fg.step = 3
        \/ fg.op = "i2c_interrupt_disable" /\ fg.step = 4
    BY <1>3, <2>1, Disabler
  <2>4. fg' = Idle \/ fg' = [fg EXCEPT !.step = @ + 1]
    BY <1>3, <2>1, Disabler
  <2>5. fg.op \in {"gpio_interrupt_disable", "uart_interrupt_disable"} =>
            fg'.op = fg.op /\ fg'.slot = fg.slot /\ fg'.step = fg.step + 1
    BY <1>3, <2>1, <2>3, Disabler DEF ForegroundOK
  <2>6. fg'.op \in {"idle", fg.op} /\ (fg'.op = "idle" \/ (fg'.slot = fg.slot /\ fg'.step = fg.step + 1))
    BY <2>4 DEF Idle, ForegroundOK
  <2>7. Installing'
    BY <2>1, <2>6 DEF Installing, EnableCalls, DisableCalls
  <2>8. Removing'
    BY <1>1, <2>2, <2>3, <2>6 DEF Removing
  <2>9. HandlerPresent'
    <3>1. \A n : Clearing(n) => n = fg.slot
      BY DEF Clearing
    <3> QED BY <1>1, <2>2, <3>1 DEF HandlerPresent
  <2>10. NoMaskedDirect'
    BY <1>1 DEF NoMaskedDirect
  <2>11. ReadyBeforeEnabled'
    <3> SUFFICES ASSUME NEW s \in Direct
                 PROVE  \/ s \in active' \cap handler'
                        \/ fg'.slot = s /\ fg'.op \in {"gpio_interrupt_disable", "uart_interrupt_disable"}
      BY <1>1 DEF ReadyBeforeEnabled, Direct, Stray
    <3>1. CASE s # fg.slot
      BY <1>1, <2>2, <3>1 DEF ReadyBeforeEnabled, Direct
    <3>2. CASE s = fg.slot
      <4>1. fg.op \notin {"pwm_interrupt_disable", "i2c_interrupt_disable"}
        BY <2>1, <3>2, SlotOf DEF NoMaskedDirect
      <4>2. fg.op # "spi_interrupt_disable"
        BY <2>3, <3>2 DEF Removing
      <4> QED BY <2>3, <2>5, <3>2, <4>1, <4>2
    <3> QED BY <3>1, <3>2
  <2> QED BY <2>7, <2>8, <2>9, <2>10, <2>11
<1> QED BY <1>2, <1>3 DEF WriteActive

LEMMA PlicEnableStep ==
    ASSUME TypeOK, TableInv, WritePlicEnable
    PROVE  TableInv'
<1> USE DEF TypeOK, TableInv
<1>1. handler' = handler /\ active' = active
  BY DEF WritePlicEnable, table
<1>2. CASE Writes("ENABLE|=")
  <2>1. fg.op \in EnableCalls /\ fg.step > 2
    BY <1>2, Writer
  <2>2. fg.slot \in Sources /\ fg.slot \in handler /\ fg.slot \in active
    BY <2>1, SlotOf DEF Installing, ForegroundOK
  <2>3. PICK m \in EnableMasks(fg.slot) : enable' = enable \cup m
    BY <1>2 DEF WritePlicEnable, Writes
  <2>4. Direct' = Direct \/ (Direct' \subseteq Direct \cup {fg.slot}
                              /\ ~ IsPwm(fg.slot) /\ fg.slot # INT_I2C_BASE)
    BY <2>2, <2>3, MaskOf DEF Direct, Stray
  <2>5. fg' = Idle \/ fg' = [fg EXCEPT !.step = @ + 1]
    BY <1>2 DEF Writes
  <2>6. fg'.op \in {"idle", fg.op} /\ (fg'.op = "idle" \/ fg'.slot = fg.slot)
    BY <2>5 DEF Idle, ForegroundOK
  <2>7. Installing' /\ Removing'
    BY <1>1, <2>1, <2>2, <2>6 DEF Installing, Removing, EnableCalls
  <2>8. \A n : ~ Clearing(n)
    BY <2>1 DEF Clearing, EnableCalls, DisableCalls
  <2>9. HandlerPresent' /\ NoMaskedDirect'
    BY <1>1, <2>4, <2>8 DEF HandlerPresent, NoMaskedDirect
  <2>10. ReadyBeforeEnabled'
    BY <1>1, <2>1, <2>2, <2>4 DEF ReadyBeforeEnabled, Direct, Stray, EnableCalls
  <2> QED BY <2>7, <2>9, <2>10
<1>3. CASE Writes("ENABLE&=~")
  <2>1. fg.op \in DisableCalls /\ fg.slot \in Sources
    BY <1>3, Writer, SlotOf
  <2>2. PICK m \in EnableMasks(fg.slot) : enable' = enable \ m
    BY <1>3 DEF WritePlicEnable, Writes
  <2>3. Direct' \subseteq Direct
    BY <2>2 DEF Direct, Stray
  <2>4. \/ fg.op \in {"gpio_interrupt_disable", "uart_interrupt_disable"} /\ fg.step = 3
        \/ fg.op \in {"spi_interrupt_disable", "pwm_interrupt_disable",
                      "i2c_interrupt_disable"} /\ fg.step = 1
    BY <1>3, <2>1, Disabler
  <2>5. fg.slot \notin Direct'
    <3>1. CASE fg.op \in {"pwm_interrupt_disable", "i2c_interrupt_disable"}
      BY <2>1, <2>3, <3>1, SlotOf DEF NoMaskedDirect
    <3>2. CASE fg.op \notin {"pwm_interrupt_disable", "i2c_interrupt_disable"}
      <4>1. m = {fg.slot}
        BY <2>1, <2>4, <3>2, SlotOf, MaskOf
      <4> QED BY <2>2, <4>1 DEF Direct
    <3> QED BY <3>1, <3>2
  <2>6. fg' = Idle \/ fg' = [fg EXCEPT !.step = @ + 1]
    BY <1>3 DEF Writes
  <2>7. fg'.op \in {"idle", fg.op} /\ (fg'.op = "idle" \/ (fg'.slot = fg.slot /\ fg'.step = fg.step + 1))
    BY <2>6 DEF Idle, ForegroundOK
  <2>8. fg.op = "uart_interrupt_disable" => fg'.op = "idle"
    <3> SUFFICES ASSUME fg.op = "uart_interrupt_disable" PROVE fg'.op = "idle"
      OBVIOUS
    <3>1. fg.step = 3
      BY <2>4
    <3>2. Len(Program(fg.op)) = 3
      BY <1>3, <2>1, Disabler
    <3>3. fg' = Idle
      BY <1>3, <3>1, <3>2 DEF Writes
    <3> QED BY <3>3 DEF Idle
  <2>9. Installing'
    BY <2>1, <2>7 DEF Installing, EnableCalls, DisableCalls
  <2>10. Removing'
    BY <2>5, <2>7, <2>8 DEF Removing
  <2>11. \A n : ~ Clearing(n)
    BY <1>3 DEF Clearing, Writes
  <2>12. HandlerPresent' /\ NoMaskedDirect'
    BY <1>1, <2>3, <2>11 DEF HandlerPresent, NoMaskedDirect
  <2>13. ReadyBeforeEnabled'
    BY <1>1, <2>3, <2>5 DEF ReadyBeforeEnabled, Direct
  <2> QED BY <2>9, <2>10, <2>12, <2>13
<1>4. CASE Writes("ENABLE=0")
  <2>1. fg.op \in CpuCalls
    BY <1>4, Writer DEF CpuWrites
  <2>2. enable' = {}
    BY <1>4 DEF WritePlicEnable, Writes
  <2>3. fg'.op \in {"idle", fg.op}
    BY <1>4 DEF Writes, Idle, ForegroundOK
  <2>4. Installing' /\ Removing'
    BY <2>1, <2>3 DEF Installing, Removing, EnableCalls, CpuCalls
  <2>5. \A n : ~ Clearing(n)
    BY <2>1 DEF Clearing, CpuCalls, DisableCalls
  <2>6. HandlerPresent' /\ NoMaskedDirect' /\ ReadyBeforeEnabled'
    BY <1>1, <2>2, <2>5 DEF HandlerPresent, NoMaskedDirect, ReadyBeforeEnabled, Direct
  <2> QED BY <2>4, <2>6
<1> QED BY <1>2, <1>3, <1>4 DEF WritePlicEnable

\* The writes that touch neither the table nor the PLIC enables.
LEMMA OtherWriteStep ==
    ASSUME TypeOK, TableInv, UNCHANGED <<handler, active, enable>>,
           NEW w \in (CpuWrites \ {"ENABLE=0"}) \cup {"PRIORITY=prio", "IE|=", "IE&=~"},
           Writes(w)
    PROVE  TableInv'
<1> USE DEF TypeOK, TableInv
<1>1. fg' = Idle \/ fg' = [fg EXCEPT !.step = @ + 1]
  BY DEF Writes
<1>2. fg'.op \in {"idle", fg.op} /\ (fg'.op = "idle" \/ (fg'.slot = fg.slot /\ fg'.step = fg.step + 1))
  BY <1>1 DEF Idle, ForegroundOK
<1>3. \A n : ~ Clearing(n)
  BY DEF Clearing, Writes, CpuWrites
<1>4. HandlerPresent' /\ NoMaskedDirect' /\ Direct' = Direct
  BY <1>3 DEF HandlerPresent, NoMaskedDirect, Direct, Stray
<1>5. CASE w \in CpuWrites
  <2>1. fg.op \in CpuCalls
    BY <1>5, Writer
  <2>2. Installing' /\ Removing'
    BY <1>2, <2>1 DEF Installing, Removing, EnableCalls, CpuCalls
  <2>3. ReadyBeforeEnabled'
    BY <1>4, <2>1 DEF ReadyBeforeEnabled, Direct, CpuCalls
  <2> QED BY <1>4, <2>2, <2>3
<1>6. CASE w \in {"PRIORITY=prio", "IE|="}
  <2>1. fg.op \in EnableCalls /\ fg.step > 2
    BY <1>6, Writer
  <2>2. Installing' /\ Removing'
    <3>1. fg.slot \in handler /\ fg.slot \in active
      BY <2>1 DEF Installing, ForegroundOK
    <3> QED BY <1>2, <2>1, <3>1 DEF Installing, Removing, EnableCalls
  <2>3. ReadyBeforeEnabled'
    BY <1>4, <2>1 DEF ReadyBeforeEnabled, Direct, EnableCalls
  <2> QED BY <1>4, <2>2, <2>3
<1>7. CASE w = "IE&=~"
  <2>1. fg.op \in DisableCalls
    BY <1>7, Writer
  <2>2. \/ fg.op = "gpio_interrupt_disable" /\ fg.step = 4
        \/ fg.op = "i2c_interrupt_disable" /\ fg.step = 2
    BY <1>7, <2>1, Disabler
  <2>3. Installing'
    BY <1>2, <2>1 DEF Installing, EnableCalls, DisableCalls
  <2>4. Removing'
    BY <1>2, <1>4, <2>2 DEF Removing
  <2>5. ReadyBeforeEnabled'
    BY <1>4, <2>2 DEF ReadyBeforeEnabled, Removing, Direct
  <2> QED BY <1>4, <2>3, <2>4, <2>5
<1> QED BY <1>5, <1>6, <1>7

LEMMA CallStep ==
    ASSUME TypeOK, TableInv, NEW op \in Calls, Call(op)
    PROVE  TableInv'
<1>1. handler' = handler /\ active' = active /\ enable' = enable /\ fg.op = "idle"
  BY DEF Call, table, plic
<1>2. fg'.op = op /\ fg'.step = 1
  BY DEF Call
<1>3. Direct' = Direct /\ \A n : ~ Clearing(n)
  BY <1>1 DEF Direct, Stray, Clearing, DisableCalls
<1> QED BY <1>1, <1>2, <1>3 DEF TableInv, Installing, Removing, HandlerPresent, NoMaskedDirect,
     ReadyBeforeEnabled, Direct

LEMMA TableStep ==
    ASSUME TypeOK, TableInv, [Next]_vars
    PROVE  TableInv'
<1>1. ASSUME UNCHANGED <<fg, handler, active, enable>> PROVE TableInv'
  BY <1>1 DEF TableInv, Installing, Removing, HandlerPresent, NoMaskedDirect,
     ReadyBeforeEnabled, Direct, Stray, Clearing
<1>2. ASSUME NEW op \in Calls, Call(op) PROVE TableInv'
  BY <1>2, CallStep
<1>3. CASE WriteHandler
  BY <1>3, HandlerStep
<1>4. CASE WriteActive
  BY <1>4, ActiveStep
<1>5. CASE WritePlicEnable
  BY <1>5, PlicEnableStep
<1>6. CASE WritePlicPriority \/ WriteDeviceIE
  <2>1. UNCHANGED <<handler, active, enable>>
    BY <1>6 DEF WritePlicPriority, WriteDeviceIE, table, plic
  <2>2. PICK w \in {"PRIORITY=prio", "IE|=", "IE&=~"} : Writes(w)
    BY <1>6 DEF WritePlicPriority, WriteDeviceIE
  <2> QED BY <2>1, <2>2, OtherWriteStep
<1>7. CASE WriteMstatus \/ WriteMie \/ WriteMtvec \/ WriteMtimecmp
  <2>1. UNCHANGED <<handler, active, enable>>
    BY <1>7 DEF WriteMstatus, WriteMie, WriteMtvec, WriteMtimecmp, table, plic
  <2>2. PICK w \in CpuWrites \ {"ENABLE=0"} : Writes(w)
    BY <1>7 DEF WriteMstatus, WriteMie, WriteMtvec, WriteMtimecmp, CpuWrites
  <2> QED BY <2>1, <2>2, OtherWriteStep
<1>8. CASE TimerExpire \/ ServiceRoutine \/ UNCHANGED vars
        \/ \E s \in Sources : DeviceEvent(s) \/ GatewayLatch(s)
  BY <1>1, <1>8 DEF TimerExpire, DeviceEvent, GatewayLatch, ServiceRoutine, Trap, WildTrap,
     Claim, Dispatch, HandlerRead, HandlerAck, Complete, TimerHandler, Return,
     table, plic, vars
<1> QED BY <1>2, <1>3, <1>4, <1>5, <1>6, <1>7, <1>8 DEF Next, Foreground

(***************************************************************************)
(* The service routine sees a frozen foreground.                            *)
(***************************************************************************)
LEMMA RoutineStep ==
    ASSUME TypeOK, TypeOK', RoutineInv, [Next]_vars
    PROVE  RoutineInv'
<1> USE DEF RoutineInv, RoutineSees, ClaimsBalance
<1>1. ASSUME isr' = isr, isr.pc = "none", inflight' = inflight PROVE RoutineInv'
  BY <1>1
<1>2. ASSUME NEW op \in Calls, Call(op) PROVE RoutineInv'
  BY <1>1, <1>2 DEF Call, plic
<1>3. CASE Foreground
  <2>1. isr.pc = "none" /\ isr' = isr
    BY <1>3 DEF Foreground, WriteHandler, WriteActive, WritePlicEnable, WritePlicPriority,
       WriteDeviceIE, WriteMstatus, WriteMie, WriteMtvec, WriteMtimecmp, Writes
  <2>2. inflight' = inflight
    BY <1>3 DEF Foreground, WriteHandler, WriteActive, WritePlicEnable, WritePlicPriority,
       WriteDeviceIE, WriteMstatus, WriteMie, WriteMtvec, WriteMtimecmp, plic
  <2> QED BY <1>1, <2>1, <2>2
<1>4. ASSUME UNCHANGED <<isr, inflight, enable, prio, active, handler>>,
             pending \subseteq pending'
      PROVE  RoutineInv'
  BY <1>4 DEF Candidates
<1>5. CASE \E s \in Sources : DeviceEvent(s) \/ GatewayLatch(s)
  BY <1>4, <1>5 DEF DeviceEvent, GatewayLatch, table, plic
<1>6. CASE TimerExpire \/ UNCHANGED vars
  BY <1>4, <1>6 DEF TimerExpire, vars, table, plic
<1>7. CASE Trap
  <2>1. UNCHANGED <<inflight, pending, enable, prio>> /\ isr.pc = "none"
    BY <1>7 DEF Trap, plic
  <2>2. isr'.pc \in {"claim", "timer", "mret"} /\ (isr'.pc = "claim" => Candidates # {})
    BY <1>7 DEF Trap, Decode, ExternalTrap, TypeOK, RoutineOK
  <2> QED BY <2>1, <2>2 DEF Candidates
<1>8. CASE WildTrap
  BY <1>8 DEF WildTrap, plic, TypeOK, RoutineOK
<1>9. CASE Claim
  <2>1. isr.pc = "claim" /\ inflight = {} /\ enable' = enable
    BY <1>9 DEF Claim
  <2>2. PICK s \in Candidates : /\ isr' = [isr EXCEPT !.pc = "dispatch", !.claim = s]
                                /\ inflight' = inflight \cup {s}
    BY <1>9 DEF Claim
  <2>3. s \in Sources \cap enable
    BY DEF Candidates, TypeOK, PlicOK
  <2> QED BY <2>1, <2>2, <2>3 DEF TypeOK, RoutineOK
<1>10. CASE Dispatch
  <2>1. UNCHANGED <<inflight, enable, active, handler>> /\ isr.pc = "dispatch"
    BY <1>10 DEF Dispatch, plic, table
  <2>2. isr'.claim = isr.claim /\ isr'.pc \in {"complete", "handler", "null"}
        /\ (isr'.pc = "null" => IntNumber(isr.claim) \in active \ handler)
    BY <1>10 DEF Dispatch, TypeOK, RoutineOK
  <2> QED BY <2>1, <2>2
<1>11. CASE HandlerRead \/ HandlerAck
  <2>1. UNCHANGED <<inflight, enable>> /\ isr.pc \in {"handler", "ack"}
    BY <1>11 DEF HandlerRead, HandlerAck, plic
  <2>2. isr'.claim = isr.claim /\ isr'.pc \in {"ack", "complete"}
    BY <1>11 DEF HandlerRead, HandlerAck, TypeOK, RoutineOK
  <2> QED BY <2>1, <2>2
<1>12. CASE Complete
  <2>1. isr.pc = "complete" /\ isr'.pc = "mret"
    BY <1>12 DEF Complete, TypeOK, RoutineOK
  <2>2. inflight' = {}
    BY <1>12, <2>1 DEF Complete
  <2> QED BY <2>1, <2>2
<1>13. CASE TimerHandler \/ Return
  <2>1. inflight' = inflight /\ isr.pc \in {"timer", "mret"} /\ isr'.pc \in {"mret", "none"}
    BY <1>13 DEF TimerHandler, Return, NoTrap, plic, TypeOK, RoutineOK
  <2> QED BY <2>1
<1> QED BY <1>2, <1>3, <1>5, <1>6, <1>7, <1>8, <1>9, <1>10, <1>11, <1>12, <1>13
     DEF Next, ServiceRoutine

-----------------------------------------------------------------------------
THEOREM Inductive == Spec => []IInv
<1>1. Init => IInv
  <2> SUFFICES ASSUME Init PROVE TableInv /\ RoutineInv
    BY TypeInit DEF IInv
  <2>1. TableInv
    BY DEF Init, Idle, TableInv, Installing, Removing, HandlerPresent, NoMaskedDirect,
       ReadyBeforeEnabled, Direct, EnableCalls
  <2>2. RoutineInv
    BY DEF Init, NoTrap, RoutineInv, RoutineSees, ClaimsBalance
  <2> QED BY <2>1, <2>2
<1>2. IInv /\ [Next]_vars => IInv'
  BY TypeStep, TableStep, RoutineStep DEF IInv
<1> QED BY <1>1, <1>2, PTL DEF Spec

\* For every build, every set of sources and whatever calls are made, the
\* service routine calls through NULL only inside the two-write window of a
\* disable call of the slot it looks at.
THEOREM NullCallWindow == Spec => []NullCallOnlyMidDisable
<1>1. IInv => NullCallOnlyMidDisable
  BY DEF IInv, TableInv, RoutineInv, RoutineSees, HandlerPresent, NullCallOnlyMidDisable
<1> QED BY <1>1, Inductive, PTL

\* No driver enables a source in the PLIC before its handler is in place.
THEOREM HandlerBeforeEnable == Spec => []ReadyBeforeEnabled
<1>1. IInv => ReadyBeforeEnabled
  BY DEF IInv, TableInv
<1> QED BY <1>1, Inductive, PTL

\* Every claim is of an enabled source, is completed while it still is, and
\* leaves nothing claimed.
THEOREM ClaimCompleteBalance == Spec => []ClaimsBalance
<1>1. IInv => ClaimsBalance
  BY DEF IInv, RoutineInv
<1> QED BY <1>1, Inductive, PTL

-----------------------------------------------------------------------------
(***************************************************************************)
(* Calls that reprogram the CSRs.  They begin with the write that keeps the *)
(* traps out and end with the one that lets them in, and the first call     *)
(* that could be interrupted is the one that says where to.                 *)
(***************************************************************************)
Masking == {"plic_interrupt_enable", "clint_interrupt_timer_enable", "clint_interrupt_software_enable"}

Masked ==
    /\ fg.op \in Masking /\ fg.step > 1 => ~MIE /\ isr.pc = "none"
    /\ fg.op = "aon_rtc_next_wake_time" /\ fg.step > 1 => "MTIE" \notin mie /\ isr.pc # "timer"

\* Until mtvec is written nothing but a wild trap happens, and
\* cpu_interrupt_enable writes it before it sets MIE.
VectorFirst ==
    /\ mtvec = "boot" => isr.pc \in {"none", "wild"}
    /\ fg.op = "cpu_interrupt_enable" /\ mtvec = "boot" =>
            ~MIE /\ fg.step <= (IF Build = "header" THEN 2 ELSE 1)

CsrInv == Masked /\ VectorFirst

\* Where the writes of the CSRs stand in the calls that make them.
LEMMA MaskingWrites ==
    ASSUME ForegroundOK, NEW w, Writes(w), fg.op \in Masking
    PROVE  /\ w \in {"mstatus=0", "mie|=MEIE", "mie|=MTIE", "mie|=MSIE", "ENABLE=0", "mstatus=MIE"}
           /\ fg.step = 1 <=> w = "mstatus=0"
           /\ w = "mstatus=MIE" <=> fg.step = Len(Program(fg.op))
<1> USE DEF Program, plic_interrupt_enable, clint_interrupt_timer_enable, clint_interrupt_software_enable
<1>1. CASE fg.op = "plic_interrupt_enable"
  <2>1. fg.step \in 1 .. 4 /\ w = plic_interrupt_enable[fg.step] /\ Len(Program(fg.op)) = 4
    BY <1>1 DEF Writes, ForegroundOK
  <2>2. CASE fg.step = 1  BY <2>1, <2>2
  <2>3. CASE fg.step = 2  BY <2>1, <2>3
  <2>4. CASE fg.step = 3  BY <2>1, <2>4
  <2>5. CASE fg.step = 4  BY <2>1, <2>5
  <2>6. QED
    BY <2>1, <2>2, <2>3, <2>4, <2>5
<1>2. CASE fg.op = "clint_interrupt_timer_enable"
  <2>1. fg.step \in 1 .. 3 /\ w = clint_interrupt_timer_enable[fg.step] /\ Len(Program(fg.op)) = 3
    BY <1>2 DEF Writes, ForegroundOK
  <2>2. CASE fg.step = 1  BY <2>1, <2>2
  <2>3. CASE fg.step = 2  BY <2>1, <2>3
  <2>4. CASE fg.step = 3  BY <2>1, <2>4
  <2>5. QED
    BY <2>1, <2>2, <2>3, <2>4
<1>3. CASE fg.op = "clint_interrupt_software_enable"
  <2>1. fg.step \in 1 .. 3 /\ w = clint_interrupt_software_enable[fg.step] /\ Len(Program(fg.op)) = 3
    BY <1>3 DEF Writes, ForegroundOK
  <2>2. CASE fg.step = 1  BY <2>1, <2>2
  <2>3. CASE fg.step = 2  BY <2>1, <2>3
  <2>4. CASE fg.step = 3  BY <2>1, <2>4
  <2>5. QED
    BY <2>1, <2>2, <2>3, <2>4
<1>4. QED
  BY <1>1, <1>2, <1>3 DEF Masking

LEMMA AonWrites ==
    ASSUME ForegroundOK, NEW w, Writes(w), fg.op = "aon_rtc_next_wake_time"
    PROVE  \/ fg.step = 1 /\ w = "mie&=~MTIE" /\ Len(Program(fg.op)) = 3
           \/ fg.step = 2 /\ w = "MTIMECMP" /\ Len(Program(fg.op)) = 3
           \/ fg.step = 3 /\ w = "mie|=MTIE" /\ Len(Program(fg.op)) = 3
<1>1. fg.step \in 1 .. 3 /\ w = aon_rtc_next_wake_time[fg.step] /\ Len(Program(fg.op)) = 3
  BY DEF Writes, ForegroundOK, Program, aon_rtc_next_wake_time
<1>2. QED
  BY <1>1 DEF aon_rtc_next_wake_time

LEMMA CpuWritesVector ==
    ASSUME ForegroundOK, NEW w, Writes(w), fg.op = "cpu_interrupt_enable"
    PROVE  /\ Program("cpu_interrupt_enable")[1] # "mstatus=0"
           /\ fg.step <= (IF Build = "header" THEN 2 ELSE 1) =>
                \/ w = "mtvec=isr"
                \/ fg.step = 1 /\ w = "mie=0" /\ Build = "header" /\ fg.step # Len(Program(fg.op))
<1> USE DEF Program, cpu_interrupt_enable
<1>1. fg.step \in Nat /\ fg.step >= 1 /\ w = cpu_interrupt_enable[fg.step]
  BY DEF Writes, ForegroundOK
<1>2. CASE Build = "header"
  BY <1>1, <1>2
<1>3. CASE Build # "header"
  BY <1>1, <1>3
<1>4. QED
  BY <1>2, <1>3

LEMMA OtherCalls ==
    ASSUME ForegroundOK, NEW w, Writes(w), w \in CpuWrites
    PROVE  fg.op \in Masking \cup {"aon_rtc_next_wake_time", "cpu_interrupt_enable"}
BY Writer DEF CpuCalls, Masking

\* Where the call stands after a write.
LEMMA NextStep ==
    ASSUME ForegroundOK, NEW w, Writes(w)
    PROVE  /\ fg.step = Len(Program(fg.op)) => fg' = Idle
           /\ fg.step # Len(Program(fg.op)) => fg'.op = fg.op /\ fg'.step = fg.step + 1
           /\ isr' = isr /\ isr.pc = "none" /\ fg.op # "idle" /\ fg.step \in Nat /\ fg.step >= 1
BY DEF Writes, ForegroundOK

\* The writes.
LEMMA WritesKeepCsrInv ==
    ASSUME TypeOK, CsrInv, Foreground
    PROVE  CsrInv'
<1> USE DEF TypeOK
<1>1. ASSUME NEW w, Writes(w), w \notin CpuWrites, UNCHANGED <<MIE, mie, mtvec>>
      PROVE  CsrInv'
  <2>1. fg.op \in EnableCalls \cup DisableCalls
    BY <1>1, DriverWrite
  <2>2. fg'.op \in EnableCalls \cup DisableCalls \cup {"idle"} /\ isr' = isr
    BY <1>1, <2>1, NextStep DEF Idle
  <2>3. fg'.op \notin Masking \cup {"aon_rtc_next_wake_time", "cpu_interrupt_enable"}
    BY <2>2 DEF Masking, EnableCalls, DisableCalls
  <2>4. QED
    BY <1>1, <2>2, <2>3 DEF CsrInv, Masked, VectorFirst
<1>2. ASSUME NEW w, Writes(w), w \in CpuWrites, w = "mstatus=0" => MIE' = FALSE,
             w \in {"mstatus=0", "mstatus=MIE"} \/ MIE' = MIE,
             w # "mtvec=isr" => mtvec' = mtvec, w = "mtvec=isr" => mtvec' = "isr",
             w = "mie&=~MTIE" => "MTIE" \notin mie', w = "MTIMECMP" => mie' = mie
      PROVE  CsrInv'
  <2>0. /\ isr' = isr /\ isr.pc = "none" /\ Idle.op = "idle"
        /\ fg.step = Len(Program(fg.op)) => fg' = Idle
        /\ fg.step # Len(Program(fg.op)) => fg'.op = fg.op /\ fg'.step = fg.step + 1
        /\ fg.step \in Nat /\ fg.step >= 1
    BY <1>2, NextStep DEF Idle
  <2>1. CASE fg.op \in Masking
    <3>1. /\ fg.step = 1 <=> w = "mstatus=0"
          /\ w = "mstatus=MIE" <=> fg.step = Len(Program(fg.op))
          /\ w # "mtvec=isr"
      BY <1>2, <2>1, MaskingWrites
    <3>2. fg.step # Len(Program(fg.op)) => ~MIE'
      <4>1. ASSUME fg.step # Len(Program(fg.op)), fg.step # 1 PROVE ~MIE'
        BY <1>2, <2>0, <2>1, <3>1, <4>1 DEF CsrInv, Masked
      <4>2. QED
        BY <1>2, <3>1, <4>1
    <3>3. fg.op # "aon_rtc_next_wake_time" /\ fg.op # "cpu_interrupt_enable"
          /\ "idle" \notin Masking
      BY <2>1 DEF Masking
    <3>4. fg'.op # "aon_rtc_next_wake_time" /\ fg'.op # "cpu_interrupt_enable"
      BY <2>0, <3>3
    <3>5. mtvec' = mtvec
      BY <1>2, <3>1
    <3>6. fg'.op \in Masking => ~MIE'
      BY <2>0, <3>2, <3>3
    <3>7. QED
      BY <2>0, <3>4, <3>5, <3>6 DEF CsrInv, Masked, VectorFirst
  <2>2. CASE fg.op = "aon_rtc_next_wake_time"
    <3>1. \/ fg.step = 1 /\ w = "mie&=~MTIE" /\ Len(Program(fg.op)) = 3
          \/ fg.step = 2 /\ w = "MTIMECMP" /\ Len(Program(fg.op)) = 3
          \/ fg.step = 3 /\ w = "mie|=MTIE" /\ Len(Program(fg.op)) = 3
      BY <1>2, <2>2, AonWrites
    <3>2. mtvec' = mtvec
      BY <1>2, <3>1
    <3>3. fg.step # 3 => "MTIE" \notin mie'
      BY <1>2, <2>2, <3>1 DEF CsrInv, Masked
    <3>4. fg.step = 3 => fg'.op = "idle"
      BY <2>0, <3>1
    <3>5. fg'.op \in {"idle", "aon_rtc_next_wake_time"}
      BY <2>0, <2>2
    <3>6. QED
      BY <2>0, <2>2, <3>1, <3>2, <3>3, <3>4, <3>5 DEF CsrInv, Masked, VectorFirst, Masking
  <2>3. CASE fg.op = "cpu_interrupt_enable"
    <3>1. fg'.op \in {"idle", "cpu_interrupt_enable"}
      BY <2>0, <2>3
    <3>2. ASSUME mtvec' = "boot" PROVE fg'.op = "cpu_interrupt_enable" =>
                        ~MIE' /\ fg'.step <= (IF Build = "header" THEN 2 ELSE 1)
      <4>1. mtvec = "boot" /\ w # "mtvec=isr"
        BY <1>2, <3>2
      <4>2. ~MIE /\ fg.step <= (IF Build = "header" THEN 2 ELSE 1)
        BY <2>3, <4>1 DEF CsrInv, VectorFirst
      <4>3. fg.step = 1 /\ w = "mie=0" /\ Build = "header" /\ fg.step # Len(Program(fg.op))
        BY <1>2, <2>3, <4>1, <4>2, CpuWritesVector
      <4>4. QED
        BY <1>2, <2>0, <4>2, <4>3
    <3>3. QED
      BY <2>0, <3>1, <3>2 DEF CsrInv, Masked, VectorFirst, Masking
  <2>4. QED
    BY <1>2, <2>1, <2>2, <2>3, OtherCalls
<1>3. CASE WriteHandler \/ WriteActive \/ WritePlicPriority \/ WriteDeviceIE
  BY <1>1, <1>3 DEF WriteHandler, WriteActive, WritePlicPriority, WriteDeviceIE, CpuWrites, csrs
<1>4. CASE WritePlicEnable
  <2>1. UNCHANGED <<MIE, mie, mtvec>>
    BY <1>4 DEF WritePlicEnable, csrs
  <2>2. CASE Writes("ENABLE=0")
    BY <1>2, <2>1, <2>2 DEF CpuWrites
  <2>3. CASE Writes("ENABLE|=") \/ Writes("ENABLE&=~")
    BY <1>1, <2>1, <2>3 DEF CpuWrites
  <2>4. QED
    BY <1>4, <2>2, <2>3 DEF WritePlicEnable
<1>5. CASE WriteMstatus
  BY <1>2, <1>5 DEF WriteMstatus, CpuWrites
<1>6. CASE WriteMie
  <2>1. UNCHANGED <<MIE, mtvec>>
    BY <1>6 DEF WriteMie
  <2>2. PICK w \in {"mie=0", "mie|=MEIE", "mie|=MTIE", "mie|=MSIE", "mie&=~MTIE"} :
            Writes(w) /\ (w = "mie&=~MTIE" => mie' = mie \ {"MTIE"})
    BY <1>6 DEF WriteMie
  <2>3. QED
    BY <1>2, <2>1, <2>2 DEF CpuWrites
<1>7. CASE WriteMtvec \/ WriteMtimecmp
  BY <1>2, <1>7 DEF WriteMtvec, WriteMtimecmp, CpuWrites, csrs
<1>8. QED
  BY <1>3, <1>4, <1>5, <1>6, <1>7 DEF Foreground

LEMMA CsrStep ==
    ASSUME TypeOK, CsrInv, [Next]_vars
    PROVE  CsrInv'
<1>1. CASE UNCHANGED vars
  BY <1>1 DEF vars, CsrInv, Masked, VectorFirst
<1>2. ASSUME NEW op \in Calls, Call(op) PROVE CsrInv'
  <2>1. fg'.step = 1 /\ fg'.op = op /\ UNCHANGED <<MIE, mie, mtvec, isr>> /\ isr.pc = "none"
        /\ (op = "cpu_interrupt_enable" => ~MIE)
    BY <1>2 DEF Call, csrs
  <2>2. QED
    BY <2>1 DEF CsrInv, Masked, VectorFirst
<1>3. CASE Foreground
  BY <1>3, WritesKeepCsrInv
<1>4. CASE TimerExpire \/ \E s \in Sources : DeviceEvent(s) \/ GatewayLatch(s)
  BY <1>4 DEF TimerExpire, DeviceEvent, GatewayLatch, CsrInv, Masked, VectorFirst, csrs
<1>5. CASE Trap
  <2>1. MIE /\ mtvec = "isr" /\ ~MIE' /\ UNCHANGED <<fg, mie, mtvec>>
    BY <1>5 DEF Trap
  <2>2. isr'.pc = "timer" => "MTIE" \in mie
    <3>1. isr'.pc = Decode(IF ExternalTrap THEN "MEI" ELSE "MTI")
      BY <1>5 DEF Trap, TypeOK, RoutineOK
    <3>2. Decode("MEI") # "timer"
      BY DEF Decode
    <3>3. QED
      BY <1>5, <3>1, <3>2 DEF Trap, TimerTrap
  <2>3. QED
    BY <2>1, <2>2 DEF CsrInv, Masked, VectorFirst
<1>6. CASE WildTrap
  BY <1>6 DEF WildTrap, CsrInv, Masked, VectorFirst, csrs, TypeOK, RoutineOK
<1>7. CASE Claim \/ Dispatch \/ HandlerRead \/ HandlerAck \/ Complete \/ TimerHandler
  <2>1. isr.pc \notin {"none", "wild"} /\ isr'.pc # "timer" /\ UNCHANGED <<fg, MIE, mie, mtvec>>
    BY <1>7 DEF Claim, Dispatch, HandlerRead, HandlerAck, Complete, TimerHandler, csrs, TypeOK, RoutineOK
  <2>2. QED
    BY <2>1 DEF CsrInv, Masked, VectorFirst
<1>8. CASE Return
  <2>1. isr.pc = "mret" /\ isr'.pc = "none" /\ UNCHANGED <<fg, mie, mtvec>>
    BY <1>8 DEF Return, NoTrap
  <2>2. QED
    BY <2>1 DEF CsrInv, Masked, VectorFirst
<1>9. QED
  BY <1>1, <1>2, <1>3, <1>4, <1>5, <1>6, <1>7, <1>8 DEF Next, ServiceRoutine

LEMMA CsrInductive == Spec => []CsrInv
<1>1. Init => CsrInv
  BY DEF Init, Idle, NoTrap, CsrInv, Masked, VectorFirst, Masking
<1>2. TypeOK /\ CsrInv /\ [Next]_vars => CsrInv'
  BY CsrStep
<1>3. QED
  BY <1>1, <1>2, TypeCorrect, PTL DEF Spec

(* plic.h:58-69, clint.h:36-44, aon.h:153-165: no call that reprograms mie    *)
(* or the enables is preempted between its first and its last write, and no  *)
(* timer interrupt comes while the compare value is being written.           *)
THEOREM ReprogrammingIsMasked == Spec => []NoTrapWhileReprogramming
<1>1. TypeOK /\ CsrInv => NoTrapWhileReprogramming
  BY DEF TypeOK, ForegroundOK, CsrInv, Masked, Masking, NoTrapWhileReprogramming
<1>2. QED
  BY <1>1, CsrInductive, TypeCorrect, PTL

\* A state that has lost the vector keeps it lost.
LEMMA LostStays ==
    ASSUME TypeOK, CsrInv, [Next]_vars, VectorLost
    PROVE  VectorLost'
<1>1. mtvec = "boot" /\ isr.pc \in {"none", "wild"}
  BY DEF VectorLost, CsrInv, VectorFirst
<1>2. UNCHANGED <<fg, MIE, mtvec>> => VectorLost'
  BY DEF VectorLost
<1>3. ASSUME NEW op \in Calls, Call(op) PROVE VectorLost'
  BY <1>1, <1>3 DEF Call, csrs, VectorLost, CpuCalls
<1>4. ASSUME NEW w, Writes(w), w \notin CpuWrites, UNCHANGED <<MIE, mtvec>> PROVE VectorLost'
  <2>1. fg.op \in EnableCalls \cup DisableCalls
    BY <1>4, DriverWrite DEF TypeOK
  <2>2. MIE
    BY <2>1 DEF VectorLost, EnableCalls, DisableCalls, CpuCalls
  <2>3. QED
    BY <1>1, <1>4, <2>2 DEF VectorLost
<1>5. ASSUME NEW w, Writes(w), w \in CpuWrites,
             w # "mtvec=isr" => mtvec' = mtvec, w = "mstatus=MIE" => MIE' = TRUE,
             w \in {"mstatus=0", "mstatus=MIE"} \/ MIE' = MIE
      PROVE  VectorLost'
  <2>0. /\ fg.step # Len(Program(fg.op)) => fg'.op = fg.op /\ fg'.step = fg.step + 1
        /\ fg.step \in Nat /\ fg.step >= 1
    BY <1>5, NextStep DEF TypeOK
  <2>1. CASE fg.op \in Masking
    <3>1. /\ fg.step = 1 <=> w = "mstatus=0"
          /\ w = "mstatus=MIE" <=> fg.step = Len(Program(fg.op))
          /\ w # "mtvec=isr"
      BY <1>5, <2>1, MaskingWrites DEF TypeOK
    <3>2. Program(fg.op)[1] = "mstatus=0" /\ fg.op \in CpuCalls
      BY <2>1 DEF Program, Masking, CpuCalls, plic_interrupt_enable, clint_interrupt_timer_enable,
                  clint_interrupt_software_enable
    <3>3. CASE w = "mstatus=MIE"
      BY <1>1, <1>5, <3>1, <3>3 DEF VectorLost
    <3>4. CASE w # "mstatus=MIE"
      <4>1. fg'.op = fg.op /\ fg'.step = fg.step + 1
        BY <2>0, <3>1, <3>4
      <4>2. QED
        BY <1>1, <1>5, <2>0, <3>1, <3>2, <4>1 DEF VectorLost
    <3>5. QED
      BY <3>3, <3>4
  <2>2. CASE fg.op = "aon_rtc_next_wake_time"
    <3>1. w \in {"mie&=~MTIE", "MTIMECMP", "mie|=MTIE"}
      BY <1>5, <2>2, AonWrites DEF TypeOK
    <3>2. MIE' = MIE /\ mtvec' = mtvec
      BY <1>5, <3>1
    <3>3. MIE
      BY <2>2 DEF VectorLost, Program, aon_rtc_next_wake_time
    <3>4. QED
      BY <1>1, <3>2, <3>3 DEF VectorLost
  <2>3. CASE fg.op = "cpu_interrupt_enable"
    <3>1. Program("cpu_interrupt_enable")[1] # "mstatus=0"
      BY <1>5, <2>3, CpuWritesVector DEF TypeOK
    <3>2. QED
      BY <1>1, <2>3, <3>1 DEF VectorLost, CsrInv, VectorFirst
  <2>4. QED
    BY <1>5, <2>1, <2>2, <2>3, OtherCalls DEF TypeOK
<1>6. CASE Foreground
  <2>1. CASE WriteHandler \/ WriteActive \/ WritePlicPriority \/ WriteDeviceIE
    BY <1>4, <2>1 DEF WriteHandler, WriteActive, WritePlicPriority, WriteDeviceIE, CpuWrites, csrs
  <2>2. CASE WritePlicEnable
    BY <1>4, <1>5, <2>2 DEF WritePlicEnable, CpuWrites, csrs
  <2>3. CASE WriteMstatus \/ WriteMie \/ WriteMtvec \/ WriteMtimecmp
    BY <1>5, <2>3 DEF WriteMstatus, WriteMie, WriteMtvec, WriteMtimecmp, CpuWrites, csrs
  <2>4. QED
    BY <1>6, <2>1, <2>2, <2>3 DEF Foreground
<1>7. CASE UNCHANGED vars \/ TimerExpire \/ (\E s \in Sources : DeviceEvent(s) \/ GatewayLatch(s)) \/ WildTrap
  BY <1>2, <1>7 DEF vars, TimerExpire, DeviceEvent, GatewayLatch, WildTrap, csrs
<1>8. CASE Trap \/ Claim \/ Dispatch \/ HandlerRead \/ HandlerAck \/ Complete \/ TimerHandler \/ Return
  BY <1>1, <1>8 DEF Trap, Claim, Dispatch, HandlerRead, HandlerAck, Complete, TimerHandler, Return
<1>9. QED
  BY <1>3, <1>6, <1>7, <1>8 DEF Next, ServiceRoutine

(* cpu.h:140-151, plic.h:58-69: when an interrupt can come before there is a  *)
(* service routine, that is so for the rest of the run.                      *)
THEOREM LostVectorStaysLost == Spec => LostVectorIsForGood
<1>1. TypeOK /\ CsrInv /\ [Next]_vars => [VectorLost => VectorLost']_vars
  BY LostStays
<1>2. QED
  BY <1>1, CsrInductive, TypeCorrect, PTL DEF Spec, LostVectorIsForGood
=============================================================================
