----------------------------- MODULE Interrupts -----------------------------
(***************************************************************************)
(* The interrupt subsystem of the HAL: the irq_functions table, the CSRs    *)
(* mstatus/mie/mtvec, the PLIC, and the interrupt calls of every driver.    *)
(*                                                                         *)
(* Two actors share this state on the single hart: the foreground, which is *)
(* inside one HAL call and performs one register or table write per step,   *)
(* and the interrupt service routine, which may preempt it between any two  *)
(* writes.  Devices and the PLIC gateway are the environment.               *)
(*                                                                         *)
(* Read-modify-writes of registers that the service routine never writes    *)
(* (PLIC enables, device IE registers, mie) are one step.                   *)
(***************************************************************************)
EXTENDS Integers, Sequences, FiniteSets

CONSTANTS
    Build,      \* "header": cpu.h, plic.h, gpio.h; "source": cpu.c, plic.c, gpio.c
    Sources,    \* the PLIC sources wired up in this instance
    Kinds,      \* the gpio_int_t edges in use
    Prios,      \* the priorities callers pass
    Calls       \* the HAL calls the foreground may make

INT_UART0_BASE == 3
INT_SPI1_BASE  == 6
INT_GPIO_BASE  == 8
INT_PWM0_BASE  == 40
INT_I2C_BASE   == 52
PLIC_ENABLE_SHIFT_PER_TARGET == 7

ASSUME BuildAssumption   == Build \in {"header", "source"}
ASSUME SourcesAssumption == Sources \subseteq 1 .. INT_I2C_BASE
ASSUME KindsAssumption   == Kinds \subseteq {"RISE", "FALL", "HIGH", "LOW"}
ASSUME PriosAssumption   == Prios \subseteq Nat

IsGpio(s) == s \in INT_GPIO_BASE .. INT_PWM0_BASE - 1
IsPwm(s)  == s \in INT_PWM0_BASE .. INT_I2C_BASE - 1

\* The source kinds a device of source s can raise; "IE" is a device's only kind.
KindsOf(s) == IF IsGpio(s) THEN Kinds ELSE {"IE"}
AllKinds   == Kinds \cup {"IE"}

(***************************************************************************)
(* The PLIC enable bits a driver computes for its source.  PWM shifts by    *)
(* 31 - source in the second enable word: the shifter keeps five bits, so   *)
(* bit (31 - s) % 32 is set.  I2C shifts by 52 in the first word, which C   *)
(* leaves undefined: folded to nothing, or bit 52 % 32.                     *)
(***************************************************************************)
EnableMasks(s) ==
    IF IsPwm(s) THEN {{95 - s}}
    ELSE IF s = INT_I2C_BASE THEN {{}, {INT_I2C_BASE - 32}}
    ELSE {{s}}

Bits  == 1 .. 63
Stray == UNION {UNION EnableMasks(t) : t \in {s \in Sources : IsPwm(s) \/ s = INT_I2C_BASE}}

-----------------------------------------------------------------------------
(***************************************************************************)
(* The writes each HAL call performs, in the order of the code.  The table  *)
(* field `priority' is written and never read, so it is left out; so are    *)
(* the UART and SPI writes to the read-only IP registers.  Between          *)
(* "mstatus=0" and "mstatus=MIE" the two writes of mie, and of the two      *)
(* enable words, cannot be told apart and are one step each.                *)
(***************************************************************************)
EnableCalls  == {"gpio_interrupt_enable", "spi_interrupt_enable",
                 "i2c_interrupt_enable", "pwm_interrupt_enable"}
DisableCalls == {"gpio_interrupt_disable", "uart_interrupt_disable",
                 "spi_interrupt_disable", "i2c_interrupt_disable",
                 "pwm_interrupt_disable"}
CpuCalls     == {"cpu_interrupt_enable", "plic_interrupt_enable",
                 "clint_interrupt_timer_enable",
                 "clint_interrupt_software_enable", "aon_rtc_next_wake_time"}

ASSUME CallsAssumption == Calls \subseteq EnableCalls \cup DisableCalls \cup CpuCalls

GpioEnableActiveFirst == <<"active=1", "handler=isr", "ENABLE|=", "PRIORITY=prio", "IE|=">>
GpioEnablePlicFirst   == <<"ENABLE|=", "handler=isr", "active=1", "PRIORITY=prio", "IE|=">>
gpio_interrupt_enable ==
    IF Build = "header"
    THEN <<"handler=isr", "active=1", "ENABLE|=", "PRIORITY=prio", "IE|=">>
    ELSE <<"handler=isr", "active=1", "PRIORITY=prio", "ENABLE|=", "IE|=">>
gpio_interrupt_disable == <<"handler=NULL", "active=0", "ENABLE&=~", "IE&=~">>
uart_interrupt_disable == <<"active=0", "handler=NULL", "ENABLE&=~">>
spi_interrupt_enable   == <<"handler=isr", "active=1", "PRIORITY=prio", "ENABLE|=">>
spi_interrupt_disable  == <<"ENABLE&=~", "handler=NULL", "active=0">>
i2c_interrupt_enable   == <<"handler=isr", "active=1", "PRIORITY=prio", "ENABLE|=", "IE|=">>
i2c_interrupt_disable  == <<"ENABLE&=~", "IE&=~", "handler=NULL", "active=0">>
pwm_interrupt_enable   == <<"handler=isr", "active=1", "PRIORITY=prio", "ENABLE|=">>
pwm_interrupt_disable  == <<"ENABLE&=~", "handler=NULL", "active=0">>
PlicEnableInterruptible == <<"mie|=MEIE", "ENABLE=0", "mstatus=MIE">>
plic_interrupt_enable  == <<"mstatus=0", "mie|=MEIE", "ENABLE=0", "mstatus=MIE">>
clint_interrupt_timer_enable    == <<"mstatus=0", "mie|=MTIE", "mstatus=MIE">>
clint_interrupt_software_enable == <<"mstatus=0", "mie|=MSIE", "mstatus=MIE">>
aon_rtc_next_wake_time == <<"mie&=~MTIE", "MTIMECMP", "mie|=MTIE">>
cpu_interrupt_enable ==
    IF Build = "header"
    THEN <<"mie=0", "mtvec=isr", "mstatus=MIE">>
    ELSE <<"mtvec=isr", "mstatus=0", "mie|=MEIE", "ENABLE=0", "mstatus=MIE", "mstatus=MIE">>

Program(op) ==
    CASE op = "gpio_interrupt_enable"  -> gpio_interrupt_enable
      [] op = "gpio_interrupt_disable" -> gpio_interrupt_disable
      [] op = "uart_interrupt_disable" -> uart_interrupt_disable
      [] op = "spi_interrupt_enable"   -> spi_interrupt_enable
      [] op = "spi_interrupt_disable"  -> spi_interrupt_disable
      [] op = "i2c_interrupt_enable"   -> i2c_interrupt_enable
      [] op = "i2c_interrupt_disable"  -> i2c_interrupt_disable
      [] op = "pwm_interrupt_enable"   -> pwm_interrupt_enable
      [] op = "pwm_interrupt_disable"  -> pwm_interrupt_disable
      [] op = "cpu_interrupt_enable"   -> cpu_interrupt_enable
      [] op = "plic_interrupt_enable"  -> plic_interrupt_enable
      [] op = "clint_interrupt_timer_enable"    -> clint_interrupt_timer_enable
      [] op = "clint_interrupt_software_enable" -> clint_interrupt_software_enable
      [] op = "aon_rtc_next_wake_time" -> aon_rtc_next_wake_time
      [] OTHER -> <<>>

\* The sources a call may be about; the CPU-wide calls are about none.
Targets(op) ==
    {s \in Sources :
       \/ op \in {"gpio_interrupt_enable", "gpio_interrupt_disable"} /\ IsGpio(s)
       \/ op = "uart_interrupt_disable" /\ s \in {INT_UART0_BASE, INT_UART0_BASE + 1}
       \/ op \in {"spi_interrupt_enable", "spi_interrupt_disable"} /\ s = INT_SPI1_BASE
       \/ op \in {"i2c_interrupt_enable", "i2c_interrupt_disable"} /\ s = INT_I2C_BASE
       \/ op \in {"pwm_interrupt_enable", "pwm_interrupt_disable"}
            /\ IsPwm(s) /\ (s - INT_PWM0_BASE) % 4 # 0}
    \cup (IF op \in CpuCalls THEN {0} ELSE {})

-----------------------------------------------------------------------------
VARIABLES
    fg,         \* the call the foreground is in and the write it does next
    handler,    \* slots of irq_functions whose irq_handler is not NULL
    active,     \* slots of irq_functions whose active field is 1
    MIE,        \* mstatus.MIE
    mie,        \* the enabled causes of the mie CSR
    mtvec,      \* "boot", or "isr" once the service routine is installed
    enable,     \* the bits set in the two PLIC enable words
    prio,       \* the PLIC priority register of every source
    pending,    \* the sources the PLIC gateway has latched
    inflight,   \* the sources claimed and not completed
    ip,         \* device interrupt-pending bits, as <<source, kind>>
    ie,         \* device interrupt-enable bits, as <<source, kind>>
    mtip,       \* the CLINT timer compare has matched
    isr         \* the service routine: pc, the claimed source, the bits read

vars == <<fg, handler, active, MIE, mie, mtvec, enable, prio, pending,
          inflight, ip, ie, mtip, isr>>

table   == <<handler, active>>
csrs    == <<MIE, mie, mtvec>>
plic    == <<enable, prio, pending, inflight>>
devices == <<ip, ie, mtip>>

Idle    == [op |-> "idle", slot |-> 0, prio |-> 0, kind |-> "IE", step |-> 1]
NoTrap  == [pc |-> "none", claim |-> 0, taken |-> {}]

Init ==
    /\ fg = Idle
    /\ handler = {} /\ active = {}
    /\ MIE = FALSE /\ mie = {} /\ mtvec = "boot"
    /\ enable = {} /\ prio = [s \in Sources |-> 0]
    /\ pending = {} /\ inflight = {}
    /\ ip = {} /\ ie = {} /\ mtip = FALSE
    /\ isr = NoTrap

-----------------------------------------------------------------------------
(* The foreground.                                                         *)

\* Mutant: cpu_interrupt_enable does not look at MIE.
CallUnchecked(op) ==
    /\ isr.pc = "none"
    /\ fg.op = "idle"
    /\ \E s \in Targets(op), p \in (IF op \in EnableCalls THEN Prios ELSE {0}) :
         \E k \in KindsOf(s) :
           /\ op = "gpio_interrupt_enable" => p <= PLIC_ENABLE_SHIFT_PER_TARGET
           /\ fg' = [op |-> op, slot |-> s, prio |-> p, kind |-> k, step |-> 1]
    /\ UNCHANGED <<table, csrs, plic, devices, isr>>

\* A call enters after its early returns: gpio_interrupt_enable alone checks
\* the priority, and cpu_interrupt_enable refuses when MIE is already set.
Call(op) ==
    /\ isr.pc = "none"
    /\ fg.op = "idle"
    /\ op = "cpu_interrupt_enable" => ~MIE
    /\ \E s \in Targets(op), p \in (IF op \in EnableCalls THEN Prios ELSE {0}) :
         \E k \in KindsOf(s) :
           /\ op = "gpio_interrupt_enable" => p <= PLIC_ENABLE_SHIFT_PER_TARGET
           /\ fg' = [op |-> op, slot |-> s, prio |-> p, kind |-> k, step |-> 1]
    /\ UNCHANGED <<table, csrs, plic, devices, isr>>

\* The foreground performs write w of the call it is in.
Writes(w) ==
    /\ isr.pc = "none"
    /\ fg.op # "idle"
    /\ Program(fg.op)[fg.step] = w
    /\ fg' = IF fg.step = Len(Program(fg.op)) THEN Idle
             ELSE [fg EXCEPT !.step = @ + 1]
    /\ UNCHANGED isr

WriteHandler ==
    /\ \/ Writes("handler=isr")  /\ handler' = handler \cup {fg.slot}
       \/ Writes("handler=NULL") /\ handler' = handler \ {fg.slot}
    /\ UNCHANGED <<active, csrs, plic, devices>>

WriteActive ==
    /\ \/ Writes("active=1") /\ active' = active \cup {fg.slot}
       \/ Writes("active=0") /\ active' = active \ {fg.slot}
    /\ UNCHANGED <<handler, csrs, plic, devices>>

WritePlicEnable ==
    /\ \/ Writes("ENABLE|=")  /\ \E m \in EnableMasks(fg.slot) : enable' = enable \cup m
       \/ Writes("ENABLE&=~") /\ \E m \in EnableMasks(fg.slot) : enable' = enable \ m
       \/ Writes("ENABLE=0")  /\ enable' = {}
    /\ UNCHANGED <<table, csrs, prio, pending, inflight, devices>>

\* A priority register keeps three bits of what is written.
WritePlicPriority ==
    /\ Writes("PRIORITY=prio")
    /\ prio' = [prio EXCEPT ![fg.slot] = fg.prio % 8]
    /\ UNCHANGED <<table, csrs, enable, pending, inflight, devices>>

WriteDeviceIE ==
    /\ \/ Writes("IE|=")  /\ ie' = ie \cup {<<fg.slot, fg.kind>>}
       \/ Writes("IE&=~") /\ ie' = ie \ {<<fg.slot, fg.kind>>}
    /\ UNCHANGED <<table, csrs, plic, ip, mtip>>

WriteMstatus ==
    /\ \/ Writes("mstatus=0")   /\ MIE' = FALSE
       \/ Writes("mstatus=MIE") /\ MIE' = TRUE
    /\ UNCHANGED <<table, mie, mtvec, plic, devices>>

WriteMie ==
    /\ \/ Writes("mie=0")      /\ mie' = {}
       \/ Writes("mie|=MEIE")  /\ mie' = mie \cup {"MEIE"}
       \/ Writes("mie|=MTIE")  /\ mie' = mie \cup {"MTIE"}
       \/ Writes("mie|=MSIE")  /\ mie' = mie \cup {"MSIE"}
       \/ Writes("mie&=~MTIE") /\ mie' = mie \ {"MTIE"}
    /\ UNCHANGED <<table, MIE, mtvec, plic, devices>>

WriteMtvec ==
    /\ Writes("mtvec=isr")
    /\ mtvec' = "isr"
    /\ UNCHANGED <<table, MIE, mie, plic, devices>>

\* A compare value in the future lowers the timer line.
WriteMtimecmp ==
    /\ Writes("MTIMECMP")
    /\ mtip' = FALSE
    /\ UNCHANGED <<table, csrs, plic, ip, ie>>

Foreground ==
    \/ WriteHandler \/ WriteActive \/ WritePlicEnable \/ WritePlicPriority
    \/ WriteDeviceIE \/ WriteMstatus \/ WriteMie \/ WriteMtvec \/ WriteMtimecmp

-----------------------------------------------------------------------------
(* The devices and the PLIC gateway.                                       *)

\* A device event sets its pending bit whether or not it is enabled.
DeviceEvent(s) ==
    /\ \E k \in KindsOf(s) :
         /\ <<s, k>> \notin ip
         /\ ip' = ip \cup {<<s, k>>}
    /\ UNCHANGED <<fg, table, csrs, plic, ie, mtip, isr>>

TimerExpire ==
    /\ ~mtip
    /\ mtip' = TRUE
    /\ UNCHANGED <<fg, table, csrs, plic, ip, ie, isr>>

\* The PWM has no enable register: its pending bits drive the line directly.
Line(s) == \E k \in KindsOf(s) : <<s, k>> \in ip /\ (IsPwm(s) \/ <<s, k>> \in ie)

\* The gateway forwards one request at a time from a high line.
GatewayLatch(s) ==
    /\ Line(s)
    /\ s \notin pending \cup inflight
    /\ pending' = pending \cup {s}
    /\ UNCHANGED <<fg, table, csrs, enable, prio, inflight, devices, isr>>

Candidates == {s \in pending \cap enable : prio[s] > 0}

-----------------------------------------------------------------------------
(* The service routine.                                                    *)

ExternalTrap == "MEIE" \in mie /\ Candidates # {}
TimerTrap    == "MTIE" \in mie /\ mtip

\* cpu.h compares mcause with each cause.  cpu.c tests mcause & 7 first, and
\* the external cause (11) passes that test, so nothing is claimed.
Decode(cause) ==
    IF Build = "source" THEN "mret"
    ELSE IF cause = "MEI" THEN "claim" ELSE "timer"

Trap ==
    /\ MIE /\ mtvec = "isr" /\ isr.pc = "none"
    /\ ExternalTrap \/ TimerTrap
    /\ MIE' = FALSE
    /\ isr' = [isr EXCEPT !.pc = Decode(IF ExternalTrap THEN "MEI" ELSE "MTI")]
    /\ UNCHANGED <<fg, table, mie, mtvec, plic, devices>>

\* An interrupt before the service routine is installed leaves the program.
WildTrap ==
    /\ MIE /\ mtvec = "boot" /\ isr.pc = "none"
    /\ ExternalTrap \/ TimerTrap
    /\ isr' = [isr EXCEPT !.pc = "wild"]
    /\ UNCHANGED <<fg, table, csrs, plic, devices>>

\* The claim returns the highest priority, then the lowest number, or 0.
IsBest(s) == \A t \in Candidates : prio[t] < prio[s] \/ (prio[t] = prio[s] /\ s <= t)

Claim ==
    /\ isr.pc = "claim"
    /\ \/ /\ Candidates = {}
          /\ isr' = [isr EXCEPT !.pc = "dispatch", !.claim = 0]
          /\ UNCHANGED <<pending, inflight>>
       \/ \E s \in Candidates :
            /\ IsBest(s)
            /\ isr' = [isr EXCEPT !.pc = "dispatch", !.claim = s]
            /\ pending' = pending \ {s}
            /\ inflight' = inflight \cup {s}
    /\ UNCHANGED <<fg, table, csrs, enable, prio, devices>>

\* int_number = claim - 1: the slot the routine looks at.
IntNumber(claim) == claim - 1

Dispatch ==
    /\ isr.pc = "dispatch"
    /\ LET n == IntNumber(isr.claim) IN
         isr' = [isr EXCEPT !.pc = IF n \notin active THEN "complete"
                                   ELSE IF n \in handler THEN "handler" ELSE "null"]
    /\ UNCHANGED <<fg, table, csrs, plic, devices>>

\* main.c's handler: reads GPIO_FALL_IP into taken, then writes taken back.
HandlerRead ==
    /\ isr.pc = "handler"
    /\ isr' = [isr EXCEPT !.pc = "ack",
                          !.taken = {s \in Sources : IsGpio(s) /\ <<s, "FALL">> \in ip}]
    /\ UNCHANGED <<fg, table, csrs, plic, devices>>

\* Mutant: taken is not written back.
HandlerAckForgotten ==
    /\ isr.pc = "ack"
    /\ isr' = [isr EXCEPT !.pc = "complete"]
    /\ UNCHANGED <<fg, table, csrs, plic, devices>>

HandlerAck ==
    /\ isr.pc = "ack"
    /\ isr' = [isr EXCEPT !.pc = "complete"]
    /\ ip' = ip \ {<<s, "FALL">> : s \in isr.taken}
    /\ UNCHANGED <<fg, table, csrs, plic, ie, mtip>>

\* Mutant: the table index is completed instead of the claim.
CompleteIndex ==
    /\ isr.pc = "complete"
    /\ isr' = [isr EXCEPT !.pc = "mret"]
    /\ inflight' = IF IntNumber(isr.claim) \in enable
                   THEN inflight \ {IntNumber(isr.claim)} ELSE inflight
    /\ UNCHANGED <<fg, table, csrs, enable, prio, pending, devices>>

\* The PLIC ignores a completion for a source that is not enabled.
Complete ==
    /\ isr.pc = "complete"
    /\ isr' = [isr EXCEPT !.pc = "mret"]
    /\ inflight' = IF isr.claim \in enable THEN inflight \ {isr.claim} ELSE inflight
    /\ UNCHANGED <<fg, table, csrs, enable, prio, pending, devices>>

\* main.c's clint_timer_interrupt_handler only sets taken.
TimerHandler ==
    /\ isr.pc = "timer"
    /\ isr' = [isr EXCEPT !.pc = "mret"]
    /\ UNCHANGED <<fg, table, csrs, plic, devices>>

Return ==
    /\ isr.pc = "mret"
    /\ isr' = NoTrap
    /\ MIE' = TRUE
    /\ UNCHANGED <<fg, table, mie, mtvec, plic, devices>>

ServiceRoutine ==
    \/ Trap \/ WildTrap \/ Claim \/ Dispatch \/ HandlerRead \/ HandlerAck
    \/ Complete \/ TimerHandler \/ Return

Next ==
    \/ \E op \in Calls : Call(op)
    \/ Foreground
    \/ \E s \in Sources : DeviceEvent(s) \/ GatewayLatch(s)
    \/ TimerExpire
    \/ ServiceRoutine

Spec == Init /\ [][Next]_vars

(***************************************************************************)
(* The hart executes: a started call and a running service routine take     *)
(* their next step, and the gateway forwards a high line.  Nothing is       *)
(* assumed of the devices or of whether the program makes another call.     *)
(***************************************************************************)
FairSpec ==
    /\ Spec
    /\ WF_vars(Foreground)
    /\ WF_vars(ServiceRoutine)
    /\ \A s \in Sources : WF_vars(GatewayLatch(s))

-----------------------------------------------------------------------------
(* Properties.                                                             *)

ForegroundOK ==
    /\ fg \in [op : Calls \cup {"idle"}, slot : Sources \cup {0}, prio : Prios \cup {0},
               kind : AllKinds, step : 1 .. 6]
    /\ fg.op # "idle" => fg.slot \in Targets(fg.op) /\ fg.step <= Len(Program(fg.op))
TableOK  == handler \subseteq Sources /\ active \subseteq Sources
CsrOK    == MIE \in BOOLEAN /\ mie \subseteq {"MEIE", "MTIE", "MSIE"} /\ mtvec \in {"boot", "isr"}
PlicOK   == /\ enable \subseteq Bits /\ prio \in [Sources -> 0 .. 7]
            /\ pending \subseteq Sources /\ inflight \subseteq Sources
DeviceOK == /\ ip \subseteq Sources \X AllKinds /\ ie \subseteq Sources \X AllKinds
            /\ mtip \in BOOLEAN
RoutineOK == isr \in [pc : {"none", "claim", "dispatch", "handler", "ack", "null",
                            "complete", "timer", "mret", "wild"},
                      claim : Sources \cup {0}, taken : SUBSET Sources]

TypeOK == ForegroundOK /\ TableOK /\ CsrOK /\ PlicOK /\ DeviceOK /\ RoutineOK

\* The foreground is in a disable call whose next write clears slot n's active field.
Clearing(n) ==
    /\ fg.op \in DisableCalls
    /\ fg.slot = n
    /\ Program(fg.op)[fg.step] = "active=0"

\* The service routine calls through a NULL irq_handler only when it preempts
\* a disable call of that very slot between its two table writes; in every
\* other state an active slot has a handler (gpio.c:176-177, plic.h:86-89).
NullCallOnlyMidDisable ==
    isr.pc = "null" => Clearing(IntNumber(isr.claim))

\* A source that is enabled in the PLIC has its handler installed and active,
\* except while its own disable call is between the table and the PLIC: the
\* drivers' order of writes never lets an interrupt in before its handler.
\* Bits that PWM and I2C set by mistake are excepted.
ReadyBeforeEnabled ==
    \A s \in enable \ Stray :
        \/ s \in active \cap handler
        \/ fg.slot = s /\ fg.op \in {"gpio_interrupt_disable", "uart_interrupt_disable"}

\* A claim is never empty, so claim - 1 is an index into the table, and the
\* claimed source is still enabled when it is completed, so that the PLIC
\* accepts the completion; no source stays claimed once the routine is left.
ClaimsBalance ==
    /\ isr.pc \in {"dispatch", "handler", "ack", "null", "complete"} =>
          /\ isr.claim \in Sources \cap enable
          /\ inflight = {isr.claim}
    /\ isr.pc \in {"none", "claim", "timer", "mret", "wild"} => inflight = {}

\* The routine never runs between the first and the last write of a call that
\* reprograms mie or the PLIC enables with mstatus.MIE off, and the timer
\* interrupt never while aon_rtc_next_wake_time has MTIE off (plic.h:58-69,
\* clint.h:36-44, aon.h:153-165).
NoTrapWhileReprogramming ==
    isr.pc # "none" =>
        /\ fg.op \in {"plic_interrupt_enable", "clint_interrupt_timer_enable",
                      "clint_interrupt_software_enable"} => fg.step = 1
        /\ fg.op = "aon_rtc_next_wake_time" /\ isr.pc = "timer" => fg.step = 1

\* MIE is on, or about to be, and no service routine is installed.
VectorLost == mtvec = "boot" /\ (MIE \/ (fg.op \in CpuCalls /\ fg.step > 1
    /\ Program(fg.op)[1] = "mstatus=0"))

\* Once a CLINT or PLIC call has set MIE before cpu_interrupt_enable, that
\* call refuses for ever and the service routine is never installed.
LostVectorIsForGood == [][VectorLost => VectorLost']_vars

\* Once the devices are quiet and every outstanding source is one whose
\* dispatched slot has a handler, every call the foreground started returns:
\* acknowledged interrupts cannot starve it.
CallsReturn ==
    /\ <>[][~ (TimerExpire \/ \E s \in Sources : DeviceEvent(s))]_vars
    /\ <>[](isr.pc # "wild" /\ \A s \in pending \cup inflight : IntNumber(s) \in active \cap handler)
    => (fg.op # "idle" ~> fg.op = "idle")

\* A claim of a source whose handler is registered calls a handler before it
\* is completed (gpio.h:183 asks the handler to acknowledge the interrupt).
RegisteredSourceIsHandled ==
    [][isr.pc = "dispatch" /\ isr'.pc = "complete" => isr.claim \notin active \cap handler]_vars

\* An enable call returns with the PLIC enable bit of its own source set
\* (plic.h:10: one bit per source).
EnablesOwnSource ==
    [][fg.op \in EnableCalls /\ fg'.op = "idle" => fg.slot \in enable']_vars
=============================================================================
