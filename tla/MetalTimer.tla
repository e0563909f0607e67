------------------------------ MODULE MetalTimer ------------------------------
(***************************************************************************)
(* The machine timer of freedom-metal: mtime is read and mtimecmp written   *)
(* in two words (riscv_clint0.c) by the foreground and by the timer's       *)
(* handler.  With handler "flag" the program is one of the two demos: their *)
(* wait_for_timer arms the timer, enables its interrupt and waits for a     *)
(* flag.  With "default" it moves the compare value while the interrupt is  *)
(* enabled and the handler of riscv_cpu.c moves it too.                     *)
(***************************************************************************)
EXTENDS Integers

CONSTANTS
    W,              \* the values of one word
    MaxHi,          \* the bound on the high word of mtime
    TimerHandlers,  \* the handlers programs use, of "flag" and "default"
    RtcFreq,        \* RTC_FREQ
    Again,          \* the 10 ticks of __metal_default_timer_handler
    Moves           \* how far ahead a program sets the compare value

ASSUME WordAssumption    == W \in Nat \ {0} /\ MaxHi \in Nat
ASSUME TimerAssumption   == {RtcFreq, Again} \subseteq Nat /\ Moves \subseteq Nat
ASSUME HandlerAssumption == TimerHandlers \subseteq {"flag", "default"}

TimerActors == {"main", "isr"}

VARIABLES
    tinits,         \* the controllers that are initialised, of "cpu" and "clint"
    sub_int,        \* metal_int_table[7].sub_int # NULL
    clint_first,    \* the CLINT was initialised before the hart's controller (history)
    mt,             \* mtime, as its two words
    cmpr,           \* mtimecmp
    tie,            \* mie.MTIE
    handler,        \* the registered handler
    tcall,          \* the access to the timer each actor is in the middle of
    wpc,            \* main: "setup", "idle", "wait" or "set" in mtimecmp_set, "enable", "enabled", "spin"
    timer_isr_flag,
    tisr,           \* the handler: "none", "entered", "timer", "leaving"
    asked,          \* the value of the last write of mtimecmp that finished (history)
    armed           \* there has been a wait (history)

setUp     == <<tinits, sub_int, clint_first>>
timerVars == <<setUp, mt, cmpr, tie, handler, tcall, wpc, timer_isr_flag, tisr, asked, armed>>

Word     == 0 .. W - 1
Leq(s, t) == s.hi < t.hi \/ (s.hi = t.hi /\ s.lo <= t.lo)
Plus(t, d) == [hi |-> t.hi + (t.lo + d) \div W, lo |-> (t.lo + d) % W]
Count(t)  == t.hi * W + t.lo

\* The bound on the clock.
Latest == [hi |-> MaxHi, lo |-> W - 1]

\* 0xFFFFFFFF: above every high word that occurs.
Ones == MaxHi + 2

Resting == [step |-> "none", ahead |-> 0, t |-> [hi |-> 0, lo |-> 0], from |-> [hi |-> 0, lo |-> 0]]

TimerInit ==
    /\ mt = [hi |-> 0, lo |-> 0] /\ cmpr = [hi |-> 0, lo |-> 0] /\ asked = cmpr
    /\ handler \in TimerHandlers /\ tie = FALSE
    /\ tcall = [a \in TimerActors |-> Resting]
    /\ tinits = {} /\ sub_int = FALSE /\ clint_first = FALSE
    /\ wpc = "setup" /\ timer_isr_flag = 0 /\ tisr = "none" /\ armed = FALSE

TimerRuns(a) == IF a = "main" THEN tisr = "none" ELSE tisr = "timer"

AtStep(a, s) == TimerRuns(a) /\ tcall[a].step = s

\* A read of mtime, to be followed by a write of mtimecmp `ahead' of it.
ReadFor(a, d) ==
    tcall' = [tcall EXCEPT ![a] = [step |-> "hi", ahead |-> d, t |-> [hi |-> 0, lo |-> 0], from |-> mt]]

-----------------------------------------------------------------------------
(* The initialisers of the hart's controller and of the CLINT, in any order *)
(* and the first again later on; then the program registers its handler.    *)

clockAndUser == <<mt, cmpr, tie, handler, tcall, wpc, timer_isr_flag, tisr, asked, armed>>
CpuInitialised        == "cpu" \in tinits

cpu_vectors_init ==
    /\ tisr = "none" /\ wpc \in {"setup", "idle"}
    /\ tinits' = tinits \cup {"cpu"}
    /\ sub_int' = (sub_int /\ CpuInitialised)
    /\ clint_first' = (clint_first \/ ("clint" \in tinits /\ "cpu" \notin tinits))
    /\ UNCHANGED clockAndUser

clint0_init ==
    /\ wpc = "setup" /\ "clint" \notin tinits
    /\ tinits' = tinits \cup {"clint"} /\ sub_int' = TRUE
    /\ UNCHANGED <<clint_first, clockAndUser>>

\* The default handler is what clint0_init has registered, together with sub_int.
clint0_register ==
    /\ wpc = "setup" /\ tinits = {"cpu", "clint"} /\ (handler = "flag" \/ sub_int)
    /\ wpc' = "idle" /\ tie' = (handler = "default")
    /\ UNCHANGED <<setUp, mt, cmpr, handler, tcall, timer_isr_flag, tisr, asked, armed>>

TimerSetUp == cpu_vectors_init \/ clint0_init \/ clint0_register

-----------------------------------------------------------------------------
(* __metal_clint0_mtime_get; mcycle_get reads mcycle in the same way.       *)

LoadHigh(a) ==
    /\ AtStep(a, "hi")
    /\ tcall' = [tcall EXCEPT ![a].step = "lo", ![a].t.hi = mt.hi]
    /\ UNCHANGED <<setUp, mt, cmpr, tie, handler, wpc, timer_isr_flag, tisr, asked, armed>>

LoadLow(a) ==
    /\ AtStep(a, "lo")
    /\ tcall' = [tcall EXCEPT ![a].step = "check", ![a].t.lo = mt.lo]
    /\ UNCHANGED <<setUp, mt, cmpr, tie, handler, wpc, timer_isr_flag, tisr, asked, armed>>

Consistent(a)      == mt.hi = tcall[a].t.hi

CheckHigh(a) ==
    /\ AtStep(a, "check")
    /\ IF Consistent(a)
       THEN tcall' = [tcall EXCEPT ![a].step = "max"]
       ELSE tcall' = [tcall EXCEPT ![a].step = "hi", ![a].t = Resting.t]
    /\ UNCHANGED <<setUp, mt, cmpr, tie, handler, wpc, timer_isr_flag, tisr, asked, armed>>

-----------------------------------------------------------------------------
(* __metal_driver_riscv_clint0_mtimecmp_set.                                *)

Goal(a) == Plus(tcall[a].t, tcall[a].ahead)

\* The high word that is stored before the low one.  Mutant: _none leaves the
\* old one there.
FirstHigh_none == cmpr.hi
FirstHigh      == Ones

StoreMax(a) ==
    /\ AtStep(a, "max")
    /\ cmpr' = [cmpr EXCEPT !.hi = FirstHigh]
    /\ tcall' = [tcall EXCEPT ![a].step = "storelo"]
    /\ UNCHANGED <<setUp, mt, tie, handler, wpc, timer_isr_flag, tisr, asked, armed>>

StoreLow(a) ==
    /\ AtStep(a, "storelo")
    /\ cmpr' = [cmpr EXCEPT !.lo = Goal(a).lo]
    /\ tcall' = [tcall EXCEPT ![a].step = "storehi"]
    /\ UNCHANGED <<setUp, mt, tie, handler, wpc, timer_isr_flag, tisr, asked, armed>>

StoreHigh(a) ==
    /\ AtStep(a, "storehi")
    /\ cmpr' = [cmpr EXCEPT !.hi = Goal(a).hi]
    /\ asked' = Goal(a)
    /\ tcall' = [tcall EXCEPT ![a] = Resting]
    /\ wpc' = IF a = "main" THEN (IF wpc = "wait" THEN "enable" ELSE "idle") ELSE wpc
    /\ tisr' = IF a = "isr" THEN "leaving" ELSE tisr
    /\ UNCHANGED <<setUp, mt, tie, handler, timer_isr_flag, armed>>

TimerAccess(a) ==
    \/ LoadHigh(a) \/ LoadLow(a) \/ CheckHigh(a)
    \/ StoreMax(a) \/ StoreLow(a) \/ StoreHigh(a)

-----------------------------------------------------------------------------
(* The demos' wait_for_timer, and a program that moves the compare value.   *)
(* Without sub_int the clock reads 0 and mtimecmp is left alone.            *)

wait_for_timer ==
    /\ tisr = "none" /\ wpc = "idle" /\ handler = "flag"
    /\ timer_isr_flag' = 0
    /\ IF sub_int THEN wpc' = "wait" /\ armed' = TRUE /\ ReadFor("main", RtcFreq)
       ELSE wpc' = "enable" /\ UNCHANGED <<tcall, armed>>
    /\ UNCHANGED <<setUp, mt, cmpr, tie, handler, tisr, asked>>

EnableTimer ==
    /\ tisr = "none" /\ wpc = "enable"
    /\ tie' = TRUE /\ wpc' = "enabled"
    /\ UNCHANGED <<setUp, mt, cmpr, handler, tcall, timer_isr_flag, tisr, asked, armed>>

StartLoop ==
    /\ tisr = "none" /\ wpc = "enabled"
    /\ wpc' = "spin"
    /\ UNCHANGED <<setUp, mt, cmpr, tie, handler, tcall, timer_isr_flag, tisr, asked, armed>>

WaitForFlag ==
    /\ tisr = "none" /\ wpc = "spin" /\ timer_isr_flag = 1
    /\ timer_isr_flag' = 0 /\ wpc' = "idle"
    /\ UNCHANGED <<setUp, mt, cmpr, tie, handler, tcall, tisr, asked, armed>>

SetMachineTime ==
    /\ tisr = "none" /\ wpc = "idle" /\ handler = "default"
    /\ wpc' = "set" /\ \E d \in Moves : ReadFor("main", d)
    /\ UNCHANGED <<setUp, mt, cmpr, tie, handler, timer_isr_flag, tisr, asked, armed>>

MainTimer == wait_for_timer \/ EnableTimer \/ StartLoop \/ WaitForFlag \/ TimerAccess("main")

-----------------------------------------------------------------------------
(* The clock and its interrupt.                                             *)

TimerTick ==
    /\ mt # Latest
    /\ mt' = Plus(mt, 1)
    /\ UNCHANGED <<setUp, cmpr, tie, handler, tcall, wpc, timer_isr_flag, tisr, asked, armed>>

TimerTrap ==
    /\ tisr = "none" /\ tie /\ Leq(cmpr, mt)
    /\ tisr' = "entered"
    /\ UNCHANGED <<setUp, mt, cmpr, tie, handler, tcall, wpc, timer_isr_flag, asked, armed>>

\* timer_isr of the demos disables the interrupt; __metal_default_timer_handler
\* asks for another few ticks.
HandlerEnters ==
    /\ tisr = "entered"
    /\ IF handler = "flag"
       THEN tie' = FALSE /\ tisr' = "leaving" /\ UNCHANGED tcall
       ELSE tisr' = "timer" /\ ReadFor("isr", Again) /\ UNCHANGED tie
    /\ UNCHANGED <<setUp, mt, cmpr, handler, wpc, timer_isr_flag, asked, armed>>

HandlerLeaves ==
    /\ tisr = "leaving"
    /\ timer_isr_flag' = IF handler = "flag" THEN 1 ELSE timer_isr_flag
    /\ tisr' = "none"
    /\ UNCHANGED <<setUp, mt, cmpr, tie, handler, tcall, wpc, asked, armed>>

IsrTimer == TimerTrap \/ HandlerEnters \/ HandlerLeaves \/ TimerAccess("isr")

TimerNext == TimerSetUp \/ MainTimer \/ SetMachineTime \/ TimerTick \/ IsrTimer

TimerSpec == TimerInit /\ [][TimerNext]_timerVars

-----------------------------------------------------------------------------
(* riscv_clint0.c:19-27: the time that is read was the clock's at some      *)
(* moment of the call, although its words wrap while they are read.         *)
TimeReadIsCurrent ==
    \A a \in TimerActors : tcall[a].step \in {"max", "storelo", "storehi"}
        => Leq(tcall[a].from, tcall[a].t) /\ Leq(tcall[a].t, mt)

(* riscv_clint0.c:39-53: between two writes the compare value is the last   *)
(* one asked for, whole, although the handler that writes it too may        *)
(* preempt the foreground's write.                                          *)
CompareIsWhole ==
    (\A a \in TimerActors : tcall[a].step \notin {"storelo", "storehi"}) => cmpr = asked

(* riscv_clint0.c:39-53: a write of mtimecmp never triggers an interrupt    *)
(* that is due neither by the old value nor by the new one.                 *)
NoSpuriousTrap == [][tisr = "none" /\ tisr' = "entered" => Leq(asked, mt)]_timerVars

(* HCSR04:36-50, HCSR501:65-90: what wait_for_timer asks of the timer is    *)
(* the alarm of aon.h's contract, and not even late by more than the call   *)
(* took: both words are read together.                                      *)
Waits == handler = "flag" /\ sub_int

Wanted == INSTANCE Alarm WITH
    WordSize <- 0, Delays <- {RtcFreq},
    clock    <- Count(mt),
    mode     <- IF wpc = "wait" THEN "requested" ELSE IF armed THEN "set" ELSE "off",
    due      <- IF wpc = "wait" THEN Count(tcall["main"].from) + RtcFreq
                ELSE IF Waits THEN Count(cmpr) ELSE 0,
    delay    <- IF wpc = "wait" THEN RtcFreq ELSE 0,
    ringing  <- Waits /\ tisr # "none"

WaitIsAnAlarm == Wanted!Spec

(* HCSR04:47: the interrupt may come before the loop starts, and its flag   *)
(* still ends the wait, unless the model's clock stops before it is due.    *)
WaitEnds == (wpc = "spin" /\ Leq(cmpr, Latest)) ~> wpc = "idle"

(* riscv_clint0.c:19-53: 64-bit times in registers of 32 bits.              *)
TimeIsWhole == [](TimeReadIsCurrent /\ CompareIsWhole) /\ NoSpuriousTrap

(* HCSR04:34-52: a wait that the timer handler ends is on time, and ends.   *)
WaitsKeepTime == WaitIsAnAlarm /\ WaitEnds
=============================================================================
