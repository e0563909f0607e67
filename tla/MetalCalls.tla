------------------------------- MODULE MetalCalls -------------------------------
(***************************************************************************)
(* metal/interrupt.h and metal/cpu.h: calls on a controller go through the   *)
(* slots of its vtable, and those on the hart through the sub-controllers    *)
(* that were registered for its lines.  Any call on any controller in any     *)
(* order, and what it answers; handlers and traps are those of MetalTraps     *)
(* and MetalInterrupts.  An answer is a result, or -1 for any error.          *)
(***************************************************************************)
EXTENDS Integers

CONSTANTS
    CallLines,      \* lines of the hart whose bits of mie are followed
    CallSources,    \* sources of the PLIC
    CallLevels,     \* thresholds and priorities that programs set
    CallTimes       \* values of the comparator that programs set; it is 0 at first

ASSUME CallAssumption ==
    /\ CallLines \subseteq {3, 7, 11} \cup 16 .. 31
    /\ CallSources \subseteq 1 .. 52 /\ CallLevels \subseteq Nat /\ CallTimes \subseteq Nat

VARIABLES
    initDone,       \* the controllers that are initialised
    sub_int,        \* of the software and the timer line: "NULL", "clint" or "data", the program's own
    csrs,           \* mtvec's mode ("early" is direct, too), mie, and mstatus.MIE over all of it
    plic0,          \* priorities, threshold and enable word of hart 0
    clint0,         \* MSIP and the comparator
    says,           \* the answer of the call that has just been made
    callEnded       \* "no", "NULL" (a call through a slot that is not there) or "wild" (through the program's data)

callVars == <<initDone, sub_int, csrs, plic0, clint0, says, callEnded>>

Silence == -2

-----------------------------------------------------------------------------
(* The vtables.                                                             *)

metal_interrupt_vtable == {
    "init", "set_vector_mode", "get_vector_mode", "set_privilege", "get_privilege", "clear", "set", "register",
    "vector_register", "enable", "disable", "vector_enable", "vector_disable", "get_threshold", "set_threshold",
    "get_priority", "set_priority", "get_preemptive_level", "set_preemptive_level", "command_request", "mtimecmp_set",
    "affinity_enable", "affinity_disable", "affinity_set_threshold", "affinity_get_threshold"}

vtable_riscv_cpu_intc ==
    {"init", "register", "enable", "disable", "get_vector_mode", "set_vector_mode", "command_request"}
vtable_riscv_clint0 ==
    vtable_riscv_cpu_intc \cup {"vector_register", "clear", "set", "mtimecmp_set"}
vtable_riscv_plic0 ==
    {"init", "register", "enable", "disable", "get_threshold", "set_threshold", "get_priority", "set_priority",
     "affinity_enable", "affinity_disable", "affinity_set_threshold", "affinity_get_threshold"}

vtable(c) == CASE c = "cpu" -> vtable_riscv_cpu_intc [] c = "clint" -> vtable_riscv_clint0 [] c = "plic" -> vtable_riscv_plic0

\* The handles: those that the hart gives, and the PLIC's.
interrupt_controller          == "cpu"
timer_interrupt_controller    == "clint"
software_interrupt_controller == "clint"
CallControllers == {interrupt_controller, timer_interrupt_controller, software_interrupt_controller, "plic"}

\* How they are linked into the image.
CallInit ==
    /\ initDone = {} /\ sub_int = [l \in {3, 7} |-> "NULL"]
    /\ csrs = [mode |-> "early", lines |-> {}, global |-> FALSE]
    /\ plic0 = [priority |-> [s \in CallSources |-> 0], threshold |-> 0, enables |-> {}]
    /\ clint0 = [msip |-> FALSE, mtimecmp |-> 0]
    /\ says = Silence /\ callEnded = "no"

\* The program makes its next call when it has the answer of the last.
MayCall == says = Silence /\ callEnded = "no"
Call(slot, c, answer) == MayCall /\ c \in CallControllers /\ slot \in vtable(c) /\ says' = answer /\ UNCHANGED callEnded

\* Calls about lines and modes do the same on the hart's controller and on the CLINT.
LineControllers == {interrupt_controller, timer_interrupt_controller}
CallLine(slot, answer) ==
    (\A c \in LineControllers : slot \in vtable(c)) /\ Call(slot, interrupt_controller, answer)

Links     == <<initDone, sub_int>>
Registers0 == <<csrs, plic0, clint0>>

HasAnswer ==
    /\ says # Silence /\ says' = Silence
    /\ UNCHANGED <<Links, Registers0, callEnded>>

\* A wrapper calls what the slot holds, whatever it is.
AbsentCall(slots) ==
    /\ MayCall /\ callEnded' = "NULL"
    /\ {c \in CallControllers : ~ (slots \subseteq vtable(c))} # {}
    /\ UNCHANGED <<Links, Registers0, says>>

\* Nothing on this board has a slot of these two kinds.
privilege     == AbsentCall({"set_privilege", "get_privilege"})
vector_enable == AbsentCall({"vector_enable", "vector_disable"})
Wrapped       == metal_interrupt_vtable \ {"mtimecmp_set", "get_preemptive_level", "set_preemptive_level"}
absent_slot   == AbsentCall(Wrapped)

\* The wrappers of these two look first.
preemptive_level ==
    /\ MayCall /\ says' = 0
    /\ UNCHANGED <<Links, Registers0, callEnded>>

-----------------------------------------------------------------------------
(* Initialisation and registration.                                         *)

CpuIsNew == "cpu" \notin initDone

\* That of the hart's controller, which the PLIC's also calls.
Cleared    == IF CpuIsNew THEN [l \in {3, 7} |-> "NULL"] ELSE sub_int
ModeThen   == IF CpuIsNew /\ csrs.mode = "early" THEN "direct" ELSE csrs.mode

init_cpu ==
    /\ Call("init", "cpu", 0)
    /\ initDone' = initDone \cup {"cpu"} /\ sub_int' = Cleared
    /\ csrs' = [csrs EXCEPT !.mode = ModeThen]
    /\ UNCHANGED <<plic0, clint0>>

init_clint ==
    /\ Call("init", "clint", 0)
    /\ sub_int' = IF "clint" \in initDone THEN sub_int ELSE [l \in {3, 7} |-> "clint"]
    /\ initDone' = initDone \cup {"clint"}
    /\ UNCHANGED Registers0

init_plic ==
    /\ Call("init", "plic", 0)
    /\ IF "plic" \in initDone THEN UNCHANGED <<Links, csrs, plic0>>
       ELSE /\ initDone' = initDone \cup {"cpu", "plic"} /\ sub_int' = Cleared
            /\ csrs' = [csrs EXCEPT !.mode = ModeThen, !.lines = @ \cup ({11} \cap CallLines)]
            /\ plic0' = [priority |-> [s \in CallSources |-> 0], threshold |-> 0, enables |-> {}]
    /\ UNCHANGED clint0

\* A line that is one of the controller's: of the CLINT only its two.
ValidLine(c, l) == l \in {3, 7} \cup CallLines /\ (c = "clint" => l \in {3, 7})

\* The bus error unit's line takes a handler while interrupts are not vectored.
Beu                == 128
Base               == 0
Registrable(c, l)  == ValidLine(c, l) \/ (c = "cpu" /\ l = Beu /\ csrs.mode # "vector")

\* NULL for a handler asks for the default one, and makes the data the sub-controller.
register_line ==
    \E l \in {Base, 3, 7, Beu} \cup CallLines :
        /\ \E accepted \in {Registrable(c, l) : c \in LineControllers} : CallLine("register", IF accepted THEN 0 ELSE -1)
        /\ IF l \in {3, 7}
           THEN \E priv \in {sub_int[l], "NULL", "clint", "data"} : sub_int' = [sub_int EXCEPT ![l] = priv]
           ELSE UNCHANGED sub_int
        /\ UNCHANGED <<initDone, Registers0>>

ValidSource(s) == s \in CallSources

register_source ==
    \E s \in CallSources \cup {53}, byDefault \in BOOLEAN :
        /\ Call("register", "plic", IF ValidSource(s) THEN 0 ELSE -1)
        /\ plic0' = IF ValidSource(s) THEN [plic0 EXCEPT !.priority[s] = IF byDefault THEN 1 ELSE 2] ELSE plic0
        /\ UNCHANGED <<Links, csrs, clint0>>

\* The CLINT has no vectors of its own.
vector_register ==
    /\ Call("vector_register", "clint", -1)
    /\ UNCHANGED <<Links, Registers0>>

-----------------------------------------------------------------------------
(* Modes and masks.                                                         *)

ModeNumber == IF csrs.mode = "vector" THEN 1 ELSE 0

\* Of the five modes, the hart's controller and the CLINT take two.
set_vector_mode_of ==
    \E mode \in {0, 1, 4} :
        /\ CallLine("set_vector_mode", IF mode \in {0, 1} THEN 0 ELSE -1)
        /\ csrs' = CASE mode = 0 -> [csrs EXCEPT !.mode = "direct"] [] mode = 1 -> [csrs EXCEPT !.mode = "vector"]
                     [] OTHER -> csrs
        /\ UNCHANGED <<Links, plic0, clint0>>

get_vector_mode_of ==
    /\ CallLine("get_vector_mode", ModeNumber)
    /\ UNCHANGED <<Links, Registers0>>

\* Line 0 of the hart's controller is the hart's own enable; of the CLINT it is none.
Maskable(c, l)    == ValidLine(c, l) \/ (c = "cpu" /\ l = Base)
AfterMask(slot, l) ==
    IF l = Base THEN [csrs EXCEPT !.global = (slot = "enable")]
    ELSE [csrs EXCEPT !.lines = IF slot = "enable" THEN @ \cup {l} ELSE @ \ {l}]

enable_line ==
    \E c \in LineControllers, l \in {Base, Beu} \cup CallLines, slot \in {"enable", "disable"} :
        /\ Call(slot, c, IF Maskable(c, l) THEN 0 ELSE -1)
        /\ csrs' = IF Maskable(c, l) THEN AfterMask(slot, l) ELSE csrs
        /\ UNCHANGED <<Links, plic0, clint0>>

AfterEnable(slot, s) == IF slot = "enable" THEN plic0.enables \cup {s} ELSE plic0.enables \ {s}

enable_source ==
    \E s \in CallSources \cup {53}, slot \in {"enable", "disable"} :
        /\ Call(slot, "plic", IF ValidSource(s) THEN 0 ELSE -1)
        /\ plic0' = IF ValidSource(s) THEN [plic0 EXCEPT !.enables = AfterEnable(slot, s)] ELSE plic0
        /\ UNCHANGED <<Links, csrs, clint0>>

AfterThreshold(level) == [plic0 EXCEPT !.threshold = level]
ThresholdNow          == plic0.threshold

set_threshold_of ==
    /\ \E level \in CallLevels : Call("set_threshold", "plic", 0) /\ plic0' = AfterThreshold(level)
    /\ UNCHANGED <<Links, csrs, clint0>>

get_threshold ==
    /\ Call("get_threshold", "plic", ThresholdNow)
    /\ UNCHANGED <<Links, Registers0>>

\* The highest priority that the description gives is not one that can be set.
max_priority == 7

Acceptable(level) == level < max_priority
PriorityNow(s)    == plic0.priority[s]

set_priority_of ==
    /\ \E s \in CallSources, level \in CallLevels \cup {max_priority} :
        /\ Call("set_priority", "plic", IF Acceptable(level) THEN 0 ELSE -1)
        /\ plic0' = IF Acceptable(level) THEN [plic0 EXCEPT !.priority[s] = level] ELSE plic0
    /\ UNCHANGED <<Links, csrs, clint0>>

get_priority ==
    /\ \E s \in CallSources : Call("get_priority", "plic", PriorityNow(s))
    /\ UNCHANGED <<Links, Registers0>>

\* The calls about a set of harts go through all contexts up to the highest of
\* the set, and leave out context 0, the only hart there is.
Contexts(bitmask) == {context \in 0 .. 31 : \E bit \in bitmask : context <= bit} \ {0}

AffinityEnables(bitmask, slot, s) ==
    IF 0 \in Contexts(bitmask) THEN AfterEnable(slot, s) ELSE plic0.enables
AffinityThreshold(bitmask, level) == IF 0 \in Contexts(bitmask) THEN level ELSE plic0.threshold

affinity_enable ==
    \E s \in CallSources \cup {53}, slot \in {"enable", "disable"} :
        /\ \/ slot = "enable"  /\ Call("affinity_enable", "plic", IF ValidSource(s) THEN 0 ELSE -1)
           \/ slot = "disable" /\ Call("affinity_disable", "plic", IF ValidSource(s) THEN 0 ELSE -1)
        /\ plic0' \in {[plic0 EXCEPT !.enables = AffinityEnables(bitmask, slot, s)] : bitmask \in {{0}, {1}}}
        /\ UNCHANGED <<Links, csrs, clint0>>

affinity_set_threshold ==
    /\ Call("affinity_set_threshold", "plic", 0)
    /\ plic0' \in {[plic0 EXCEPT !.threshold = AffinityThreshold(bitmask, level)] :
                      bitmask \in {{0}, {1}}, level \in CallLevels}
    /\ UNCHANGED <<Links, csrs, clint0>>

\* It reads the threshold and answers 0.
affinity_get_threshold ==
    /\ Call("affinity_get_threshold", "plic", 0)
    /\ UNCHANGED <<Links, Registers0>>

-----------------------------------------------------------------------------
(* The CLINT's registers, directly and through the hart.                    *)

\* set and clear are about MSIP, whatever line they are called for.
clint_clear ==
    /\ Call("clear", "clint", 0) /\ clint0' = [clint0 EXCEPT !.msip = FALSE]
    /\ UNCHANGED <<Links, csrs, plic0>>

clint_set ==
    /\ Call("set", "clint", 0) /\ clint0' = [clint0 EXCEPT !.msip = TRUE]
    /\ UNCHANGED <<Links, csrs, plic0>>

\* The time is 1 for any that is not 0; the last of the commands is the CLIC's.
Commands == {"MTIME_GET", "IPI_CLEAR", "IPI_SET", "MSIP_GET", "MAX_INTERRUPT_GET"}
Answer(cmd) ==
    CASE cmd = "MSIP_GET" /\ clint0.msip -> 1 [] cmd = "MAX_INTERRUPT_GET" -> -1 [] OTHER -> 0
AfterCommand(cmd) ==
    CASE cmd = "IPI_SET" -> [clint0 EXCEPT !.msip = TRUE] [] cmd = "IPI_CLEAR" -> [clint0 EXCEPT !.msip = FALSE]
      [] OTHER -> clint0

\* The hart's controller takes every command and does nothing.
command_request ==
    /\ \/ Call("command_request", "cpu", 0) /\ UNCHANGED clint0
       \/ \E cmd \in Commands : Call("command_request", "clint", Answer(cmd)) /\ clint0' = AfterCommand(cmd)
    /\ UNCHANGED <<Links, csrs, plic0>>

\* A call on the hart: what it is without a sub-controller, and with the CLINT.
HartCall(l, without, with, stores) ==
    /\ MayCall
    /\ says' = CASE sub_int[l] = "NULL" -> without [] sub_int[l] = "clint" -> with [] OTHER -> Silence
    /\ clint0' = IF sub_int[l] = "clint" THEN stores ELSE clint0
    /\ callEnded' = IF sub_int[l] = "data" THEN "wild" ELSE "no"
    /\ UNCHANGED <<Links, csrs, plic0>>

cpu_mtime_get      == HartCall(7, 0, 1, clint0)
cpu_mtimecmp_set   == \E t \in CallTimes : HartCall(7, -1, 0, [clint0 EXCEPT !.mtimecmp = t])
cpu_set_sw_ipi     == HartCall(3, -1, Answer("IPI_SET"), AfterCommand("IPI_SET"))
cpu_clear_sw_ipi   == HartCall(3, -1, Answer("IPI_CLEAR"), AfterCommand("IPI_CLEAR"))
cpu_get_msip       == HartCall(3, 0, Answer("MSIP_GET"), clint0)

CallNext ==
    \/ HasAnswer \/ privilege \/ vector_enable \/ absent_slot \/ preemptive_level
    \/ init_cpu \/ init_clint \/ init_plic \/ register_line \/ register_source \/ vector_register
    \/ set_vector_mode_of \/ get_vector_mode_of \/ enable_line \/ enable_source \/ set_threshold_of \/ get_threshold
    \/ set_priority_of \/ get_priority \/ affinity_enable \/ affinity_set_threshold \/ affinity_get_threshold
    \/ clint_clear \/ clint_set \/ command_request
    \/ cpu_mtime_get \/ cpu_mtimecmp_set \/ cpu_set_sw_ipi \/ cpu_clear_sw_ipi \/ cpu_get_msip

CallsSpec == CallInit /\ [][CallNext]_callVars

-----------------------------------------------------------------------------
(* Properties.                                                              *)

(* cpu.h:92: once the CLINT is initialised, the hart's calls about time and  *)
(* software interrupts find it, whatever else the program initialises,       *)
(* registers or enables, but for a default handler it asks for with data of  *)
(* its own, and for the first initialisation of the hart's controller, which *)
(* the PLIC's may be.                                                         *)
HartKeepsTheClint ==
    /\ \A l \in {3, 7} : sub_int[l] = "clint" /\ sub_int'[l] # "clint" => register_line \/ "cpu" \notin initDone
    /\ "clint" \in initDone' \ initDone => \A l \in {3, 7} : sub_int'[l] = "clint"

(* riscv_plic0.c:172: what a program sets stays until it is set again or its *)
(* controller initialised: an initialised controller is not reset by another *)
(* one's initialisation, calls about a set of harts leave this hart as it is,*)
(* only registering a handler changes a source's priority as well, and the   *)
(* hart's own enable is no line's.                                           *)
SettingsStay ==
    /\ plic0'.priority # plic0.priority   => set_priority_of \/ register_source \/ "plic" \notin initDone
    /\ plic0'.threshold # plic0.threshold => set_threshold_of \/ "plic" \notin initDone
    /\ plic0'.enables # plic0.enables     => enable_source \/ "plic" \notin initDone
    /\ csrs'.mode # csrs.mode             => set_vector_mode_of \/ csrs.mode = "early"
    /\ csrs'.lines # csrs.lines           => enable_line \/ "plic" \notin initDone
    /\ csrs'.global # csrs.global         => enable_line /\ csrs'.lines = csrs.lines
    /\ clint0'.mtimecmp # clint0.mtimecmp => sub_int[7] = "clint"

(* interrupt.h:264: a call that answers with an error has changed nothing,   *)
(* and neither has one that never came back.                                 *)
RefusedIsUndone == says' = -1 \/ callEnded' # "no" => UNCHANGED <<Links, Registers0>>

(* Calls reach what they are about, and nothing else.                        *)
CallsAreAnswered == [][HartKeepsTheClint /\ SettingsStay /\ RefusedIsUndone]_callVars
=============================================================================
