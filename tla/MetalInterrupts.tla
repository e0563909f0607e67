---------------------------- MODULE MetalInterrupts ----------------------------
(***************************************************************************)
(* The interrupt controllers of freedom-metal on one hart, riscv_cpu.c and  *)
(* riscv_plic0.c.  The program initialises them in any                      *)
(* order, registers, masks and unmasks while devices interrupt through the  *)
(* PLIC; the calls that take several accesses are split where an interrupt  *)
(* may fall.  MetalTimer models the CLINT.                                  *)
(***************************************************************************)
EXTENDS Naturals

CONSTANTS
    Sources,        \* PLIC sources, all in one enable word
    Thresholds      \* thresholds programs set

ASSUME SourcesAssumption == Sources \subseteq Nat \ {0} /\ Thresholds \subseteq 0 .. 7

Masks       == {"global", "ext"}            \* mstatus.MIE and mie.MEIE
Handlers    == {"NULL", "default", "user"}  \* of a source

VARIABLES
    mtvec,          \* "early", "direct" or "vector"
    masks,          \* the mask bits that are set
    cpuInitDone,      \* the controllers that are initialised
    ext_entry,      \* metal_int_table[11].handler
    exint,          \* of each source its handler, if the data are the handler's own, its priority
    threshold,
    enables,        \* the enable word
    pending,        \* sources that ask for service
    claimed,        \* sources whose gateway waits for a completion
    pcall,          \* what main is in the middle of
    isr,            \* the service routine: its place, source and the mode it came through
    stopped         \* "no", or how the program came to an end

intVars  == <<mtvec, masks, cpuInitDone, ext_entry, exint, threshold,
              enables, pending, claimed, pcall, isr, stopped>>
cpuRegs  == <<mtvec, masks>>
entries  == <<cpuInitDone, ext_entry>>
sources  == <<exint, threshold, enables>>
gateways == <<pending, claimed>>
trapping == <<isr, stopped>>

NoSource == [handler |-> "NULL", own |-> FALSE, priority |-> 0]
NoCall   == [op |-> "none", id |-> 0, isr |-> "NULL", word |-> {}, overtaken |-> FALSE]
NoIsr    == [at |-> "none", id |-> 0, by |-> "none"]

IntInit ==
    /\ mtvec = "early" /\ masks = {} /\ cpuInitDone = {}
    /\ ext_entry = "NULL"
    /\ exint = [s \in Sources |-> NoSource]
    /\ threshold = 0 /\ enables = {} /\ pending = {} /\ claimed = {}
    /\ pcall = NoCall /\ isr = NoIsr /\ stopped = "no"

MainRuns == isr.at = "none" /\ stopped = "no"
Between  == MainRuns /\ pcall.op = "none"

-----------------------------------------------------------------------------
(* Initialisation.                                                          *)

\* metal_interrupt_init(cpu_intc), also called for its parent by the PLIC's.
CpuFresh        == "cpu" \notin cpuInitDone

MtvecAfterInit == IF CpuFresh /\ mtvec = "early" THEN "direct" ELSE mtvec

cpu_interrupt_init ==
    /\ Between
    /\ mtvec' = MtvecAfterInit
    /\ ext_entry' = IF CpuFresh THEN "NULL" ELSE ext_entry
    /\ cpuInitDone' = cpuInitDone \cup {"cpu"}
    /\ UNCHANGED <<masks, sources, gateways, pcall, trapping>>

plic0_init ==
    /\ Between /\ "plic" \notin cpuInitDone
    /\ mtvec' = MtvecAfterInit /\ ext_entry' = "plic" /\ masks' = masks \cup {"ext"}
    /\ cpuInitDone' = cpuInitDone \cup {"cpu", "plic"}
    /\ exint' = [s \in Sources |-> NoSource] /\ threshold' = 0 /\ enables' = {}
    /\ UNCHANGED <<gateways, pcall, trapping>>

-----------------------------------------------------------------------------
(* Registration: the handler first, its data after it.                      *)

\* A handler gets priority 2; NULL asks for the default one, at priority 1.
plic0_register ==
    /\ Between
    /\ \E s \in Sources, h \in {"user", "default"} :
        /\ exint' = [exint EXCEPT ![s].priority = IF h = "default" THEN 1 ELSE 2]
        /\ pcall' = [NoCall EXCEPT !.op = "isr", !.id = s, !.isr = h]
    /\ UNCHANGED <<cpuRegs, entries, threshold, enables, gateways, trapping>>

StoreIsr ==
    /\ MainRuns /\ pcall.op = "isr"
    /\ exint' = [exint EXCEPT ![pcall.id].handler = pcall.isr, ![pcall.id].own = FALSE]
    /\ pcall' = IF pcall.isr = "default" THEN NoCall ELSE [pcall EXCEPT !.op = "data"]
    /\ UNCHANGED <<cpuRegs, entries, threshold, enables, gateways, trapping>>

\* Mutant: _sub stores them as those of a sub-controller.
DataStored_sub == FALSE
DataStored     == TRUE

StoreData ==
    /\ MainRuns /\ pcall.op = "data"
    /\ exint' = [exint EXCEPT ![pcall.id].own = DataStored]
    /\ pcall' = NoCall
    /\ UNCHANGED <<cpuRegs, entries, threshold, enables, gateways, trapping>>

-----------------------------------------------------------------------------
(* Masks.  Those of the hart are single instructions.                       *)

local_interrupt_enable ==
    /\ Between
    /\ \E m \in Masks : masks' \in {masks \cup {m}, masks \ {m}}
    /\ UNCHANGED <<mtvec, entries, sources, gateways, pcall, trapping>>

set_vector_mode ==
    /\ Between
    /\ mtvec' \in {"direct", "vector"}
    /\ UNCHANGED <<masks, entries, sources, gateways, pcall, trapping>>

set_threshold ==
    /\ Between
    /\ threshold' \in Thresholds
    /\ UNCHANGED <<cpuRegs, entries, exint, enables, gateways, pcall, trapping>>

set_priority ==
    /\ Between
    /\ \E s \in Sources : exint' = [exint EXCEPT ![s].priority = 1]
    /\ UNCHANGED <<cpuRegs, entries, threshold, enables, gateways, pcall, trapping>>

\* __metal_plic0_enable reads the word and writes it back.
ReadWord ==
    /\ Between
    /\ \E s \in Sources, op \in {"on", "off"} :
        pcall' = [NoCall EXCEPT !.op = op, !.id = s, !.word = enables]
    /\ UNCHANGED <<cpuRegs, entries, sources, gateways, trapping>>

With(word, s)      == word \cup {s}

WriteWord ==
    /\ MainRuns /\ pcall.op \in {"on", "off"}
    /\ enables' = IF pcall.op = "on" THEN With(pcall.word, pcall.id) ELSE pcall.word \ {pcall.id}
    /\ pcall' = NoCall
    /\ UNCHANGED <<cpuRegs, entries, exint, threshold, gateways, trapping>>

-----------------------------------------------------------------------------
(* Interrupts.                                                              *)

Raise ==
    /\ stopped = "no"
    /\ \E s \in Sources \ (claimed \cup pending) : pending' = pending \cup {s}
    /\ UNCHANGED <<cpuRegs, entries, sources, claimed, pcall, trapping>>

Deliverable == {s \in pending \cap enables : exint[s].priority > threshold}

\* In __metal_vector_table only the software, timer and local lines have
\* handlers that look into metal_int_table.
Dispatches     == mtvec = "direct"

\* The trap and the lookup of metal_int_table[11].
TakeTrap ==
    /\ MainRuns /\ masks = Masks /\ Deliverable # {}
    /\ stopped' = IF mtvec = "early" THEN "early" ELSE IF ~Dispatches THEN "300"
                  ELSE IF ext_entry = "NULL" THEN "NULL" ELSE "no"
    /\ isr' = IF stopped' = "no" THEN [at |-> "claim", id |-> 0, by |-> mtvec] ELSE NoIsr
    /\ UNCHANGED <<cpuRegs, entries, sources, gateways, pcall>>

\* __metal_plic0_handler: the highest priority, the lowest number among equals.
Claim ==
    /\ isr.at = "claim"
    /\ \E best \in Deliverable :
        /\ \A s \in Deliverable : \/ exint[best].priority > exint[s].priority
                                  \/ exint[best].priority = exint[s].priority /\ best <= s
        /\ claimed' = claimed \cup {best} /\ pending' = pending \ {best}
        /\ isr' = [isr EXCEPT !.id = best,
                        !.at = IF exint[best].handler = "NULL" THEN "complete" ELSE "serve"]
    /\ UNCHANGED <<cpuRegs, entries, sources, pcall, stopped>>

\* The device's handler, which may disable its own source; the default one stops.
Serve ==
    /\ isr.at = "serve"
    /\ IF exint[isr.id].handler = "default"
       THEN stopped' = "300" /\ isr' = NoIsr /\ UNCHANGED <<enables, pcall>>
       ELSE /\ isr' = [isr EXCEPT !.at = "complete"] /\ UNCHANGED stopped
            /\ \/ UNCHANGED <<enables, pcall>>
               \/ /\ enables' = enables \ {isr.id}
                  /\ pcall' = [pcall EXCEPT !.overtaken = pcall.op \in {"on", "off"}]
    /\ UNCHANGED <<cpuRegs, entries, exint, threshold, gateways>>

\* The PLIC ignores the completion of a source that is not enabled.
Completed        == TRUE

Complete ==
    /\ isr.at = "complete"
    /\ claimed' = IF Completed /\ isr.id \in enables THEN claimed \ {isr.id} ELSE claimed
    /\ isr' = NoIsr
    /\ UNCHANGED <<cpuRegs, entries, sources, pending, pcall, stopped>>

IntNext ==
    \/ cpu_interrupt_init \/ plic0_init \/ plic0_register \/ StoreIsr \/ StoreData \/ local_interrupt_enable \/ set_vector_mode
    \/ set_threshold \/ set_priority \/ ReadWord \/ WriteWord
    \/ Raise \/ TakeTrap \/ Claim \/ Serve \/ Complete

IntSpec == IntInit /\ [][IntNext]_intVars

-----------------------------------------------------------------------------
(* Properties.                                                              *)

(* riscv_cpu.c:457: the initialiser of the hart's controller, called by the *)
(* program and by the PLIC's in any order, leaves the PLIC's handler there. *)
HandlerSurvivesInit == "plic" \in cpuInitDone => ext_entry = "plic"

(* riscv_plic0.c:176-177: a handler is given the data it was registered     *)
(* with, unless the interrupt falls between the two stores of a call.       *)
ForeignDataNeedsRace ==
    (isr.at = "serve" /\ exint[isr.id].handler = "user")
        => exint[isr.id].own \/ (pcall.op = "data" /\ pcall.id = isr.id)

(* vector.S:117: once interrupts are vectored, no handler registered with   *)
(* the PLIC is ever called.                                                 *)
VectoredIsDeaf == isr.at = "serve" => isr.by = "direct"

(* riscv_plic0.c:91-100: a call about one source leaves the others as they  *)
(* are, unless a handler disabled one between its read of the word and its  *)
(* write.                                                                   *)
WordLossNeedsPreemption ==
    pcall.op \in {"on", "off"} /\ pcall'.op = "none" =>
        pcall.overtaken \/ \A s \in Sources \ {pcall.id} : s \in enables' <=> s \in enables

(* riscv_plic0.c:107-121: a source that was claimed can interrupt again     *)
(* after the trap, whether it had a handler or not, unless its own handler  *)
(* disabled it.                                                             *)
ClaimsEnd ==
    isr.at = "complete" /\ isr'.at = "none" =>
        isr.id \notin claimed' \/ isr.id \notin enables

(* The right handler, with the right data, for every source and every time. *)
SourcesAreServed ==
    /\ [](HandlerSurvivesInit /\ ForeignDataNeedsRace /\ VectoredIsDeaf)
    /\ [][WordLossNeedsPreemption /\ ClaimsEnd]_intVars
=============================================================================
