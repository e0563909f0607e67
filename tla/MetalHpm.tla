--------------------------------- MODULE MetalHpm ---------------------------------
(***************************************************************************)
(* hpm.c: the performance counters, of two words of HpmWord values (of 2^32  *)
(* in the code), and the access to them from user mode.  enable_access,      *)
(* disable_access and disable point mtvec at an instruction of their own, for *)
(* harts that have no mcounteren and trap on it; there is no mret.           *)
(***************************************************************************)
EXTENDS Integers

CONSTANTS
    HpmWord,        \* the values of a word
    HpmTicks        \* a bound: how far the counter goes by itself

ASSUME HpmAssumption == HpmWord \in Nat \ {0, 1} /\ HpmTicks \in 0 .. HpmWord * HpmWord - 1

VARIABLES
    programmable,   \* mhpmcounters the hart has, after the three fixed ones
    hasEn,          \* the hart has mcounteren
    hpm_count,      \* counters found, or 0
    counter,        \* one of them
    mcounteren,     \* user mode may read it
    vectorBase, mie,     \* the trap vector: the "program"'s or "here"; mstatus.MIE
    irq,            \* an interrupt is pending
    hpc,            \* where the program is
    vh, vl, vh1,    \* what read_counter read
    from,           \* the counter when read_counter read its first word (history)
    moved,          \* ticks since clear_counter wrote the low word (history)
    caught          \* the last window took a trap or an interrupt (history)

hpmHart == <<programmable, hasEn, vectorBase, mie, irq, mcounteren>>
hpmRead == <<vh, vl, vh1, from, moved>>
hpmVars == <<hpmHart, hpm_count, counter, hpc, hpmRead, caught>>

MaxHpm == 31

HpmInit ==
    /\ programmable \in {0, 2, 29} /\ hasEn \in BOOLEAN
    /\ hpm_count = 0 /\ counter = 0 /\ mcounteren = FALSE
    /\ vectorBase = "program" /\ mie = TRUE /\ irq = FALSE /\ hpc = "idle"
    /\ vh = 0 /\ vl = 0 /\ vh1 = 0 /\ from = 0 /\ moved = 0 /\ caught = FALSE

-----------------------------------------------------------------------------

\* The first counter, from 3 to 30, whose event register does not hold a one.
Probed == IF programmable + 3 < MaxHpm THEN programmable + 3 ELSE MaxHpm

hpm_init ==
    /\ hpc = "idle" /\ hpm_count = 0
    /\ hpm_count' = Probed /\ counter' = 0
    /\ UNCHANGED <<hpmHart, hpc, hpmRead, caught>>

CounterTicks ==
    /\ counter < HpmTicks
    /\ counter' = counter + 1
    /\ moved' = IF moved < HpmTicks THEN moved + 1 ELSE moved
    /\ UNCHANGED <<hpmHart, hpm_count, hpc, vh, vl, vh1, from, caught>>

At(here, there) == hpc = here /\ hpc' = there
SameHigh     == vh = vh1

hpm_read_counter ==
    /\ \/ At("idle", "vl") /\ hpm_count > 3 /\ vh' = counter \div HpmWord /\ from' = counter
          /\ UNCHANGED <<vl, vh1>>
       \/ At("vl", "vh1") /\ vl' = counter % HpmWord /\ UNCHANGED <<vh, vh1, from>>
       \/ At("vh1", "compare") /\ vh1' = counter \div HpmWord /\ UNCHANGED <<vh, vl, from>>
       \/ At("compare", "idle") /\ SameHigh /\ UNCHANGED <<vh, vl, vh1, from>>
       \/ At("compare", "vl") /\ ~SameHigh /\ vh' = counter \div HpmWord /\ from' = counter
          /\ UNCHANGED <<vl, vh1>>
    /\ UNCHANGED <<hpmHart, hpm_count, counter, moved, caught>>

\* The high word, the low one, the high one again.
HighAgain       == counter % HpmWord

hpm_clear_counter ==
    /\ \/ At("idle", "low") /\ hpm_count > 3 /\ counter' = counter % HpmWord /\ UNCHANGED moved
       \/ At("low", "high") /\ counter' = (counter \div HpmWord) * HpmWord /\ moved' = 0
       \/ At("high", "idle") /\ counter' = HighAgain /\ UNCHANGED moved
    /\ UNCHANGED <<hpmHart, hpm_count, vh, vl, vh1, from, caught>>

\* enable_access, disable_access and disable: mtvec is saved and set, mcounteren
\* written, and mtvec restored at the label that a trap goes to.
OpenWindow ==
    /\ \/ At("idle", "enable") /\ hpm_count > 3
       \/ At("idle", "refuse") /\ hpm_count > 3
       \/ At("idle", "disable")
    /\ vectorBase' = "here" /\ caught' = FALSE
    /\ UNCHANGED <<programmable, hasEn, mie, irq, mcounteren, hpm_count, counter, hpmRead>>

WriteEn ==
    /\ hpc \in {"enable", "refuse", "disable"}
    /\ IF hasEn THEN mcounteren' = (hpc = "enable") /\ UNCHANGED <<mie, caught>>
       ELSE mie' = FALSE /\ caught' = TRUE /\ UNCHANGED mcounteren
    /\ hpc' = IF hpc = "disable" THEN "closeOff" ELSE "close"
    /\ UNCHANGED <<programmable, hasEn, vectorBase, irq, hpm_count, counter, hpmRead>>

\* Mutant: _stays leaves it.
Restored_stays == IF caught THEN vectorBase ELSE "program"
Restored       == "program"

\* Nothing switches interrupts on again.
MieAfter      == mie

CloseWindow ==
    /\ hpc \in {"close", "closeOff"}
    /\ vectorBase' = Restored /\ mie' = MieAfter /\ hpc' = "idle"
    /\ hpm_count' = IF hpc = "closeOff" THEN 0 ELSE hpm_count
    /\ UNCHANGED <<programmable, hasEn, irq, mcounteren, counter, hpmRead, caught>>

RaiseIrq == ~irq /\ irq' = TRUE
            /\ UNCHANGED <<programmable, hasEn, vectorBase, mie, mcounteren, hpm_count, counter, hpc, hpmRead, caught>>

\* An interrupt: the program's handler serves it and returns, or, in the window,
\* the hart goes on at the label.
TakeIrq ==
    /\ irq /\ mie
    /\ IF vectorBase = "program" THEN irq' = FALSE /\ UNCHANGED <<mie, hpc, caught>>
       ELSE /\ mie' = FALSE /\ caught' = TRUE /\ UNCHANGED irq
            /\ hpc' = IF hpc \in {"disable", "closeOff"} THEN "closeOff" ELSE "close"
    /\ UNCHANGED <<programmable, hasEn, vectorBase, mcounteren, hpm_count, counter, hpmRead>>

HpmNext ==
    \/ hpm_init \/ hpm_read_counter \/ hpm_clear_counter \/ OpenWindow \/ WriteEn \/ CloseWindow
    \/ CounterTicks \/ RaiseIrq \/ TakeIrq

HpmSpec == HpmInit /\ [][HpmNext]_hpmVars

-----------------------------------------------------------------------------
(* hpm.c:38-46: a counter read in two words is one that it held between     *)
(* the first word and the last.                                             *)
CounterReadIsCurrent ==
    hpc = "compare" /\ hpc' = "idle" =>
        from <= vh * HpmWord + vl /\ vh * HpmWord + vl <= counter

(* hpm.c:55-61: a counter that was cleared holds the ticks since then, also *)
(* if the low word wrapped between the two writes.                          *)
ClearedCounterIsSmall ==
    hpc = "high" /\ hpc' = "idle" => counter' <= moved

(* hpm.c:222, 247: a call that was interrupted or trapped has switched       *)
(* interrupts off for good: the pending one is never served.                *)
CaughtMeansDeaf == (caught => ~mie) /\ (~mie => ~mie' /\ (irq => irq'))

(* hpm.c:125-132, 214-224, 239-249: counters in two words, and the trap that *)
(* finds out what the hart has.  The hart always gets its trap vector back, *)
(* also where the write of mcounteren was interrupted or trapped.           *)
CountersAreSound ==
    /\ [][CounterReadIsCurrent /\ ClearedCounterIsSmall /\ CaughtMeansDeaf]_hpmVars
    /\ [](hpc \notin {"enable", "refuse", "disable", "close", "closeOff"} => vectorBase = "program")
=============================================================================
