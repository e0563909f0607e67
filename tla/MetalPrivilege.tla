------------------------------ MODULE MetalPrivilege ------------------------------
(***************************************************************************)
(* privilege.c: metal_privilege_drop_to_mode, and the interrupts it does not *)
(* switch off.  A service routine runs to its mret, which leaves MPIE set,   *)
(* MPP at user mode and mepc at the instruction that was interrupted.        *)
(***************************************************************************)

VARIABLES
    mstatus,        \* MIE, MPIE and MPP
    mepc,           \* "entry", "here" (an instruction of the call) or "other"
    hartMode,       \* the mode of the hart
    dpc,            \* "before", a step of the call, or "landed"
    local,          \* its copy of mstatus
    to, enabled,    \* the mode asked for; interrupts were on
    served          \* the step before which an interrupt was served last (history)

privVars == <<mstatus, mepc, hartMode, dpc, local, to, enabled, served>>

Privileges == {"user", "supervisor", "machine"}

PrivInit ==
    /\ mstatus \in [MIE : BOOLEAN, MPIE : BOOLEAN, MPP : Privileges]
    /\ mepc = "other" /\ hartMode = "machine" /\ dpc = "before" /\ local = mstatus
    /\ to = "machine" /\ enabled = FALSE /\ served = "none"

Drop ==
    /\ dpc = "before"
    /\ to' \in Privileges /\ local' = mstatus /\ enabled' = mstatus.MIE
    /\ dpc' = "csrw mstatus"
    /\ UNCHANGED <<mstatus, mepc, hartMode, served>>

\* xPIE follows xIE.  Mutant: _left leaves it.
WithPIE_left(m) == m
WithPIE(m)      == [m EXCEPT !.MPIE = m.MIE]

WriteMstatus ==
    /\ dpc = "csrw mstatus"
    /\ mstatus' = [WithPIE(local) EXCEPT !.MPP = to] /\ dpc' = "csrw mepc"
    /\ UNCHANGED <<mepc, hartMode, local, to, enabled, served>>

WriteMepc ==
    /\ dpc = "csrw mepc"
    /\ mepc' = "entry" /\ dpc' = "mret"
    /\ UNCHANGED <<mstatus, hartMode, local, to, enabled, served>>

Mret(m) == [MIE |-> m.MPIE, MPIE |-> TRUE, MPP |-> "user"]

Land ==
    /\ dpc = "mret"
    /\ hartMode' = mstatus.MPP /\ mstatus' = Mret(mstatus) /\ dpc' = "landed"
    /\ UNCHANGED <<mepc, local, to, enabled, served>>

ServeIrq ==
    /\ dpc \notin {"before", "landed"} /\ mstatus.MIE
    /\ mstatus' = Mret([mstatus EXCEPT !.MPIE = mstatus.MIE])
    /\ mepc' = "here" /\ served' = dpc
    /\ UNCHANGED <<hartMode, dpc, local, to, enabled>>

PrivNext == Drop \/ WriteMstatus \/ WriteMepc \/ Land \/ ServeIrq

PrivSpec == PrivInit /\ [][PrivNext]_privVars

-----------------------------------------------------------------------------
(* privilege.c:46-54: the hart lands at the entry point, in the mode asked  *)
(* for, with interrupts as they were, unless one was served after mstatus   *)
(* was written: it lands in user mode then, and inside of the call if mepc  *)
(* was written too.                                                         *)
LandsAsAsked ==
    dpc = "landed" =>
        /\ mstatus.MIE = enabled
        /\ hartMode = IF served \in {"csrw mepc", "mret"} THEN "user" ELSE to
        /\ mepc = IF served = "mret" THEN "here" ELSE "entry"
=============================================================================
