------------------------------- MODULE MetalClic -------------------------------
(***************************************************************************)
(* sifive_clic0.c, the controller of boards with a CLIC (this one has none): *)
(* the fields of an interrupt's control byte, and the two tables through     *)
(* which its handler is found.  A byte is the set of its bits that are set.  *)
(***************************************************************************)
EXTENDS Naturals

CONSTANTS
    ClicIds,        \* interrupts of devices, from 16 on
    ClicIntBits,    \* how many bits of the control byte a CLIC may implement
    ClicValues,     \* levels and priorities programs set, as bytes
    ClicLevelBits,  \* thresholds programs set
    ClicMaxLevels   \* sifive,numlevels of the device tree

ASSUME ClicAssumption == /\ ClicIds \subseteq Nat \ (0 .. 15) /\ ClicIntBits \subseteq 2 .. 8
                         /\ ClicLevelBits \subseteq 0 .. 8 /\ ClicMaxLevels \in Nat
                         /\ \A v \in ClicValues : v \subseteq 0 .. 7

VARIABLES
    intBits,        \* of this CLIC
    clicMode,       \* mtvec: "direct", "clic" or "clic vectored"
    clicDone,       \* init_done
    cfg,            \* cliccfg
    ctl,            \* clicintctl
    mtvt,           \* metal_mtvt_table
    clicTable,      \* the handlers in metal_exint_table
    swLinked,       \* metal_int_table[3].sub_int is the CLIC
    via             \* the table an accepted handler of the program is in, until the program changes the way there (history)

clicVars == <<intBits, clicMode, clicDone, cfg, ctl, mtvt, clicTable, swLinked, via>>

Ids0   == {0} \cup ClicIds

\* The bits of an unimplemented part read as ones.
CtlBits(v) == (v \cap (8 - intBits .. 7)) \cup (0 .. 7 - intBits)

ClicInit ==
    /\ intBits \in ClicIntBits
    /\ clicMode = "direct" /\ clicDone = FALSE /\ swLinked = FALSE
    /\ cfg = [nmbits |-> 0, nlbits |-> 0, nvbit |-> FALSE]
    /\ ctl = [i \in Ids0 |-> CtlBits({})]
    /\ mtvt = [i \in Ids0 |-> "NULL"] /\ clicTable = [i \in ClicIds |-> "NULL"]
    /\ via = [i \in ClicIds |-> "none"]

-----------------------------------------------------------------------------
(* The fields: mode, level and priority from the top, the vector bit is the *)
(* lowest that is implemented.                                              *)

LowBits(n)        == {b \in 0 .. 7 : b + n < 8}          \* (uint8_t)(-1) >> n
VectorBit     == 8 - intBits
Vectored(i)   == VectorBit \in ctl[i]

LevelField     == LowBits(cfg.nmbits) \ LowBits(cfg.nmbits + cfg.nlbits)
WithLevel(byte, level) == CtlBits((byte \ LevelField) \cup (level \cap LevelField))

PriorityField  == IF cfg.nmbits + cfg.nlbits <= intBits THEN LowBits(cfg.nmbits + cfg.nlbits) \ LowBits(intBits) ELSE {}
WithPriority(byte, priority) == CtlBits((byte \ PriorityField) \cup (priority \cap PriorityField))

\* The level bits there are room for.
LevelBits      == IF cfg.nmbits + cfg.nlbits >= intBits THEN intBits - cfg.nmbits ELSE cfg.nlbits
Got0(i)        == LowBits(cfg.nmbits) \ LowBits(cfg.nmbits + LevelBits)

interrupt_get_level(i) ==
    IF Got0(i) = {} THEN 0 .. 7 ELSE {b + cfg.nmbits : b \in ctl[i] \cap Got0(i)} \cup LowBits(LevelBits)

interrupt_get_priority(i) == IF Got0(i) = {} THEN 0 .. 7 ELSE ctl[i] \cap LowBits(LevelBits)

-----------------------------------------------------------------------------
(* The program's calls.                                                     *)

get_vector_mode ==
    CASE clicMode = "clic" /\ cfg.nvbit  -> "selective vector"
      [] clicMode = "clic" /\ ~cfg.nvbit -> "selective nonvector"
      [] clicMode = "clic vectored"      -> "hardware vector"
      [] OTHER                           -> "direct"

Forget(ids) == via' = [i \in ClicIds |-> IF i \in ids THEN "none" ELSE via[i]]

\* The level all bits of which are set is put in the low bits of the byte.
sifive_clic0_init ==
    /\ ~clicDone
    /\ LET nl == IF ClicMaxLevels > 8 THEN 8 ELSE ClicMaxLevels
       IN  /\ cfg' = [nmbits |-> 0, nlbits |-> nl, nvbit |-> FALSE]
           /\ ctl' = [i \in Ids0 |-> CtlBits((ctl[i] \cap LowBits(nl)) \cup ((0 .. nl - 1) \ LowBits(nl)))]
    /\ clicMode' = "clic" /\ clicDone' = TRUE /\ swLinked' = TRUE
    /\ mtvt' = [i \in Ids0 |-> IF i = 0 THEN "dispatch" ELSE "NULL"]
    /\ clicTable' = [i \in ClicIds |-> "NULL"]
    /\ UNCHANGED <<intBits, via>>

set_vector_mode0 ==
    /\ clicDone
    /\ \E m \in {"selective nonvector", "selective vector", "hardware vector"} :
        /\ clicMode' = IF m = "hardware vector" THEN "clic vectored" ELSE "clic"
        /\ cfg' = [cfg EXCEPT !.nvbit = m # "selective nonvector"]
    /\ Forget(ClicIds)
    /\ UNCHANGED <<intBits, clicDone, ctl, mtvt, clicTable, swLinked>>

\* set_privilege and set_threshold, which is about the bits of the level.
configure ==
    /\ clicDone
    /\ cfg' \in {[cfg EXCEPT !.nmbits = n] : n \in 0 .. 2} \cup {[cfg EXCEPT !.nlbits = n] : n \in ClicLevelBits}
    /\ UNCHANGED <<intBits, clicMode, clicDone, ctl, mtvt, clicTable, swLinked, via>>

\* Mutant: _ever accepts a handler whatever the mode.
TakesHandlers_ever(i) == TRUE
TakesHandlers(i) == \/ get_vector_mode = "selective nonvector"
                    \/ get_vector_mode = "selective vector" /\ ~Vectored(i)
TakesVectors(i)  == \/ get_vector_mode = "hardware vector"
                    \/ get_vector_mode = "selective vector" /\ Vectored(i)

sifive_clic0_register ==
    /\ clicDone
    /\ \E i \in ClicIds, h \in {"user", "default"} :
        /\ TakesHandlers(i)
        /\ clicTable' = [clicTable EXCEPT ![i] = h]
        /\ via' = [via EXCEPT ![i] = IF h = "user" THEN "common" ELSE "none"]
        /\ UNCHANGED <<intBits, clicMode, clicDone, cfg, ctl, mtvt, swLinked>>

\* One of the hart's own lines: the default handler of line 3 gets the
\* program's data where the CLIC was.
register_line3 ==
    /\ clicDone /\ get_vector_mode = "selective nonvector"
    /\ swLinked' = FALSE
    /\ UNCHANGED <<intBits, clicMode, clicDone, cfg, ctl, mtvt, clicTable, via>>

\* The table's entry 0 is the dispatcher of the handlers that are not vectored.
clic0_vector_register ==
    /\ clicDone
    /\ \E i \in Ids0, h \in {"user", "default"} :
        /\ TakesVectors(i)
        /\ mtvt' = [mtvt EXCEPT ![i] = h]
        /\ via' = IF i = 0 THEN via ELSE [via EXCEPT ![i] = IF h = "user" THEN "vector" ELSE "none"]
        /\ UNCHANGED <<intBits, clicMode, clicDone, cfg, ctl, clicTable, swLinked>>

\* The way to a handler changes with the vector bit, where that counts.
SetByte(i, byte) ==
    /\ clicDone
    /\ ctl' = [ctl EXCEPT ![i] = byte]
    /\ Forget(IF cfg.nvbit /\ (VectorBit \in byte) # Vectored(i) THEN {i} ELSE {})
    /\ UNCHANGED <<intBits, clicMode, clicDone, cfg, mtvt, clicTable, swLinked>>

interrupt_vector_enable(i) ==
    /\ get_vector_mode \in {"selective vector", "hardware vector"}
    /\ SetByte(i, CtlBits(ctl[i] \cup {VectorBit}))
interrupt_vector_disable(i) == SetByte(i, CtlBits(ctl[i] \ {VectorBit}))

clic0_set_priority(i, v)   == SetByte(i, WithPriority(ctl[i], v))
set_preemptive_level(i, v) == SetByte(i, WithPriority(WithLevel(ctl[i], v), v))

ClicNext ==
    \/ sifive_clic0_init \/ set_vector_mode0 \/ configure \/ sifive_clic0_register \/ register_line3
    \/ clic0_vector_register
    \/ \E i \in Ids0 : interrupt_vector_enable(i) \/ interrupt_vector_disable(i)
    \/ \E i \in ClicIds, v \in ClicValues : clic0_set_priority(i, v) \/ set_preemptive_level(i, v)

ClicSpec == ClicInit /\ [][ClicNext]_clicVars

-----------------------------------------------------------------------------
(* Interrupts.                                                              *)

\* A CLIC jumps through metal_mtvt_table when interrupts, or this one, are vectored.
IsVectored(i) == clicMode = "clic vectored" \/ (cfg.nvbit /\ Vectored(i))

\* __metal_exception_handler calls the first entry of that table with what it
\* finds at line 3; __metal_clic0_handler looks into metal_exint_table.
Called(i) ==
    IF IsVectored(i) THEN mtvt[i]
    ELSE IF mtvt[0] # "dispatch" THEN "another's" ELSE IF ~swLinked THEN "stray" ELSE clicTable[i]

-----------------------------------------------------------------------------
(* Properties.                                                              *)

(* sifive_clic0.c:535: a handler that a call accepts is the one that an      *)
(* interrupt calls, through whichever table, until the program changes the   *)
(* mode or the vector bit.  But two other calls take all handlers away that  *)
(* are not vectored: a vector handler for 0, and NULL for line 3.            *)
HandlersAreReached ==
    \A i \in ClicIds : via[i] # "none" =>
        \/ Called(i) = "user"
        \/ via[i] = "common" /\ (mtvt[0] # "dispatch" \/ ~swLinked)

(* sifive_clic0.c:84-108: the level of an interrupt changes only by a call   *)
(* about it; a priority leaves it as it is, and the vector bit changes it    *)
(* only where the level takes all bits there are.                            *)
LevelsAreKept ==
    cfg' = cfg => \A i \in ClicIds : ctl'[i] # ctl[i] /\ interrupt_get_level(i)' # interrupt_get_level(i) =>
        \/ \E v \in ClicValues : set_preemptive_level(i, v)
        \/ /\ interrupt_vector_enable(i) \/ interrupt_vector_disable(i)
           /\ cfg.nmbits + LevelBits = intBits

(* sifive_clic0.c:110-142, 174-202: with one privilege mode, a level reads   *)
(* back as it was set, as far as there are bits for it, and a priority so    *)
(* where some are left for it.                                               *)
FieldsReadBack ==
    clicDone /\ cfg.nmbits = 0 => \A i \in ClicIds, v \in ClicValues :
        /\ set_preemptive_level(i, v) => interrupt_get_level(i)' = v \cup LowBits(LevelBits)
        /\ clic0_set_priority(i, v) /\ 0 < cfg.nlbits /\ cfg.nlbits < intBits =>
            interrupt_get_priority(i)' = (v \cap LowBits(cfg.nlbits)) \cup LowBits(intBits)

(* Every interrupt has the handler and the level the program gave it.       *)
ClicIsAsAsked == [](clicDone => HandlersAreReached) /\ [][LevelsAreKept /\ FieldsReadBack]_clicVars
=============================================================================
