------------------------------ MODULE MetalPwm ------------------------------
(***************************************************************************)
(* The configuration register of a PWM unit, sifive_pwm0.c behind pwm.h:    *)
(* run modes, the sticky flag and the pending flag of each comparator are   *)
(* bits of one word, which the calls of the program and of its service      *)
(* routine read and write back while the unit itself sets and clears some.  *)
(* MetalClock has frequencies and duties, MetalPins the pins.               *)
(***************************************************************************)
EXTENDS Naturals, MetalEdits

CONSTANTS PwmChannels       \* comparators

ASSUME PwmChannelsAssumption == PwmChannels \subseteq {"cmp0", "cmp1", "cmp2", "cmp3"}

PwmActors == {"main", "irq"}

VARIABLES
    pwmcfg,         \* PWMCFG, as the set of its flags and that of the pending ones
    pcalls,         \* of each actor the edits its call has left
    pheld,          \* the word it has read for the next one; <<>> before the read
    missed,         \* what has changed in it since
    modeAsked,      \* the run modes the calls ask for (history)
    modeRaced       \* one changed between a call's read and its write (history)

metalPwmVars == <<pwmcfg, pcalls, pheld, missed, modeAsked, modeRaced>>

Nothing == [flags |-> {}, ip |-> {}]

Modes0 == {"enalways", "enoneshot"}

Pwm0Init ==
    /\ pwmcfg = Nothing
    /\ pcalls = [a \in PwmActors |-> <<>>] /\ pheld = [a \in PwmActors |-> <<>>]
    /\ missed = [a \in PwmActors |-> Nothing] /\ modeAsked = {} /\ modeRaced = FALSE

-----------------------------------------------------------------------------
(* The calls, each one edit; disable is none, and leaves the unit running.  *)
(* The flags that nothing but trigger sets are left out.                    *)

pwm_enable_unit == <<Edit("flags", "zero", {})>>

trigger_unit(mode) == <<Edit("flags", "set", {mode})>>
pwm_stop           == <<Edit("flags", "clear", {"enalways"})>>

cfg_interrupt(on) == <<Edit("flags", IF on THEN "set" ELSE "clear", {"sticky"})>>

\* Mutant: _all clears those of all comparators.
clr_interrupt_all(i) == <<Edit("ip", "clear", PwmChannels)>>
clr_interrupt(i)     == <<Edit("ip", "clear", {i})>>

\* What pwm.h offers that touches the word.
RunCalls == {pwm_enable_unit, pwm_stop} \cup {trigger_unit(m) : m \in Modes0}
FlagCalls == {cfg_interrupt(on) : on \in BOOLEAN} \cup {clr_interrupt(i) : i \in PwmChannels}

\* A service routine clears a flag, or stops the unit.
RoutinePwmCalls == {clr_interrupt(i) : i \in PwmChannels} \cup {pwm_stop}

-----------------------------------------------------------------------------

\* A bound: no call follows one that missed the end of a pulse, or a stop.
PwmEnter ==
    /\ pcalls["main"] = <<>> /\ ~modeRaced
    /\ \E c \in RunCalls \cup FlagCalls : pcalls' = [pcalls EXCEPT !["main"] = c]
    /\ UNCHANGED <<pwmcfg, pheld, missed, modeAsked, modeRaced>>

PwmInterrupt ==
    /\ pcalls["irq"] = <<>> /\ pwmcfg.ip # {}
    /\ \E c \in RoutinePwmCalls : pcalls' = [pcalls EXCEPT !["irq"] = c]
    /\ UNCHANGED <<pwmcfg, pheld, missed, modeAsked, modeRaced>>

PwmRuns(a) == pcalls[a] # <<>> /\ (a = "main" => pcalls["irq"] = <<>>)

ReadCfgWord(a) ==
    /\ PwmRuns(a) /\ pheld[a] = <<>>
    /\ pheld' = [pheld EXCEPT ![a] = <<pwmcfg>>]
    /\ UNCHANGED <<pwmcfg, pcalls, missed, modeAsked, modeRaced>>

\* The word with one of its parts edited; enable writes zero.
Edited(e, w) == IF e.op = "zero" THEN Nothing ELSE [w EXCEPT ![e.reg] = Apply(e, @)]

SymDiff(v, w) == (v \ w) \cup (w \ v)

\* The word becomes w: those who hold the old one miss the difference.
Becomes(w) ==
    /\ pwmcfg' = w
    /\ missed' = [a \in PwmActors |->
                    IF pheld'[a] = <<>> THEN Nothing
                    ELSE [p \in {"flags", "ip"} |-> missed[a][p] \cup SymDiff(w[p], pwmcfg[p])]]

WriteCfgWord(a) ==
    /\ PwmRuns(a) /\ pheld[a] # <<>>
    /\ pcalls' = [pcalls EXCEPT ![a] = Tail(@)] /\ pheld' = [pheld EXCEPT ![a] = <<>>]
    /\ LET e == Head(pcalls[a])
       IN  /\ Becomes(Edited(e, pheld[a][1]))
           /\ modeAsked' = Modes0 \cap Edited(e, [flags |-> modeAsked, ip |-> {}]).flags
    /\ modeRaced' = (modeRaced \/ missed[a].flags \cap Modes0 # {})

-----------------------------------------------------------------------------
(* The unit.  Its counter passes a comparator, and starts over, which ends  *)
(* a single pulse, and the flags that are not sticky.                       *)

Counts == pwmcfg.flags \cap Modes0 # {}

PassComparator ==
    /\ Counts
    /\ UNCHANGED <<pcalls, pheld, modeAsked, modeRaced>>
    /\ \E i \in PwmChannels : Becomes([pwmcfg EXCEPT !.ip = @ \cup {i}])

StartOver ==
    /\ Counts
    /\ UNCHANGED <<pcalls, pheld, modeRaced>>
    /\ Becomes([flags |-> pwmcfg.flags \ {"enoneshot"},
                ip |-> IF "sticky" \in pwmcfg.flags THEN pwmcfg.ip ELSE {}])
    /\ modeAsked' = modeAsked \ {"enoneshot"}

Pwm0Next == \/ PwmEnter \/ PwmInterrupt \/ PassComparator \/ StartOver
            \/ \E a \in PwmActors : ReadCfgWord(a) \/ WriteCfgWord(a)

Pwm0Spec == Pwm0Init /\ [][Pwm0Next]_metalPwmVars

-----------------------------------------------------------------------------
(* sifive_pwm0.c:288: a sticky flag goes only by the call that clears it,   *)
(* by enable, or because it came between a call's read and its write.       *)
StickyIsKept ==
    \A i \in pwmcfg.ip \ pwmcfg'.ip :
        "sticky" \in pwmcfg.flags =>
            \E a \in PwmActors : /\ pheld[a] # <<>> /\ pheld'[a] = <<>>
                                 /\ \/ i \notin pheld[a][1].ip
                                    \/ Head(pcalls[a]) = Edit("ip", "clear", {i})
                                    \/ pcalls[a] = pwm_enable_unit

(* sifive_pwm0.c:306: a flag comes without its comparator only when a call  *)
(* writes back one that was cleared since the call's read.                  *)
NoSpuriousFlag ==
    \A i \in pwmcfg'.ip \ pwmcfg.ip :
        pheld' # pheld => \E a \in PwmActors : pheld'[a] # pheld[a] /\ i \in missed[a].ip

(* sifive_pwm0.c:241-310: a word that two actors and the unit change.  It   *)
(* runs as the calls asked, unless its pulse ended, or the routine stopped  *)
(* it, between a call's read and its write: such a pulse starts again.      *)
PwmWordIsShared == [](modeRaced \/ pwmcfg.flags \cap Modes0 = modeAsked) /\ [][StickyIsKept /\ NoSpuriousFlag]_metalPwmVars
=============================================================================
