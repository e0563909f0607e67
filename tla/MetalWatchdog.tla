------------------------------ MODULE MetalWatchdog ------------------------------
(***************************************************************************)
(* sifive_wdog0.c: freedom-metal's watchdog driver.  A write takes the key,  *)
(* and any write gives it back: one that lost the key to the service routine *)
(* does nothing.  The routine, the program's, clears the interrupt and may   *)
(* feed.                                                                     *)
(***************************************************************************)
EXTENDS Integers, Sequences

CONSTANTS
    WdogMaxCount,       \* a bound: how far the counter goes
    WdogClock,          \* the rate of its clock
    WdogRates, WdogTimeouts     \* what set_rate and set_timeout are asked

ASSUME WdogAssumption == WdogMaxCount \in Nat /\ WdogClock \in Nat /\ WdogRates \cup WdogTimeouts \subseteq Nat

VARIABLES
    wflags, wscale, wcmp,   \* WDOGCFG without its scale, the scale, WDOGCMP
    wcount, key,            \* WDOGCOUNT; the registers are unlocked
    todo, got,              \* each actor's call: what is left; read for its first step
    want,                   \* the configuration asked for (history)
    robbed,                 \* the routine took the program's key (history)
    bitten                  \* it reset the system

wdogRegs == <<wflags, wscale, wcmp, wcount, key>>
wdogVars == <<wdogRegs, todo, got, want, robbed, bitten>>

Actor2 == {"program", "routine"}

WdogInit ==
    /\ wflags = {} /\ wscale = 0 /\ wcmp = CHOOSE t \in WdogTimeouts : TRUE
    /\ wcount = 0 /\ key = FALSE
    /\ todo = [a \in Actor2 |-> <<>>] /\ got = [a \in Actor2 |-> [key |-> FALSE, cfg |-> <<>>]]
    /\ want = [flags |-> {}, scale |-> 0, cmp |-> wcmp, before |-> wcmp]
    /\ robbed = FALSE /\ bitten = FALSE

-----------------------------------------------------------------------------
(* The calls, as their writes; those to the configuration read it first.    *)

Cfg(clear, set) == [to |-> "cfg", clear |-> clear, set |-> set]
Scale(k) == [to |-> "scale", value |-> k]
Feed     == [to |-> "feed"]
Cmp(t)   == [to |-> "cmp", value |-> t]

feed == <<Feed>>

\* The closest of the rates of the scales 0 to 6, the first of equals.
RateAt(k) == WdogClock \div 2 ^ k
Miss(rate, k) == IF rate < RateAt(k) THEN RateAt(k) - rate ELSE rate - RateAt(k)
ScaleFor(rate) == CHOOSE k \in 0 .. 6 : \A j \in 0 .. 6 :
                      Miss(rate, k) < Miss(rate, j) \/ (Miss(rate, k) = Miss(rate, j) /\ k <= j)

\* A scale is cleared, and set by a second write.
set_rate(rate) == IF rate >= WdogClock THEN <<Scale(0)>> ELSE <<Scale(0), Scale(ScaleFor(rate))>>
set_timeout(t) == <<Cmp(t)>>

set_result(flag) == <<Cfg({"rsten", "zerocmp"}, {})>> \o (IF flag = {} THEN <<>> ELSE <<Cfg({}, flag)>>)
run(flag) == <<Cfg({"enalways", "coreawake"}, {})>> \o
                 (IF flag = {} THEN <<>> ELSE feed \o <<Cfg({}, flag)>>)

clear_interrupt == <<Cfg({"ip"}, {})>>

WdogCalls == {feed, clear_interrupt}
                \cup {set_rate(r) : r \in WdogRates} \cup {set_timeout(t) : t \in WdogTimeouts}
                \cup {set_result(f) : f \in {{}, {"zerocmp"}, {"rsten"}}}
                \cup {run(f) : f \in {{}, {"enalways"}, {"coreawake"}}}
RoutineCalls == {clear_interrupt, clear_interrupt \o feed}

-----------------------------------------------------------------------------

\* What the program asks for with a write, and with a call of three at most; the
\* last write to each counts.
Changes(e, w) ==
    CASE e.to = "cfg"   -> [w EXCEPT !.flags = ((@ \ e.clear) \cup e.set) \ {"ip"}]
      [] e.to = "scale" -> [w EXCEPT !.scale = e.value]
      [] e.to = "cmp"   -> [w EXCEPT !.cmp = e.value]
      [] OTHER          -> w
Asks(c, w) ==
    LET after(k, v) == IF k \in DOMAIN c THEN Changes(c[k], v) ELSE v
    IN  after(3, after(2, after(1, w)))

\* No call follows a lost key: a bound.
Begin ==
    /\ ~bitten /\ ~robbed /\ todo["program"] = <<>>
    /\ \E c \in WdogCalls : todo' = [todo EXCEPT !["program"] = c] /\ want' = Asks(c, [want EXCEPT !.before = want.cmp])
    /\ UNCHANGED <<wdogRegs, got, robbed, bitten>>

WdogTrap ==
    /\ ~bitten /\ todo["routine"] = <<>> /\ "ip" \in wflags
    /\ \E c \in RoutineCalls : todo' = [todo EXCEPT !["routine"] = c]
    /\ UNCHANGED <<wdogRegs, got, want, robbed, bitten>>

Able(a) == ~bitten /\ todo[a] # <<>> /\ (a = "program" => todo["routine"] = <<>>)

Unlock(a) ==
    /\ Able(a) /\ ~got[a].key
    /\ key' = TRUE /\ got' = [got EXCEPT ![a].key = TRUE]
    /\ UNCHANGED <<wflags, wscale, wcmp, wcount, todo, want, robbed, bitten>>

Reads(e) == e.to \in {"cfg", "scale"}

\* The read comes after the unlock.
ReadsNow(a)     == got[a].key

ReadCfg(a) ==
    /\ Able(a) /\ ReadsNow(a) /\ Reads(Head(todo[a])) /\ got[a].cfg = <<>>
    /\ got' = [got EXCEPT ![a].cfg = <<wflags, wscale>>]
    /\ UNCHANGED <<wdogRegs, todo, want, robbed, bitten>>

\* Every write is preceded by an unlock.  Mutant: _once unlocks once in a call.
Unlocked_once(a) == Len(todo[a]) > 1
Unlocked(a)      == FALSE

\* What a write that has the key does.
Stores(a, e) ==
    /\ wflags' = CASE e.to = "cfg"   -> (got[a].cfg[1] \ e.clear) \cup e.set
                   [] e.to = "scale" -> got[a].cfg[1]
                   [] OTHER          -> wflags
    /\ wscale' = CASE e.to = "cfg" -> got[a].cfg[2] [] e.to = "scale" -> e.value [] OTHER -> wscale
    /\ wcmp' = IF e.to = "cmp" THEN e.value ELSE wcmp
    /\ wcount' = IF e.to = "feed" THEN 0 ELSE wcount

WriteWdog(a) ==
    /\ Able(a) /\ got[a].key /\ (Reads(Head(todo[a])) => got[a].cfg # <<>>)
    /\ IF key THEN Stores(a, Head(todo[a])) ELSE UNCHANGED <<wflags, wscale, wcmp, wcount>>
    /\ key' = FALSE
    /\ robbed' = (robbed \/ (a = "routine" /\ got["program"].key))
    /\ todo' = [todo EXCEPT ![a] = Tail(@)]
    /\ got' = [got EXCEPT ![a] = [key |-> Unlocked(a), cfg |-> <<>>]]
    /\ UNCHANGED <<want, bitten>>

\* The unit compares the scaled counter: it interrupts, resets, or starts over.
Matches == wcount \div 2 ^ wscale >= wcmp

Compare ==
    /\ ~bitten /\ Matches /\ wflags \cap {"ip", "rsten", "zerocmp"} # {"ip"}
    /\ wflags' = wflags \cup {"ip"}
    /\ bitten' = ("rsten" \in wflags)
    /\ wcount' = IF "zerocmp" \in wflags THEN 0 ELSE wcount
    /\ UNCHANGED <<wscale, wcmp, key, todo, got, want, robbed>>

WdogTick ==
    /\ ~bitten /\ wflags \cap {"enalways", "coreawake"} # {} /\ wcount < WdogMaxCount
    /\ wcount' = wcount + 1
    /\ UNCHANGED <<wflags, wscale, wcmp, key, todo, got, want, robbed, bitten>>

WdogNext ==
    \/ Begin \/ WdogTrap \/ Compare \/ WdogTick
    \/ \E a \in Actor2 : Unlock(a) \/ ReadCfg(a) \/ WriteWdog(a)

WdogSpec == WdogInit /\ [][WdogNext]_wdogVars

-----------------------------------------------------------------------------
(* sifive_wdog0.c:38: a read before the routine is never written back after *)
(* it, so that an interrupt it has cleared does not come back.              *)
InterruptStaysCleared ==
    \A a \in Actor2 : (todo'[a] # todo[a] /\ todo[a] # <<>>) => wflags' \cap {"ip"} \subseteq wflags

(* sifive_wdog0.c:102-105, 128-131: the watchdog does not bite before the   *)
(* time asked for, but while set_rate has cleared the scale or after a      *)
(* write was lost.                                                          *)
NoEarlyBite ==
    bitten' /\ ~bitten =>
        \/ robbed
        \/ todo["program"] # <<>> /\ Head(todo["program"]).to = "scale"
        \/ wcount \div 2 ^ want.scale >= want.cmp
        \/ todo["program"] # <<>> /\ wcount \div 2 ^ want.scale >= want.before

(* sifive_wdog0.c:184-195: run starts the counter from zero, unless the     *)
(* routine took the key of its feed.                                        *)
StartsFed ==
    (wflags' \ wflags) \cap {"enalways", "coreawake"} # {} => wcount = 0 \/ robbed

(* sifive_wdog0.c:32-38: the writes arrive.  A configuration is as the calls *)
(* asked, unless the routine took the key between the unlock and the write. *)
WdogIsAsTold ==
    /\ []((todo["program"] = <<>> /\ ~robbed) =>
            want.flags = wflags \ {"ip"} /\ want.scale = wscale /\ want.cmp = wcmp)
    /\ [][InterruptStaysCleared /\ NoEarlyBite /\ StartsFed]_wdogVars
=============================================================================
