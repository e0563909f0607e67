--------------------------------- MODULE MetalRtc ---------------------------------
(***************************************************************************)
(* sifive_rtc0.c: freedom-metal's real time counter, two words of RtcWord     *)
(* values (of 2^32 in the code), and its comparator, one word of the counter  *)
(* scaled down.  The routine of its interrupt, the program's, may stop it.    *)
(***************************************************************************)
EXTENDS Powers

CONSTANTS
    RtcWord,        \* the values of a word
    RtcMaxCount,    \* a bound: how far the counter goes by itself
    RtcCompares, RtcCounts  \* what set_compare and set_count are asked

ASSUME RtcWordAssumption == RtcWord \in Nat \ {0, 1} /\ RtcMaxCount < RtcWord * RtcWord
ASSUME RtcValuesAssumption == RtcCompares \cup RtcCounts \subseteq 0 .. RtcWord * RtcWord - 1

VARIABLES
    rscale, always,     \* RTCCFG
    rcmp, rcount,       \* RTCCMP0 and the two words of RTCCOUNT
    rcall, rpc, rarg,   \* the program's call, where it is, its argument
    held2,              \* what it has read or computed
    since,              \* the counter when the call started, or last set it (history)
    stopped2            \* the routine stopped the counter since the program read RTCCFG (history)

rtc0Regs == <<rscale, always, rcmp, rcount>>
rtc0Vars == <<rtc0Regs, rcall, rpc, rarg, held2, since, stopped2>>

High(c) == c \div RtcWord
Low(c)  == c % RtcWord

Rtc0Init ==
    /\ rscale = 0 /\ always = FALSE /\ rcmp = 0 /\ rcount = 0
    /\ rcall = "none" /\ rpc = "idle" /\ rarg = 0 /\ held2 = [cfg |-> <<0, FALSE>>, value |-> 0]
    /\ since = 0 /\ stopped2 = FALSE

\* A call takes less than a word of ticks: a day and a half.
RtcTicks ==
    /\ always /\ rcount < RtcMaxCount
    /\ rpc # "idle" => rcount - since < RtcWord - 1
    /\ rcount' = rcount + 1
    /\ UNCHANGED <<rscale, always, rcmp, rcall, rpc, rarg, held2, since, stopped2>>

RtcCall(c, args, pc) ==
    /\ rpc = "idle"
    /\ rcall' = c /\ rpc' = pc /\ rarg' \in args /\ since' = rcount
    /\ UNCHANGED <<rtc0Regs, held2, stopped2>>

RtcReturns == rpc' = "idle"

\* The shift the loop ends with and what it leaves: the value moves by one more
\* bit in every round.
Shifted[s \in Nat \X Nat] ==
    IF s[1] >= RtcWord THEN Shifted[<<s[1] \div PowerOf2[s[2] + 1], s[2] + 1>>] ELSE s
Scaled(v) == Shifted[<<v, 0>>]

\* The flag is written back as it was read.
FlagKept     == held2.cfg[2]

set_compare ==
    \/ rpc = "compare" /\ held2' = [held2 EXCEPT !.cfg = <<rscale, always>>] /\ rpc' = "scale"
       /\ stopped2' = FALSE /\ UNCHANGED rtc0Regs
    \/ rpc = "scale" /\ rscale' = Scaled(rarg)[2] % 16 /\ always' = FlagKept /\ rpc' = "cmp"
       /\ UNCHANGED <<rcmp, rcount, held2, stopped2>>
    \/ rpc = "cmp" /\ rcmp' = Scaled(rarg)[1] /\ RtcReturns
       /\ UNCHANGED <<rscale, always, rcount, held2, stopped2>>

get_compare == rcmp * PowerOf2[rscale]
\* Mutant: _lowFirst reads the words the other way around.
CountRead_lowFirst(k) == IF k = 1 THEN Low(rcount) ELSE held2.value + RtcWord * High(rcount)
CountRead(k)          == IF k = 1 THEN RtcWord * High(rcount) ELSE held2.value + Low(rcount)

get_count ==
    \/ rpc = "high" /\ held2' = [held2 EXCEPT !.value = CountRead(1)] /\ rpc' = "low"
       /\ UNCHANGED <<rtc0Regs, stopped2>>
    \/ rpc = "low" /\ held2' = [held2 EXCEPT !.value = CountRead(2)] /\ RtcReturns
       /\ UNCHANGED <<rtc0Regs, stopped2>>

\* The high word, then the low word; get_count follows.
CountSet(k) == IF k = 1 THEN RtcWord * High(rarg) + Low(rcount) ELSE RtcWord * High(rcount) + Low(rarg)

set_count ==
    \/ rpc = "setHigh" /\ rcount' = CountSet(1) /\ rpc' = "setLow" /\ since' = rcount'
       /\ UNCHANGED <<rscale, always, rcmp, held2, stopped2>>
    \/ rpc = "setLow" /\ rcount' = CountSet(2) /\ rpc' = "high" /\ since' = rcount'
       /\ UNCHANGED <<rscale, always, rcmp, held2, stopped2>>

rtc_run ==
    \/ rpc = "cfg" /\ held2' = [held2 EXCEPT !.cfg = <<rscale, always>>] /\ rpc' = "flag"
       /\ stopped2' = FALSE /\ UNCHANGED rtc0Regs
    \/ rpc = "flag" /\ always' = (rarg = 1) /\ rscale' = held2.cfg[1] /\ RtcReturns
       /\ UNCHANGED <<rcmp, rcount, held2, stopped2>>

\* The alarm's routine, between any two steps of the program.
RtcAlarm ==
    /\ rcount \div PowerOf2[rscale] >= rcmp /\ always
    /\ always' = FALSE /\ stopped2' = TRUE
    /\ UNCHANGED <<rscale, rcmp, rcount, rcall, rpc, rarg, held2, since>>

\* What rtc.h offers that takes more than one access.
RtcCalls ==
    \/ RtcCall("set_compare", RtcCompares, "compare") \/ RtcCall("get_count", {0}, "high")
    \/ RtcCall("set_count", RtcCounts, "setHigh") \/ RtcCall("run", {0, 1}, "cfg")

Rtc0Next ==
    \/ RtcTicks \/ RtcAlarm \/ RtcCalls
    \/ (set_compare \/ get_count \/ rtc_run) /\ UNCHANGED <<rcall, rarg, since>>
    \/ set_count /\ UNCHANGED <<rcall, rarg>>

Rtc0Spec == Rtc0Init /\ [][Rtc0Next]_rtc0Vars

-----------------------------------------------------------------------------
(* sifive_rtc0.c:56-61: the comparator is never set later than asked; it is *)
(* what was asked up to a bit, until the value takes more than two words of *)
(* a comparator, and no more than half of it from there on.                 *)
CompareHalvesBeyondTwice ==
    (rpc = "cmp" /\ rpc' = "idle") =>
        LET set == rcmp' * PowerOf2[rscale'] IN
        /\ set <= rarg
        /\ rarg < 2 * RtcWord => rarg - set <= 1
        /\ rarg >= 2 * RtcWord => 2 * set <= rarg

(* sifive_rtc0.c:79-81: get_count never returns a time that has not come;   *)
(* it may return one of before the call, if the low word wraps in it.       *)
CountNeverAhead ==
    (rpc = "low" /\ rpc' = "idle") =>
        /\ held2'.value <= rcount
        /\ held2'.value >= since \/ High(rcount) # High(since)

(* sifive_rtc0.c:90-91: the counter is set to what was asked, unless the low *)
(* word wraps between the two writes: then it is a whole word ahead.        *)
CountSetAsAsked ==
    (rpc = "setLow" /\ rpc' = "high") => rcount' \in {rarg, rarg + RtcWord}

(* sifive_rtc0.c:64-67: a counter that its routine stopped runs again by    *)
(* itself only if set_compare had read the configuration before.            *)
StopLostInRace ==
    (always' /\ ~always /\ rcall # "run") => stopped2 /\ rpc = "scale"

(* A count in two words, and a comparator in one that is scaled.            *)
RtcKeepsTime ==
    [][CompareHalvesBeyondTwice /\ CountNeverAhead /\ CountSetAsAsked /\ StopLostInRace]_rtc0Vars
=============================================================================
