--------------------------- MODULE WatchdogProofs ---------------------------
(***************************************************************************)
(* Theorems about Watchdog, for every set of arguments, every bound on the  *)
(* counter, and with or without a service routine that feeds.               *)
(***************************************************************************)
EXTENDS Watchdog, PowersProofs, TLAPS

\* The write sequences of the four calls, write by write.
LEMMA Programs ==
    /\ Len(WritesOf("feed")) = 2 /\ WritesOf("feed")[1] = "key" /\ WritesOf("feed")[2] = "feed"
    /\ Len(WritesOf("cfg")) = 2 /\ WritesOf("cfg")[1] = "key" /\ WritesOf("cfg")[2] = "cfg"
    /\ Len(WritesOf("set_timer")) = 2
    /\ WritesOf("set_timer")[1] = "key" /\ WritesOf("set_timer")[2] = "cmp"
    /\ Len(WritesOf("init")) = 6
    /\ WritesOf("init")[1] = "key" /\ WritesOf("init")[2] = "feed"
    /\ WritesOf("init")[3] = "key" /\ WritesOf("init")[4] = "cmp"
    /\ WritesOf("init")[5] = "key" /\ WritesOf("init")[6] = "cfg"
BY DEF WritesOf, aon_wdt_feed, aon_wdt_cfg, aon_wdt_set_timer, aon_wdt_init

LEMMA OneOrTwo ==
    ASSUME NEW i \in 1 .. 6, NEW n, n = 2, i <= n
    PROVE  i = 1 \/ i = 2
OBVIOUS

\* What a step of a call writes, and where the call goes next.
LEMMA StepShape ==
    ASSUME MainOK, main.op # "idle"
    PROVE  LET w == WritesOf(main.op)[main.step] IN
           /\ w \in {"key", "feed", "cmp", "cfg"}
           /\ w = "key" => /\ main.step < Len(WritesOf(main.op))
                           /\ WritesOf(main.op)[main.step + 1] # "key"
           /\ w # "key" /\ main.step # Len(WritesOf(main.op))
                => WritesOf(main.op)[main.step + 1] = "key"
           /\ main.step + 1 <= 6 \/ main.step = Len(WritesOf(main.op))
           /\ w = "feed" => main.op \in {"feed", "init"} /\ main.step = 2
           /\ main.op = "feed" => main.step <= 2
           /\ w \in {"cmp", "cfg"} =>
                main.op # "feed" /\ (main.op = "init" => main.step > 2)
           /\ main.op \in {"feed", "init"} /\ main.step = 2 => w = "feed"
<1>1. main.op \in {"feed", "cfg", "set_timer", "init"} /\ main.step \in 1 .. 6
      /\ main.step <= Len(WritesOf(main.op))
  BY DEF MainOK, Ops
<1>2. CASE main.op = "feed"
  <2>1. main.step = 1 \/ main.step = 2
    BY <1>1, <1>2, Programs, OneOrTwo
  <2>2. CASE main.step = 1  BY <2>2, <1>2, Programs
  <2>3. CASE main.step = 2  BY <2>3, <1>2, Programs
  <2> QED BY <2>1, <2>2, <2>3
<1>3. CASE main.op = "cfg"
  <2>1. main.step = 1 \/ main.step = 2
    BY <1>1, <1>3, Programs, OneOrTwo
  <2>2. CASE main.step = 1  BY <2>2, <1>3, Programs
  <2>3. CASE main.step = 2  BY <2>3, <1>3, Programs
  <2> QED BY <2>1, <2>2, <2>3
<1>4. CASE main.op = "set_timer"
  <2>1. main.step = 1 \/ main.step = 2
    BY <1>1, <1>4, Programs, OneOrTwo
  <2>2. CASE main.step = 1  BY <2>2, <1>4, Programs
  <2>3. CASE main.step = 2  BY <2>3, <1>4, Programs
  <2> QED BY <2>1, <2>2, <2>3
<1>5. CASE main.op = "init"
  <2>1. main.step \in {1, 2, 3, 4, 5, 6}
    BY <1>1
  <2>2. CASE main.step = 1  BY <2>2, <1>5, Programs
  <2>3. CASE main.step = 2  BY <2>3, <1>5, Programs
  <2>4. CASE main.step = 3  BY <2>4, <1>5, Programs
  <2>5. CASE main.step = 4  BY <2>5, <1>5, Programs
  <2>6. CASE main.step = 5  BY <2>6, <1>5, Programs
  <2>7. CASE main.step = 6  BY <2>7, <1>5, Programs
  <2> QED BY <2>1, <2>2, <2>3, <2>4, <2>5, <2>6, <2>7
<1> QED BY <1>1, <1>2, <1>3, <1>4, <1>5

LEMMA CfgType ==
    ASSUME NEW scale \in 0 .. AON_WDOGCFG_SCALE, NEW en \in 0 .. 2, NEW rst \in 0 .. 2
    PROVE  Cfg(scale, en, rst) \in Cfgs
BY DEF Cfgs

LEMMA ZeroCfg == 0 \in Cfgs
<1>1. 0 = Cfg(0, 0, 0) /\ 0 \in 0 .. AON_WDOGCFG_SCALE /\ 0 \in 0 .. 2
  BY DEF Cfg, AON_WDOGCFG_SCALE
<1> QED BY <1>1, CfgType

-----------------------------------------------------------------------------
LEMMA WritesType ==
    ASSUME WdtTypeOK, NEW w, Writes(w)
    PROVE  MainOK' /\ isr' = isr /\ since' \in [fed : BOOLEAN, returned : Nat, current : Nat]
<1>1. main.op # "idle" /\ isr' = isr
  BY DEF Writes
<1>2. MainOK /\ since \in [fed : BOOLEAN, returned : Nat, current : Nat]
  BY DEF WdtTypeOK, HistoryOK
<1>3. since' = since \/ since' = [since EXCEPT !.fed = TRUE, !.returned = since.current]
  BY DEF Writes
<1>4. since' \in [fed : BOOLEAN, returned : Nat, current : Nat]
  BY <1>2, <1>3
<1>5. CASE main.step = Len(WritesOf(main.op))
  <2>1. main' = Idle
    BY <1>5 DEF Writes
  <2> QED BY <2>1, <1>1, <1>4, ZeroCfg DEF MainOK, Idle
<1>6. CASE main.step # Len(WritesOf(main.op))
  <2>1. main' = [main EXCEPT !.step = @ + 1]
    BY <1>6 DEF Writes
  <2>2. main.step + 1 \in 1 .. 6 /\ main.step + 1 <= Len(WritesOf(main.op))
    <3>1. main.op \in Ops /\ main.step \in 1 .. 6 /\ main.step <= Len(WritesOf(main.op))
      BY <1>1, <1>2 DEF MainOK
    <3> DEFINE last == Len(WritesOf(main.op))
    <3>2. last \in {2, 6} /\ main.step # last
      BY <3>1, <1>6, Programs DEF Ops
    <3>3. main.step <= last
      BY <3>1
    <3> HIDE DEF last
    <3>4. main.step + 1 \in 1 .. 6 /\ main.step + 1 <= last
      BY <3>1, <3>2, <3>3
    <3> QED BY <3>4 DEF last
  <2>3. /\ main' \in [op : Ops \cup {"idle"}, step : 1 .. 6, ms : Millis \cup {0},
                      timer : Timers \cup {0}, cfg : Cfgs]
        /\ main'.op = main.op /\ main'.step = main.step + 1
    BY <2>1, <2>2, <1>2 DEF MainOK
  <2> QED BY <2>2, <2>3, <1>1, <1>4 DEF MainOK
<1> QED BY <1>5, <1>6

LEMMA StartType ==
    ASSUME WdtTypeOK, NEW op \in Ops, NEW ms \in Millis \cup {0}, NEW timer \in Timers \cup {0},
           NEW c \in Cfgs, StartCall(op, ms, timer, c)
    PROVE  WdtTypeOK'
<1>1. 1 <= Len(WritesOf(op)) /\ op # "idle"
  BY Programs DEF Ops
<1>2. MainOK'
  BY <1>1 DEF StartCall, MainOK
<1>3. HistoryOK'
  BY DEF StartCall, WdtTypeOK, HistoryOK
<1> QED BY <1>2, <1>3 DEF StartCall, WdtTypeOK, RegistersOK, IsrOK

\* The arguments of each call are of the types of the call record.
LEMMA CallsType ==
    ASSUME CallInit \/ CallFeed \/ CallCfg \/ CallSetTimer
    PROVE  \E op \in Ops, ms \in Millis \cup {0}, timer \in Timers \cup {0}, c \in Cfgs :
               StartCall(op, ms, timer, c)
<1>1. CASE CallInit
  <2>1. PICK ms \in Millis, en \in Ens, rst \in Rsts, timer \in Timers :
          /\ Accepted(ScaleOf(ms), en, rst)
          /\ StartCall("init", ms, timer, Cfg(ScaleOf(ms), en, rst))
    BY <1>1 DEF CallInit
  <2>2. en \in 0 .. 2 /\ rst \in 0 .. 2 /\ ScaleOf(ms) \in 0 .. AON_WDOGCFG_SCALE
    BY <2>1, EnumsAssumption DEF Accepted
  <2> QED BY <2>1, <2>2, CfgType DEF Ops
<1>2. CASE CallFeed
  BY <1>2, ZeroCfg DEF CallFeed, Ops
<1>3. CASE CallCfg
  <2>1. PICK scale \in Scales, en \in Ens, rst \in Rsts :
          Accepted(scale, en, rst) /\ StartCall("cfg", 0, 0, Cfg(scale, en, rst))
    BY <1>3 DEF CallCfg
  <2>2. en \in 0 .. 2 /\ rst \in 0 .. 2 /\ scale \in 0 .. AON_WDOGCFG_SCALE
    BY <2>1, EnumsAssumption DEF Accepted
  <2> QED BY <2>1, <2>2, CfgType DEF Ops
<1>4. CASE CallSetTimer
  BY <1>4, ZeroCfg DEF CallSetTimer, Ops
<1> QED BY <1>1, <1>2, <1>3, <1>4

LEMMA ResetCompares == 0 \in Compares /\ 65535 \in Compares
BY DEF Compares

LEMMA InitType == WdtInit => WdtTypeOK
<1> SUFFICES ASSUME WdtInit PROVE WdtTypeOK
  OBVIOUS
<1>1. cmp \in Compares
  BY ResetCompares DEF WdtInit
<1>0. unlocked = FALSE /\ cfg = 0 /\ age = 0 /\ isr = "none"
  BY DEF WdtInit
<1>2. RegistersOK /\ IsrOK
  BY <1>1, <1>0, ZeroCfg DEF RegistersOK, IsrOK
<1>3. MainOK
  BY ZeroCfg DEF WdtInit, Idle, MainOK
<1>4. HistoryOK
  <2>1. /\ asked = [cmp |-> cmp, cfg |-> 0] /\ robbed = FALSE /\ lost = {}
        /\ since = [fed |-> FALSE, returned |-> 0, current |-> 0]
    BY DEF WdtInit
  <2> QED BY <1>1, <2>1, ZeroCfg DEF HistoryOK
<1> QED BY <1>2, <1>3, <1>4 DEF WdtTypeOK

\* A part of WdtTypeOK whose variables a step leaves alone stays true.
LEMMA Frames ==
    /\ RegistersOK /\ UNCHANGED <<unlocked, cmp, cfg, age>> => RegistersOK'
    /\ MainOK /\ UNCHANGED main => MainOK'
    /\ IsrOK /\ UNCHANGED isr => IsrOK'
    /\ HistoryOK /\ UNCHANGED <<asked, robbed, lost, since>> => HistoryOK'
<1>1. RegistersOK /\ UNCHANGED <<unlocked, cmp, cfg, age>> => RegistersOK'
  BY DEF RegistersOK
<1>2. MainOK /\ UNCHANGED main => MainOK'
  BY DEF MainOK
<1>3. IsrOK /\ UNCHANGED isr => IsrOK'
  BY DEF IsrOK
<1>4. HistoryOK /\ UNCHANGED <<asked, robbed, lost, since>> => HistoryOK'
  BY DEF HistoryOK
<1> QED BY <1>1, <1>2, <1>3, <1>4

LEMMA NextType ==
    ASSUME WdtTypeOK, [WdtNext]_wdtVars
    PROVE  WdtTypeOK'
<1>0. RegistersOK /\ MainOK /\ IsrOK /\ HistoryOK
  BY DEF WdtTypeOK
<1>1. CASE CallInit \/ CallFeed \/ CallCfg \/ CallSetTimer
  BY <1>1, CallsType, StartType
<1>2. CASE WriteKey
  <2>1. MainOK' /\ isr' = isr /\ since' \in [fed : BOOLEAN, returned : Nat, current : Nat]
    BY <1>2, WritesType DEF WriteKey
  <2>2. RegistersOK'
    BY <1>0, <1>2 DEF WriteKey, RegistersOK
  <2>3. HistoryOK'
    BY <1>0, <1>2, <2>1 DEF WriteKey, HistoryOK
  <2> QED BY <2>1, <2>2, <2>3, <1>0, Frames DEF WdtTypeOK
<1>3. CASE WriteFeed
  <2>1. MainOK' /\ isr' = isr /\ since' \in [fed : BOOLEAN, returned : Nat, current : Nat]
    BY <1>3, WritesType DEF WriteFeed
  <2>2. RegistersOK'
    BY <1>0, <1>3 DEF WriteFeed, RegistersOK
  <2>3. HistoryOK'
    BY <1>0, <1>3, <2>1 DEF WriteFeed, HistoryOK
  <2> QED BY <2>1, <2>2, <2>3, <1>0, Frames DEF WdtTypeOK
<1>4. CASE WriteCmp
  <2>1. MainOK' /\ isr' = isr /\ since' \in [fed : BOOLEAN, returned : Nat, current : Nat]
    BY <1>4, WritesType DEF WriteCmp
  <2>2. main.timer \in Compares
    BY <1>0, ResetCompares, TimersAssumption DEF MainOK
  <2>3. RegistersOK'
    BY <1>0, <1>4, <2>2 DEF WriteCmp, RegistersOK
  <2>4. asked' \in [cmp : Compares, cfg : Cfgs]
    BY <1>0, <1>4, <2>2 DEF WriteCmp, HistoryOK
  <2>5. HistoryOK'
    BY <1>0, <1>4, <2>1, <2>4 DEF WriteCmp, HistoryOK
  <2> QED BY <2>1, <2>3, <2>5, <1>0, Frames DEF WdtTypeOK
<1>5. CASE WriteCfg
  <2>1. MainOK' /\ isr' = isr /\ since' \in [fed : BOOLEAN, returned : Nat, current : Nat]
    BY <1>5, WritesType DEF WriteCfg
  <2>2. main.cfg \in Cfgs
    BY <1>0 DEF MainOK
  <2>3. RegistersOK'
    BY <1>0, <1>5, <2>2 DEF WriteCfg, RegistersOK
  <2>4. asked' \in [cmp : Compares, cfg : Cfgs]
    BY <1>0, <1>5, <2>2 DEF WriteCfg, HistoryOK
  <2>5. HistoryOK'
    BY <1>0, <1>5, <2>1, <2>4 DEF WriteCfg, HistoryOK
  <2> QED BY <2>1, <2>3, <2>5, <1>0, Frames DEF WdtTypeOK
<1>6. CASE EnterIsr
  <2>1. IsrOK'
    BY <1>6 DEF EnterIsr, IsrOK
  <2> QED BY <2>1, <1>0, <1>6, Frames DEF EnterIsr, WdtTypeOK
<1>7. CASE IsrKey
  <2>1. IsrOK'
    BY <1>7 DEF IsrKey, IsrOK
  <2>2. RegistersOK'
    BY <1>0, <1>7 DEF IsrKey, RegistersOK
  <2> QED BY <2>1, <2>2, <1>0, <1>7, Frames DEF IsrKey, WdtTypeOK
<1>8. CASE IsrFeed
  <2>1. IsrOK'
    BY <1>8 DEF IsrFeed, IsrOK
  <2>2. RegistersOK'
    BY <1>0, <1>8 DEF IsrFeed, RegistersOK
  <2>3. HistoryOK'
    <3>1. MainUnlocked \in BOOLEAN
      BY DEF MainUnlocked
    <3> QED BY <3>1, <1>0, <1>8 DEF IsrFeed, HistoryOK
  <2> QED BY <2>1, <2>2, <2>3, <1>0, <1>8, Frames DEF IsrFeed, WdtTypeOK
<1>9. CASE CountUp
  <2>1. RegistersOK'
    BY <1>0, <1>9 DEF CountUp, RegistersOK
  <2>2. since' \in [fed : BOOLEAN, returned : Nat, current : Nat]
    <3>1. since.fed \in BOOLEAN /\ since.returned \in Nat /\ since.current \in Nat
      BY <1>0 DEF HistoryOK
    <3>2. since' = [since EXCEPT !.returned = IF since.fed THEN since.returned + 1 ELSE 0,
                                 !.current = since.current + 1]
      BY <1>9 DEF CountUp
    <3>3. since \in [fed : BOOLEAN, returned : Nat, current : Nat]
      BY <1>0 DEF HistoryOK
    <3> DEFINE r == IF since.fed THEN since.returned + 1 ELSE 0
    <3>4. r \in Nat /\ since.current + 1 \in Nat
      BY <3>1
    <3> HIDE DEF r
    <3> QED BY <3>2, <3>3, <3>4 DEF r
  <2>3. HistoryOK'
    BY <2>2, <1>0, <1>9 DEF CountUp, HistoryOK
  <2> QED BY <2>1, <2>3, <1>0, <1>9, Frames DEF CountUp, WdtTypeOK
<1>10. CASE Reset
  <2>1. RegistersOK' /\ IsrOK'
    BY <1>0, <1>10, ZeroCfg DEF Reset, RegistersOK, IsrOK
  <2>2. MainOK'
    BY <1>10, ZeroCfg DEF Reset, Idle, MainOK
  <2>3. HistoryOK'
    BY <1>0, <1>10, ZeroCfg DEF Reset, RegistersOK, HistoryOK
  <2> QED BY <2>1, <2>2, <2>3 DEF WdtTypeOK
<1>11. CASE UNCHANGED wdtVars
  BY <1>0, <1>11, Frames DEF wdtVars, WdtTypeOK
<1> QED BY <1>1, <1>2, <1>3, <1>4, <1>5, <1>6, <1>7, <1>8, <1>9, <1>10, <1>11 DEF WdtNext

\* Every variable has its type: in particular WDOGCFG only ever holds what an
\* accepted call encodes (aon.c:43-46, 69-72).
THEOREM WatchdogTypeCorrect == WdtSpec => []WdtTypeOK
<1>1. WdtInit => WdtTypeOK
  BY InitType
<1>2. WdtTypeOK /\ [WdtNext]_wdtVars => WdtTypeOK'
  BY NextType
<1> QED BY <1>1, <1>2, PTL DEF WdtSpec

-----------------------------------------------------------------------------
(***************************************************************************)
(* The inductive invariant.  An unlock is outstanding exactly while main is *)
(* at a protected write, unless the service routine has used it up, and     *)
(* while the service routine is at its own; when it has been used up the    *)
(* counter was zeroed by whoever used it.                                   *)
(***************************************************************************)
KeyBalance ==
    /\ isr = "feed" => unlocked
    /\ isr # "feed" /\ unlocked => MainUnlocked
    /\ isr # "feed" /\ MainUnlocked => unlocked \/ robbed
RobberIsIsr == robbed \/ isr # "none" => IsrFeeds
FedThisCall ==
    \/ main.op \in {"feed", "init"} /\ main.step = 2 /\ robbed
    \/ main.op = "init" /\ main.step > 2
    => age <= since.current

IInv ==
    WdtTypeOK /\ KeyBalance /\ RobberIsIsr /\ HoldsWhatWasAsked /\ FedThisCall /\ FeedIsNeverLost

LEMMA InitInductive == WdtInit => IInv
<1> SUFFICES ASSUME WdtInit PROVE IInv
  OBVIOUS
<1>1. WdtTypeOK
  BY InitType
<1>2. /\ unlocked = FALSE /\ cfg = 0 /\ age = 0 /\ isr = "none" /\ main = Idle
      /\ asked = [cmp |-> cmp, cfg |-> 0] /\ robbed = FALSE /\ lost = {}
      /\ since = [fed |-> FALSE, returned |-> 0, current |-> 0]
  BY DEF WdtInit
<1> QED BY <1>1, <1>2 DEF IInv, KeyBalance, RobberIsIsr, HoldsWhatWasAsked,
        FedThisCall, FeedIsNeverLost, MainUnlocked, Idle

\* Where the call is after write w, and what that means for the unlock.
LEMMA AfterWrite ==
    ASSUME MainOK, NEW w, Writes(w)
    PROVE  /\ w = "key" => MainUnlocked' /\ ~MainUnlocked
           /\ w # "key" => ~MainUnlocked' /\ MainUnlocked
           /\ isr = "none" /\ isr' = "none"
           /\ w = WritesOf(main.op)[main.step] /\ main.op # "idle"
           /\ main' = Idle \/ (main'.op = main.op /\ main'.step = main.step + 1)
           /\ main.step \in 1 .. 6
<1>1. /\ main.op # "idle" /\ w = WritesOf(main.op)[main.step]
      /\ isr = "none" /\ isr' = "none" /\ main.step \in 1 .. 6
  BY DEF Writes, MainOK
<1>2. w = "key" => main.step < Len(WritesOf(main.op)) /\ WritesOf(main.op)[main.step + 1] # "key"
  BY <1>1, StepShape
<1>3. w # "key" /\ main.step # Len(WritesOf(main.op)) => WritesOf(main.op)[main.step + 1] = "key"
  BY <1>1, StepShape
<1>4. CASE main.step = Len(WritesOf(main.op))
  <2>1. main' = Idle
    BY <1>4 DEF Writes
  <2>2. w # "key"
    BY <1>1, <1>2, <1>4
  <2> QED BY <2>1, <2>2, <1>1 DEF MainUnlocked, Idle
<1>5. CASE main.step # Len(WritesOf(main.op))
  <2>1. main' = [main EXCEPT !.step = @ + 1]
    BY <1>5 DEF Writes
  <2>2. main'.op = main.op /\ main'.step = main.step + 1
    BY <2>1 DEF MainOK
  <2>3. MainUnlocked' <=> WritesOf(main.op)[main.step + 1] # "key"
    BY <2>2, <1>1 DEF MainUnlocked
  <2> QED BY <2>2, <2>3, <1>1, <1>2, <1>3, <1>5 DEF MainUnlocked
<1> QED BY <1>4, <1>5

\* A started call has the key to write first.
LEMMA StartLocked ==
    ASSUME NEW op \in Ops, NEW ms, NEW timer, NEW c, StartCall(op, ms, timer, c)
    PROVE  /\ ~MainUnlocked /\ ~MainUnlocked'
           /\ main'.step = 1 /\ main'.op = op
<1>1. main' = [op |-> op, step |-> 1, ms |-> ms, timer |-> timer, cfg |-> c] /\ main.op = "idle"
  BY DEF StartCall
<1>2. WritesOf(op)[1] = "key"
  BY Programs DEF Ops
<1> QED BY <1>1, <1>2 DEF MainUnlocked

LEMMA StartInductive ==
    ASSUME IInv, NEW op \in Ops, NEW ms, NEW timer, NEW c, StartCall(op, ms, timer, c)
    PROVE  KeyBalance' /\ RobberIsIsr' /\ HoldsWhatWasAsked' /\ FedThisCall' /\ FeedIsNeverLost'
<1>1. /\ ~MainUnlocked /\ ~MainUnlocked' /\ main'.step = 1
      /\ isr = "none" /\ UNCHANGED <<unlocked, cmp, cfg, age, isr, asked, robbed, lost>>
      /\ since' = [since EXCEPT !.current = 0]
  BY StartLocked DEF StartCall
<1>2. KeyBalance' /\ RobberIsIsr'
  BY <1>1 DEF IInv, KeyBalance, RobberIsIsr
<1>3. HoldsWhatWasAsked' /\ FedThisCall'
  BY <1>1 DEF IInv, HoldsWhatWasAsked, FedThisCall
<1>4. FeedIsNeverLost'
  <2>1. since'.fed = since.fed /\ since'.returned = since.returned /\ age' = age
    BY <1>1 DEF IInv, WdtTypeOK, HistoryOK
  <2> QED BY <2>1 DEF IInv, FeedIsNeverLost
<1> QED BY <1>2, <1>3, <1>4

\* What returning, or moving on, does to the record of when the last feed began.
LEMMA SinceAfterWrite ==
    ASSUME HistoryOK, NEW w, Writes(w)
    PROVE  /\ since'.current = since.current
           /\ \/ since'.fed = since.fed /\ since'.returned = since.returned
              \/ /\ since'.fed /\ since'.returned = since.current
                 /\ main.op \in {"feed", "init"} /\ main.step = Len(WritesOf(main.op))
           /\ main.step # Len(WritesOf(main.op)) =>
                since'.fed = since.fed /\ since'.returned = since.returned
<1>1. since \in [fed : BOOLEAN, returned : Nat, current : Nat]
  BY DEF HistoryOK
<1>2. CASE since' = since /\ ~(main.op \in {"feed", "init"} /\ main.step = Len(WritesOf(main.op)))
  BY <1>2
<1>3. CASE /\ since' = [since EXCEPT !.fed = TRUE, !.returned = since.current]
           /\ main.op \in {"feed", "init"} /\ main.step = Len(WritesOf(main.op))
  BY <1>1, <1>3
<1>4. CASE since' = since /\ main.step # Len(WritesOf(main.op))
  BY <1>4
<1> QED BY <1>2, <1>3, <1>4 DEF Writes

LEMMA WriteKeyInductive ==
    ASSUME IInv, WriteKey
    PROVE  KeyBalance' /\ RobberIsIsr' /\ HoldsWhatWasAsked' /\ FedThisCall' /\ FeedIsNeverLost'
<1>1. WdtTypeOK /\ MainOK /\ HistoryOK /\ Writes("key")
  BY DEF IInv, WdtTypeOK, WriteKey
<1>2. /\ unlocked' /\ robbed' = FALSE /\ UNCHANGED <<cmp, cfg, age, asked, lost>>
      /\ MainUnlocked' /\ ~MainUnlocked /\ isr' = "none"
  BY <1>1, AfterWrite DEF WriteKey
<1>3. KeyBalance' /\ RobberIsIsr' /\ HoldsWhatWasAsked'
  BY <1>2 DEF IInv, KeyBalance, RobberIsIsr, HoldsWhatWasAsked
<1>4. main.step < Len(WritesOf(main.op)) /\ main.op # "idle"
  BY <1>1, StepShape DEF Writes
<1>5. /\ since'.current = since.current /\ since'.fed = since.fed
      /\ since'.returned = since.returned
  <2>1. main.step # Len(WritesOf(main.op))
    <3> DEFINE last == Len(WritesOf(main.op))
    <3>1. main.step < last /\ main.step \in 1 .. 6
      BY <1>1, <1>4 DEF MainOK
    <3> HIDE DEF last
    <3>2. main.step # last
      BY <3>1
    <3> QED BY <3>2 DEF last
  <2> QED BY <1>1, <2>1, SinceAfterWrite
<1>6. FeedIsNeverLost'
  BY <1>2, <1>5 DEF IInv, FeedIsNeverLost
<1>7. FedThisCall'
  <2>1. CASE main' = Idle
    BY <2>1 DEF Idle, FedThisCall
  <2>2. CASE main'.op = main.op /\ main'.step = main.step + 1
    <3>1. main.step \in 1 .. 6 /\ (main.step # 2 \/ main.op # "init")
      BY <1>1, <1>2, Programs DEF MainOK, MainUnlocked
    <3>2. main'.op = "init" /\ main'.step > 2 => main.step > 2
      BY <3>1, <2>2, <1>2, Programs, <1>1 DEF MainUnlocked, MainOK
    <3>3. ~robbed'
      BY <1>2
    <3> QED BY <3>2, <3>3, <2>2, <1>2, <1>5 DEF IInv, FedThisCall
  <2> QED BY <2>1, <2>2, <1>1, AfterWrite
<1> QED BY <1>3, <1>6, <1>7

LEMMA WriteFeedInductive ==
    ASSUME IInv, WriteFeed
    PROVE  KeyBalance' /\ RobberIsIsr' /\ HoldsWhatWasAsked' /\ FedThisCall' /\ FeedIsNeverLost'
<1>1. WdtTypeOK /\ MainOK /\ HistoryOK /\ Writes("feed")
  BY DEF IInv, WdtTypeOK, WriteFeed
<1>2. /\ ~unlocked' /\ robbed' = FALSE /\ UNCHANGED <<cmp, cfg, asked, lost>>
      /\ ~MainUnlocked' /\ MainUnlocked /\ isr = "none" /\ isr' = "none"
      /\ age' = IF unlocked THEN 0 ELSE age
  BY <1>1, AfterWrite DEF WriteFeed
<1>3. KeyBalance' /\ RobberIsIsr' /\ HoldsWhatWasAsked'
  BY <1>2 DEF IInv, KeyBalance, RobberIsIsr, HoldsWhatWasAsked
<1>4. main.op \in {"feed", "init"} /\ main.step = 2
  BY <1>1, StepShape DEF Writes
<1>5. /\ age' <= since.current
      /\ since.fed => age' <= since.returned
      /\ since.current \in Nat /\ age' \in Nat
  <2>1. age \in Nat /\ since.current \in Nat /\ since.returned \in Nat
    BY <1>1 DEF WdtTypeOK, RegistersOK, HistoryOK
  <2>2. since.fed => age <= since.returned
    BY DEF IInv, FeedIsNeverLost
  <2>3. CASE unlocked
    BY <2>1, <2>3, <1>2
  <2>4. CASE ~unlocked
    <3>1. robbed
      BY <2>4, <1>2 DEF IInv, KeyBalance
    <3>2. age <= since.current
      BY <3>1, <1>4 DEF IInv, FedThisCall
    <3> QED BY <3>2, <2>1, <2>2, <2>4, <1>2
  <2> QED BY <2>3, <2>4
<1>6. FedThisCall' /\ FeedIsNeverLost'
  BY <1>1, <1>5, SinceAfterWrite DEF FedThisCall, FeedIsNeverLost
<1> QED BY <1>3, <1>6

\* The two registers a call can set: the write holds unless it was robbed.
LEMMA SetRegisterInductive ==
    ASSUME IInv, NEW w \in {"cmp", "cfg"}, Writes(w),
           ~unlocked', robbed' = FALSE, age' = age
    PROVE  KeyBalance' /\ RobberIsIsr' /\ FedThisCall' /\ FeedIsNeverLost' /\ (unlocked \/ robbed)
<1>1. WdtTypeOK /\ MainOK /\ HistoryOK
  BY DEF IInv, WdtTypeOK
<1>2. /\ ~MainUnlocked' /\ MainUnlocked /\ isr = "none" /\ isr' = "none"
      /\ main.op # "idle" /\ main.step \in 1 .. 6
      /\ main' = Idle \/ (main'.op = main.op /\ main'.step = main.step + 1)
      /\ w = WritesOf(main.op)[main.step]
  BY <1>1, AfterWrite
<1>3. main.op # "feed" /\ (main.op = "init" => main.step > 2)
  BY <1>1, <1>2, StepShape
<1>4. main.op = "init" => age <= since.current
  BY <1>3 DEF IInv, FedThisCall
<1>5. since'.current = since.current
  BY <1>1, SinceAfterWrite
<1>6. FeedIsNeverLost'
  BY <1>1, <1>3, <1>4, SinceAfterWrite DEF IInv, FeedIsNeverLost
<1>7. FedThisCall'
  BY <1>2, <1>4, <1>5 DEF FedThisCall, Idle
<1>8. unlocked \/ robbed
  BY <1>2 DEF IInv, KeyBalance
<1>9. KeyBalance' /\ RobberIsIsr'
  BY <1>2 DEF KeyBalance, RobberIsIsr
<1> QED BY <1>6, <1>7, <1>8, <1>9

LEMMA WriteCmpInductive ==
    ASSUME IInv, WriteCmp
    PROVE  KeyBalance' /\ RobberIsIsr' /\ HoldsWhatWasAsked' /\ FedThisCall' /\ FeedIsNeverLost'
<1>1. /\ KeyBalance' /\ RobberIsIsr' /\ FedThisCall' /\ FeedIsNeverLost'
      /\ unlocked \/ robbed
  BY SetRegisterInductive DEF WriteCmp
<1>2. asked \in [cmp : Compares, cfg : Cfgs]
  BY DEF IInv, WdtTypeOK, HistoryOK
<1>3. asked'.cmp = main.timer /\ asked'.cfg = asked.cfg
  BY <1>2 DEF WriteCmp
<1>4. HoldsWhatWasAsked'
  BY <1>1, <1>3 DEF WriteCmp, IInv, HoldsWhatWasAsked, RobberIsIsr
<1> QED BY <1>1, <1>4

LEMMA WriteCfgInductive ==
    ASSUME IInv, WriteCfg
    PROVE  KeyBalance' /\ RobberIsIsr' /\ HoldsWhatWasAsked' /\ FedThisCall' /\ FeedIsNeverLost'
<1>1. /\ KeyBalance' /\ RobberIsIsr' /\ FedThisCall' /\ FeedIsNeverLost'
      /\ unlocked \/ robbed
  BY SetRegisterInductive DEF WriteCfg
<1>2. asked \in [cmp : Compares, cfg : Cfgs]
  BY DEF IInv, WdtTypeOK, HistoryOK
<1>3. asked'.cfg = main.cfg /\ asked'.cmp = asked.cmp
  BY <1>2 DEF WriteCfg
<1>4. HoldsWhatWasAsked'
  BY <1>1, <1>3 DEF WriteCfg, IInv, HoldsWhatWasAsked, RobberIsIsr
<1> QED BY <1>1, <1>4

\* The service routine's steps, the clock, and a reset.
LEMMA EnvironmentInductive ==
    ASSUME IInv, EnterIsr \/ IsrKey \/ IsrFeed \/ CountUp \/ Reset \/ UNCHANGED wdtVars
    PROVE  KeyBalance' /\ RobberIsIsr' /\ HoldsWhatWasAsked' /\ FedThisCall' /\ FeedIsNeverLost'
<1>0. UNCHANGED main => MainUnlocked' = MainUnlocked
  BY DEF MainUnlocked
<1>1. /\ age \in Nat /\ since \in [fed : BOOLEAN, returned : Nat, current : Nat]
      /\ since.fed \in BOOLEAN /\ since.returned \in Nat /\ since.current \in Nat
  BY DEF IInv, WdtTypeOK, RegistersOK, HistoryOK
<1>2. CASE EnterIsr
  BY <1>0, <1>2 DEF EnterIsr, IInv, KeyBalance, RobberIsIsr, HoldsWhatWasAsked, FedThisCall, FeedIsNeverLost
<1>3. CASE IsrKey
  BY <1>0, <1>3 DEF IsrKey, IInv, KeyBalance, RobberIsIsr, HoldsWhatWasAsked, FedThisCall, FeedIsNeverLost
<1>4. CASE IsrFeed
  <2>1. unlocked /\ IsrFeeds /\ age' = 0
    BY <1>4 DEF IsrFeed, IInv, KeyBalance, RobberIsIsr
  <2>2. FedThisCall' /\ FeedIsNeverLost'
    BY <2>1, <1>1, <1>4 DEF IsrFeed, FedThisCall, FeedIsNeverLost
  <2> QED BY <2>1, <2>2, <1>0, <1>4 DEF IsrFeed, IInv, KeyBalance, RobberIsIsr, HoldsWhatWasAsked
<1>5. CASE CountUp
  <2>1. KeyBalance' /\ RobberIsIsr' /\ HoldsWhatWasAsked'
    BY <1>0, <1>5 DEF CountUp, IInv, KeyBalance, RobberIsIsr, HoldsWhatWasAsked
  <2>2. age' \in Nat /\ age' <= age + 1
    BY <1>1, <1>5 DEF CountUp
  <2>3. /\ since'.current = since.current + 1 /\ since'.fed = since.fed
        /\ since.fed => since'.returned = since.returned + 1
        /\ UNCHANGED <<main, robbed>>
    BY <1>1, <1>5 DEF CountUp
  <2>4. FedThisCall'
    BY <1>1, <2>2, <2>3 DEF IInv, FedThisCall
  <2>5. FeedIsNeverLost'
    BY <1>1, <2>2, <2>3 DEF IInv, FeedIsNeverLost
  <2> QED BY <2>1, <2>4, <2>5
<1>6. CASE Reset
  BY <1>6 DEF Reset, Idle, KeyBalance, MainUnlocked, RobberIsIsr, HoldsWhatWasAsked,
     FedThisCall, FeedIsNeverLost
<1>7. CASE UNCHANGED wdtVars
  BY <1>0, <1>7 DEF wdtVars, IInv, KeyBalance, RobberIsIsr, HoldsWhatWasAsked, FedThisCall, FeedIsNeverLost
<1> QED BY <1>2, <1>3, <1>4, <1>5, <1>6, <1>7

LEMMA NextInductive == IInv /\ [WdtNext]_wdtVars => IInv'
<1> SUFFICES ASSUME IInv, [WdtNext]_wdtVars PROVE IInv'
  OBVIOUS
<1>1. WdtTypeOK'
  BY NextType DEF IInv
<1>2. KeyBalance' /\ RobberIsIsr' /\ HoldsWhatWasAsked' /\ FedThisCall' /\ FeedIsNeverLost'
  <2>1. CASE CallInit \/ CallFeed \/ CallCfg \/ CallSetTimer
    BY <2>1, CallsType, StartInductive
  <2> QED BY <2>1, WriteKeyInductive, WriteFeedInductive, WriteCmpInductive,
          WriteCfgInductive, EnvironmentInductive DEF WdtNext
<1> QED BY <1>1, <1>2 DEF IInv

\* The strengthening that makes the safety properties inductive: the key and
\* the writes it admits balance, whoever preempts whom (aon.c:31-102).
THEOREM WatchdogInductive == WdtSpec => []IInv
<1> QED BY InitInductive, NextInductive, PTL DEF WdtSpec

\* No call leaves a watchdog register unlocked behind it.
THEOREM NoUnlockLeftBehind == WdtSpec => []LockedAtRest
<1>1. IInv => LockedAtRest
  BY DEF IInv, KeyBalance, LockedAtRest, MainUnlocked
<1> QED BY <1>1, WatchdogInductive, PTL

\* A register of the watchdog differs from what was last written to it only
\* when the service routine's feed came between that write and its key.
THEOREM WritesHoldUnlessRobbed == WdtSpec => []HoldsWhatWasAsked
<1>1. IInv => HoldsWhatWasAsked
  BY DEF IInv
<1> QED BY <1>1, WatchdogInductive, PTL

\* A feed that has returned has zeroed the counter since it began.
THEOREM FeedsAreNeverLost == WdtSpec => []FeedIsNeverLost
<1>1. IInv => FeedIsNeverLost
  BY DEF IInv
<1> QED BY <1>1, WatchdogInductive, PTL

\* All three: the keys of the calls and of the service routine's feed do what
\* they are for, for any periods, timers, scales and preemptions.
THEOREM KeysWork == WdtSpec => []WdtKeysWork
<1>1. LockedAtRest /\ HoldsWhatWasAsked /\ FeedIsNeverLost => WdtKeysWork
  BY DEF WdtKeysWork
<1> QED BY <1>1, NoUnlockLeftBehind, WritesHoldUnlessRobbed, FeedsAreNeverLost, PTL

-----------------------------------------------------------------------------
(* The scale of a period.                                                   *)

\* What the register does not hold.
Above(n) == n > 65535

\* A halving at a time until the register holds what is left.
LEMMA HalvingsIs ==
    Halvings \in [Nat -> Nat] /\ \A n \in Nat : Halvings[n] = IF Above(n) THEN 1 + Halvings[n \div 2] ELSE 0
<1>0. \A n \in Nat : Above(n) => n \div 2 < n /\ n > 0
  BY SMT DEF Above
<1> DEFINE m == [n \in Nat |-> n]
           base == [n \in Nat |-> 0]
           pred == [n \in Nat |-> n \div 2]
           step == [p \in Nat \X Nat |-> 1 + p[2]]
           stop == {n \in Nat : ~(Above(n))}
           P(f) == f = [n \in Nat |-> IF Above(n) THEN 1 + f[n \div 2] ELSE 0]
<1>1. /\ m \in [Nat -> Nat] /\ base \in [Nat -> Nat] /\ step \in [Nat \X Nat -> Nat]
      /\ pred \in [Nat -> Nat]
  OBVIOUS
<1>2. \A n \in Nat : n \notin stop => m[pred[n]] < m[n]
  BY <1>0
<1>3. \A n \in Nat : m[n] = n /\ base[n] = 0 /\ pred[n] = n \div 2 /\ n \div 2 \in Nat /\ (n \in stop <=> ~(Above(n)))
  OBVIOUS
<1>4. \A n \in Nat, v \in Nat : step[<<n, v>>] = 1 + v
  OBVIOUS
<1> HIDE DEF m, base, pred, step, stop
<1>5. Recursion(Nat, Nat, stop, m, base, pred, step)
  BY <1>1, <1>2 DEF Recursion
<1>6. PICK f \in [Nat -> Nat] : Solves(f, Nat, stop, base, pred, step)
  BY <1>5, RecursionEnds
<1>7. \A n \in Nat : f[n] = IF Above(n) THEN 1 + f[n \div 2] ELSE 0
  <2>1. \A n \in Nat : f[n] = IF n \in stop THEN base[n] ELSE step[<<n, f[pred[n]]>>]
    BY <1>6 DEF Solves
  <2>2. SUFFICES ASSUME NEW n \in Nat PROVE f[n] = IF Above(n) THEN 1 + f[n \div 2] ELSE 0
    OBVIOUS
  <2>3. f[n \div 2] \in Nat /\ pred[n] = n \div 2
    BY <1>3, <1>6
  <2>4. step[<<n, f[n \div 2]>>] = 1 + f[n \div 2]
    BY <1>4, <2>3
  <2>5. QED
    BY <1>3, <2>1, <2>3, <2>4
<1>8. P(f)
  BY <1>6, <1>7
<1>9. Halvings = CHOOSE f0 : P(f0)
  BY SMT DEF Halvings, Above
<1>10. P(Halvings)
  BY <1>8, <1>9, Zenon
<1>11. \A n \in Nat : Halvings[n] = IF Above(n) THEN 1 + Halvings[n \div 2] ELSE 0
  BY <1>10
<1> HIDE DEF P
<1>12. \A n \in Nat : Halvings[n] = f[n]
  <2> DEFINE T == {n \in Nat : Halvings[n] # f[n]}
  <2>1. SUFFICES ASSUME T # {} PROVE FALSE
    OBVIOUS
  <2>2. PICK n \in T : \A k \in T : n <= k
    BY <2>1, LeastElement
  <2>3. n \div 2 \in Nat /\ (Above(n) => n \div 2 < n)
    BY <1>0, <2>2
  <2>4. Above(n) => Halvings[n \div 2] = f[n \div 2]
    BY <2>2, <2>3
  <2>5. QED
    BY <1>7, <1>11, <2>2, <2>4
<1>13. QED
  <2>1. DOMAIN Halvings = Nat /\ Halvings = [n \in DOMAIN Halvings |-> Halvings[n]]
    BY <1>10 DEF P
  <2>2. QED
    BY <1>6, <1>11, <1>12, <2>1

\* They leave what the register holds, and one less would not.
Fits(n) ==
    /\ ~Above(n \div PowerOf2[Halvings[n]])
    /\ Halvings[n] > 0 => Above(n \div PowerOf2[Halvings[n] - 1])

LEMMA HalvingsFit == \A n \in Nat : Fits(n)
<1> DEFINE T == {n \in Nat : ~Fits(n)}
<1>1. SUFFICES ASSUME T # {} PROVE FALSE
  OBVIOUS
<1>2. PICK n \in T : \A k \in T : n <= k
  BY <1>1, LeastElement
<1>3. n \in Nat /\ ~Fits(n)
  BY <1>2
<1>4. n \div PowerOf2[0] = n
  BY <1>3, PowerNext
<1>5. Above(n)
  <2>1. SUFFICES ASSUME ~(Above(n)) PROVE FALSE
    OBVIOUS
  <2>2. Halvings[n] = 0
    BY <1>3, <2>1, HalvingsIs
  <2>3. QED
    BY <1>3, <1>4, <2>1, <2>2 DEF Fits
<1> DEFINE h == n \div 2
<1>6. h \in Nat /\ h < n
  BY <1>3, <1>5, SMT DEF Above
<1>7. Fits(h)
  BY <1>2, <1>6
<1> DEFINE k == Halvings[h]
<1>8. k \in Nat /\ Halvings[n] = 1 + k
  BY <1>3, <1>5, <1>6, HalvingsIs
<1>9. ASSUME NEW j \in Nat PROVE h \div PowerOf2[j] = n \div PowerOf2[j + 1]
  <2>1. PowerOf2[j] \in Nat \ {0} /\ 2 \in Nat \ {0} /\ PowerOf2[j + 1] = 2 * PowerOf2[j]
    BY PowerNext
  <2>2. PowerOf2[j] * 2 = 2 * PowerOf2[j]
    BY <2>1
  <2>3. (n \div 2) \div PowerOf2[j] = n \div (PowerOf2[j] * 2)
    BY <1>3, <2>1, DivisionTwice
  <2>4. QED
    BY <2>1, <2>2, <2>3, Zenon
<1> HIDE DEF h, k
<1>10. ~Above(n \div PowerOf2[1 + k])
  <2>1. ~Above(h \div PowerOf2[k])
    BY <1>7, Zenon DEF Fits, k
  <2>2. h \div PowerOf2[k] = n \div PowerOf2[k + 1] /\ k + 1 = 1 + k
    BY <1>8, <1>9
  <2>3. QED
    BY <2>1, <2>2
<1>11. Above(n \div PowerOf2[(1 + k) - 1])
  <2>1. (1 + k) - 1 = k
    BY <1>8
  <2>2. CASE k = 0
    BY <1>4, <1>5, <2>1, <2>2
  <2>3. CASE k # 0
    <3>1. Above(h \div PowerOf2[k - 1])
      BY <1>7, <1>8, <2>3 DEF Fits, k
    <3> DEFINE j == k - 1
    <3>2. j \in Nat /\ j + 1 = k
      BY <1>8, <2>3
    <3> HIDE DEF j
    <3>3. h \div PowerOf2[j] = n \div PowerOf2[j + 1]
      BY <3>2, <1>9
    <3>4. Above(h \div PowerOf2[j])
      BY <3>1 DEF j
    <3>5. QED
      BY <2>1, <3>2, <3>3, <3>4
  <2>4. QED
    BY <2>2, <2>3
<1>12. QED
  BY <1>3, <1>8, <1>10, <1>11 DEF Fits

\* The call's record keeps the scale that the loop found.
ScaleKept == main.op = "init" => main.ms \in Nat /\ Scale(main.cfg) = ScaleOf(main.ms)

LEMMA ScaleOfCfg ==
    ASSUME NEW scale, NEW en \in Ens, NEW rst \in Rsts, Accepted(scale, en, rst)
    PROVE  Scale(Cfg(scale, en, rst)) = scale
<1>1. scale \in 0 .. 15 /\ en \in 0 .. 2 /\ rst \in 0 .. 2
  BY EnumsAssumption, SMT DEF Accepted, AON_WDOGCFG_SCALE
<1>2. QED
  BY <1>1, SMT DEF Scale, Cfg

LEMMA ScaleStays ==
    WdtTypeOK /\ ScaleKept /\ [WdtNext]_wdtVars => ScaleKept'
<1>1. SUFFICES ASSUME MainOK, ScaleKept, [WdtNext]_wdtVars PROVE ScaleKept'
  BY SMT DEF WdtTypeOK
<1>2. CASE UNCHANGED main
  BY <1>1, <1>2, SMT DEF ScaleKept, Scale, ScaleOf, RtcTicks
<1>3. CASE main' = Idle
  BY <1>3, SMT DEF ScaleKept, Idle
<1>4. CASE main' = [main EXCEPT !.step = @ + 1]
  <2>1. main'.op = main.op /\ main'.ms = main.ms /\ main'.cfg = main.cfg
    BY <1>1, <1>4, SMT DEF MainOK
  <2>2. QED
    BY <1>1, <2>1, SMT DEF ScaleKept, Scale, ScaleOf, RtcTicks
<1>5. CASE CallInit
  <2>1. PICK ms \in Millis, en \in Ens, rst \in Rsts, timer \in Timers :
          /\ Accepted(ScaleOf(ms), en, rst)
          /\ StartCall("init", ms, timer, Cfg(ScaleOf(ms), en, rst))
    BY <1>5, SMT DEF CallInit
  <2>2. main'.ms = ms /\ main'.cfg = Cfg(ScaleOf(ms), en, rst)
    BY <2>1, SMT DEF StartCall
  <2>3. Scale(Cfg(ScaleOf(ms), en, rst)) = ScaleOf(ms)
    BY <2>1, ScaleOfCfg, SMT
  <2>4. Scale(main'.cfg) = ScaleOf(main'.ms) /\ ms \in Nat
    BY <2>2, <2>3, MillisAssumption, SMT
  <2>5. Scale(main.cfg)' = Scale(main'.cfg) /\ ScaleOf(main.ms)' = ScaleOf(main'.ms)
    BY SMT DEF Scale, ScaleOf, RtcTicks
  <2>6. QED
    BY <2>2, <2>4, <2>5, SMT DEF ScaleKept
<1>6. CASE CallFeed \/ CallCfg \/ CallSetTimer
  <2>1. main'.op # "init"
    BY <1>6, SMT DEF CallFeed, CallCfg, CallSetTimer, StartCall
  <2>2. QED
    BY <2>1, SMT DEF ScaleKept
<1>7. \/ UNCHANGED main \/ main' = Idle \/ main' = [main EXCEPT !.step = @ + 1]
      \/ CallInit \/ CallFeed \/ CallCfg \/ CallSetTimer
  BY <1>1, SMT DEF WdtNext, wdtVars, WriteKey, WriteFeed, WriteCmp, WriteCfg, Writes, EnterIsr, IsrKey, IsrFeed, CountUp, Reset
<1>8. QED
  BY <1>2, <1>3, <1>4, <1>5, <1>6, <1>7, SMT

\* aon_wdt_init picks the least scale that brings its period within the        *)
\* register, for any period whose product fits in 32 bits.                    *)
THEOREM ScaleIsLeast == WdtSpec => []ScaleFitsPeriod
<1>1. WdtInit => ScaleKept
  BY SMT DEF WdtInit, Idle, ScaleKept
<1>2. ScaleKept => ScaleFitsPeriod
  <2>1. SUFFICES ASSUME ScaleKept PROVE ScaleFitsPeriod
    OBVIOUS
  <2> DEFINE ticks == (main.ms * 4096) \div 125
             scale == Scale(main.cfg)
  <2>2. main.op = "init" /\ main.ms < 131072 => ticks \in Nat /\ RtcTicks(main.ms) = ticks
    BY <2>1, SMT DEF ScaleKept, RtcTicks
  <2>3. main.op = "init" /\ main.ms < 131072 => scale = Halvings[ticks] /\ Fits(ticks)
    <3> HIDE DEF ticks
    <3>1. QED
      BY <2>1, <2>2, HalvingsFit, SMT DEF ScaleKept, ScaleOf
  <2>4. main.op = "init" /\ main.ms < 131072 =>
            /\ ~(ticks \div PowerOf2[scale] > 65535)
            /\ scale > 0 => ticks \div PowerOf2[scale - 1] > 65535
    <3> HIDE DEF ticks, scale
    <3>1. QED
      BY <2>3, SMT DEF Fits, Above
  <2>5. main.op = "init" /\ main.ms < 131072 => ticks \div PowerOf2[scale] \in Int
    <3> DEFINE c == main.op = "init" /\ main.ms < 131072
    <3> HIDE DEF ticks, scale
    <3>1. c => ticks \in Int /\ PowerOf2[scale] \in Nat \ {0}
      BY <2>2, <2>3, HalvingsIs, PowerNext, SMT
    <3> HIDE DEF c
    <3>2. c => ticks \div PowerOf2[scale] \in Int
      BY <3>1, Division, Zenon
    <3>3. QED
      BY <3>2, SMT DEF c
  <2>6. QED
    <3> DEFINE d == ticks \div PowerOf2[scale]
               e == ticks \div PowerOf2[scale - 1]
               c == main.op = "init" /\ main.ms < 131072
    <3>1. c => ~(d > 65535) /\ d \in Int /\ (scale > 0 => e > 65535)
      BY <2>4, <2>5, SMT
    <3>2. ScaleFitsPeriod <=> (c => d <= 65535 /\ (scale > 0 => e > 65535))
      BY SMT DEF ScaleFitsPeriod
    <3> HIDE DEF d, e, c, scale
    <3>3. QED
      BY <3>1, <3>2, SMT
<1>3. QED
  BY <1>1, <1>2, ScaleStays, WatchdogTypeCorrect, PTL DEF WdtSpec
=============================================================================
