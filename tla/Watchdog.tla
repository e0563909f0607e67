------------------------------ MODULE Watchdog ------------------------------
(***************************************************************************)
(* The watchdog calls of aon.c.  Every watchdog register is locked: a write *)
(* of the key to WDOGKEY lets exactly one following write through.  The     *)
(* foreground makes any of the calls; a service routine may call            *)
(* aon_wdt_feed between any two of its writes.                              *)
(*                                                                         *)
(* asked, robbed, lost and since are history variables: they record what    *)
(* the foreground is entitled to count on and influence nothing.            *)
(***************************************************************************)
EXTENDS Powers, Sequences

CONSTANTS
    Millis,     \* the periods passed to aon_wdt_init
    Timers,     \* the compare values passed
    Scales,     \* the scales passed to aon_wdt_cfg
    Ens, Rsts,  \* the wdt_en_t and wdt_rst_t arguments passed
    IsrFeeds,   \* a service routine feeds the watchdog
    MaxAge      \* the bound on the counter

AON_WDOGCFG_SCALE == 15

\* The values of the 16-bit compare register.
Compares == 0 .. 65535

ASSUME MillisAssumption   == Millis \subseteq Nat
ASSUME TimersAssumption   == Timers \subseteq Compares
ASSUME ScalesAssumption   == Scales \subseteq 0 .. 255
ASSUME EnumsAssumption    == Ens \subseteq Nat /\ Rsts \subseteq Nat
ASSUME IsrFeedsAssumption == IsrFeeds \in BOOLEAN
ASSUME MaxAgeAssumption   == MaxAge \in Nat

(***************************************************************************)
(* ms * RTC_FREQ / 1000 in 32-bit arithmetic: the product keeps 17 bits of  *)
(* ms, and both factors are divided by 8.                                   *)
(***************************************************************************)
RtcTicks(ms) == ((ms % 131072) * 4096) \div 125

\* Mutant: the halving stops one too early.
HalvingsOffByOne[cmp \in Nat] == IF cmp > 65536 THEN 1 + HalvingsOffByOne[cmp \div 2] ELSE 0

\* while (cmp > 65535) { scale++; cmp /= 2; }
Halvings[cmp \in Nat] == IF cmp > 65535 THEN 1 + Halvings[cmp \div 2] ELSE 0
ScaleLate(ms) == HalvingsOffByOne[RtcTicks(ms)]
ScaleOf(ms)   == Halvings[RtcTicks(ms)]

\* scale | (rst << 8) | (en << 12): the fields do not overlap.
Cfg(scale, en, rst) == scale + rst * 256 + en * 4096

Accepted(scale, en, rst) == scale \in 0 .. AON_WDOGCFG_SCALE /\ en <= 2 /\ rst <= 2

\* The writes of each call; every protected write follows a key.
\* Mutant: _one_key counts on one unlock for two writes.
aon_wdt_feed      == <<"key", "feed">>
aon_wdt_cfg       == <<"key", "cfg">>
aon_wdt_set_timer == <<"key", "cmp">>
aon_wdt_init_one_key == <<"key", "feed", "cmp", "key", "cfg">>
aon_wdt_init      == <<"key", "feed", "key", "cmp", "key", "cfg">>

WritesOf(op) ==
    CASE op = "feed"      -> aon_wdt_feed
      [] op = "cfg"       -> aon_wdt_cfg
      [] op = "set_timer" -> aon_wdt_set_timer
      [] op = "init"      -> aon_wdt_init
      [] OTHER            -> <<>>

VARIABLES
    unlocked,   \* the key has been written and nothing since
    cmp, cfg,   \* WDOGCMP and WDOGCFG
    age,        \* WDOGCOUNT: ticks since the counter was fed
    main,       \* the call the foreground is in
    isr,        \* the service routine: "none", "key" or "feed" is next
    asked,      \* the last values the foreground wrote to cmp and cfg
    robbed,     \* the service routine used up the unlock main wrote the key for
    lost,       \* registers whose last write was made without an unlock
    since       \* whether a feed has returned, the ticks since the start of the
                \* last that has, and since the start of the current call

wdtVars == <<unlocked, cmp, cfg, age, main, isr, asked, robbed, lost, since>>

Idle == [op |-> "idle", step |-> 1, ms |-> 0, timer |-> 0, cfg |-> 0]

\* The reset value of WDOGCMP is not the code's concern.
WdtInit ==
    /\ unlocked = FALSE /\ cmp \in {0, 65535} /\ cfg = 0
    /\ age = 0
    /\ main = Idle /\ isr = "none"
    /\ asked = [cmp |-> cmp, cfg |-> 0] /\ robbed = FALSE /\ lost = {}
    /\ since = [fed |-> FALSE, returned |-> 0, current |-> 0]

-----------------------------------------------------------------------------
(* The calls.  One that is refused returns before its first write.         *)

StartCall(op, ms, timer, c) ==
    /\ isr = "none" /\ main.op = "idle"
    /\ main' = [op |-> op, step |-> 1, ms |-> ms, timer |-> timer, cfg |-> c]
    /\ since' = [since EXCEPT !.current = 0]
    /\ UNCHANGED <<unlocked, cmp, cfg, age, isr, asked, robbed, lost>>

CallInit ==
    \E ms \in Millis, en \in Ens, rst \in Rsts, timer \in Timers :
        /\ Accepted(ScaleOf(ms), en, rst)
        /\ StartCall("init", ms, timer, Cfg(ScaleOf(ms), en, rst))

CallFeed == StartCall("feed", 0, 0, 0)

CallCfg ==
    \E scale \in Scales, en \in Ens, rst \in Rsts :
        /\ Accepted(scale, en, rst)
        /\ StartCall("cfg", 0, 0, Cfg(scale, en, rst))

CallSetTimer == \E timer \in Timers : StartCall("set_timer", 0, timer, 0)

\* Main performs write w of its call, and returns after the last one.
Writes(w) ==
    /\ isr = "none" /\ main.op # "idle"
    /\ WritesOf(main.op)[main.step] = w
    /\ IF main.step = Len(WritesOf(main.op))
       THEN /\ main' = Idle
            /\ since' = IF main.op \in {"feed", "init"}
                        THEN [since EXCEPT !.fed = TRUE, !.returned = since.current] ELSE since
       ELSE main' = [main EXCEPT !.step = @ + 1] /\ UNCHANGED since
    /\ UNCHANGED isr

WriteKey ==
    /\ Writes("key")
    /\ unlocked' = TRUE
    /\ robbed' = FALSE
    /\ UNCHANGED <<cmp, cfg, age, asked, lost>>

\* A protected write takes effect only if unlocked, and locks in any case.
WriteFeed ==
    /\ Writes("feed")
    /\ age' = IF unlocked THEN 0 ELSE age
    /\ unlocked' = FALSE /\ robbed' = FALSE
    /\ UNCHANGED <<cmp, cfg, asked, lost>>

WriteCmp ==
    /\ Writes("cmp")
    /\ cmp' = IF unlocked THEN main.timer ELSE cmp
    /\ unlocked' = FALSE /\ robbed' = FALSE
    /\ asked' = [asked EXCEPT !.cmp = main.timer]
    /\ lost' = IF robbed THEN lost \cup {"cmp"} ELSE lost \ {"cmp"}
    /\ UNCHANGED <<cfg, age>>

WriteCfg ==
    /\ Writes("cfg")
    /\ cfg' = IF unlocked THEN main.cfg ELSE cfg
    /\ unlocked' = FALSE /\ robbed' = FALSE
    /\ asked' = [asked EXCEPT !.cfg = main.cfg]
    /\ lost' = IF robbed THEN lost \cup {"cfg"} ELSE lost \ {"cfg"}
    /\ UNCHANGED <<cmp, age>>

-----------------------------------------------------------------------------
(* The service routine, and the watchdog itself.                           *)

MainUnlocked == main.op # "idle" /\ WritesOf(main.op)[main.step] # "key"

EnterIsr ==
    /\ IsrFeeds /\ isr = "none"
    /\ isr' = "key"
    /\ UNCHANGED <<unlocked, cmp, cfg, age, main, asked, robbed, lost, since>>

IsrKey ==
    /\ isr = "key" /\ isr' = "feed"
    /\ unlocked' = TRUE
    /\ UNCHANGED <<cmp, cfg, age, main, asked, robbed, lost, since>>

IsrFeed ==
    /\ isr = "feed" /\ isr' = "none"
    /\ age' = IF unlocked THEN 0 ELSE age
    /\ unlocked' = FALSE
    /\ robbed' = MainUnlocked
    /\ UNCHANGED <<cmp, cfg, main, asked, lost, since>>

Scale(c)   == c % 16
Running(c) == (c \div 4096) % 4 # 0
RstEn(c)   == (c \div 256) % 2 = 1

\* The counter runs while the watchdog is enabled.
CountUp ==
    /\ age < MaxAge /\ since.current < MaxAge /\ since.returned < MaxAge
    /\ age' = IF Running(cfg) THEN age + 1 ELSE age
    /\ since' = [since EXCEPT !.returned = IF since.fed THEN @ + 1 ELSE 0, !.current = @ + 1]
    /\ UNCHANGED <<unlocked, cmp, cfg, main, isr, asked, robbed, lost>>

Bites == Running(cfg) /\ RstEn(cfg) /\ age >= cmp * PowerOf2[Scale(cfg)]

\* The watchdog resets the chip, in the middle of whatever it is doing.
Reset ==
    /\ Bites
    /\ unlocked' = FALSE /\ UNCHANGED cmp /\ cfg' = 0
    /\ age' = 0
    /\ main' = Idle /\ isr' = "none"
    /\ asked' = [cmp |-> cmp, cfg |-> 0] /\ robbed' = FALSE /\ lost' = {}
    /\ since' = [fed |-> FALSE, returned |-> 0, current |-> 0]

WdtNext ==
    \/ CallInit \/ CallFeed \/ CallCfg \/ CallSetTimer
    \/ WriteKey \/ WriteFeed \/ WriteCmp \/ WriteCfg
    \/ EnterIsr \/ IsrKey \/ IsrFeed
    \/ CountUp \/ Reset

WdtSpec == WdtInit /\ [][WdtNext]_wdtVars

-----------------------------------------------------------------------------
(* Properties.                                                             *)

Ops == {"feed", "cfg", "set_timer", "init"}

\* The values WDOGCFG can hold after an accepted call.
Cfgs == {Cfg(scale, en, rst) : scale \in 0 .. AON_WDOGCFG_SCALE, en \in 0 .. 2, rst \in 0 .. 2}

RegistersOK ==
    /\ unlocked \in BOOLEAN
    /\ cmp \in Compares /\ cfg \in Cfgs
    /\ age \in Nat
MainOK ==
    /\ main \in [op : Ops \cup {"idle"}, step : 1 .. 6, ms : Millis \cup {0},
                 timer : Timers \cup {0}, cfg : Cfgs]
    /\ main.op # "idle" => main.step <= Len(WritesOf(main.op))
IsrOK == isr \in {"none", "key", "feed"}
HistoryOK ==
    /\ asked \in [cmp : Compares, cfg : Cfgs]
    /\ robbed \in BOOLEAN
    /\ lost \subseteq {"cmp", "cfg"}
    /\ since \in [fed : BOOLEAN, returned : Nat, current : Nat]

WdtTypeOK == RegistersOK /\ MainOK /\ IsrOK /\ HistoryOK

\* Between calls every watchdog register is locked: no call, preempted or
\* not, leaves an unlock behind (aon.c:48-55, 62-63, 73-74, 100-101).
LockedAtRest == main.op = "idle" /\ isr # "feed" => ~unlocked

\* WDOGCMP and WDOGCFG hold what was last written to them, except that a
\* write is lost when the service routine fed the watchdog between its key
\* and itself; aon_wdt_init and aon_wdt_cfg return WDT_OK all the same.
HoldsWhatWasAsked ==
    /\ cmp # asked.cmp => "cmp" \in lost
    /\ cfg # asked.cfg => "cfg" \in lost
    /\ ~IsrFeeds => lost = {}

\* A feed that has returned worked, whatever preempted it: the counter has
\* been zeroed since that call began, so the watchdog does not bite sooner
\* than its period after it (aon.c:60-64).
FeedIsNeverLost == since.fed => age <= since.returned

\* The keys do what they are for, whoever preempts whom (aon.c:48-77, 97-103).
WdtKeysWork == LockedAtRest /\ HoldsWhatWasAsked /\ FeedIsNeverLost

\* aon_wdt_init picks the least scale that brings the period it was asked for
\* within the 16-bit compare register, for periods whose product with the RTC
\* frequency fits in 32 bits (aon.c:31-41).
ScaleFitsPeriod ==
    main.op = "init" /\ main.ms < 131072 =>
        LET ticks == (main.ms * 4096) \div 125
            scale == Scale(main.cfg)
        IN  /\ ticks \div PowerOf2[scale] <= 65535
            /\ scale > 0 => ticks \div PowerOf2[scale - 1] > 65535
=============================================================================
