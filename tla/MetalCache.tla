------------------------------ MODULE MetalCache ------------------------------
(***************************************************************************)
(* The level 2 cache, whose ways are memory until they are enabled, and its   *)
(* event counters; its prefetcher and the flush of level 1, whose calls catch *)
(* the trap of a hart that has neither; and the bus error unit.  The board    *)
(* has none of them; their drivers are for boards that do.                    *)
(***************************************************************************)
EXTENDS Integers, FiniteSets

CONSTANTS
    CacheWays,      \* ways that the cache has
    CacheLims,      \* sizes of the program in the memory they are, in bytes
    CacheAsks,      \* numbers of ways that programs ask for
    PmWord, PmMax,  \* half a counter, in counts; a bound: its highest value
    BeuEvents       \* events of bus error units

ASSUME CacheAssumption ==
    /\ CacheWays \in 1 .. 256 /\ CacheLims \subseteq Nat /\ CacheAsks \subseteq Nat
    /\ PmWord \in Nat \ {0} /\ PmMax \in Nat /\ BeuEvents \subseteq {2, 3, 5, 6, 7}

VARIABLES
    uses,               \* the driver whose calls the program makes
    constructed,        \* the constructors that have run
    lim, enabledWays,   \* size of the program in the ways, and how many of them are cache
    limKept,            \* whether all of that program is still there
    has,                \* whether the hart has what is only called with a trap captured
    trapsTo, irqsOn,         \* where traps go, and whether interrupts are taken
    prefetch,           \* the two registers of the prefetcher, and whether a line was flushed
    pm,                 \* an event counter
    doing,              \* the call in progress
    beuHas, beuEnabled, beuAccrued, beuCause,   \* events that the unit can tell, tells, has; the first, or 0
    cacheRet            \* what the last call returned

wayVars   == <<uses, constructed, lim, enabledWays, limKept>>
pfVars    == <<has, trapsTo, irqsOn, prefetch>>
beuVars   == <<beuHas, beuEnabled, beuAccrued, beuCause>>
cacheVars == <<wayVars, pfVars, pm, doing, beuVars, cacheRet>>

\* What it is, how far, what it was given and what it read; and whether it met a trap.
NoneCalled    == [op |-> "none", pc |-> 0, vh |-> 0, vl |-> 0, given |-> 0, events |-> {}, was |-> {}, on |-> FALSE, missed |-> FALSE]
Enters(o) == [NoneCalled EXCEPT !.op = o, !.pc = 1]
Started   == constructed = {"ccache", "buserror"}
Idle      == Started /\ doing = NoneCalled
Drivers0  == {"ccache0", "l2pf0", "buserror0"}

-----------------------------------------------------------------------------
(* The ways: sifive_ccache0.c.  The last ones are the program's.            *)

WayBytes == 2   \* block_size * num_sets * num_bank

\* The linker puts no more there than the ways hold.
ASSUME LimAssumption == CacheLims \subseteq 0 .. CacheWays * WayBytes

LimWays(bytes) == (bytes + WayBytes - 1) \div WayBytes
InLim(ways)    == ways > CacheWays - LimWays(lim)

\* The register has the index of the last way; the cache takes no way back.
WayEnable(index) == IF index >= CacheWays THEN enabledWays .. CacheWays
                    ELSE {IF index + 1 > enabledWays THEN index + 1 ELSE enabledWays}

\* Numbers of ways are unsigned: -1 is more than any.
set_enabled_ways(ways) ==
    IF ways >= 0 /\ enabledWays > ways THEN cacheRet' = -1 /\ UNCHANGED <<enabledWays, limKept>>
    ELSE /\ enabledWays' \in WayEnable((ways - 1) % 256)
         /\ limKept' = (limKept /\ ~InLim(enabledWays'))
         /\ cacheRet' = IF enabledWays' # ways THEN -2 ELSE 0

\* A constructor leaves out the ways the program is in.
\* Mutant: _down rounds their number down.
InitWays_down(bytes) == CacheWays - (bytes \div WayBytes)
InitWays(bytes)      == CacheWays - LimWays(bytes)
sifive_ccache0_init ==
    /\ "ccache" \notin constructed /\ constructed' = constructed \cup {"ccache"}
    /\ set_enabled_ways(InitWays(lim))
    /\ UNCHANGED <<uses, lim, pfVars, pm, doing, beuVars>>

metal_l2cache_set_enabled_ways(ways) ==
    /\ Idle /\ set_enabled_ways(ways)
    /\ UNCHANGED <<uses, constructed, lim, pfVars, pm, doing, beuVars>>

(* An event counter, read in halves.                                        *)
get_pmevent_counter ==
    /\ \/ Idle /\ doing' = [Enters("count") EXCEPT !.given = pm]
       \/ doing.op = "count" /\ doing.pc = 1 /\ doing' = [doing EXCEPT !.vh = pm \div PmWord, !.pc = 2]
       \/ doing.op = "count" /\ doing.pc = 2 /\ doing' = [doing EXCEPT !.vl = pm % PmWord, !.pc = 3]
       \/ doing.op = "count" /\ doing.pc = 3 /\ doing' = [doing EXCEPT !.pc = IF doing.vh = pm \div PmWord THEN 4 ELSE 1]
    /\ UNCHANGED <<wayVars, pfVars, pm, beuVars, cacheRet>>

EventsRead == doing.vh * PmWord + doing.vl
GetReturns ==
    /\ doing.op = "count" /\ doing.pc = 4 /\ doing' = NoneCalled
    /\ UNCHANGED <<wayVars, pfVars, pm, beuVars, cacheRet>>

Counted ==
    /\ Started /\ pm < PmMax /\ pm' = pm + 1
    /\ UNCHANGED <<wayVars, pfVars, doing, beuVars, cacheRet>>

-----------------------------------------------------------------------------
(* sifive_l2pf0.c, and flush and discard of one address in cache.c: a trap   *)
(* between capture and restore, also that of an interrupt, goes to the       *)
(* restore and stays a trap.                                                 *)

Captured == {"enable", "disable", "set_config", "flush"}
TRAP_CAPTURE(op, config) ==
    /\ Idle
    /\ trapsTo' = "restore" /\ doing' = [Enters(op) EXCEPT !.given = config, !.on = irqsOn]
    /\ UNCHANGED <<wayVars, has, irqsOn, prefetch, pm, beuVars, cacheRet>>

\* Its accesses, and how many there are.
Effect ==
    CASE doing.op = "enable"     -> [prefetch EXCEPT !.on = TRUE]
      [] doing.op = "disable"    -> [prefetch EXCEPT !.on = FALSE]
      [] doing.op = "set_config" -> IF doing.pc = 1 THEN [prefetch EXCEPT !.on = TRUE, !.basic = doing.given]
                                   ELSE [prefetch EXCEPT !.user = doing.given]
      [] doing.op = "flush"      -> [prefetch EXCEPT !.flushed = TRUE]
Accesses == IF doing.op = "set_config" THEN 2 ELSE 1

Access1 ==
    /\ doing.op \in Captured /\ has /\ doing.pc <= Accesses
    /\ prefetch' = Effect /\ doing' = [doing EXCEPT !.pc = @ + 1]
    /\ UNCHANGED <<wayVars, has, trapsTo, irqsOn, pm, beuVars, cacheRet>>

Missed ==
    /\ doing.op \in Captured /\ doing.pc <= Accesses /\ (~has \/ irqsOn)
    /\ irqsOn' = FALSE /\ doing' = [doing EXCEPT !.pc = Accesses + 1, !.missed = TRUE]
    /\ UNCHANGED <<wayVars, has, trapsTo, prefetch, pm, beuVars, cacheRet>>

TRAP_RESTORE ==
    /\ doing.op \in Captured /\ doing.pc = Accesses + 1
    /\ trapsTo' = "program" /\ doing' = NoneCalled
    /\ UNCHANGED <<wayVars, has, irqsOn, prefetch, pm, beuVars, cacheRet>>

\* The program enables or disables interrupts.
interrupt_global ==
    /\ Idle /\ irqsOn' = ~irqsOn
    /\ UNCHANGED <<wayVars, has, trapsTo, prefetch, pm, doing, beuVars, cacheRet>>

-----------------------------------------------------------------------------
(* The bus error unit: sifive_buserror0.c.                                  *)

\* A constructor enables all of them.
buserror_init ==
    /\ "buserror" \notin constructed /\ constructed' = constructed \cup {"buserror"}
    /\ beuEnabled' = beuHas
    /\ UNCHANGED <<uses, lim, enabledWays, limKept, pfVars, pm, doing, beuHas, beuAccrued, beuCause, cacheRet>>

\* What is returned is the register, if none of what is asked is in it.
set_event_enabled(events, on) ==
    /\ Idle
    /\ IF events = {} THEN cacheRet' = 2 /\ UNCHANGED beuEnabled
       ELSE /\ beuEnabled' = IF on THEN beuEnabled \cup (events \cap beuHas) ELSE beuEnabled \ events
            /\ cacheRet' = IF events \cap beuEnabled' # {} \/ beuEnabled' = {} THEN 0 ELSE 3
    /\ UNCHANGED <<wayVars, pfVars, pm, doing, beuHas, beuAccrued, beuCause>>

\* An error accrues if it is enabled, and the first one is kept.
BusError ==
    /\ \E e \in beuEnabled :
        /\ beuAccrued' = beuAccrued \cup {e}
        /\ beuCause' = IF beuCause = 0 THEN e ELSE beuCause
    /\ UNCHANGED <<wayVars, pfVars, pm, doing, beuHas, beuEnabled, cacheRet>>

\* It clears the first one and returns what is there then, maybe the next one.
clear_cause ==
    /\ \/ Idle /\ doing' = Enters("cause") /\ beuCause' = 0 /\ UNCHANGED cacheRet
       \/ doing.op = "cause" /\ doing' = NoneCalled /\ cacheRet' = 10 + beuCause /\ UNCHANGED beuCause
    /\ UNCHANGED <<wayVars, pfVars, pm, beuHas, beuEnabled, beuAccrued>>

\* The accrued ones are read, what shall stay of them is written, and read again.
clear_event_accrued ==
    /\ \/ \E events \in SUBSET BeuEvents \ {{}} :
              /\ Idle /\ doing' = [Enters("accrued") EXCEPT !.events = events, !.was = beuAccrued]
              /\ UNCHANGED <<beuAccrued, cacheRet>>
       \/ /\ doing.op = "accrued" /\ doing.pc = 1 /\ doing' = [doing EXCEPT !.pc = 2]
          /\ beuAccrued' = doing.was \ doing.events /\ UNCHANGED cacheRet
       \/ /\ doing.op = "accrued" /\ doing.pc = 2 /\ doing' = NoneCalled
          /\ cacheRet' = (IF doing.events \cap beuAccrued = {} THEN 0 ELSE 3) /\ UNCHANGED beuAccrued
    /\ UNCHANGED <<wayVars, pfVars, pm, beuHas, beuEnabled, beuCause>>

-----------------------------------------------------------------------------
CacheInit ==
    /\ uses \in Drivers0 /\ constructed = {} /\ lim \in CacheLims /\ enabledWays = 1 /\ limKept = TRUE
    /\ has \in BOOLEAN /\ trapsTo = "program" /\ irqsOn = FALSE
    /\ prefetch = [on |-> FALSE, basic |-> 0, user |-> 0, flushed |-> FALSE]
    /\ pm = 0 /\ doing = NoneCalled /\ cacheRet = 0
    /\ beuHas \in SUBSET BeuEvents /\ beuEnabled = {} /\ beuAccrued = {} /\ beuCause = 0
    /\ uses # "ccache0" => lim = CHOOSE bytes \in CacheLims : TRUE
    /\ uses # "l2pf0" => ~has
    /\ uses # "buserror0" => beuHas = {}

WayCounts == CacheAsks \cup {-1}
CacheNext ==
    \/ sifive_ccache0_init \/ buserror_init
    \/ /\ uses = "ccache0"
       /\ (\E ways \in WayCounts : metal_l2cache_set_enabled_ways(ways)) \/ get_pmevent_counter \/ GetReturns \/ Counted
    \/ /\ uses = "l2pf0"
       /\ (\E op \in Captured, config \in 1 .. 2 : TRAP_CAPTURE(op, config)) \/ Access1 \/ Missed \/ TRAP_RESTORE \/ interrupt_global
    \/ /\ uses = "buserror0"
       /\ (\E events \in SUBSET BeuEvents, on \in BOOLEAN : set_event_enabled(events, on))
            \/ BusError \/ clear_cause \/ clear_event_accrued
CacheSpec == CacheInit /\ [][CacheNext]_cacheVars

-----------------------------------------------------------------------------
(* Properties.                                                              *)

(* sifive_ccache0.c:40: no constructor takes a way from the program, only a   *)
(* call for more ways than it left does, or for more than there are.         *)
LimIsTaken ==
    limKept /\ ~limKept' => \E ways \in WayCounts :
        metal_l2cache_set_enabled_ways(ways) /\ (ways > InitWays(lim) \/ ways \in {-1, 0})

(* cache.c:177: whoever calls has its own traps back.  A call that met a trap *)
(* leaves interrupts disabled, and did nothing, or half of it; it meets one   *)
(* only on a hart that lacks what it is for, or if it lets interrupts come.   *)
TrapsAreBack ==
    TRAP_RESTORE =>
        /\ trapsTo' = "program"
        /\ doing.missed => ~irqsOn' /\ (~has \/ doing.on)
        /\ doing.op = "set_config" /\ ~doing.missed => {prefetch.basic, prefetch.user} = {doing.given}

(* sifive_ccache0.c:265: a counter that is read was that high in the call.    *)
CountsAreWhole == GetReturns => doing.given <= EventsRead /\ EventsRead <= pm

(* sifive_buserror0.h:72: what is disabled is off, whatever the call says; an *)
(* error that accrued goes when it is cleared, or came while others were.     *)
ErrorsAccrue ==
    /\ \A events \in SUBSET BeuEvents : set_event_enabled(events, FALSE) => events \cap beuEnabled' = {}
    /\ beuAccrued \ beuAccrued' # {} =>
        clear_event_accrued /\ beuAccrued \ beuAccrued' \subseteq doing.events \cup (beuAccrued \ doing.was)

(* The calls do what they say, on the harts and with the memory that are.     *)
CachesAreAsTold ==
    /\ [](Idle => trapsTo = "program")
    /\ [][LimIsTaken /\ TrapsAreBack /\ CountsAreWhole /\ ErrorsAccrue]_cacheVars
=============================================================================
