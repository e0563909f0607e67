------------------------------ MODULE RtcTimer ------------------------------
(***************************************************************************)
(* aon_rtc_next_wake_time and the timer interrupt.  mtime and mtimecmp are  *)
(* 64 bits wide and the hart moves 32 bits at a time, so a call reads and   *)
(* writes them in halves while the clock runs.  The main loop toggles an    *)
(* output for each tick (wait_timer) and may ask for another one; the timer *)
(* handler of main.c sets `taken', and in the variant of its commented-out  *)
(* line asks for the next tick as well.                                     *)
(***************************************************************************)
EXTENDS Integers

CONSTANTS
    WordSize,   \* the values of a 32-bit half
    MaxTime,    \* the bound on mtime
    Delays,     \* the delays callers ask for
    Handlers    \* the timer handlers: one that asks for the next tick, or one that does not

ASSUME WordSizeAssumption == WordSize \in Nat \ {0, 1}
ASSUME MaxTimeAssumption  == MaxTime \in Nat
ASSUME DelaysAssumption   == Delays \subseteq Nat \ {0}
ASSUME HandlersAssumption == Handlers \subseteq {"rearm", "return"}

Actors == {"main", "isr"}
Steps  == {"off", "loadlo", "loadhi", "storelo", "storehi", "on"}

VARIABLES
    linked,     \* the timer handler that is linked in: "rearm" is main.c:56 uncommented
    mtime,      \* the clock
    mtimecmp,   \* the compare register, as its two halves
    mtie,       \* mie.MTIE
    call,       \* each actor's call of aon_rtc_next_wake_time
    loop,       \* where the main loop is
    trap,       \* where the timer interrupt is: "none", "handler", "call", "taken"
    taken       \* main.c's flag

rtcVars == <<linked, mtime, mtimecmp, mtie, call, loop, trap, taken>>

Lo(t)    == t % WordSize
Hi(t)    == t \div WordSize
Value(w) == w.hi * WordSize + w.lo

NoCall == [step |-> "idle", next |-> 0, due |-> 0, lo |-> 0, hi |-> 0]

\* mtimecmp is not reset; any value will do while MTIE is off.
RtcInit ==
    /\ linked \in Handlers
    /\ mtime = 0
    /\ mtimecmp \in {[lo |-> 0, hi |-> 0], [lo |-> WordSize - 1, hi |-> Hi(MaxTime)]}
    /\ mtie = FALSE
    /\ call = [a \in Actors |-> NoCall]
    /\ loop = "wait" /\ trap = "none" /\ taken = FALSE

-----------------------------------------------------------------------------
(* aon_rtc_next_wake_time, by either actor: main runs only when isr does not. *)

Runs(a) == IF a = "main" THEN trap = "none" /\ loop = "call" ELSE trap = "call"

At(a, step, to) ==
    /\ Runs(a)
    /\ call[a].step = step
    /\ call' = [call EXCEPT ![a].step = to]

Called(a) == \E next \in Delays : call' = [call EXCEPT ![a] = [NoCall EXCEPT !.step = "off", !.next = next]]

\* Mutant: the call leaves MTIE on while it writes mtimecmp.
OffForgotten(a) ==
    /\ Runs(a) /\ call[a].step = "off"
    /\ call' = [call EXCEPT ![a].step = "loadlo", ![a].due = mtime + call[a].next]
    /\ UNCHANGED <<linked, mtime, mtimecmp, mtie, loop, trap, taken>>

\* csrw mie without MTIE; `due' remembers what the caller may count on.
Off(a) ==
    /\ Runs(a) /\ call[a].step = "off"
    /\ mtie' = FALSE
    /\ call' = [call EXCEPT ![a].step = "loadlo", ![a].due = mtime + call[a].next]
    /\ UNCHANGED <<linked, mtime, mtimecmp, loop, trap, taken>>

LoadLo(a) ==
    /\ Runs(a) /\ call[a].step = "loadlo"
    /\ call' = [call EXCEPT ![a].step = "loadhi", ![a].lo = Lo(mtime)]
    /\ UNCHANGED <<linked, mtime, mtimecmp, mtie, loop, trap, taken>>

LoadHi(a) ==
    /\ Runs(a) /\ call[a].step = "loadhi"
    /\ call' = [call EXCEPT ![a].step = "storelo", ![a].hi = Hi(mtime)]
    /\ UNCHANGED <<linked, mtime, mtimecmp, mtie, loop, trap, taken>>

\* time += next, on the two halves as they were read.
Target(a) == Value(call[a]) + call[a].next

StoreLo(a) ==
    /\ At(a, "storelo", "storehi")
    /\ mtimecmp' = [mtimecmp EXCEPT !.lo = Lo(Target(a))]
    /\ UNCHANGED <<linked, mtime, mtie, loop, trap, taken>>

StoreHi(a) ==
    /\ At(a, "storehi", "on")
    /\ mtimecmp' = [mtimecmp EXCEPT !.hi = Hi(Target(a))]
    /\ UNCHANGED <<linked, mtime, mtie, loop, trap, taken>>

\* csrw mie twice: without MTIE (the variable mip), then with it.
On(a) ==
    /\ Runs(a) /\ call[a].step = "on"
    /\ mtie' = TRUE
    /\ call' = [call EXCEPT ![a] = NoCall]
    /\ loop' = IF a = "main" THEN "wait" ELSE loop
    /\ trap' = IF a = "isr" THEN "taken" ELSE trap
    /\ UNCHANGED <<linked, mtime, mtimecmp, taken>>

NextWakeTime(a) ==
    Off(a) \/ LoadLo(a) \/ LoadHi(a) \/ StoreLo(a) \/ StoreHi(a) \/ On(a)

-----------------------------------------------------------------------------
(* The main loop: wait_timer, then perhaps a request.                      *)

WaitTimer ==
    /\ trap = "none" /\ loop = "wait"
    /\ loop' = IF taken THEN "toggle" ELSE "again"
    /\ UNCHANGED <<linked, mtime, mtimecmp, mtie, call, trap, taken>>

Toggle ==
    /\ trap = "none" /\ loop = "toggle"
    /\ loop' = "clear"
    /\ UNCHANGED <<linked, mtime, mtimecmp, mtie, call, trap, taken>>

Clear ==
    /\ trap = "none" /\ loop = "clear"
    /\ loop' = "again" /\ taken' = FALSE
    /\ UNCHANGED <<linked, mtime, mtimecmp, mtie, call, trap>>

Again ==
    /\ trap = "none" /\ loop = "again"
    /\ \/ loop' = "wait" /\ UNCHANGED call
       \/ loop' = "call" /\ Called("main")
    /\ UNCHANGED <<linked, mtime, mtimecmp, mtie, trap, taken>>

Main == WaitTimer \/ Toggle \/ Clear \/ Again \/ NextWakeTime("main")

-----------------------------------------------------------------------------
(* The clock and the timer interrupt.                                      *)

Tick ==
    /\ mtime < MaxTime
    /\ mtime' = mtime + 1
    /\ UNCHANGED <<linked, mtimecmp, mtie, call, loop, trap, taken>>

mtip == mtime >= Value(mtimecmp)

Trap ==
    /\ mtie /\ mtip /\ trap = "none"
    /\ trap' = "handler"
    /\ UNCHANGED <<linked, mtime, mtimecmp, mtie, call, loop, taken>>

\* clint_timer_interrupt_handler: the request, if any, then taken = 1 and mret.
Handler ==
    /\ trap = "handler"
    /\ IF linked = "rearm" THEN trap' = "call" /\ Called("isr") ELSE trap' = "taken" /\ UNCHANGED call
    /\ UNCHANGED <<linked, mtime, mtimecmp, mtie, loop, taken>>

SetTaken ==
    /\ trap = "taken"
    /\ taken' = TRUE
    /\ trap' = "none"
    /\ UNCHANGED <<linked, mtime, mtimecmp, mtie, call, loop>>

ServiceRoutine == Trap \/ Handler \/ SetTaken \/ NextWakeTime("isr")

RtcNext == Main \/ Tick \/ ServiceRoutine

\* The hart executes; the clock need not advance at any rate.
RtcStep(who) == IF who = "main" THEN Main ELSE ServiceRoutine

-----------------------------------------------------------------------------
(* Properties.                                                             *)

\* The actor, if any, that has turned MTIE off and not on again.
Requesting(a) == call[a].step \in Steps \ {"off"}

Promise == INSTANCE Alarm WITH
    clock   <- mtime,
    mode    <- IF \E a \in Actors : Requesting(a) THEN "requested"
               ELSE IF mtie THEN "set" ELSE "off",
    due     <- IF \E a \in Actors : Requesting(a)
               THEN call[CHOOSE a \in Actors : Requesting(a)].due
               ELSE IF mtie THEN Value(mtimecmp) ELSE 0,
    delay   <- IF \E a \in Actors : Requesting(a)
               THEN call[CHOOSE a \in Actors : Requesting(a)].next ELSE 0,
    ringing <- trap # "none"

\* The halves read and written while the clock runs, and requests by both
\* actors, keep the promise: never early, never from a half-written compare
\* value, late by at most one wrap of the low word (aon.h:145-166).
ImplementsAlarm == Promise!Spec

\* A tick that main does not see in the middle of clearing the last one is
\* answered by a toggle: a handler that asks for the next tick leaves the
\* foreground time to run (main.c:45-58).
TickServed == linked = "rearm" /\ taken /\ loop # "clear" ~> loop = "clear"

\* What a caller of aon_rtc_next_wake_time and main.c's loop may count on:
\* the alarm is the one that was asked for, and its tick is seen.
AlarmIsServed == ImplementsAlarm /\ TickServed
=============================================================================
