------------------------------- MODULE Alarm -------------------------------
(***************************************************************************)
(* What a caller of aon_rtc_next_wake_time(next) is promised: the alarm     *)
(* rings no earlier than `next' ticks after the request, and it never rings *)
(* while a request is being carried out.  A request may set the alarm late, *)
(* by the time it takes plus at most one wrap of the low clock word.        *)
(***************************************************************************)
EXTENDS Integers

CONSTANTS
    WordSize,   \* the values of one word of the two-word clock
    Delays      \* the delays callers ask for

VARIABLES
    clock,      \* ticks since reset
    mode,       \* "off", "requested" or "set"
    due,        \* the earliest tick the alarm may ring, once requested or set
    delay,      \* the delay of the request being carried out
    ringing

vars == <<clock, mode, due, delay, ringing>>

Init == clock = 0 /\ mode = "off" /\ due = 0 /\ delay = 0 /\ ~ringing

Tick == clock' = clock + 1 /\ UNCHANGED <<mode, due, delay, ringing>>

\* A request silences the old alarm; the new one is due `next' ticks from now.
Request ==
    /\ mode # "requested"
    /\ mode' = "requested"
    /\ \E next \in Delays : delay' = next /\ due' = clock + next
    /\ UNCHANGED <<clock, ringing>>

Set ==
    /\ mode = "requested"
    /\ mode' = "set"
    /\ due' \in due .. clock + delay + WordSize
    /\ delay' = 0
    /\ UNCHANGED <<clock, ringing>>

Ring ==
    /\ mode = "set" /\ clock >= due
    /\ ~ringing /\ ringing'
    /\ UNCHANGED <<clock, mode, due, delay>>

Quiet == ringing /\ ~ringing' /\ UNCHANGED <<clock, mode, due, delay>>

Next == Tick \/ Request \/ Set \/ Ring \/ Quiet

Spec == Init /\ [][Next]_vars
=============================================================================
