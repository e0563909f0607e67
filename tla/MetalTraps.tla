------------------------------- MODULE MetalTraps -------------------------------
(***************************************************************************)
(* The trap tables of riscv_cpu.c: a program that initialises the hart's     *)
(* controller and the CLINT, registers handlers for lines and exceptions,    *)
(* masks, changes the vector mode and sends itself software interrupts;       *)
(* traps, the default handlers, and handlers that cause exceptions.  A        *)
(* handler is a compiler's interrupt function: it leaves mepc alone.          *)
(***************************************************************************)
EXTENDS Naturals, Sequences

CONSTANTS
    TrapLines,      \* interrupt lines of the hart: 3 (software), 7 (timer), 16 .. 31 (local)
    TrapCodes,      \* exception codes, 3 (breakpoint) among them
    TrapDepth       \* a bound: traps that are in progress at once

valid_interrupt_id(l) == l \in {3, 7, 11} \cup 16 .. 31

ASSUME TrapAssumption == /\ \A l \in TrapLines : valid_interrupt_id(l) /\ l # 11
                         /\ TrapCodes \subseteq 0 .. 11 /\ 3 \in TrapCodes /\ TrapDepth \in Nat

VARIABLES
    tvec,           \* where mtvec points: "early", "direct" (__metal_exception_handler) or "vector" (__metal_vector_table)
    begun,          \* the controllers that are initialised
    entry,          \* metal_int_table: handler, if the data are the handler's own, if sub_int is the CLINT
    exception,      \* metal_exception_table
    hart,           \* mie and mstatus: enabled lines, MIE, MPIE
    tepc,           \* mepc: how deep the code is that it points into, and if past the instruction that was interrupted
    raised,         \* lines that are pending
    toStore,        \* what the call in progress is still to store
    frames,         \* the handlers in progress, the innermost last
    halt,           \* "no", or how the program came to an end
    given           \* lines the program gave a handler since they were initialised (history)

trapVars == <<tvec, begun, entry, exception, hart, tepc, raised, toStore, frames, halt, given>>
tables   == <<begun, entry, exception, toStore, given>>

NoEntry == [handler |-> "NULL", own |-> FALSE, linked |-> FALSE]

TrapInit ==
    /\ tvec = "early" /\ begun = {} /\ toStore = <<>> /\ given = {}
    /\ entry = [l \in TrapLines |-> NoEntry] /\ exception = [c \in TrapCodes |-> "NULL"]
    /\ hart = [lines |-> {}, MIE |-> FALSE, MPIE |-> FALSE]
    /\ tepc = [to |-> 0, past |-> FALSE] /\ raised = {} /\ frames = <<>> /\ halt = "no"

InProgram == halt = "no" /\ frames = <<>>
AtACall   == InProgram /\ toStore = <<>>

-----------------------------------------------------------------------------
(* The program's calls.                                                     *)

\* The first initialisation clears the tables whatever they hold.
FirstInit == "cpu" \notin begun

controller_interrupt_init ==
    /\ AtACall
    /\ IF FirstInit
       THEN /\ entry' = [l \in TrapLines |-> NoEntry]
            /\ exception' = [c \in TrapCodes |-> "default"]
            /\ tvec' = IF tvec = "early" THEN "direct" ELSE tvec
            /\ given' = {}
       ELSE UNCHANGED <<entry, exception, tvec, given>>
    /\ begun' = begun \cup {"cpu"}
    /\ UNCHANGED <<hart, tepc, raised, toStore, frames, halt>>

\* What a call to register a handler stores, one after the other.  NULL asks
\* for the line's default handler and gives sub_int instead of the data.
UserStores(l) == <<[line |-> l, put |-> "user"], [line |-> l, put |-> "data"]>>
DefaultStores(l, sub) == <<[line |-> l, put |-> "default"], [line |-> l, put |-> sub]>>

clint0_init ==
    /\ AtACall /\ "clint" \notin begun
    /\ toStore' = (IF 3 \in TrapLines THEN DefaultStores(3, "clint") ELSE <<>>)
                  \o (IF 7 \in TrapLines THEN DefaultStores(7, "clint") ELSE <<>>)
    /\ begun' = begun \cup {"clint"}
    /\ given' = given \ {3, 7}
    /\ UNCHANGED <<tvec, entry, exception, hart, tepc, raised, frames, halt>>

\* Through the CLINT for its two lines, with the same stores.
controller_interrupt_register ==
    /\ AtACall
    /\ \E l \in TrapLines : \/ /\ toStore' = UserStores(l)
                               /\ given' = given \cup {l}
                            \/ /\ toStore' = DefaultStores(l, "NULL")
                               /\ given' = given \ {l}
    /\ UNCHANGED <<tvec, begun, entry, exception, hart, tepc, raised, frames, halt>>

AfterStore(e, put) ==
    CASE put = "user"    -> [e EXCEPT !.handler = "user", !.own = FALSE]
      [] put = "default" -> [e EXCEPT !.handler = "default"]
      [] put = "data"    -> [e EXCEPT !.own = TRUE]
      [] put = "clint"   -> [e EXCEPT !.linked = TRUE]
      [] put = "NULL"    -> [e EXCEPT !.linked = FALSE]

StoreNext ==
    /\ InProgram /\ toStore # <<>>
    /\ entry' = [entry EXCEPT ![Head(toStore).line] = AfterStore(@, Head(toStore).put)]
    /\ toStore' = Tail(toStore)
    /\ UNCHANGED <<tvec, begun, exception, hart, tepc, raised, frames, halt, given>>

\* A code that is none, or no handler, is an error.
ExceptionTable(c) == [exception EXCEPT ![c] = "user"]

exception_register ==
    /\ AtACall
    /\ \E c \in TrapCodes : exception' = ExceptionTable(c)
    /\ UNCHANGED <<tvec, begun, entry, hart, tepc, raised, toStore, frames, halt, given>>

\* Single instructions on mie and mstatus.
LineMask(l, enable) == [hart EXCEPT !.lines = IF enable THEN @ \cup {l} ELSE @ \ {l}]
GlobalMask(enable)  == [hart EXCEPT !.MIE = enable]

local_interrupt_mask ==
    /\ AtACall
    /\ \E enable \in BOOLEAN : \/ hart' = GlobalMask(enable)
                               \/ \E l \in TrapLines : hart' = LineMask(l, enable)
    /\ UNCHANGED <<tvec, tables, tepc, raised, frames, halt>>

controller_set_vector_mode ==
    /\ AtACall
    /\ tvec' \in {"direct", "vector"}
    /\ UNCHANGED <<tables, hart, tepc, raised, frames, halt>>

\* METAL_SOFTWARE_IPI_SET and METAL_SOFTWARE_IPI_CLEAR.
clint0_command(set) == IF set THEN raised \cup {3} ELSE raised \ {3}

\* The CLINT is found through the entry of the line; without it the call fails.
software_ipi ==
    /\ AtACall /\ 3 \in TrapLines /\ entry[3].linked
    /\ \E set \in BOOLEAN : raised' = clint0_command(set)
    /\ UNCHANGED <<tvec, tables, hart, tepc, frames, halt>>

\* The timer's comparator, or a device on a local line.
LineRises ==
    /\ halt = "no"
    /\ \E l \in TrapLines \ {3} : raised' = raised \cup {l}
    /\ UNCHANGED <<tvec, tables, hart, tepc, frames, halt>>

-----------------------------------------------------------------------------
(* Traps.                                                                   *)

\* metal_shutdown spins, with a code.  A handler that is NULL is called all the same.
Ends(handler, kind, l) ==
    CASE tvec = "early"                                              -> "early"
      [] handler = "NULL"                                            -> "NULL"
      [] handler = "nobody"                                          -> "300"
      [] handler = "default" /\ kind = "exception"                    -> "100"
      [] handler = "default" /\ kind = "interrupt" /\ l >= 16         -> "200"
      [] OTHER                                                       -> "no"

\* The default software handler calls the handler of breakpoints.
IsDefaultSw(kind, l, handler) == kind = "interrupt" /\ l = 3 /\ handler = "default"

\* __metal_exception_handler looks into the tables.  So do the entries of the
\* vector table, but an exception goes to its first, which is nobody's.
ByHandler(kind, id) == IF kind = "interrupt" THEN entry[id].handler ELSE exception[id]
ByVector(kind, id)  == IF kind = "interrupt" THEN entry[id].handler ELSE "nobody"
HandlerOf(kind, id) == IF tvec = "vector" THEN ByVector(kind, id) ELSE ByHandler(kind, id)

\* epc is what metal_cpu_get_exception_pc gives the handler; MIE was the trapped code's.
Trapped(kind, id) ==
    LET epc     == [to |-> Len(frames), past |-> FALSE]
        handler == HandlerOf(kind, id)
    IN  /\ halt' = IF tvec # "early" /\ IsDefaultSw(kind, id, handler)
                   THEN Ends(exception[3], "exception", 3) ELSE Ends(handler, kind, id)
        /\ hart' = [hart EXCEPT !.MIE = FALSE, !.MPIE = hart.MIE]
        /\ tepc' = epc
        /\ frames' = Append([i \in DOMAIN frames |-> [frames[i] EXCEPT !.nested = TRUE]],
                            [kind |-> kind, id |-> id, handler |-> handler, epc |-> epc, MIE |-> hart.MIE, nested |-> FALSE])
        /\ UNCHANGED <<tvec, tables, raised>>

TakeInterrupt == halt = "no" /\ hart.MIE /\ \E l \in raised \cap hart.lines : Trapped("interrupt", l)

Exception ==
    /\ halt = "no" /\ toStore = <<>> /\ Len(frames) < TrapDepth
    /\ \E c \in TrapCodes : Trapped("exception", c)

Top        == frames[Len(frames)]
Excepts(f) == f.kind = "exception" \/ IsDefaultSw(f.kind, f.id, f.handler)

\* An exception's handler sets the program counter past the instruction.
\* Mutant: _kept leaves it where it is.
PastInstruction(epc) == [epc EXCEPT !.past = TRUE]
PcAfter_kept(f) == IF Excepts(f) THEN f.epc ELSE tepc
PcAfter(f)      == IF Excepts(f) THEN PastInstruction(f.epc) ELSE tepc

\* A handler quiets its line; the default timer handler asks for another
\* tick, if it finds the CLINT.
TimerQuiets == entry[7].linked
Quiet(f) ==
    IF f.kind = "exception" \/ IsDefaultSw(f.kind, f.id, f.handler) THEN {}
    ELSE IF f.handler = "user" \/ TimerQuiets THEN {f.id} ELSE {}

\* The handler of an interrupt may disable its line.  mret goes where mepc says:
\* into a handler that is gone, if another trap changed mepc.
Return ==
    /\ halt = "no" /\ frames # <<>>
    /\ tepc' = PcAfter(Top)
    /\ raised' = raised \ Quiet(Top)
    /\ \E lines \in {hart.lines} \cup (IF Top.kind = "interrupt" /\ Top.handler = "user" THEN {hart.lines \ {Top.id}} ELSE {}) :
        hart' = [lines |-> lines, MIE |-> hart.MPIE, MPIE |-> TRUE]
    /\ frames' = SubSeq(frames, 1, Len(frames) - 1)
    /\ halt' = IF tepc'.to = Len(frames) - 1 THEN "no" ELSE "lost"
    /\ UNCHANGED <<tvec, tables>>

TrapsNext ==
    \/ controller_interrupt_init \/ clint0_init \/ controller_interrupt_register \/ StoreNext
    \/ exception_register \/ local_interrupt_mask \/ controller_set_vector_mode \/ software_ipi
    \/ LineRises \/ TakeInterrupt \/ Exception \/ Return

TrapsSpec == TrapInit /\ [][TrapsNext]_trapVars

-----------------------------------------------------------------------------
(* Properties.                                                              *)

Storing(l) == \E i \in DOMAIN toStore : toStore[i].line = l

(* riscv_cpu.c:500-506: once the program gave a line its handler, whatever   *)
(* it initialises next, an interrupt calls that one; with its own data,      *)
(* unless it falls between the two stores of the call.                       *)
GivenHandlersRun ==
    /\ \A l \in given \cap TrapLines : entry[l].handler = "user" \/ Storing(l)
    /\ frames # <<>> =>
        (Top.kind = "interrupt" /\ Top.handler = "user" => entry[Top.id].own \/ Storing(Top.id))

(* riscv_cpu.c:740: software interrupts and the timer find the CLINT through *)
(* the entry of their line, which registering a handler leaves as it is;     *)
(* only asking for the default handler again, or the first initialisation    *)
(* of the hart's controller after the CLINT's, takes it away.                *)
LinesStayLinked ==
    entry' # entry => \A l \in TrapLines : entry[l].linked /\ ~entry'[l].linked => entry'[l].handler # "user"

(* riscv_cpu.c:168: a trap returns to the instruction it interrupted, an     *)
(* exception past it, with MIE as it was, unless its handler caused another  *)
(* trap: an interrupt's handler then returns nowhere, and interrupts may be  *)
(* on after an exception's.  The default software handler calls that of      *)
(* breakpoints, and an instruction of the program is left out.               *)
ResumesWhereItWas ==
    Len(frames') < Len(frames) =>
        /\ halt' = "lost" => Top.nested /\ ~Excepts(Top)
        /\ halt' = "no" => /\ tepc'.past <=> Excepts(Top)
                           /\ hart'.MIE = Top.MIE \/ Top.nested

(* The right handler, with its data, and back to where the trap came from.   *)
TrapsAreDispatched == [](halt = "no" => GivenHandlersRun) /\ [][LinesStayLinked /\ ResumesWhereItWas]_trapVars
=============================================================================
