------------------------------ MODULE MetalBoot ------------------------------
(***************************************************************************)
(* From reset to main on every hart: crt0.S, metal_init, the barrier of     *)
(* __metal_synchronize_harts, and then the lock of metal/lock.h, which the  *)
(* foreground of a hart and its interrupt handler may both take.            *)
(***************************************************************************)
EXTENDS Integers, FiniteSets

CONSTANTS
    N,              \* __METAL_DT_MAX_HARTS
    BootHart,       \* __metal_boot_hart
    Constructors    \* the size of .init_array

ASSUME HartsAssumption == N \in Nat \ {0} /\ BootHart \in 0 .. N - 1
ASSUME ConstructorsAssumption == Constructors \in Nat

Harts  == 0 .. N - 1
Levels == {"main", "isr"}

VARIABLES
    bpc,            \* where the start-up code of each hart is
    msip,           \* the software interrupt bits of the CLINT
    scan,           \* hart 0's loop index
    init_done,      \* the static of metal_init
    funcptr,        \* the constructors metal_init has run
    runs,           \* how often a constructor ran (history)
    lpc,            \* what each level of each hart does with the lock
    state           \* lock->_state

bootVars == <<bpc, msip, scan, init_done, funcptr, runs, lpc, state>>
barrier  == <<msip, scan>>
memory   == <<init_done, funcptr, runs>>
lock     == <<lpc, state>>

BootInit ==
    /\ bpc = [h \in Harts |-> "start"] /\ msip = [h \in Harts |-> 0] /\ scan = 1
    /\ init_done = FALSE /\ funcptr = 0 /\ runs = 0
    /\ lpc = [h \in Harts |-> [l \in Levels |-> "none"]] /\ state = 0

BootGoto(h, from, to) == bpc[h] = from /\ bpc' = [bpc EXCEPT ![h] = to]

\* Only the boot hart copies the data and clears the bss, and calls metal_init.
Enter(h) ==
    /\ BootGoto(h, "start", IF h = BootHart THEN "data" ELSE "sync")
    /\ UNCHANGED <<barrier, memory, lock>>

CopyData(h) ==
    /\ BootGoto(h, "data", "init")
    /\ init_done' = FALSE
    /\ UNCHANGED <<barrier, funcptr, runs, lock>>

\* metal_init, by crt0.S, by a constructor, or by the program later on.
InitDone(running)      == TRUE

metal_init(h) ==
    /\ bpc[h] \in {"init", "construct", "up"}
    /\ IF init_done
       THEN bpc' = [bpc EXCEPT ![h] = IF @ = "init" THEN "sync" ELSE @] /\ UNCHANGED memory
       ELSE /\ bpc' = [bpc EXCEPT ![h] = "construct"]
            /\ init_done' = InitDone(TRUE) /\ funcptr' = 0 /\ UNCHANGED runs
    /\ UNCHANGED <<barrier, lock>>

Construct(h) ==
    /\ bpc[h] = "construct"
    /\ IF funcptr < Constructors
       THEN funcptr' = funcptr + 1 /\ runs' = runs + 1 /\ UNCHANGED <<bpc, init_done>>
       ELSE /\ bpc' = [bpc EXCEPT ![h] = "sync"] /\ init_done' = InitDone(FALSE)
            /\ UNCHANGED <<funcptr, runs>>
    /\ UNCHANGED <<barrier, lock>>

-----------------------------------------------------------------------------
(* The barrier.  On a machine of one hart it is compiled out.               *)

\* Where hart 0's two loops begin and end.  Mutant: _second.
FirstHart_second == 2
FirstHart        == 1
LastHart         == N - 1

Arrive(h) ==
    /\ BootGoto(h, "sync", IF N = 1 THEN "up" ELSE IF h = 0 THEN "await" ELSE "parked")
    /\ msip' = IF h = 0 THEN msip ELSE [msip EXCEPT ![h] = 1]
    /\ scan' = IF h = 0 THEN FirstHart ELSE scan
    /\ UNCHANGED <<memory, lock>>

Await ==
    /\ bpc[0] = "await"
    /\ IF scan < N
       THEN msip[scan] # 0 /\ scan' = scan + 1 /\ UNCHANGED bpc
       ELSE scan' = 1 /\ bpc' = [bpc EXCEPT ![0] = "clear"]
    /\ UNCHANGED <<msip, memory, lock>>

Clear ==
    /\ bpc[0] = "clear"
    /\ IF scan <= LastHart
       THEN msip' = [msip EXCEPT ![scan] = 0] /\ scan' = scan + 1 /\ UNCHANGED bpc
       ELSE bpc' = [bpc EXCEPT ![0] = "up"] /\ UNCHANGED barrier
    /\ UNCHANGED <<memory, lock>>

Released(h) ==
    /\ BootGoto(h, "parked", "up") /\ msip[h] = 0
    /\ UNCHANGED <<barrier, memory, lock>>

-----------------------------------------------------------------------------
(* The lock, in secondary_main and main.  A handler runs over its hart's    *)
(* foreground.                                                              *)

LevelRuns(h, l) == bpc[h] = "up" /\ (l = "main" => lpc[h]["isr"] = "none")

Lpc(h, l, to) == lpc' = [lpc EXCEPT ![h][l] = to]

TryLock(h, l) ==
    /\ LevelRuns(h, l) /\ lpc[h][l] = "none"
    /\ Lpc(h, l, "spin")
    /\ UNCHANGED <<bpc, barrier, memory, state>>

\* amoswap.w.aq: the old value decides.  Mutant: _read leaves the lock as it was.
Swapped_read == state
Swapped      == 1

Swap(h, l) ==
    /\ LevelRuns(h, l) /\ lpc[h][l] = "spin"
    /\ state' = Swapped
    /\ Lpc(h, l, IF state = 0 THEN "held" ELSE "spin")
    /\ UNCHANGED <<bpc, barrier, memory>>

\* Mutant: _kept does not store the zero.
Given_kept == 1
Given      == 0

metal_lock_give(h, l) ==
    /\ LevelRuns(h, l) /\ lpc[h][l] = "held"
    /\ state' = Given /\ Lpc(h, l, "none")
    /\ UNCHANGED <<bpc, barrier, memory>>

BootStep(h) ==
    \/ Enter(h) \/ CopyData(h) \/ metal_init(h) \/ Construct(h) \/ Arrive(h) \/ Released(h)
    \/ (h = 0 /\ (Await \/ Clear))
    \/ \E l \in Levels : TryLock(h, l) \/ Swap(h, l) \/ metal_lock_give(h, l)

BootNext == \E h \in Harts : BootStep(h)

BootSpec == BootInit /\ [][BootNext]_bootVars

\* Every hart executes its start-up code, and gives back a lock it holds.
BootProgress(h) ==
    \/ Enter(h) \/ CopyData(h) \/ (bpc[h] = "init" /\ metal_init(h)) \/ Construct(h)
    \/ Arrive(h) \/ Released(h) \/ (h = 0 /\ (Await \/ Clear))
    \/ \E l \in Levels : metal_lock_give(h, l)

-----------------------------------------------------------------------------
\* The boot hart has copied the data and run every constructor.
Booting == {"start", "data", "init", "construct"}

(* synchronize_harts.c:14-18: no hart, on whichever one boots, runs C code  *)
(* of the program before the data is copied and the constructors have run.  *)
NoneUpBeforeInit ==
    \A h \in Harts : bpc[h] = "up" => bpc[BootHart] \notin Booting

(* init.c:17-22: a constructor or a program that calls metal_init again     *)
(* makes no constructor run twice.                                          *)
ConstructorsRunOnce == runs <= Constructors

(* lock.h:84-96: at most one level of one hart holds the lock.              *)
Holders == {a \in Harts \X Levels : lpc[a[1]][a[2]] = "held"}

LockExcludes == \A a, b \in Holders : a = b

(* The handler of a hart spins for the lock that its own foreground holds.  *)
SelfDeadlock(h) == lpc[h]["main"] = "held" /\ lpc[h]["isr"] = "spin"

(* lock.h:84: a lock that is taken is given back, unless a handler has      *)
(* asked for the one its own hart holds.                                    *)
LockComesBack == state = 1 ~> (state = 0 \/ \E h \in Harts : SelfDeadlock(h))

(* synchronize_harts.c:44-63: every hart gets past the barrier.             *)
AllHartsStart == (\E h \in Harts : bpc[h] # "start") ~> (\A h \in Harts : bpc[h] = "up")

(* synchronize_harts.c:14-63, init.c:12-34: the program starts once, after  *)
(* everything it stands on.                                                 *)
BootOrder == NoneUpBeforeInit /\ ConstructorsRunOnce

(* No hart waits forever, at the barrier or for the lock.                   *)
HartsGetOn == AllHartsStart /\ LockComesBack
=============================================================================
