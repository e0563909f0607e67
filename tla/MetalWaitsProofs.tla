--------------------------- MODULE MetalWaitsProofs ---------------------------
(***************************************************************************)
(* How freedom-metal brings a program up and waits, for every value of the   *)
(* constants: the harts' start and their lock; times in two words, and the   *)
(* demos' wait as an alarm; the demos' rounds; the core clock and the devices *)
(* that follow it; the I2C calls; what main finds of its image, and the heap; *)
(* and the caches and the bus error unit.  The last section puts the parts   *)
(* together as metal_waits runs them.                                       *)
(***************************************************************************)
EXTENDS MetalWaits, PowersProofs, TLAPS

-----------------------------------------------------------------------------
(* Harts (crt0.S, init.c, synchronize_harts.c, lock.h): no hart gets past    *)
(* the barrier before the boot hart is through metal_init, no constructor    *)
(* runs twice, and the lock has one holder at most.                         *)

Places == Booting \cup {"sync", "await", "clear", "parked", "up"}

Behind == {"parked", "up"}      \* where a hart is once it has set its bit

BootTypes ==
    /\ bpc \in [Harts -> Places] /\ msip \in [Harts -> {0, 1}] /\ scan \in Nat
    /\ init_done \in BOOLEAN /\ funcptr \in Nat /\ runs \in Nat

\* Who may be where.
Roles ==
    /\ \A h \in Harts : bpc[h] \in Booting \ {"start"} => h = BootHart
    /\ \A h \in Harts : bpc[h] \in {"await", "clear"} => h = 0
    /\ bpc[0] # "parked"

\* What hart 0 has seen, and what its going on then means.
Seen ==
    /\ bpc[0] = "await" => scan >= 1 /\ \A j \in 1 .. N - 1 : j < scan => bpc[j] \in Behind
    /\ \A j \in 1 .. N - 1 : msip[j] = 1 => bpc[j] \in Behind
    /\ bpc[0] \in {"clear", "up"} => bpc[BootHart] \notin Booting
    /\ \A j \in 1 .. N - 1 : bpc[j] = "up" \/ (bpc[j] = "parked" /\ msip[j] = 0)
                                => bpc[BootHart] \notin Booting

\* How far metal_init has come.
Constructed ==
    /\ bpc[BootHart] \notin {"start", "data", "init"} => init_done
    /\ bpc[BootHart] = "init" => ~init_done
    /\ bpc[BootHart] \in {"start", "data", "init"} => runs = 0
    /\ runs = funcptr \/ bpc[BootHart] \in {"start", "data", "init"}
    /\ funcptr <= Constructors

BootInv == BootTypes /\ Roles /\ Seen /\ Constructed

LockInv ==
    /\ lpc \in [Harts -> [Levels -> {"none", "spin", "held"}]]
    /\ state \in {0, 1}
    /\ state = 0 => Holders = {}
    /\ LockExcludes

-----------------------------------------------------------------------------
\* Hart 0 and the boot hart are harts.
LEMMA SomeHarts == 0 \in Harts /\ BootHart \in Harts /\ \A j \in 1 .. N - 1 : j \in Harts
BY HartsAssumption DEF Harts

\* Enter keeps the invariant of the start-up code.
LEMMA EnterKeeps == ASSUME BootInv, NEW h \in Harts, Enter(h) PROVE BootInv'
<1> USE SomeHarts, HartsAssumption, ConstructorsAssumption DEF barrier, memory, lock, Booting, Behind, Harts
<1>1. BootTypes'
  BY DEF BootInv, BootTypes, Places, Enter, BootGoto
<1>2. Roles'
  BY DEF BootInv, BootTypes, Places, Roles, Seen, Constructed, Enter, BootGoto
<1>3. Seen'
  BY DEF BootInv, BootTypes, Places, Roles, Seen, Constructed, Enter, BootGoto
<1>4. Constructed'
  BY DEF BootInv, BootTypes, Places, Roles, Seen, Constructed, Enter, BootGoto
<1> QED
  BY <1>1, <1>2, <1>3, <1>4 DEF BootInv

\* CopyData keeps the invariant of the start-up code.
LEMMA CopyDataKeeps == ASSUME BootInv, NEW h \in Harts, CopyData(h) PROVE BootInv'
<1> USE SomeHarts, HartsAssumption, ConstructorsAssumption DEF barrier, memory, lock, Booting, Behind, Harts
<1>1. BootTypes'
  BY DEF BootInv, BootTypes, Places, CopyData, BootGoto
<1>2. Roles'
  BY DEF BootInv, BootTypes, Places, Roles, Seen, Constructed, CopyData, BootGoto
<1>3. Seen'
  BY DEF BootInv, BootTypes, Places, Roles, Seen, Constructed, CopyData, BootGoto
<1>4. Constructed'
  BY DEF BootInv, BootTypes, Places, Roles, Seen, Constructed, CopyData, BootGoto
<1> QED
  BY <1>1, <1>2, <1>3, <1>4 DEF BootInv

\* metal_init keeps the invariant: only the boot hart finds it not done, and
\* only before its first constructor.
LEMMA MetalInitKeeps == ASSUME BootInv, NEW h \in Harts, metal_init(h) PROVE BootInv'
<1> USE SomeHarts, HartsAssumption, ConstructorsAssumption DEF barrier, memory, lock, Booting, Behind, Harts
<1>1. bpc \in [Harts -> Places] /\ UNCHANGED <<msip, scan, runs>>
  BY DEF BootInv, BootTypes, metal_init
<1>2. CASE init_done
  <2>1. PICK p \in Places : bpc' = [bpc EXCEPT ![h] = p] /\ (p = bpc[h] \/ (bpc[h] = "init" /\ p = "sync"))
    BY <1>1, <1>2 DEF metal_init, Places
  <2>2. UNCHANGED <<init_done, funcptr>>
    BY <1>2 DEF metal_init
  <2>3. CASE p = bpc[h]
    <3>1. bpc' = bpc
      BY <1>1, <2>1, <2>3
    <3> QED
      BY <1>1, <2>2, <3>1 DEF BootInv, BootTypes, Roles, Seen, Constructed
  <2>4. CASE bpc[h] = "init" /\ p = "sync"
    BY <1>2, <2>4 DEF BootInv, Roles, Constructed
  <2> QED
    BY <2>1, <2>3, <2>4
<1>3. CASE ~init_done
  <2>1. h = BootHart /\ bpc[h] = "init" /\ runs = 0
    BY <1>1, <1>3 DEF BootInv, BootTypes, Places, Roles, Seen, Constructed, metal_init
  <2>2. bpc' = [bpc EXCEPT ![h] = "construct"] /\ init_done' = TRUE /\ funcptr' = 0
    BY <1>3 DEF metal_init, InitDone
  <2> QED
    BY <1>1, <2>1, <2>2 DEF BootInv, BootTypes, Places, Roles, Seen, Constructed
<1> QED
  BY <1>2, <1>3

\* A constructor keeps the invariant: it runs on the boot hart.
LEMMA ConstructKeeps == ASSUME BootInv, NEW h \in Harts, Construct(h) PROVE BootInv'
<1> USE SomeHarts, HartsAssumption, ConstructorsAssumption DEF barrier, memory, lock, Booting, Behind, Harts
<1>1. bpc \in [Harts -> Places] /\ UNCHANGED <<msip, scan>>
  BY DEF BootInv, BootTypes, Construct
<1>2. h = BootHart /\ bpc[h] = "construct" /\ init_done /\ runs = funcptr
  BY DEF BootInv, Roles, Constructed, Construct
<1>3. CASE funcptr < Constructors
  BY <1>1, <1>2, <1>3 DEF BootInv, BootTypes, Places, Roles, Seen, Constructed, Construct
<1>4. CASE ~(funcptr < Constructors)
  <2>1. bpc' = [bpc EXCEPT ![h] = "sync"] /\ init_done' = TRUE /\ UNCHANGED <<funcptr, runs>>
    BY <1>4 DEF Construct, InitDone
  <2> QED
    BY <1>1, <1>2, <2>1 DEF BootInv, BootTypes, Places, Roles, Seen, Constructed
<1> QED
  BY <1>3, <1>4

\* Arrive keeps the invariant of the start-up code.
LEMMA ArriveKeeps == ASSUME BootInv, NEW h \in Harts, Arrive(h) PROVE BootInv'
<1> USE SomeHarts, HartsAssumption, ConstructorsAssumption DEF barrier, memory, lock, Booting, Behind, Harts
<1>1. BootTypes'
  BY DEF BootInv, BootTypes, Places, Arrive, BootGoto, FirstHart
<1>2. Roles'
  BY DEF BootInv, BootTypes, Places, Roles, Seen, Constructed, Arrive, BootGoto, FirstHart
<1>3. Seen'
  BY DEF BootInv, BootTypes, Places, Roles, Seen, Constructed, Arrive, BootGoto, FirstHart
<1>4. Constructed'
  BY DEF BootInv, BootTypes, Places, Roles, Seen, Constructed, Arrive, BootGoto, FirstHart
<1> QED
  BY <1>1, <1>2, <1>3, <1>4 DEF BootInv

\* Released keeps the invariant of the start-up code.
LEMMA ReleasedKeeps == ASSUME BootInv, NEW h \in Harts, Released(h) PROVE BootInv'
<1> USE SomeHarts, HartsAssumption, ConstructorsAssumption DEF barrier, memory, lock, Booting, Behind, Harts
<1>1. BootTypes'
  BY DEF BootInv, BootTypes, Places, Released, BootGoto
<1>2. Roles'
  BY DEF BootInv, BootTypes, Places, Roles, Seen, Constructed, Released, BootGoto
<1>3. Seen'
  BY DEF BootInv, BootTypes, Places, Roles, Seen, Constructed, Released, BootGoto
<1>4. Constructed'
  BY DEF BootInv, BootTypes, Places, Roles, Seen, Constructed, Released, BootGoto
<1> QED
  BY <1>1, <1>2, <1>3, <1>4 DEF BootInv

\* Await keeps the invariant of the start-up code.
LEMMA AwaitKeeps == ASSUME BootInv, Await PROVE BootInv'
<1> USE SomeHarts, HartsAssumption, ConstructorsAssumption DEF barrier, memory, lock, Booting, Behind, Harts
<1>1. BootTypes'
  BY DEF BootInv, BootTypes, Places, Await
<1>2. Roles'
  BY DEF BootInv, BootTypes, Places, Roles, Seen, Constructed, Await
<1>3. Seen'
  BY DEF BootInv, BootTypes, Places, Roles, Seen, Constructed, Await
<1>4. Constructed'
  BY DEF BootInv, BootTypes, Places, Roles, Seen, Constructed, Await
<1> QED
  BY <1>1, <1>2, <1>3, <1>4 DEF BootInv

\* Clear keeps the invariant of the start-up code.
LEMMA ClearKeeps == ASSUME BootInv, Clear PROVE BootInv'
<1> USE SomeHarts, HartsAssumption, ConstructorsAssumption DEF barrier, memory, lock, Booting, Behind, Harts
<1>1. BootTypes'
  BY DEF BootInv, BootTypes, Places, Clear, LastHart
<1>2. Roles'
  BY DEF BootInv, BootTypes, Places, Roles, Seen, Constructed, Clear, LastHart
<1>3. Seen'
  BY DEF BootInv, BootTypes, Places, Roles, Seen, Constructed, Clear, LastHart
<1>4. Constructed'
  BY DEF BootInv, BootTypes, Places, Roles, Seen, Constructed, Clear, LastHart
<1> QED
  BY <1>1, <1>2, <1>3, <1>4 DEF BootInv

\* The lock and the rest of the program leave the start-up code alone.
LEMMA LockKeepsBoot ==
  ASSUME BootInv, NEW h \in Harts, NEW l \in Levels,
         TryLock(h, l) \/ Swap(h, l) \/ metal_lock_give(h, l)
  PROVE  BootInv'
<1>1. UNCHANGED <<bpc, msip, scan, init_done, funcptr, runs>>
  BY DEF TryLock, Swap, metal_lock_give, barrier, memory
<1> QED
  BY <1>1 DEF BootInv, BootTypes, Roles, Seen, Constructed

\* The inductive invariant of the start-up code.
THEOREM BootInductive == BootSpec => []BootInv
<1>1. BootInit => BootInv
  <2> SUFFICES ASSUME BootInit PROVE BootInv
    OBVIOUS
  <2>1. (\A h \in Harts : bpc[h] = "start") /\ (\A h \in Harts : msip[h] = 0)
    BY DEF BootInit
  <2>2. BootTypes
    BY DEF BootInit, BootTypes, Places, Booting
  <2>3. Roles /\ Seen
    BY <2>1, SomeHarts DEF BootInit, Roles, Seen, Booting
  <2>4. Constructed
    BY <2>1, SomeHarts, ConstructorsAssumption DEF BootInit, Constructed
  <2> QED
    BY <2>2, <2>3, <2>4 DEF BootInv
<1>2. BootInv /\ [BootNext]_bootVars => BootInv'
  <2> SUFFICES ASSUME BootInv, [BootNext]_bootVars PROVE BootInv'
    OBVIOUS
  <2>1. CASE BootNext
    <3>1. PICK h \in Harts : BootStep(h)
      BY <2>1 DEF BootNext
    <3> QED
      BY <3>1, EnterKeeps, CopyDataKeeps, MetalInitKeeps, ConstructKeeps, ArriveKeeps, ReleasedKeeps,
         AwaitKeeps, ClearKeeps, LockKeepsBoot
      DEF BootStep
  <2>2. CASE UNCHANGED bootVars
    BY <2>2 DEF BootInv, BootTypes, Roles, Seen, Constructed, bootVars
  <2> QED
    BY <2>1, <2>2
<1> QED
  BY <1>1, <1>2, PTL DEF BootSpec

\* Whichever hart boots, none runs the program before the data is copied and
\* the constructors have run (synchronize_harts.c:14-18).
THEOREM NoneUpEarly == BootSpec => []NoneUpBeforeInit
<1>1. BootInv => NoneUpBeforeInit
  BY HartsAssumption DEF BootInv, BootTypes, Seen, NoneUpBeforeInit, Harts
<1> QED
  BY <1>1, BootInductive, PTL

\* However often metal_init is called, no constructor runs twice.
THEOREM ConstructedOnce == BootSpec => []ConstructorsRunOnce
<1>1. BootInv => ConstructorsRunOnce
  BY ConstructorsAssumption DEF BootInv, BootTypes, Constructed, ConstructorsRunOnce
<1> QED
  BY <1>1, BootInductive, PTL

\* The program starts once, after everything it stands on (synchronize_harts.c:14-63,
\* init.c:12-34).
THEOREM BootComesInOrder == BootSpec => []BootOrder
<1>1. NoneUpBeforeInit /\ ConstructorsRunOnce => BootOrder
  BY DEF BootOrder
<1> QED
  BY <1>1, NoneUpEarly, ConstructedOnce, PTL

-----------------------------------------------------------------------------
\* What a step of the start-up code leaves alone.
LEMMA BootKeepsLock ==
  ASSUME NEW h \in Harts,
         \/ Enter(h) \/ CopyData(h) \/ metal_init(h) \/ Construct(h) \/ Arrive(h) \/ Released(h)
         \/ Await \/ Clear
  PROVE  UNCHANGED <<lpc, state>>
BY DEF Enter, CopyData, metal_init, Construct, Arrive, Released, Await, Clear, lock

\* A level that has "held" is a holder.
LEMMA HolderIs == ASSUME NEW k \in Harts, NEW m \in Levels, lpc[k][m] = "held" PROVE <<k, m>> \in Holders
BY DEF Holders

\* The level that finds the lock free is its only holder.
LEMMA SwapKeeps == ASSUME LockInv, NEW h \in Harts, NEW l \in Levels, Swap(h, l) PROVE LockInv'
<1> USE DEF Swapped, Lpc, Holders, LockExcludes, Levels
<1>1. lpc \in [Harts -> [Levels -> {"none", "spin", "held"}]] /\ state' = 1
  BY DEF LockInv, Swap
<1>2. CASE state = 0
  <2>1. lpc' = [lpc EXCEPT ![h][l] = "held"]
    BY <1>2 DEF Swap
  <2>2. \A k \in Harts, m \in Levels : lpc[k][m] # "held"
    <3>1. Holders = {}
      BY <1>2 DEF LockInv
    <3> QED
      BY <3>1, HolderIs
  <2>3. \A k \in Harts, m \in Levels : lpc'[k][m] = "held" => k = h /\ m = l
    BY <1>1, <2>1, <2>2
  <2> QED
    BY <1>1, <2>1, <2>3 DEF LockInv
<1>3. CASE state # 0
  <2>1. lpc' = lpc
    BY <1>1, <1>3 DEF Swap
  <2> QED
    BY <1>1, <2>1 DEF LockInv
<1> QED
  BY <1>2, <1>3

\* The lock has one holder at most, of all levels of all harts.
THEOREM LockHasOneHolder == BootSpec => []LockExcludes
<1>1. BootInit => LockInv
  BY DEF BootInit, LockInv, Holders, LockExcludes
<1>2. LockInv /\ [BootNext]_bootVars => LockInv'
  <2> SUFFICES ASSUME LockInv, [BootNext]_bootVars PROVE LockInv'
    OBVIOUS
  <2>1. CASE BootNext
    <3>1. PICK h \in Harts : BootStep(h)
      BY <2>1 DEF BootNext
    <3>2. ASSUME NEW l \in Levels, TryLock(h, l) PROVE LockInv'
      <4>1. lpc' = [lpc EXCEPT ![h][l] = "spin"] /\ UNCHANGED state
        BY <3>2 DEF TryLock, Lpc
      <4>2. \A k \in Harts, m \in Levels : lpc'[k][m] = "held" => lpc[k][m] = "held"
        BY <4>1 DEF LockInv
      <4> QED
        BY <4>1, <4>2 DEF LockInv, Holders, LockExcludes
    <3>3. ASSUME NEW l \in Levels, metal_lock_give(h, l) PROVE LockInv'
      <4>1. lpc' = [lpc EXCEPT ![h][l] = "none"] /\ state' = 0 /\ lpc[h][l] = "held"
        BY <3>3 DEF metal_lock_give, Lpc, Given
      <4>2. \A k \in Harts, m \in Levels : lpc[k][m] = "held" => k = h /\ m = l
        <5>1. \A k \in Harts, m \in Levels : lpc[k][m] = "held" => <<k, m>> = <<h, l>>
          BY <4>1, HolderIs DEF LockInv, LockExcludes
        <5> QED
          BY <5>1
      <4>3. \A k \in Harts, m \in Levels : lpc'[k][m] # "held"
        BY <4>1, <4>2 DEF LockInv
      <4> QED
        BY <4>1, <4>3 DEF LockInv, Holders, LockExcludes
    <3>4. ASSUME UNCHANGED <<lpc, state>> PROVE LockInv'
      BY <3>4 DEF LockInv, Holders, LockExcludes
    <3> QED
      BY <3>1, <3>2, <3>3, <3>4, SwapKeeps, BootKeepsLock DEF BootStep
  <2>2. CASE UNCHANGED bootVars
    BY <2>2 DEF LockInv, Holders, LockExcludes, bootVars
  <2> QED
    BY <2>1, <2>2
<1>3. LockInv => LockExcludes
  BY DEF LockInv
<1> QED
  BY <1>1, <1>2, <1>3, PTL DEF BootSpec

-----------------------------------------------------------------------------
(* Times (riscv_clint0.c, riscv_cpu.c).  What is read of mtime is bounded on *)
(* both sides because the clock only moves forward.  What is written of      *)
(* mtimecmp is whole because the largest high word, stored first, keeps the  *)
(* handler out until the last store.                                        *)

Times  == [hi : Nat, lo : Word]
TSteps == {"none", "hi", "lo", "check", "max", "storelo", "storehi"}
Stores == {"storelo", "storehi"}

TimerTypeOK ==
    /\ mt \in [hi : 0 .. MaxHi, lo : Word]
    /\ cmpr \in Times /\ asked \in Times
    /\ tcall \in [TimerActors -> [step : TSteps, ahead : Nat, t : Times, from : Times]]

\* An actor is in a call only where its program counter says so.
CallsAreWhere ==
    /\ tcall["main"].step # "none" => wpc \in {"wait", "set"}
    /\ tcall["isr"].step # "none" => tisr = "timer"

\* How much is known of what an actor has read.
ReadSoFar(a) ==
    LET c == tcall[a] IN
    /\ c.step \in {"hi", "lo", "check"} => Leq(c.from, mt)
    /\ c.step \in {"lo", "check"} => c.t.hi <= mt.hi
    /\ c.step = "check" /\ c.t.hi = mt.hi => Leq(c.from, c.t) /\ Leq(c.t, mt)
    /\ c.step \in {"max"} \cup Stores => Leq(c.from, c.t) /\ Leq(c.t, mt)

\* The foreground's write is not interrupted, and its halves are one value's.
WrittenSoFar ==
    /\ tcall["main"].step \in Stores => tisr = "none" /\ cmpr.hi = Ones
    /\ \A a \in TimerActors : tcall[a].step = "storehi" => cmpr.lo = Goal(a).lo

TimerIInv ==
    /\ TimerTypeOK /\ CallsAreWhere /\ WrittenSoFar /\ CompareIsWhole
    /\ \A a \in TimerActors : ReadSoFar(a)

-----------------------------------------------------------------------------

\* The carry of a sum of words.
LEMMA Carry ==
    /\ \A n \in Nat : n \div W \in Nat /\ n % W \in Word
    /\ \A n \in Word : (n + 1 < W => (n + 1) \div W = 0 /\ (n + 1) % W = n + 1)
    /\ W \div W = 1 /\ W % W = 0
<1> USE WordAssumption DEF Word
<1>1. \A n \in Nat : n \div W \in Nat /\ n % W \in 0 .. W - 1
  OBVIOUS
<1>2. \A n \in 0 .. W - 1 : (n + 1 < W => (n + 1) \div W = 0 /\ (n + 1) % W = n + 1)
  OBVIOUS
<1>3. W \div W = 1 /\ W % W = 0
  OBVIOUS
<1>4. QED
  BY <1>1, <1>2, <1>3

\* A sum of a time and a number is a time; one tick moves the clock on.
LEMMA PlusIsTime ==
    ASSUME NEW t \in Times, NEW d \in Nat
    PROVE  Plus(t, d) \in Times
<1>1. t.hi \in Nat /\ t.lo + d \in Nat
  BY WordAssumption DEF Times, Word
<1>2. (t.lo + d) \div W \in Nat /\ (t.lo + d) % W \in Word
  BY <1>1, Carry
<1>3. t.hi + (t.lo + d) \div W \in Nat
  BY <1>1, <1>2
<1>4. QED
  BY <1>2, <1>3 DEF Plus, Times

LEMMA TickMovesOn ==
    ASSUME mt \in [hi : 0 .. MaxHi, lo : Word], mt # Latest
    PROVE  /\ Plus(mt, 1) \in [hi : 0 .. MaxHi, lo : Word]
           /\ Leq(mt, Plus(mt, 1))
<1>1. /\ mt.hi \in 0 .. MaxHi /\ mt.lo \in 0 .. W - 1
      /\ W \in Nat \ {0} /\ MaxHi \in Nat
      /\ mt = [hi |-> mt.hi, lo |-> mt.lo]
  BY WordAssumption DEF Word
<1>2. CASE mt.lo + 1 < W
  <2>1. Plus(mt, 1) = [hi |-> mt.hi + 0, lo |-> mt.lo + 1]
    BY <1>1, <1>2, Carry DEF Plus, Word
  <2>2. QED
    BY <1>1, <1>2, <2>1 DEF Leq, Word
<1>3. CASE mt.lo + 1 = W
  <2>1. Plus(mt, 1) = [hi |-> mt.hi + 1, lo |-> 0]
    BY <1>1, <1>3, Carry DEF Plus
  <2>2. mt.hi # MaxHi
    BY <1>1, <1>3 DEF Latest
  <2>3. QED
    BY <1>1, <2>1, <2>2 DEF Leq, Word
<1>4. QED
  BY <1>1, <1>2, <1>3

LEMMA LeqTransitive ==
    ASSUME NEW r \in Times, NEW s \in Times, NEW t \in Times, Leq(r, s), Leq(s, t)
    PROVE  Leq(r, t)
BY WordAssumption DEF Leq, Times, Word

-----------------------------------------------------------------------------
(* The steps.  None of them moves the clock but its own.                     *)

LEMMA TimerStarts == TimerInit => TimerIInv
<1> SUFFICES ASSUME TimerInit PROVE TimerIInv
  OBVIOUS
<1>1. [hi |-> 0, lo |-> 0] \in Times /\ [hi |-> 0, lo |-> 0] \in [hi : 0 .. MaxHi, lo : Word]
  BY WordAssumption DEF Times, Word
<1>2. TimerTypeOK
  BY <1>1 DEF TimerInit, TimerTypeOK, TSteps, Resting
<1>3. CallsAreWhere /\ WrittenSoFar /\ CompareIsWhole /\ \A a \in TimerActors : ReadSoFar(a)
  BY DEF TimerInit, TimerActors, Resting, Stores, CallsAreWhere, WrittenSoFar, CompareIsWhole, ReadSoFar
<1>4. QED
  BY <1>2, <1>3 DEF TimerIInv

\* What an actor has read stays good while the clock stands.
LEMMA ReadsStay ==
    ASSUME NEW b \in TimerActors, ReadSoFar(b), tcall'[b] = tcall[b], mt' = mt
    PROVE  ReadSoFar(b)'
BY DEF ReadSoFar, Leq

\* Loads and the comparison touch nothing but the call's own record.
LEMMA ReadingKeepsIInv ==
    ASSUME TimerIInv, NEW a \in TimerActors, LoadHigh(a) \/ LoadLow(a) \/ CheckHigh(a)
    PROVE  TimerIInv'
<1> DEFINE c == tcall[a]
<1>0. /\ c \in [step : TSteps, ahead : Nat, t : Times, from : Times]
      /\ mt.hi \in Nat /\ mt.lo \in Word /\ mt = [hi |-> mt.hi, lo |-> mt.lo]
      /\ c.step \in TSteps /\ c.ahead \in Nat /\ c.t \in Times /\ c.from \in Times
      /\ c.t.hi \in Nat /\ c.t.lo \in Word /\ c.from.hi \in Nat /\ c.from.lo \in Word
      /\ W \in Nat \ {0} /\ MaxHi \in Nat
  BY WordAssumption DEF TimerIInv, TimerTypeOK, Times
<1>1. UNCHANGED <<mt, cmpr, asked, tisr, wpc>>
  BY DEF LoadHigh, LoadLow, CheckHigh, setUp
<1>2. \A b \in TimerActors : b # a => tcall'[b] = tcall[b]
  BY DEF LoadHigh, LoadLow, CheckHigh, TimerIInv, TimerTypeOK
<1>3. /\ tcall'[a] \in [step : TSteps, ahead : Nat, t : Times, from : Times]
      /\ c.step \in {"hi", "lo", "check"} /\ tcall'[a].step \in {"hi", "lo", "check", "max"}
      /\ ReadSoFar(a)'
  <2>1. CASE LoadHigh(a)
    <3>1. c.step = "hi" /\ tcall'[a] = [c EXCEPT !.step = "lo", !.t = [c.t EXCEPT !.hi = mt.hi]]
      BY <2>1 DEF LoadHigh, AtStep, TimerIInv, TimerTypeOK
    <3>2. /\ tcall'[a].step = "lo" /\ tcall'[a].t = [hi |-> mt.hi, lo |-> c.t.lo]
          /\ tcall'[a].from = c.from /\ tcall'[a].ahead = c.ahead
          /\ tcall'[a] \in [step : TSteps, ahead : Nat, t : Times, from : Times]
      BY <1>0, <3>1 DEF Times, TSteps
    <3>3. Leq(c.from, mt)
      BY <3>1 DEF TimerIInv, ReadSoFar
    <3>4. QED
      BY <1>0, <1>1, <3>1, <3>2, <3>3 DEF ReadSoFar, Leq, Stores
  <2>2. CASE LoadLow(a)
    <3>1. c.step = "lo" /\ tcall'[a] = [c EXCEPT !.step = "check", !.t = [c.t EXCEPT !.lo = mt.lo]]
      BY <2>2 DEF LoadLow, AtStep, TimerIInv, TimerTypeOK
    <3>2. /\ tcall'[a].step = "check" /\ tcall'[a].t = [hi |-> c.t.hi, lo |-> mt.lo]
          /\ tcall'[a].from = c.from /\ tcall'[a].ahead = c.ahead
          /\ tcall'[a] \in [step : TSteps, ahead : Nat, t : Times, from : Times]
      BY <1>0, <3>1 DEF Times, TSteps
    <3>3. Leq(c.from, mt) /\ c.t.hi <= mt.hi
      BY <3>1 DEF TimerIInv, ReadSoFar
    <3>4. QED
      BY <1>0, <1>1, <3>1, <3>2, <3>3 DEF ReadSoFar, Leq, Stores, Word
  <2>3. CASE CheckHigh(a)
    <3>1. c.step = "check" /\ Leq(c.from, mt)
      BY <2>3 DEF CheckHigh, AtStep, TimerIInv, ReadSoFar
    <3>2. CASE Consistent(a)
      <4>1. tcall'[a] = [c EXCEPT !.step = "max"]
        BY <2>3, <3>2 DEF CheckHigh, TimerIInv, TimerTypeOK
      <4>2. Leq(c.from, c.t) /\ Leq(c.t, mt)
        BY <3>1, <3>2 DEF Consistent, TimerIInv, ReadSoFar
      <4>3. /\ tcall'[a].step = "max" /\ tcall'[a].t = c.t /\ tcall'[a].from = c.from
            /\ tcall'[a] \in [step : TSteps, ahead : Nat, t : Times, from : Times]
        BY <1>0, <4>1 DEF TSteps
      <4>4. QED
        BY <1>1, <3>1, <4>2, <4>3 DEF ReadSoFar, Leq, Stores
    <3>3. CASE ~Consistent(a)
      <4>1. tcall'[a] = [c EXCEPT !.step = "hi", !.t = Resting.t]
        BY <2>3, <3>3 DEF CheckHigh, TimerIInv, TimerTypeOK
      <4>2. /\ tcall'[a].step = "hi" /\ tcall'[a].from = c.from
            /\ tcall'[a] \in [step : TSteps, ahead : Nat, t : Times, from : Times]
        <5>1. Resting.t = [hi |-> 0, lo |-> 0] /\ Resting.t \in Times
          BY <1>0 DEF Resting, Times, Word
        <5>2. QED
          BY <1>0, <4>1, <5>1 DEF TSteps
      <4>3. QED
        BY <1>1, <3>1, <4>2 DEF ReadSoFar, Leq, Stores
    <3>4. QED
      BY <3>2, <3>3
  <2>4. QED
    BY <2>1, <2>2, <2>3
<1>4. TimerTypeOK'
  <2>1. tcall' \in [TimerActors -> [step : TSteps, ahead : Nat, t : Times, from : Times]]
    <3>1. DOMAIN tcall' = TimerActors /\ tcall' = [b \in TimerActors |-> tcall'[b]]
      BY DEF LoadHigh, LoadLow, CheckHigh, TimerIInv, TimerTypeOK
    <3>2. QED
      BY <1>2, <1>3, <3>1 DEF TimerIInv, TimerTypeOK
  <2>2. QED
    BY <1>1, <2>1 DEF TimerIInv, TimerTypeOK
<1>5. \A b \in TimerActors : ReadSoFar(b)'
  BY <1>1, <1>2, <1>3, ReadsStay DEF TimerIInv
<1>6. \A b \in TimerActors : tcall'[b].step \in Stores <=> (tcall[b].step \in Stores)
  BY <1>2, <1>3 DEF Stores
<1>7. CallsAreWhere'
  BY <1>1, <1>2, <1>3 DEF TimerIInv, CallsAreWhere, TimerActors, TSteps
<1>8. WrittenSoFar' /\ CompareIsWhole'
  <2>1. \A b \in TimerActors : tcall'[b].step \in Stores => tcall'[b] = tcall[b]
    BY <1>2, <1>3 DEF Stores
  <2>2. QED
    BY <1>1, <1>6, <2>1 DEF TimerIInv, WrittenSoFar, CompareIsWhole, Stores, Goal, Plus, TimerActors, Ones
<1>9. QED
  BY <1>4, <1>5, <1>7, <1>8 DEF TimerIInv

\* While one actor stores, the other is not about to.
LEMMA StoresAreApart ==
    ASSUME TimerIInv, NEW a \in TimerActors, TimerRuns(a), NEW b \in TimerActors, b # a
    PROVE  tcall[b].step \notin Stores
BY DEF TimerIInv, TimerRuns, TimerActors, CallsAreWhere, WrittenSoFar, Stores

LEMMA StoringKeepsIInv ==
    ASSUME TimerIInv, NEW a \in TimerActors, StoreMax(a) \/ StoreLow(a) \/ StoreHigh(a)
    PROVE  TimerIInv'
<1> DEFINE c == tcall[a]
<1>0. /\ c \in [step : TSteps, ahead : Nat, t : Times, from : Times]
      /\ c.ahead \in Nat /\ c.t \in Times /\ c.from \in Times
      /\ cmpr \in Times /\ cmpr.hi \in Nat /\ cmpr.lo \in Word
      /\ W \in Nat \ {0} /\ MaxHi \in Nat /\ Ones \in Nat
  BY WordAssumption DEF TimerIInv, TimerTypeOK, Times, Ones
<1>1. /\ UNCHANGED mt /\ TimerRuns(a)
      /\ \A b \in TimerActors : b # a => tcall'[b] = tcall[b] /\ tcall[b].step \notin Stores
  BY StoresAreApart DEF StoreMax, StoreLow, StoreHigh, AtStep, TimerIInv, TimerTypeOK
<1>2. /\ Goal(a) \in Times /\ Goal(a).hi \in Nat /\ Goal(a).lo \in Word
      /\ Goal(a) = [hi |-> Goal(a).hi, lo |-> Goal(a).lo]
  <2>1. Goal(a) \in Times
    BY <1>0, PlusIsTime DEF Goal
  <2>2. QED
    BY <2>1 DEF Times
<1>3. DOMAIN tcall' = TimerActors /\ tcall' = [b \in TimerActors |-> tcall'[b]]
  BY DEF StoreMax, StoreLow, StoreHigh, TimerIInv, TimerTypeOK
<1>4. CASE StoreMax(a)
  <2>1. /\ c.step = "max" /\ tcall'[a] = [c EXCEPT !.step = "storelo"]
        /\ cmpr' = [hi |-> Ones, lo |-> cmpr.lo] /\ UNCHANGED <<asked, tisr, wpc>>
    BY <1>0, <1>4 DEF StoreMax, FirstHigh, AtStep, TimerIInv, TimerTypeOK, Times
  <2>2. /\ tcall'[a].step = "storelo" /\ tcall'[a].t = c.t /\ tcall'[a].from = c.from
        /\ tcall'[a] \in [step : TSteps, ahead : Nat, t : Times, from : Times]
    BY <1>0, <2>1 DEF TSteps
  <2>3. TimerTypeOK'
    BY <1>0, <1>1, <1>3, <2>1, <2>2 DEF TimerIInv, TimerTypeOK, Times
  <2>4. \A b \in TimerActors : ReadSoFar(b)'
    <3>1. ReadSoFar(a)'
      BY <1>1, <2>1, <2>2 DEF TimerIInv, ReadSoFar, Leq, Stores
    <3>2. QED
      BY <1>1, <3>1, ReadsStay DEF TimerIInv
  <2>5. CallsAreWhere' /\ WrittenSoFar' /\ CompareIsWhole'
    BY <1>1, <2>1, <2>2 DEF TimerIInv, CallsAreWhere, WrittenSoFar, CompareIsWhole, Stores, TimerActors, TimerRuns, Ones
  <2>6. QED
    BY <2>3, <2>4, <2>5 DEF TimerIInv
<1>5. CASE StoreLow(a)
  <2>1. /\ c.step = "storelo" /\ tcall'[a] = [c EXCEPT !.step = "storehi"]
        /\ cmpr' = [hi |-> cmpr.hi, lo |-> Goal(a).lo] /\ UNCHANGED <<asked, tisr, wpc>>
    BY <1>0, <1>5 DEF StoreLow, AtStep, TimerIInv, TimerTypeOK, Times
  <2>2. /\ tcall'[a].step = "storehi" /\ tcall'[a].t = c.t /\ tcall'[a].from = c.from
        /\ tcall'[a].ahead = c.ahead
        /\ tcall'[a] \in [step : TSteps, ahead : Nat, t : Times, from : Times]
    BY <1>0, <2>1 DEF TSteps
  <2>3. TimerTypeOK'
    BY <1>0, <1>1, <1>2, <1>3, <2>1, <2>2 DEF TimerIInv, TimerTypeOK, Times
  <2>4. \A b \in TimerActors : ReadSoFar(b)'
    <3>1. ReadSoFar(a)'
      BY <1>1, <2>1, <2>2 DEF TimerIInv, ReadSoFar, Leq, Stores
    <3>2. QED
      BY <1>1, <3>1, ReadsStay DEF TimerIInv
  <2>5. Goal(a)' = Goal(a)
    BY <2>2 DEF Goal, Plus
  <2>6. CallsAreWhere' /\ WrittenSoFar' /\ CompareIsWhole'
    BY <1>1, <2>1, <2>2, <2>5 DEF TimerIInv, CallsAreWhere, WrittenSoFar, CompareIsWhole, Stores, TimerActors, TimerRuns, Ones
  <2>7. QED
    BY <2>3, <2>4, <2>6 DEF TimerIInv
<1>6. CASE StoreHigh(a)
  <2>1. /\ c.step = "storehi" /\ tcall'[a] = Resting
        /\ cmpr' = [hi |-> Goal(a).hi, lo |-> cmpr.lo] /\ asked' = Goal(a)
    BY <1>0, <1>6 DEF StoreHigh, AtStep, TimerIInv, TimerTypeOK, Times
  <2>2. cmpr' = Goal(a)
    BY <1>2, <2>1 DEF TimerIInv, WrittenSoFar
  <2>3. TimerTypeOK'
    <3>1. Resting \in [step : TSteps, ahead : Nat, t : Times, from : Times]
      BY <1>0 DEF Resting, TSteps, Times, Word
    <3>2. QED
      BY <1>1, <1>2, <1>3, <2>1, <2>2, <3>1 DEF TimerIInv, TimerTypeOK
  <2>4. \A b \in TimerActors : ReadSoFar(b)'
    <3>1. ReadSoFar(a)'
      BY <2>1 DEF ReadSoFar, Resting, Stores
    <3>2. QED
      BY <1>1, <3>1, ReadsStay DEF TimerIInv
  <2>5. CallsAreWhere'
    BY <1>1, <1>6, <2>1 DEF TimerIInv, CallsAreWhere, StoreHigh, TimerActors, TimerRuns, Resting
  <2>6. WrittenSoFar' /\ CompareIsWhole'
    BY <1>1, <2>1, <2>2 DEF WrittenSoFar, CompareIsWhole, Stores, TimerActors, Resting
  <2>7. QED
    BY <2>3, <2>4, <2>5, <2>6 DEF TimerIInv
<1>7. QED
  BY <1>4, <1>5, <1>6

\* A call begins with the clock's time as the bound of what it will read.
LEMMA BeginningKeepsIInv ==
    ASSUME TimerIInv, NEW a \in TimerActors, NEW d \in Nat, ReadFor(a, d),
           tcall[a].step = "none", UNCHANGED <<mt, cmpr, asked>>,
           a = "main" => wpc' \in {"wait", "set"} /\ UNCHANGED tisr,
           a = "isr" => tisr' = "timer" /\ UNCHANGED wpc /\ tcall["main"].step \notin Stores
    PROVE  TimerIInv'
<1> DEFINE new == [step |-> "hi", ahead |-> d, t |-> [hi |-> 0, lo |-> 0], from |-> mt]
<1>1. /\ mt \in Times /\ mt.hi \in Nat /\ mt.lo \in Word /\ W \in Nat \ {0}
  BY WordAssumption DEF TimerIInv, TimerTypeOK, Times
<1>2. tcall' = [tcall EXCEPT ![a] = new]
  BY DEF ReadFor
<1>3. new \in [step : TSteps, ahead : Nat, t : Times, from : Times]
  BY <1>1 DEF TSteps, Times, Word
<1>4. tcall'[a] = new /\ \A b \in TimerActors : b # a => tcall'[b] = tcall[b]
  BY <1>2 DEF TimerIInv, TimerTypeOK
<1>5. TimerTypeOK'
  BY <1>2, <1>3 DEF TimerIInv, TimerTypeOK
<1>6. \A b \in TimerActors : ReadSoFar(b)'
  <2>1. Leq(mt, mt)
    BY <1>1 DEF Leq, Word
  <2>2. tcall'[a].step = "hi" /\ tcall'[a].from = mt
    BY <1>4
  <2>3. ReadSoFar(a)'
    BY <2>1, <2>2 DEF ReadSoFar, Leq, Stores
  <2>4. QED
    BY <1>4, <2>3, ReadsStay DEF TimerIInv
<1>7. CallsAreWhere'
  BY <1>4 DEF TimerIInv, CallsAreWhere, TimerActors
<1>8. WrittenSoFar' /\ CompareIsWhole'
  <2>1. \A b \in TimerActors : tcall'[b].step \in Stores => b # a /\ tcall'[b] = tcall[b]
    BY <1>4 DEF Stores
  <2>2. \A b \in TimerActors : tcall[b].step \in Stores => tcall'[b].step \in Stores
    BY <1>4 DEF Stores
  <2>3. QED
    BY <2>1, <2>2 DEF TimerIInv, WrittenSoFar, CompareIsWhole, Stores, Goal, Plus, TimerActors, Ones
<1>9. QED
  BY <1>5, <1>6, <1>7, <1>8 DEF TimerIInv

\* The clock moves on, and what was read of it stays behind.
LEMMA TickKeepsIInv ==
    ASSUME TimerIInv, TimerTick
    PROVE  TimerIInv'
<1>1. /\ mt \in [hi : 0 .. MaxHi, lo : Word] /\ mt \in Times /\ mt.hi \in Nat /\ mt.lo \in Word
      /\ W \in Nat \ {0} /\ MaxHi \in Nat
  BY WordAssumption DEF TimerIInv, TimerTypeOK, Times
<1>2. mt' \in [hi : 0 .. MaxHi, lo : Word] /\ Leq(mt, mt') /\ mt' \in Times
  BY <1>1, TickMovesOn DEF TimerTick, Times
<1>3. UNCHANGED <<cmpr, asked, tcall, tisr, wpc>>
  BY DEF TimerTick
<1>4. TimerTypeOK'
  BY <1>2, <1>3 DEF TimerIInv, TimerTypeOK
<1>5. ASSUME NEW b \in TimerActors PROVE ReadSoFar(b)'
  <2> DEFINE c == tcall[b]
  <2>1. /\ c.t \in Times /\ c.from \in Times
        /\ c.t.hi \in Nat /\ c.t.lo \in Word /\ c.from.hi \in Nat /\ c.from.lo \in Word
        /\ mt'.hi \in Nat /\ mt'.lo \in Word
    BY <1>2 DEF TimerIInv, TimerTypeOK, Times
  <2>2. ReadSoFar(b)
    BY DEF TimerIInv
  <2>3. mt.hi <= mt'.hi
    BY <1>1, <1>2, <2>1 DEF Leq
  <2>4. c.step \in {"hi", "lo", "check"} => Leq(c.from, mt')
    BY <1>1, <1>2, <2>1, <2>2, LeqTransitive DEF ReadSoFar
  <2>5. c.step \in {"lo", "check"} => c.t.hi <= mt'.hi
    BY <1>1, <2>1, <2>2, <2>3 DEF ReadSoFar
  <2>6. c.step = "check" /\ c.t.hi = mt'.hi => Leq(c.from, c.t) /\ Leq(c.t, mt')
    <3>1. SUFFICES ASSUME c.step = "check", c.t.hi = mt'.hi PROVE Leq(c.from, c.t) /\ Leq(c.t, mt')
      OBVIOUS
    <3>2. c.t.hi = mt.hi
      BY <1>1, <2>1, <2>2, <2>3, <3>1 DEF ReadSoFar
    <3>3. QED
      BY <1>1, <1>2, <2>1, <2>2, <3>1, <3>2, LeqTransitive DEF ReadSoFar
  <2>7. c.step \in {"max"} \cup Stores => Leq(c.from, c.t) /\ Leq(c.t, mt')
    BY <1>1, <1>2, <2>1, <2>2, LeqTransitive DEF ReadSoFar
  <2>8. QED
    BY <1>3, <2>4, <2>5, <2>6, <2>7 DEF ReadSoFar, Leq, Stores
<1>6. CallsAreWhere' /\ WrittenSoFar' /\ CompareIsWhole'
  BY <1>3 DEF TimerIInv, CallsAreWhere, WrittenSoFar, CompareIsWhole, Stores, Goal, Plus, Ones
<1>7. QED
  BY <1>4, <1>5, <1>6 DEF TimerIInv

\* What is left of the steps moves program counters and enables.
LEMMA MovingKeepsIInv ==
    ASSUME TimerIInv, UNCHANGED <<mt, cmpr, asked, tcall>>,
           tcall["main"].step # "none" => wpc' \in {"wait", "set"},
           tcall["isr"].step # "none" => tisr' = "timer",
           tcall["main"].step \in Stores => tisr' = "none"
    PROVE  TimerIInv'
<1>1. TimerTypeOK'
  BY DEF TimerIInv, TimerTypeOK
<1>2. \A b \in TimerActors : ReadSoFar(b)'
  BY ReadsStay DEF TimerIInv
<1>3. CallsAreWhere' /\ WrittenSoFar' /\ CompareIsWhole'
  BY DEF TimerIInv, CallsAreWhere, WrittenSoFar, CompareIsWhole, Stores, Goal, Plus, Ones
<1>4. QED
  BY <1>1, <1>2, <1>3 DEF TimerIInv

\* An interrupt is taken only when nobody is in the middle of a write.
LEMMA TrapsFindItWhole ==
    ASSUME TimerIInv, TimerTrap
    PROVE  /\ \A a \in TimerActors : tcall[a].step \notin Stores
           /\ Leq(asked, mt)
<1>1. mt.hi \in 0 .. MaxHi /\ cmpr.hi \in Nat /\ MaxHi \in Nat
  BY WordAssumption DEF TimerIInv, TimerTypeOK, Times
<1>2. tcall["main"].step \notin Stores
  BY <1>1 DEF TimerIInv, TimerTrap, WrittenSoFar, Leq, Ones
<1>3. tcall["isr"].step \notin Stores
  BY DEF TimerIInv, TimerTrap, CallsAreWhere, Stores
<1>4. cmpr = asked
  BY <1>2, <1>3 DEF TimerIInv, CompareIsWhole, TimerActors, Stores
<1>5. QED
  BY <1>2, <1>3, <1>4 DEF TimerTrap, TimerActors

LEMMA TimerStepKeepsIInv ==
    ASSUME TimerIInv, [TimerNext]_timerVars
    PROVE  TimerIInv'
<1>0. CallsAreWhere
  BY DEF TimerIInv
<1>1. CASE TimerSetUp
  BY <1>0, <1>1, MovingKeepsIInv
     DEF TimerSetUp, cpu_vectors_init, clint0_init, clint0_register, clockAndUser, setUp,
         CallsAreWhere, TimerIInv, WrittenSoFar
<1>2. CASE wait_for_timer
  <2>1. tcall["main"].step = "none"
    BY <1>0, <1>2 DEF CallsAreWhere, wait_for_timer
  <2>2. CASE sub_int
    BY <1>2, <2>1, <2>2, BeginningKeepsIInv, TimerAssumption DEF wait_for_timer, TimerActors
  <2>3. CASE ~sub_int
    BY <1>0, <1>2, <2>1, <2>3, MovingKeepsIInv DEF wait_for_timer, CallsAreWhere, Stores
  <2>4. QED
    BY <2>2, <2>3
<1>3. CASE EnableTimer \/ StartLoop \/ WaitForFlag
  BY <1>0, <1>3, MovingKeepsIInv DEF EnableTimer, StartLoop, WaitForFlag, CallsAreWhere, Stores
<1>4. ASSUME NEW a \in TimerActors, TimerAccess(a) PROVE TimerIInv'
  BY <1>4, ReadingKeepsIInv, StoringKeepsIInv DEF TimerAccess
<1>5. CASE SetMachineTime
  <2>1. tcall["main"].step = "none"
    BY <1>0, <1>5 DEF CallsAreWhere, SetMachineTime
  <2>2. PICK d \in Moves : ReadFor("main", d)
    BY <1>5 DEF SetMachineTime
  <2>3. QED
    BY <1>5, <2>1, <2>2, BeginningKeepsIInv, TimerAssumption DEF SetMachineTime, TimerActors
<1>6. CASE TimerTick
  BY <1>6, TickKeepsIInv
<1>7. CASE TimerTrap
  BY <1>0, <1>7, TrapsFindItWhole, MovingKeepsIInv DEF TimerTrap, CallsAreWhere, TimerActors
<1>8. CASE HandlerEnters
  <2>1. tcall["isr"].step = "none" /\ tcall["main"].step \notin Stores
    BY <1>0, <1>8 DEF CallsAreWhere, HandlerEnters, TimerIInv, WrittenSoFar
  <2>2. CASE handler = "flag"
    BY <1>0, <1>8, <2>1, <2>2, MovingKeepsIInv DEF HandlerEnters, CallsAreWhere
  <2>3. CASE handler # "flag"
    BY <1>8, <2>1, <2>3, BeginningKeepsIInv, TimerAssumption DEF HandlerEnters, TimerActors
  <2>4. QED
    BY <2>2, <2>3
<1>9. CASE HandlerLeaves
  <2>1. tcall["isr"].step = "none" /\ tcall["main"].step \notin Stores
    BY <1>0, <1>9 DEF CallsAreWhere, HandlerLeaves, TimerIInv, WrittenSoFar
  <2>2. QED
    BY <1>0, <1>9, <2>1, MovingKeepsIInv DEF HandlerLeaves, CallsAreWhere
<1>10. CASE UNCHANGED timerVars
  BY <1>0, <1>10, MovingKeepsIInv DEF timerVars, CallsAreWhere, TimerIInv, WrittenSoFar
<1>11. QED
  BY <1>1, <1>2, <1>3, <1>4, <1>5, <1>6, <1>7, <1>8, <1>9, <1>10
     DEF TimerNext, MainTimer, IsrTimer, TimerActors

-----------------------------------------------------------------------------
(* The inductive invariant of the timer: who is in a call, what it has read *)
(* and what it has stored (riscv_clint0.c:19-55).                           *)
THEOREM TimerInductive == TimerSpec => []TimerIInv
<1>1. TimerInit => TimerIInv
  BY TimerStarts
<1>2. TimerIInv /\ [TimerNext]_timerVars => TimerIInv'
  BY TimerStepKeepsIInv
<1>3. QED
  BY <1>1, <1>2, PTL DEF TimerSpec

(* riscv_clint0.c:19-55: for words of any size, a time that is read was the *)
(* clock's at some moment of the call; a compare value that is written is   *)
(* seen whole, and sets off no interrupt that neither the old value nor the *)
(* new one had due, although the handler writes it too.                     *)
THEOREM TimesAreWhole == TimerSpec => TimeIsWhole
<1>1. TimerIInv => TimeReadIsCurrent /\ CompareIsWhole
  BY DEF TimerIInv, TimeReadIsCurrent, ReadSoFar, Stores
<1>2. TimerIInv /\ [TimerNext]_timerVars
        => [tisr = "none" /\ tisr' = "entered" => Leq(asked, mt)]_timerVars
  <2>1. SUFFICES ASSUME TimerIInv, TimerNext, tisr = "none", tisr' = "entered"
                 PROVE  Leq(asked, mt)
    BY DEF timerVars
  <2>2. TimerTrap
    BY <2>1 DEF TimerNext, TimerSetUp, cpu_vectors_init, clint0_init, clint0_register, clockAndUser,
                MainTimer, wait_for_timer, EnableTimer, StartLoop, WaitForFlag, SetMachineTime,
                TimerTick, IsrTimer, HandlerEnters, HandlerLeaves, TimerAccess,
                LoadHigh, LoadLow, CheckHigh, StoreMax, StoreLow, StoreHigh, AtStep, TimerRuns
  <2>3. QED
    BY <2>1, <2>2, TrapsFindItWhole
<1>3. QED
  BY <1>1, <1>2, TimerInductive, PTL DEF TimerSpec, TimeIsWhole, NoSpuriousTrap

-----------------------------------------------------------------------------
(* The demos' wait is an alarm (HCSR04, HCSR501).                           *)

\* The setting up ends with the hart's controller there; what the demos' wait has
\* done of itself; and that its interrupt is enabled only while it waits for it.
AlarmIInv ==
    /\ handler \in {"flag", "default"} /\ timer_isr_flag \in {0, 1}
    /\ wpc \in {"setup", "idle", "wait", "set", "enable", "enabled", "spin"}
    /\ wpc # "setup" => "cpu" \in tinits
    /\ wpc = "setup" => cmpr = [hi |-> 0, lo |-> 0] /\ ~tie /\ tisr = "none" /\ ~armed /\ timer_isr_flag = 0
    /\ handler = "default" => ~armed /\ wpc \in {"setup", "idle", "set"}
    /\ handler = "flag" =>
        /\ tisr \in {"none", "entered", "leaving"} /\ wpc # "set"
        /\ wpc \in {"idle", "wait", "enable"} => ~tie /\ tisr = "none" /\ timer_isr_flag = 0
        /\ tisr # "none" => timer_isr_flag = 0
        /\ tisr = "leaving" \/ timer_isr_flag = 1 => ~tie
        /\ timer_isr_flag = 1 => tisr = "none"
        /\ wpc = "wait" => sub_int /\ armed /\ tcall["main"].ahead = RtcFreq /\ tcall["main"].step # "none"
        /\ sub_int /\ wpc \in {"enable", "enabled", "spin"} => armed

WaitGoesOn == AlarmIInv' /\ [Wanted!Next]_(Wanted!vars)

\* What a caller of the wait sees stays as it is.
AlarmStays ==
    UNCHANGED << Count(mt), IF wpc = "wait" THEN "requested" ELSE IF armed THEN "set" ELSE "off",
                 IF wpc = "wait" THEN Count(tcall["main"].from) + RtcFreq ELSE IF Waits THEN Count(cmpr) ELSE 0,
                 IF wpc = "wait" THEN RtcFreq ELSE 0, Waits /\ tisr # "none" >>

-----------------------------------------------------------------------------
LEMMA ProductOfSum == \A a, b, c \in Int : (a + b) * c = a * c + b * c
  OBVIOUS

LEMMA CountGrows ==
    ASSUME NEW s \in Times, NEW t \in Times, Leq(s, t)
    PROVE  Count(s) <= Count(t)
<1>1. s.hi \in Nat /\ t.hi \in Nat /\ s.lo \in 0 .. W - 1 /\ t.lo \in 0 .. W - 1 /\ W \in Nat \ {0}
  BY WordAssumption DEF Times, Word
<1>2. CASE s.hi = t.hi
  BY <1>1, <1>2 DEF Leq, Count
<1>3. CASE s.hi < t.hi
  <2>1. t.hi = (s.hi + 1) + (t.hi - s.hi - 1) /\ t.hi - s.hi - 1 \in Nat
    BY <1>1, <1>3
  <2>2. t.hi * W = (s.hi + 1) * W + (t.hi - s.hi - 1) * W
    BY <1>1, <2>1, ProductOfSum
  <2>3. (s.hi + 1) * W = s.hi * W + W
    BY <1>1
  <2>4. (t.hi - s.hi - 1) * W \in Nat /\ s.hi * W \in Nat /\ t.hi * W \in Nat
    BY <1>1, <2>1
  <2>5. s.hi * W + s.lo <= t.hi * W + t.lo
    <3> DEFINE a == s.hi * W
               b == t.hi * W
               d == (t.hi - s.hi - 1) * W
    <3>1. a \in Nat /\ b \in Nat /\ d \in Nat /\ b = a + W + d
      BY <2>2, <2>3, <2>4
    <3> HIDE DEF a, b, d
    <3>2. a + s.lo <= b + t.lo
      BY <1>1, <3>1
    <3>3. QED
      BY <3>2 DEF a, b
  <2>6. QED
    BY <2>5 DEF Count
<1>4. QED
  BY <1>2, <1>3 DEF Leq

LEMMA CountOfSum ==
    ASSUME NEW t \in Times, NEW d \in Nat
    PROVE  Count(Plus(t, d)) = Count(t) + d
<1>1. t.hi \in Nat /\ t.lo \in Nat /\ W \in Nat \ {0}
  BY WordAssumption DEF Times, Word
<1> DEFINE n == t.lo + d
           q == n \div W
           r == n % W
<1>2. n \in Nat
  BY <1>1
<1>3. q \in Nat /\ r \in Nat /\ n = W * q + r
  <2> HIDE DEF n
  <2>1. n \div W \in Nat /\ n % W \in Nat
    BY <1>1, <1>2
  <2>2. n = W * (n \div W) + (n % W)
    BY <1>1, <1>2
  <2>3. QED
    BY <2>1, <2>2
<1>4. Plus(t, d) = [hi |-> t.hi + q, lo |-> r]
  BY DEF Plus
<1>5. Count(Plus(t, d)) = (t.hi + q) * W + r
  BY <1>4 DEF Count
<1> HIDE DEF q, r
<1>6. (t.hi + q) * W = t.hi * W + q * W
  BY <1>1, <1>3, ProductOfSum
<1>7. q * W = W * q
  BY <1>1, <1>3
<1>8. t.hi * W \in Nat /\ W * q \in Nat
  BY <1>1, <1>3
<1>9. QED
  <2> DEFINE a == t.hi * W
             b == W * q
  <2>1. a \in Nat /\ b \in Nat /\ r \in Nat /\ (t.hi + q) * W = a + b /\ t.lo + d = b + r /\ Count(t) = a + t.lo
    BY <1>3, <1>6, <1>7, <1>8 DEF Count
  <2> HIDE DEF a, b
  <2>2. Count(Plus(t, d)) = a + b + r
    BY <1>5, <2>1
  <2>3. QED
    <3>1. Count(Plus(t, d)) = a + (b + r)
      BY <2>1, <2>2
    <3>2. a + (t.lo + d) = (a + t.lo) + d
      BY <1>1, <2>1
    <3>3. QED
      BY <2>1, <3>1, <3>2

LEMMA CountIsInt == \A t \in Times : Count(t) \in Nat
<1>1. \A h \in Nat, l \in Nat, w \in Nat : h * w + l \in Nat
  OBVIOUS
<1>2. QED
  BY <1>1, WordAssumption DEF Times, Word, Count

\* A step that leaves what the caller sees is one the abstract alarm does not see.
LEMMA AlarmSeesNothing ==
    ASSUME AlarmIInv', AlarmStays
    PROVE  WaitGoesOn
  BY DEF WaitGoesOn, AlarmStays, Wanted!vars

-----------------------------------------------------------------------------
LEMMA AlarmStarts == TimerInit => AlarmIInv /\ Wanted!Init
<1>1. SUFFICES ASSUME TimerInit PROVE AlarmIInv /\ Wanted!Init
  OBVIOUS
<1>2. AlarmIInv
  BY <1>1, HandlerAssumption DEF TimerInit, AlarmIInv
<1>3. Count(mt) = 0 /\ Count(cmpr) = 0
  <2>1. 0 * W + 0 = 0
    BY WordAssumption
  <2>2. QED
    BY <1>1, <2>1 DEF TimerInit, Count
<1>4. QED
  BY <1>1, <1>2, <1>3 DEF TimerInit, Wanted!Init, Waits

LEMMA SettingUpWaits ==
    ASSUME AlarmIInv, TimerSetUp
    PROVE  WaitGoesOn
<1>1. UNCHANGED <<mt, cmpr, handler, tcall, timer_isr_flag, tisr, armed>>
  BY DEF TimerSetUp, cpu_vectors_init, clint0_init, clint0_register, clockAndUser, setUp
<1>2. AlarmIInv'
  <2>1. CASE cpu_vectors_init
    BY <1>1, <2>1 DEF cpu_vectors_init, clockAndUser, AlarmIInv, CpuInitialised
  <2>2. CASE clint0_init
    BY <1>1, <2>2 DEF clint0_init, clockAndUser, AlarmIInv
  <2>3. CASE clint0_register
    <3>1. wpc = "setup" /\ wpc' = "idle" /\ (handler = "flag" => tie' = FALSE) /\ tinits = {"cpu", "clint"} /\ UNCHANGED <<tinits, sub_int>>
      BY <2>3 DEF clint0_register, setUp
    <3>2. QED
      BY <1>1, <3>1 DEF AlarmIInv
  <2>4. QED
    BY <2>1, <2>2, <2>3 DEF TimerSetUp
<1>3. wpc # "wait" /\ wpc' # "wait"
  BY DEF TimerSetUp, cpu_vectors_init, clint0_init, clint0_register, clockAndUser
<1>4. /\ tisr = "none"
      /\ Waits' = Waits \/ cmpr = [hi |-> 0, lo |-> 0]
  BY <1>1 DEF TimerSetUp, cpu_vectors_init, clint0_init, clint0_register, clockAndUser, setUp, AlarmIInv, Waits, CpuInitialised
<1>5. Count([hi |-> 0, lo |-> 0]) = 0
  BY WordAssumption DEF Count
<1>6. AlarmStays
  BY <1>1, <1>3, <1>4, <1>5 DEF AlarmStays
<1>7. QED
  BY <1>2, <1>6, AlarmSeesNothing

LEMMA WaitBegins ==
    ASSUME TimerIInv, AlarmIInv, wait_for_timer
    PROVE  WaitGoesOn
<1>1. /\ wpc = "idle" /\ tisr = "none" /\ handler = "flag" /\ timer_isr_flag' = 0
      /\ UNCHANGED <<tinits, sub_int, mt, cmpr, tie, handler, tisr>>
  BY DEF wait_for_timer, setUp
<1>2. CASE sub_int
  <2>1. wpc' = "wait" /\ armed' = TRUE /\ ReadFor("main", RtcFreq)
    BY <1>2 DEF wait_for_timer
  <2>2. tcall'["main"].from = mt /\ tcall'["main"].ahead = RtcFreq /\ tcall'["main"].step = "hi"
    BY <2>1 DEF ReadFor, TimerIInv, TimerTypeOK, TimerActors
  <2>3. AlarmIInv'
    BY <1>1, <1>2, <2>1, <2>2 DEF AlarmIInv
  <2>4. Wanted!Request
    BY <1>1, <2>1, <2>2 DEF Wanted!Request, Waits
  <2>5. QED
    BY <2>3, <2>4 DEF WaitGoesOn, Wanted!Next
<1>3. CASE ~sub_int
  <2>1. wpc' = "enable" /\ UNCHANGED <<tcall, armed>>
    BY <1>3 DEF wait_for_timer
  <2>2. AlarmIInv'
    BY <1>1, <1>3, <2>1 DEF AlarmIInv
  <2>3. AlarmStays
    BY <1>1, <1>3, <2>1 DEF AlarmStays, Waits
  <2>4. QED
    BY <2>2, <2>3, AlarmSeesNothing
<1>4. QED
  BY <1>2, <1>3

LEMMA WaitSpins ==
    ASSUME AlarmIInv, EnableTimer \/ StartLoop \/ WaitForFlag
    PROVE  WaitGoesOn
<1>1. UNCHANGED <<tinits, sub_int, mt, cmpr, handler, tcall, tisr, armed>> /\ wpc # "wait" /\ wpc' # "wait"
  BY DEF EnableTimer, StartLoop, WaitForFlag, setUp
<1>2. AlarmIInv'
  BY <1>1 DEF AlarmIInv, EnableTimer, StartLoop, WaitForFlag
<1>3. AlarmStays
  BY <1>1 DEF AlarmStays, Waits
<1>4. QED
  BY <1>2, <1>3, AlarmSeesNothing

LEMMA TimeMoved ==
    ASSUME TimerIInv, AlarmIInv, SetMachineTime
    PROVE  WaitGoesOn
<1>1. /\ UNCHANGED <<tinits, sub_int, mt, cmpr, tie, handler, timer_isr_flag, tisr, armed>>
      /\ wpc = "idle" /\ wpc' = "set" /\ handler = "default"
  BY DEF SetMachineTime, setUp
<1>2. AlarmIInv'
  BY <1>1 DEF AlarmIInv
<1>3. AlarmStays
  BY <1>1 DEF AlarmStays, Waits
<1>4. QED
  BY <1>2, <1>3, AlarmSeesNothing

\* The accesses of a call: none but the last shows.
LEMMA WaitReads ==
    ASSUME TimerIInv, AlarmIInv, NEW a \in TimerActors,
           LoadHigh(a) \/ LoadLow(a) \/ CheckHigh(a) \/ StoreMax(a) \/ StoreLow(a)
    PROVE  WaitGoesOn
<1>1. UNCHANGED <<tinits, sub_int, mt, tie, handler, wpc, timer_isr_flag, tisr, armed>>
  BY DEF LoadHigh, LoadLow, CheckHigh, StoreMax, StoreLow, setUp
<1>2. /\ tcall'["main"].ahead = tcall["main"].ahead /\ tcall'["main"].from = tcall["main"].from
      /\ tcall["main"].step # "none" => tcall'["main"].step # "none"
  BY DEF LoadHigh, LoadLow, CheckHigh, StoreMax, StoreLow, TimerIInv, TimerTypeOK, TimerActors, AtStep
<1>3. cmpr' = cmpr \/ (tcall[a].step \in {"max", "storelo"} /\ TimerRuns(a))
  BY DEF LoadHigh, LoadLow, CheckHigh, StoreMax, StoreLow, AtStep
<1>4. cmpr' = cmpr \/ wpc = "wait" \/ handler = "default"
  BY <1>3 DEF TimerIInv, CallsAreWhere, AlarmIInv, TimerActors, TimerRuns
<1>5. wpc # "setup" \/ cmpr' = cmpr
  BY <1>3 DEF TimerIInv, CallsAreWhere, AlarmIInv, TimerActors, TimerRuns
<1>6. AlarmIInv'
  BY <1>1, <1>2, <1>5 DEF AlarmIInv
<1>7. AlarmStays
  BY <1>1, <1>2, <1>4 DEF AlarmStays, Waits
<1>8. QED
  BY <1>6, <1>7, AlarmSeesNothing

\* The last store sets the alarm: no earlier than asked, no later than the call took.
LEMMA WaitIsSet ==
    ASSUME TimerIInv, AlarmIInv, NEW a \in TimerActors, StoreHigh(a)
    PROVE  WaitGoesOn
<1>1. /\ tcall[a].step = "storehi" /\ TimerRuns(a) /\ cmpr' = [cmpr EXCEPT !.hi = Goal(a).hi]
      /\ tcall' = [tcall EXCEPT ![a] = Resting]
      /\ wpc' = IF a = "main" THEN (IF wpc = "wait" THEN "enable" ELSE "idle") ELSE wpc
      /\ tisr' = IF a = "isr" THEN "leaving" ELSE tisr
      /\ UNCHANGED <<tinits, sub_int, mt, tie, handler, timer_isr_flag, armed>>
  BY DEF StoreHigh, AtStep, setUp
<1>2. CASE handler = "default"
  <2>1. wpc # "wait" /\ wpc' # "wait" /\ ~Waits /\ ~Waits' /\ wpc # "setup"
    BY <1>1, <1>2 DEF Waits, AlarmIInv, TimerIInv, CallsAreWhere, TimerActors, TimerRuns
  <2>2. AlarmIInv'
    BY <1>1, <1>2, <2>1 DEF AlarmIInv
  <2>3. AlarmStays
    BY <1>1, <2>1 DEF AlarmStays
  <2>4. QED
    BY <2>2, <2>3, AlarmSeesNothing
<1>3. CASE handler = "flag"
  <2>1. a = "main" /\ wpc = "wait" /\ tisr = "none"
    BY <1>1, <1>3 DEF AlarmIInv, TimerIInv, CallsAreWhere, TimerActors, TimerRuns
  <2>2. sub_int /\ armed /\ tcall["main"].ahead = RtcFreq
    BY <1>3, <2>1 DEF AlarmIInv
  <2>3. wpc' = "enable" /\ tisr' = "none"
    BY <1>1, <2>1
  <2>4. AlarmIInv'
    BY <1>1, <1>3, <2>1, <2>2, <2>3 DEF AlarmIInv
  <2> DEFINE c == tcall["main"]
  <2>5. c.t \in Times /\ c.from \in Times /\ mt \in Times /\ RtcFreq \in Nat /\ Leq(c.from, c.t) /\ Leq(c.t, mt)
    <3>1. c.t \in Times /\ c.from \in Times
      BY DEF TimerIInv, TimerTypeOK, TimerActors
    <3>2. mt \in Times
      BY WordAssumption DEF TimerIInv, TimerTypeOK, Times
    <3>3. Leq(c.from, c.t) /\ Leq(c.t, mt)
      BY <1>1, <2>1 DEF TimerIInv, ReadSoFar, Stores
    <3>4. QED
      BY <3>1, <3>2, <3>3, TimerAssumption
  <2>6. cmpr' = Plus(c.t, RtcFreq)
    <3>1. cmpr.lo = Goal("main").lo /\ cmpr = [hi |-> cmpr.hi, lo |-> cmpr.lo]
      BY <1>1, <2>1 DEF TimerIInv, TimerTypeOK, Times, WrittenSoFar
    <3>2. Goal("main") = [hi |-> Goal("main").hi, lo |-> Goal("main").lo]
      BY DEF Goal, Plus
    <3>3. cmpr' = Goal("main")
      BY <1>1, <2>1, <3>1, <3>2
    <3>4. QED
      BY <2>2, <3>3 DEF Goal
  <2>7. Count(cmpr') = Count(c.t) + RtcFreq
    BY <2>5, <2>6, CountOfSum
  <2>8. Count(c.from) <= Count(c.t) /\ Count(c.t) <= Count(mt)
    BY <2>5, CountGrows
  <2>9. Count(c.from) \in Nat /\ Count(c.t) \in Nat /\ Count(mt) \in Nat
    BY <2>5, CountIsInt
  <2>10. Count(cmpr') \in Count(c.from) + RtcFreq .. Count(mt) + RtcFreq + 0
    BY <2>5, <2>7, <2>8, <2>9
  <2>11. Count(cmpr)' = Count(cmpr') /\ Waits'
    BY <1>1, <1>3, <2>2 DEF Waits, Count
  <2>12. Wanted!Set
    BY <1>1, <2>1, <2>2, <2>3, <2>10, <2>11 DEF Wanted!Set, Waits
  <2>13. QED
    BY <2>4, <2>12 DEF WaitGoesOn, Wanted!Next
<1>4. QED
  BY <1>2, <1>3 DEF AlarmIInv

LEMMA AlarmTicks ==
    ASSUME TimerIInv, AlarmIInv, TimerTick
    PROVE  WaitGoesOn
<1>1. mt' = Plus(mt, 1) /\ UNCHANGED <<tinits, sub_int, cmpr, tie, handler, tcall, wpc, timer_isr_flag, tisr, armed>>
  BY DEF TimerTick, setUp
<1>2. mt \in Times
  BY WordAssumption DEF TimerIInv, TimerTypeOK, Times
<1>3. Count(mt') = Count(mt) + 1
  BY <1>1, <1>2, CountOfSum
<1>4. Count(mt)' = Count(mt) + 1
  BY <1>3 DEF Count
<1>5. AlarmIInv'
  BY <1>1 DEF AlarmIInv
<1>6. Count(cmpr)' = Count(cmpr) /\ Count(tcall["main"].from)' = Count(tcall["main"].from) /\ Waits' = Waits
  BY <1>1 DEF Count, Waits
<1>7. Wanted!Tick
  BY <1>1, <1>4, <1>6 DEF Wanted!Tick
<1>8. QED
  BY <1>5, <1>7 DEF WaitGoesOn, Wanted!Next

\* The interrupt and its handler.
LEMMA AlarmRings ==
    ASSUME TimerIInv, AlarmIInv, TimerTrap \/ HandlerEnters \/ HandlerLeaves
    PROVE  WaitGoesOn
<1>1. UNCHANGED <<tinits, sub_int, mt, cmpr, handler, wpc, armed>>
  BY DEF TimerTrap, HandlerEnters, HandlerLeaves, setUp
<1>2. Count(mt)' = Count(mt) /\ Count(cmpr)' = Count(cmpr) /\ Waits' = Waits
  BY <1>1 DEF Count, Waits
<1>3. CASE handler = "default"
  <2>1. ~Waits /\ wpc # "wait"
    BY <1>3 DEF Waits, AlarmIInv
  <2>2. AlarmIInv'
    BY <1>1, <1>3 DEF AlarmIInv, TimerTrap, HandlerEnters, HandlerLeaves
  <2>3. AlarmStays
    BY <1>1, <1>2, <2>1 DEF AlarmStays
  <2>4. QED
    BY <2>2, <2>3, AlarmSeesNothing
<1>4. CASE handler = "flag"
  <2>1. tcall' = tcall
    BY <1>4 DEF TimerTrap, HandlerEnters, HandlerLeaves
  <2>2. AlarmIInv'
    BY <1>1, <1>4, <2>1 DEF AlarmIInv, TimerTrap, HandlerEnters, HandlerLeaves
  <2>3. wpc \in {"enabled", "spin"}
    BY <1>4 DEF AlarmIInv, TimerTrap, HandlerEnters, HandlerLeaves
  <2>4. CASE ~Waits
    <3>1. AlarmStays
      BY <1>1, <1>2, <2>1, <2>3, <2>4 DEF AlarmStays
    <3>2. QED
      BY <2>2, <3>1, AlarmSeesNothing
  <2>5. CASE Waits /\ TimerTrap
    <3>1. armed /\ tisr = "none" /\ tisr' = "entered" /\ Leq(cmpr, mt)
      BY <1>4, <2>3, <2>5 DEF TimerTrap, AlarmIInv, Waits
    <3>2. cmpr \in Times /\ mt \in Times
      BY WordAssumption DEF TimerIInv, TimerTypeOK, Times
    <3>3. Count(cmpr) <= Count(mt) /\ Count(cmpr) \in Nat /\ Count(mt) \in Nat
      BY <3>1, <3>2, CountGrows, CountIsInt
    <3>4. Wanted!Ring
      BY <1>1, <1>2, <2>1, <2>3, <2>5, <3>1, <3>3 DEF Wanted!Ring
    <3>5. QED
      BY <2>2, <3>4 DEF WaitGoesOn, Wanted!Next
  <2>6. CASE Waits /\ HandlerEnters
    <3>1. tisr # "none" /\ tisr' # "none"
      BY <1>4, <2>6 DEF HandlerEnters
    <3>2. AlarmStays
      BY <1>1, <1>2, <2>1, <2>3, <2>6, <3>1 DEF AlarmStays
    <3>3. QED
      BY <2>2, <3>2, AlarmSeesNothing
  <2>7. CASE Waits /\ HandlerLeaves
    <3>1. tisr # "none" /\ tisr' = "none"
      BY <2>7 DEF HandlerLeaves
    <3>2. Wanted!Quiet
      BY <1>1, <1>2, <2>1, <2>3, <2>7, <3>1 DEF Wanted!Quiet
    <3>3. QED
      BY <2>2, <3>2 DEF WaitGoesOn, Wanted!Next
  <2>8. QED
    BY <2>4, <2>5, <2>6, <2>7
<1>5. QED
  BY <1>3, <1>4 DEF AlarmIInv

(* HCSR04:36-50, HCSR501:65-90: for words of any size and any RTC_FREQ, the   *)
(* demos' wait implements the alarm that is promised of the RTC: it never     *)
(* rings early, nor while it is being set, and is set no later than the call  *)
(* took, although it is set and counted in two words.                       *)
THEOREM WaitImplementsAlarm == TimerSpec => WaitIsAnAlarm
<1>1. TimerInit => AlarmIInv /\ Wanted!Init
  BY AlarmStarts
<1>2. TimerIInv /\ AlarmIInv /\ [TimerNext]_timerVars => WaitGoesOn
  <2>1. SUFFICES ASSUME TimerIInv, AlarmIInv, [TimerNext]_timerVars PROVE WaitGoesOn
    OBVIOUS
  <2>2. CASE UNCHANGED timerVars
    <3>1. UNCHANGED <<tinits, sub_int, mt, cmpr, tie, handler, tcall, wpc, timer_isr_flag, tisr, armed>>
      BY <2>2 DEF timerVars, setUp
    <3>2. AlarmIInv' /\ AlarmStays
      BY <2>1, <3>1 DEF AlarmIInv, AlarmStays, Waits
    <3>3. QED
      BY <3>2, AlarmSeesNothing
  <2>3. CASE \E a \in TimerActors : TimerAccess(a)
    BY <2>1, <2>3, WaitReads, WaitIsSet DEF TimerAccess
  <2>4. CASE TimerSetUp \/ wait_for_timer \/ EnableTimer \/ StartLoop \/ WaitForFlag \/ SetMachineTime
    BY <2>1, <2>4, SettingUpWaits, WaitBegins, WaitSpins, TimeMoved
  <2>5. CASE TimerTick \/ TimerTrap \/ HandlerEnters \/ HandlerLeaves
    BY <2>1, <2>5, AlarmTicks, AlarmRings
  <2>6. QED
    BY <2>1, <2>2, <2>3, <2>4, <2>5 DEF TimerNext, MainTimer, IsrTimer, TimerActors
<1>3. WaitGoesOn => AlarmIInv' /\ [Wanted!Next]_(Wanted!vars)
  BY DEF WaitGoesOn
<1>4. QED
  BY <1>1, <1>2, <1>3, TimerInductive, PTL DEF TimerSpec, WaitIsAnAlarm, Wanted!Spec

-----------------------------------------------------------------------------
(* HCSR04's rounds.  The flag that ends a wait can be set only in the wait's  *)
(* loop, after the compare value it belongs to is past; and while the sensor *)
(* is busy, the ticks that are left of the wait and those since the trigger   *)
(* make up a second at least.                                               *)

DemosSpec == DemosInit /\ [][DemosNext]_demosVars

DemoPlaces == {"prepare", "loop", "measure", "clear", "read", "show", "arm", "enable", "spin"}

SensorAtRest == ~pulse /\ ~pin

DemosTypeOK ==
    /\ dpc \in DemoPlaces /\ ahead \in Nat /\ age \in 0 .. EchoMost /\ dflag \in {0, 1}
    /\ dtie \in BOOLEAN /\ pulse \in BOOLEAN /\ pin \in BOOLEAN

\* The flag is set by the interrupt of the wait that is spinning, and not twice.
FlagIsThisWaits ==
    /\ dtie => dpc = "spin" /\ dflag = 0
    /\ dflag = 1 => dpc = "spin" /\ ahead = 0

Busy == pulse \/ pin \/ age < EchoMost

WaitOutlastsEcho ==
    /\ dpc \in {"enable", "spin"} /\ Busy => ahead + age >= Second
    /\ dpc \in {"prepare", "loop"} => ~Busy

DemosIInv == DemosTypeOK /\ FlagIsThisWaits /\ (demo = "HCSR04" => WaitOutlastsEcho)

-----------------------------------------------------------------------------
LEMMA DemosStart == DemosInit => DemosIInv
<1>1. ASSUME DemosInit PROVE DemosIInv
  <2>1. Second \in Nat /\ EchoMost \in Nat
    BY DemosAssumption
  <2>2. dpc = "prepare" /\ age = EchoMost /\ dtie = FALSE /\ dflag = 0 /\ pulse = FALSE /\ pin = FALSE
    BY <1>1 DEF DemosInit
  <2>3. DemosTypeOK
    <3>1. dtie \in BOOLEAN /\ pulse \in BOOLEAN /\ pin \in BOOLEAN
      BY <2>2
    <3>2. dpc \in DemoPlaces /\ ahead \in Nat /\ age \in 0 .. EchoMost /\ dflag \in {0, 1}
      BY <1>1, <2>1, <2>2 DEF DemosInit, DemoPlaces
    <3>3. QED
      BY <3>1, <3>2 DEF DemosTypeOK
  <2>4. QED
    BY <2>1, <2>2, <2>3 DEF DemosIInv, FlagIsThisWaits, WaitOutlastsEcho, Busy
<1>2. QED
  BY <1>1

\* The statements of the mains.
LEMMA MainKeepsIInv ==
    ASSUME DemosIInv, DemoMain
    PROVE  DemosIInv'
<1>0. Second \in Nat /\ EchoMost \in Nat /\ EchoMost < Second
  BY DemosAssumption
<1> USE <1>0
<1>1. CASE Prepare
  <2>1. dpc = "prepare" /\ dpc' \in {"prepare", "loop"}
    BY <1>1 DEF Prepare
  <2>2. UNCHANGED <<demo, ahead, dtie, dflag, pin, pulse, age>>
    BY <1>1 DEF Prepare, demoSensor
  <2>3. QED
    BY <2>1, <2>2 DEF DemosIInv, DemosTypeOK, DemoPlaces, FlagIsThisWaits, WaitOutlastsEcho, Busy
<1>2. CASE TriggerSensor
  <2>1. dpc = "loop" /\ dpc' = "measure" /\ age' = 0 /\ pulse' \in BOOLEAN
    BY <1>2 DEF TriggerSensor, MainAt, Prepared
  <2>2. UNCHANGED <<demo, ahead, dtie, dflag, pin>>
    BY <1>2 DEF TriggerSensor
  <2>3. QED
    BY <2>1, <2>2 DEF DemosIInv, DemosTypeOK, DemoPlaces, FlagIsThisWaits, WaitOutlastsEcho
<1>3. CASE EchoOver \/ ReadMotion \/ ShowMotion
  <2>1. dpc \in {"measure", "read", "show"} /\ dpc' \in {"clear", "show", "arm"}
    BY <1>3 DEF EchoOver, ReadMotion, ShowMotion, MainAt
  <2>2. UNCHANGED <<demo, ahead, dtie, dflag, pin, pulse, age>>
    BY <1>3 DEF EchoOver, ReadMotion, ShowMotion, demoSensor
  <2>3. QED
    BY <2>1, <2>2 DEF DemosIInv, DemosTypeOK, DemoPlaces, FlagIsThisWaits, WaitOutlastsEcho
<1>4. CASE ClearFlag
  <2>1. dpc' \in {"arm", "read"} /\ dpc \in {"clear", "loop"} /\ dflag' = 0
    BY <1>4 DEF ClearFlag, MainAt
  <2>2. UNCHANGED <<demo, ahead, dtie, pin, pulse, age>>
    BY <1>4 DEF ClearFlag, demoSensor
  <2>3. QED
    BY <2>1, <2>2 DEF DemosIInv, DemosTypeOK, DemoPlaces, FlagIsThisWaits, WaitOutlastsEcho
<1>5. CASE ArmTimer
  <2>1. dpc = "arm" /\ dpc' = "enable" /\ ahead' = Second
    BY <1>5 DEF ArmTimer, MainAt, SetAhead
  <2>2. UNCHANGED <<demo, dtie, dflag, pin, pulse, age>>
    BY <1>5 DEF ArmTimer, demoSensor
  <2>3. QED
    BY <2>1, <2>2 DEF DemosIInv, DemosTypeOK, DemoPlaces, FlagIsThisWaits, WaitOutlastsEcho
<1>6. CASE EnableInterrupt
  <2>1. dpc = "enable" /\ dpc' = "spin" /\ dtie' = TRUE
    BY <1>6 DEF EnableInterrupt, MainAt
  <2>2. UNCHANGED <<demo, ahead, dflag, pin, pulse, age>>
    BY <1>6 DEF EnableInterrupt, demoSensor
  <2>3. QED
    BY <2>1, <2>2 DEF DemosIInv, DemosTypeOK, DemoPlaces, FlagIsThisWaits, WaitOutlastsEcho, Busy
<1>7. CASE SeeFlag
  <2>1. dpc = "spin" /\ dpc' = "loop" /\ dflag = 1 /\ dflag' = 0
    BY <1>7 DEF SeeFlag, MainAt
  <2>2. UNCHANGED <<demo, ahead, dtie, pin, pulse, age>>
    BY <1>7 DEF SeeFlag, demoSensor
  <2>3. ahead = 0 /\ ~dtie
    BY <2>1 DEF DemosIInv, FlagIsThisWaits
  <2>4. ASSUME demo = "HCSR04" PROVE ~Busy
    BY <2>1, <2>3, <2>4 DEF DemosIInv, DemosTypeOK, WaitOutlastsEcho
  <2>5. QED
    BY <2>1, <2>2, <2>3, <2>4 DEF DemosIInv, DemosTypeOK, DemoPlaces, FlagIsThisWaits, WaitOutlastsEcho, Busy
<1>8. QED
  BY <1>1, <1>2, <1>3, <1>4, <1>5, <1>6, <1>7 DEF DemoMain

\* The interrupt of the wait.
LEMMA IsrKeepsIInv ==
    ASSUME DemosIInv, timer_isr
    PROVE  DemosIInv'
<1>1. dtie /\ ahead = 0 /\ ~dtie' /\ dtie' = FALSE /\ dflag' = 1
  BY DEF timer_isr
<1>2. UNCHANGED <<demo, dpc, ahead, pin, pulse, age>>
  BY DEF timer_isr, demoSensor
<1>3. QED
  BY <1>1, <1>2 DEF DemosIInv, DemosTypeOK, FlagIsThisWaits, WaitOutlastsEcho, Busy

\* What a tick takes from the one it gives to the other.
LEMMA TickKeepsSum ==
    \A x, y, z, w, t \in Nat : z + w >= t /\ x >= z - 1 /\ y = w + 1 => x + y >= t
  OBVIOUS

\* The clock and the sensor.
LEMMA WorldKeepsIInv ==
    ASSUME DemosIInv, DemoTick \/ PulseEnds \/ PinRises \/ PinFalls
    PROVE  DemosIInv'
<1>0. /\ Second \in Nat /\ EchoMost \in Nat
      /\ ahead \in Nat /\ age \in 0 .. EchoMost
  BY DemosAssumption DEF DemosIInv, DemosTypeOK
<1>1. CASE DemoTick
  <2>1. /\ ahead' \in Nat /\ (ahead = 0 => ahead' = 0) /\ ahead' >= ahead - 1
        /\ age' \in 0 .. EchoMost
        /\ age < EchoMost => age' = age + 1
        /\ age = EchoMost => age' = EchoMost
    BY <1>0, <1>1 DEF DemoTick
  <2>2. UNCHANGED <<demo, dpc, dtie, dflag, pin, pulse>>
    BY <1>1 DEF DemoTick
  <2>3. demo = "HCSR04" /\ (pulse \/ pin) => age < EchoMost
    BY <1>1 DEF DemoTick
  <2>4. DemosTypeOK' /\ FlagIsThisWaits'
    BY <2>1, <2>2 DEF DemosIInv, DemosTypeOK, FlagIsThisWaits
  <2>5. ASSUME demo = "HCSR04" PROVE WaitOutlastsEcho'
    <3>1. (pulse' \/ pin') <=> (pulse \/ pin)
      BY <2>2
    <3>2. age' < EchoMost => age < EchoMost
      BY <1>0, <2>1
    <3>3. Busy' => Busy /\ age < EchoMost
      BY <2>3, <2>5, <3>1, <3>2 DEF Busy
    <3>4. WaitOutlastsEcho
      BY <2>5 DEF DemosIInv
    <3>5. dpc' = dpc /\ ahead \in Nat /\ age \in Nat /\ ahead' \in Nat /\ age' \in Nat
      BY <1>0, <2>1, <2>2
    <3>6. dpc' \in {"enable", "spin"} /\ Busy' => ahead' + age' >= Second
      <4>1. SUFFICES ASSUME dpc \in {"enable", "spin"}, Busy, age < EchoMost
                     PROVE  ahead' + age' >= Second
        BY <3>3, <3>5
      <4>2. ahead + age >= Second
        BY <3>4, <4>1 DEF WaitOutlastsEcho
      <4>3. age' = age + 1 /\ ahead' >= ahead - 1 /\ Second \in Nat
        BY <1>0, <2>1, <4>1
      <4>4. QED
        BY <3>5, <4>2, <4>3, TickKeepsSum
    <3>7. dpc' \in {"prepare", "loop"} => ~Busy'
      BY <3>3, <3>4, <3>5 DEF WaitOutlastsEcho
    <3>8. QED
      BY <3>6, <3>7 DEF WaitOutlastsEcho
  <2>6. QED
    BY <2>2, <2>4, <2>5 DEF DemosIInv
<1>2. CASE PulseEnds \/ PinRises \/ PinFalls
  <2>1. UNCHANGED <<demo, dpc, ahead, dtie, dflag, age>>
    BY <1>2 DEF PulseEnds, PinRises, PinFalls
  <2>2. pulse' \in BOOLEAN /\ pin' \in BOOLEAN
    BY <1>2 DEF PulseEnds, PinRises, PinFalls, DemosIInv, DemosTypeOK
  <2>3. demo = "HCSR04" /\ Busy' => Busy
    BY <1>2 DEF PulseEnds, PinRises, PinFalls, Busy
  <2>4. DemosTypeOK' /\ FlagIsThisWaits'
    BY <2>1, <2>2 DEF DemosIInv, DemosTypeOK, FlagIsThisWaits
  <2>5. QED
    BY <2>1, <2>3, <2>4 DEF DemosIInv, WaitOutlastsEcho
<1>3. QED
  BY <1>1, <1>2

-----------------------------------------------------------------------------
(* The inductive invariant of the two demos (HCSR04:34-52, 132-141 and       *)
(* HCSR501:65-90): whose flag it is, and what is left of the wait.           *)
THEOREM DemosInductive == DemosSpec => []DemosIInv
<1>1. DemosInit => DemosIInv
  BY DemosStart
<1>2. DemosIInv /\ [DemosNext]_demosVars => DemosIInv'
  <2>1. CASE UNCHANGED demosVars
    BY <2>1 DEF demosVars, demoSensor, DemosIInv, DemosTypeOK, FlagIsThisWaits, WaitOutlastsEcho, Busy
  <2>2. QED
    BY <2>1, MainKeepsIInv, IsrKeepsIInv, WorldKeepsIInv DEF DemosNext
<1>3. QED
  BY <1>1, <1>2, PTL DEF DemosSpec

(* HCSR04:132-141: however long an echo takes, if it is over within the      *)
(* second that the program waits, every trigger finds the sensor at rest.    *)
THEOREM TriggersFindSilence ==
    DemosSpec => [](demo = "HCSR04" /\ dpc = "loop" => SensorAtRest)
<1>1. DemosIInv => (demo = "HCSR04" /\ dpc = "loop" => SensorAtRest)
  BY DEF DemosIInv, WaitOutlastsEcho, Busy, SensorAtRest
<1>2. QED
  BY <1>1, DemosInductive, PTL

-----------------------------------------------------------------------------
(* The core clock (sifive_fe310-g000_pll.c), the lists of what depends on a   *)
(* clock and the calls that go through them (clock.h, clock.c), the UART, I2C *)
(* and PWM units that follow (sifive_uart0.c, sifive_i2c0.c, sifive_pwm0.c).  *)

ClkPhases == {"idle", "pre", "config", "lock", "select", "post", "stuck"}

\* What the registers hold once the PLL is configured for the rate.
Configured == IF Bypasses(wanted) THEN pll.bypass ELSE ~pll.bypass /\ pll.row \in Closest(wanted)

ClockIInv ==
    /\ phase \in ClkPhases /\ wanted \in Nat
    /\ pll \in [sel : BOOLEAN, bypass : BOOLEAN, row : pll_configs, locked : BOOLEAN]
    /\ CoreClockIsStable
    /\ phase \in {"config", "lock", "select"} => ~pll.sel
    /\ phase \in {"lock", "select", "post"} => Configured
    /\ phase = "select" => pll.bypass \/ pll.locked
    /\ phase = "post" => pll.sel
    /\ phase = "idle" /\ wanted # 0 => pll.sel /\ Configured

-----------------------------------------------------------------------------
LEMMA RatesOfRows == \A c \in pll_configs : RowRate(c) \in Int
<1>1. TAKE c \in pll_configs
<1>2. c.f \in Nat /\ c.q \in 1 .. 3 /\ c.d \in Nat
  BY DEF pll_configs, PllRow
<1>3. DivQ[c.q] \in {2, 4, 8}
  BY <1>2 DEF DivQ
<1> DEFINE n == (Hfxosc \div 2) * 2 * (c.f + 1)
           q == DivQ[c.q]
           d == IF c.d = 0 THEN 1 ELSE c.d
<1>4. n \in Nat /\ q \in {2, 4, 8} /\ d \in Nat \ {0} /\ RowRate(c) = (n \div q) \div d
  BY <1>2, <1>3 DEF RowRate, Hfxosc
<1> HIDE DEF n, q, d
<1>5. n \div q \in Int
  BY <1>4
<1>6. (n \div q) \div d \in Int
  BY <1>4, <1>5
<1>7. QED
  BY <1>4, <1>6

LEMMA ClockStarts == ClkInit => ClockIInv
<1>1. SUFFICES ASSUME ClkInit PROVE ClockIInv
  OBVIOUS
<1>2. /\ pll = [sel |-> FALSE, bypass |-> TRUE, row |-> PllRow(31, 1, 0), locked |-> FALSE]
      /\ wanted = 0 /\ phase = "idle"
  BY <1>1 DEF ClkInit
<1>3. PllRow(31, 1, 0) \in pll_configs
  BY DEF pll_configs
<1>4. QED
  BY <1>2, <1>3 DEF ClockIInv, ClkPhases, CoreClockIsStable

\* The steps that leave the PLL and the rate alone.
LEMMA ClockStands ==
    ASSUME ClockIInv, UNCHANGED pllVars,
           phase' = phase \/ phase' = "stuck" \/ (phase = "post" /\ phase' = "idle") \/ (phase = "lock" /\ pll.locked /\ phase' = "select")
    PROVE  ClockIInv'
<1>1. UNCHANGED <<pll, wanted>>
  BY DEF pllVars
<1>2. QED
  BY <1>1 DEF ClockIInv, ClkPhases, CoreClockIsStable, Configured

LEMMA RateChangeKeepsClock ==
    ASSUME ClockIInv, SetRate \/ Lock \/ Deselect \/ Configure \/ Select
    PROVE  ClockIInv'
<1>0. pll \in [sel : BOOLEAN, bypass : BOOLEAN, row : pll_configs, locked : BOOLEAN] /\ wanted \in Nat /\ phase \in ClkPhases
  BY DEF ClockIInv
<1>1. CASE SetRate
  <2>1. wanted' \in ClkRates /\ phase' = "pre" /\ pll' = pll
    BY <1>1 DEF SetRate
  <2>2. wanted' \in Nat
    BY <2>1, ClkRatesAssumption DEF ClkRatesAssumption
  <2>3. QED
    BY <2>1, <2>2 DEF ClockIInv, ClkPhases, CoreClockIsStable
<1>2. CASE Lock
  <2>1. pll' = [pll EXCEPT !.locked = TRUE] /\ UNCHANGED <<wanted, phase>>
    BY <1>2 DEF Lock, walkVars
  <2>2. pll'.sel = pll.sel /\ pll'.bypass = pll.bypass /\ pll'.row = pll.row /\ pll'.locked = TRUE
        /\ pll' \in [sel : BOOLEAN, bypass : BOOLEAN, row : pll_configs, locked : BOOLEAN]
    BY <1>0, <2>1
  <2>3. Configured' = Configured
    BY <2>1, <2>2 DEF Configured
  <2>4. QED
    BY <2>1, <2>2, <2>3 DEF ClockIInv, CoreClockIsStable
<1>3. CASE Deselect
  <2>1. pll' = [pll EXCEPT !.sel = FALSE] /\ phase' = "config" /\ wanted' = wanted
    BY <1>3 DEF Deselect
  <2>2. ~pll'.sel /\ pll' \in [sel : BOOLEAN, bypass : BOOLEAN, row : pll_configs, locked : BOOLEAN]
    BY <1>0, <2>1
  <2>3. QED
    BY <1>0, <2>1, <2>2 DEF ClockIInv, ClkPhases, CoreClockIsStable
<1>4. CASE Configure
  <2>1. phase = "config" /\ wanted' = wanted /\ ~pll.sel
    BY <1>4 DEF Configure, ClockIInv
  <2>2. CASE Bypasses(wanted)
    <3>1. pll' = [pll EXCEPT !.bypass = TRUE] /\ phase' = "select"
      BY <1>4, <2>2 DEF Configure
    <3>2. ~pll'.sel /\ pll'.bypass /\ pll' \in [sel : BOOLEAN, bypass : BOOLEAN, row : pll_configs, locked : BOOLEAN]
      BY <1>0, <2>1, <3>1
    <3>3. Configured'
      BY <2>1, <2>2, <3>2 DEF Configured
    <3>4. QED
      BY <1>0, <2>1, <3>1, <3>2, <3>3 DEF ClockIInv, ClkPhases, CoreClockIsStable
  <2>3. CASE ~Bypasses(wanted)
    <3>1. PICK c \in Closest(wanted) : pll' = [pll EXCEPT !.row = c, !.bypass = FALSE, !.locked = FALSE]
      BY <1>4, <2>3 DEF Configure
    <3>2. phase' = "lock" /\ c \in pll_configs
      BY <1>4, <2>3, <3>1 DEF Configure, Closest
    <3>3. ~pll'.sel /\ ~pll'.bypass /\ pll'.row = c /\ pll' \in [sel : BOOLEAN, bypass : BOOLEAN, row : pll_configs, locked : BOOLEAN]
      BY <1>0, <2>1, <3>1, <3>2
    <3>4. Configured'
      BY <2>1, <2>3, <3>1, <3>3 DEF Configured
    <3>5. QED
      BY <1>0, <2>1, <3>2, <3>3, <3>4 DEF ClockIInv, ClkPhases, CoreClockIsStable
  <2>4. QED
    BY <2>2, <2>3
<1>5. CASE Select
  <2>1. pll' = [pll EXCEPT !.sel = TRUE] /\ phase = "select" /\ phase' = "post" /\ wanted' = wanted
    BY <1>5 DEF Select
  <2>2. pll'.sel /\ pll'.bypass = pll.bypass /\ pll'.row = pll.row /\ pll'.locked = pll.locked
        /\ pll' \in [sel : BOOLEAN, bypass : BOOLEAN, row : pll_configs, locked : BOOLEAN]
    BY <1>0, <2>1
  <2>3. Configured /\ (pll.bypass \/ pll.locked)
    BY <2>1 DEF ClockIInv
  <2>4. Configured'
    BY <2>1, <2>2, <2>3 DEF Configured
  <2>5. QED
    BY <1>0, <2>1, <2>2, <2>3, <2>4 DEF ClockIInv, ClkPhases, CoreClockIsStable
<1>6. QED
  BY <1>1, <1>2, <1>3, <1>4, <1>5

\* The closest row is as close as it is told.
LEMMA ClosestIsReported == ClockIInv => ReportsClosest
<1>1. SUFFICES ASSUME ClockIInv, phase = "idle", wanted # 0
               PROVE  IF Bypasses(wanted) THEN get_rate_hz = Hfxosc
                      ELSE \A c \in pll_configs : LET off == get_rate_hz - wanted
                                                  IN  off <= Off(c, wanted) /\ -off <= Off(c, wanted)
  BY DEF ReportsClosest
<1>2. pll.sel /\ Configured /\ wanted \in Nat /\ pll.row \in pll_configs
  BY <1>1 DEF ClockIInv
<1>3. CASE Bypasses(wanted)
  BY <1>2, <1>3 DEF Configured, get_rate_hz
<1>4. CASE ~Bypasses(wanted)
  <2>1. get_rate_hz = RowRate(pll.row) /\ pll.row \in Closest(wanted)
    BY <1>2, <1>4 DEF Configured, get_rate_hz
  <2>2. ASSUME NEW c \in pll_configs
        PROVE  get_rate_hz - wanted <= Off(c, wanted) /\ -(get_rate_hz - wanted) <= Off(c, wanted)
    <3>1. Off(pll.row, wanted) <= Off(c, wanted)
      BY <2>1 DEF Closest
    <3>2. RowRate(c) \in Int /\ RowRate(pll.row) \in Int
      BY <1>2, RatesOfRows
    <3>3. Off(c, wanted) \in Int
      BY <1>2, <3>2 DEF Off
    <3>4. RowRate(pll.row) - wanted <= Off(pll.row, wanted) /\ -(RowRate(pll.row) - wanted) <= Off(pll.row, wanted) /\ Off(pll.row, wanted) \in Int
      BY <1>2, <3>2 DEF Off
    <3>5. QED
      BY <1>2, <2>1, <3>1, <3>2, <3>3, <3>4
  <2>3. QED
    BY <1>4, <2>2
<1>5. QED
  BY <1>3, <1>4

-----------------------------------------------------------------------------
(* The list of callbacks: it ends, or its last node is its own successor.    *)

\* The list as the nodes that the walk from head passes, in order: it ends, or its
\* last node is its own successor.
NodesInOrder(n, q) ==
    /\ n \in Nat /\ q \in [1 .. n -> users]
    /\ \A ix, k \in 1 .. n : q[ix] = q[k] => ix = k
    /\ head = IF n = 0 THEN Nil ELSE q[1]
    /\ \A ix \in 1 .. n - 1 : nextNode[q[ix]] = q[ix + 1]

OpenList(n, q) ==
    /\ NodesInOrder(n, q)
    /\ n # 0 => nextNode[q[n]] = Nil
    /\ \A d \in users : registered[d] = IF \E ix \in 1 .. n : q[ix] = d THEN 1 ELSE 0

ClosedList(n, q) == NodesInOrder(n, q) /\ n # 0 /\ nextNode[q[n]] = q[n] /\ ~ListIsSound

ListTypes ==
    /\ users \subseteq {"uart", "spi", "i2c", "pwm"}
    /\ nextNode \in [users -> users \cup {Nil}] /\ head \in users \cup {Nil}
    /\ registered \in [users -> 0 .. 2]

\* A walk that passes q ends behind its last node, or not at all.
LEMMA EndsAre ==
    ASSUME Nil \notin users, NEW nx, NEW n \in Nat \ {0}, NEW q \in [1 .. n -> users],
           \A ix \in 1 .. n - 1 : nx[q[ix]] = q[ix + 1], nx[q[n]] \in {Nil, q[n]}
    PROVE  Ends(nx, q[1]) = IF nx[q[n]] = Nil THEN {q[n]} ELSE {}
<1> DEFINE R == {q[ix] : ix \in 1 .. n}
<1>1. R \in SUBSET users /\ q[1] \in R /\ \A s \in R : nx[s] \in R \cup {Nil}
  <2>1. R \in SUBSET users /\ q[1] \in R
    OBVIOUS
  <2>2. ASSUME NEW ix \in 1 .. n PROVE nx[q[ix]] \in R \cup {Nil}
    <3>1. CASE ix = n
      BY <3>1
    <3>2. CASE ix # n
      <4>1. ix \in 1 .. n - 1 /\ ix + 1 \in 1 .. n
        BY <3>2
      <4>2. QED
        BY <4>1
    <3>3. QED
      BY <3>1, <3>2
  <2>3. QED
    BY <2>1, <2>2
<1>2. Passed(nx, q[1]) \subseteq R
  <2> HIDE DEF R
  <2>1. QED
    BY <1>1 DEF Passed
<1>3. ASSUME NEW S \in SUBSET users, q[1] \in S, \A s \in S : nx[s] \in S \cup {Nil}
      PROVE  q[n] \in S
  <2> DEFINE T == {ix \in Nat : ix + 1 \in 1 .. n => q[ix + 1] \in S}
  <2>1. 0 \in T
    BY <1>3
  <2>2. ASSUME NEW ix \in Nat, ix \in T PROVE ix + 1 \in T
    <3>1. SUFFICES ASSUME ix + 2 \in 1 .. n PROVE q[ix + 2] \in S
      OBVIOUS
    <3>2. ix + 1 \in 1 .. n - 1 /\ q[ix + 1] \in S /\ q[ix + 2] \in users
      BY <2>2, <3>1
    <3>3. nx[q[ix + 1]] = q[ix + 2]
      <4>1. nx[q[ix + 1]] = q[(ix + 1) + 1]
        BY <3>2
      <4>2. (ix + 1) + 1 = ix + 2
        OBVIOUS
      <4>3. QED
        BY <4>1, <4>2
    <3>4. q[ix + 2] # Nil
      BY <3>2
    <3>5. QED
      BY <1>3, <3>2, <3>3, <3>4
  <2> HIDE DEF T
  <2>3. n - 1 \in T
    BY <2>1, <2>2, SetInduction
  <2>4. QED
    BY <2>3 DEF T
<1>4. q[n] \in Passed(nx, q[1])
  BY <1>3 DEF Passed
<1>5. ASSUME NEW m \in R, nx[m] = Nil PROVE m = q[n]
  <2>1. PICK ix \in 1 .. n : m = q[ix]
    BY <1>5
  <2>2. ASSUME ix # n PROVE FALSE
    <3>1. ix \in 1 .. n - 1 /\ nx[q[ix]] = q[ix + 1] /\ q[ix + 1] \in users
      BY <2>2
    <3>2. QED
      BY <1>5, <2>1, <3>1
  <2>3. QED
    BY <2>1, <2>2
<1> HIDE DEF R
<1>6. q[n] \in users
  OBVIOUS
<1>7. QED
  BY <1>2, <1>4, <1>5, <1>6 DEF Ends

\* Registering: what is not in an open list becomes its last node; what is in the
\* list becomes the last node and its own successor; and what is not in a closed
\* list is not registered.
LEMMA Registering ==
    ASSUME ListTypes, NEW n, NEW q, OpenList(n, q) \/ ClosedList(n, q), NEW d \in users,
           _metal_clock_append_to_callbacks(d), users' = users
    PROVE  /\ ListTypes'
           /\ \A k \in 1 .. n : q[k] = d =>
                  \E p : ClosedList(k, p)' /\ \A ix \in 1 .. k : p[ix] = q[ix]
           /\ ~(\E k \in 1 .. n : q[k] = d) /\ OpenList(n, q) =>
                  \E p : OpenList(n + 1, p)'
           /\ Endless(d) <=> ClosedList(n, q) /\ ~(\E k \in 1 .. n : q[k] = d)
<1> DEFINE nx == Detached(d)
<1>1. /\ head' = IF head = Nil THEN d ELSE head
      /\ nextNode' = [m \in users |-> IF head # Nil /\ m \in Ends(nx, head) THEN d ELSE nx[m]]
      /\ registered' = [registered EXCEPT ![d] = IF @ = 0 THEN 1 ELSE 2]
  BY DEF _metal_clock_append_to_callbacks
<1>2. /\ nx \in [users -> users \cup {Nil}] /\ nx[d] = Nil
      /\ \A m \in users : m # d => nx[m] = nextNode[m]
  BY DEF ListTypes, Detached
<1>3. Nil \notin users
  BY DEF ListTypes, Nil
<1>4. NodesInOrder(n, q)
  BY DEF OpenList, ClosedList
<1>5. n \in Nat /\ q \in [1 .. n -> users] /\ head = IF n = 0 THEN Nil ELSE q[1]
  BY <1>4 DEF NodesInOrder
<1>6. head = Nil <=> n = 0
  BY <1>3, <1>5
<1>e. Endless(d) <=> head # Nil /\ Ends(nx, head) = {}
  BY DEF Endless
<1> HIDE DEF nx
<1>7. ListTypes'
  <2>1. nextNode' \in [users -> users \cup {Nil}] /\ head' \in users \cup {Nil}
    BY <1>1, <1>2 DEF ListTypes
  <2>2. registered' \in [users -> 0 .. 2]
    BY <1>1 DEF ListTypes
  <2>3. QED
    BY <2>1, <2>2 DEF ListTypes
<1>8. /\ registered'[d] \in 1 .. 2 /\ (registered[d] # 0 => registered'[d] = 2)
      /\ (registered[d] = 0 => registered'[d] = 1)
      /\ \A m \in users : m # d => registered'[m] = registered[m]
  BY <1>1 DEF ListTypes
<1>9. ~ListIsSound => ~ListIsSound'
  <2>1. SUFFICES ASSUME NEW m \in users, ~(registered[m] <= (IF m = "i2c" THEN 0 ELSE 1))
                 PROVE  ~(registered'[m] <= (IF m = "i2c" THEN 0 ELSE 1))
    BY DEF ListIsSound
  <2>2. registered[m] \in 0 .. 2 /\ registered'[m] \in 0 .. 2
    BY <1>7 DEF ListTypes
  <2>3. QED
    BY <1>8, <2>1, <2>2
<1>10. ASSUME NEW k \in 1 .. n, q[k] = d
       PROVE  ~Endless(d) /\ \E p : ClosedList(k, p)' /\ \A ix \in 1 .. k : p[ix] = q[ix]
  <2> DEFINE p == [ix \in 1 .. k |-> q[ix]]
  <2>1. k \in Nat \ {0} /\ p \in [1 .. k -> users] /\ p[1] = head /\ p[k] = d /\ head # Nil
    BY <1>5, <1>6, <1>10
  <2>2. \A ix \in 1 .. k : p[ix] = q[ix]
    OBVIOUS
  <2>3. \A ix, l \in 1 .. k : p[ix] = p[l] => ix = l
    <3>1. ASSUME NEW ix \in 1 .. k, NEW l \in 1 .. k, p[ix] = p[l] PROVE ix = l
      <4>1. ix \in 1 .. n /\ l \in 1 .. n /\ q[ix] = q[l]
        BY <1>5, <1>10, <3>1
      <4>2. QED
        BY <1>4, <4>1 DEF NodesInOrder
    <3>2. QED
      BY <3>1
  <2>4. ASSUME NEW ix \in 1 .. k - 1 PROVE p[ix] # d /\ nx[p[ix]] = p[ix + 1] /\ p[ix + 1] \in users
    <3>1. ix \in 1 .. n - 1 /\ ix \in 1 .. k /\ ix + 1 \in 1 .. k /\ ix # k /\ k \in 1 .. k
      BY <1>5, <1>10
    <3>2. p[ix] # d
      BY <2>1, <2>3, <3>1
    <3>3. nextNode[q[ix]] = q[ix + 1]
      BY <1>4, <3>1 DEF NodesInOrder
    <3>4. QED
      BY <1>2, <2>1, <2>2, <3>1, <3>2, <3>3
  <2> HIDE DEF p
  <2>5. Ends(nx, head) = {d}
    <3>1. nx[p[k]] \in {Nil, p[k]} /\ nx[p[k]] = Nil
      BY <1>2, <2>1
    <3>2. Ends(nx, p[1]) = IF nx[p[k]] = Nil THEN {p[k]} ELSE {}
      BY <1>3, <2>1, <2>4, <3>1, EndsAre
    <3>3. QED
      BY <2>1, <3>1, <3>2
  <2>6. nextNode'[d] = d /\ \A ix \in 1 .. k - 1 : nextNode'[p[ix]] = p[ix + 1]
    <3>1. nextNode'[d] = d
      BY <1>1, <2>1, <2>5
    <3>2. ASSUME NEW ix \in 1 .. k - 1 PROVE nextNode'[p[ix]] = p[ix + 1]
      <4>1. p[ix] \in users /\ p[ix] # d
        BY <2>1, <2>4
      <4>2. nextNode'[p[ix]] = nx[p[ix]]
        BY <1>1, <2>5, <4>1
      <4>3. QED
        BY <2>4, <4>2
    <3>3. QED
      BY <3>1, <3>2
  <2>7. ~ListIsSound'
    <3>1. CASE OpenList(n, q)
      <4>1. registered[d] = 1
        BY <1>10, <3>1 DEF OpenList
      <4>2. registered'[d] = 2
        BY <1>8, <4>1
      <4>3. QED
        BY <4>2 DEF ListIsSound
    <3>2. CASE ClosedList(n, q)
      BY <1>9, <3>2 DEF ClosedList
    <3>3. QED
      BY <3>1, <3>2
  <2>8. head' = p[1]
    BY <1>1, <2>1
  <2>9. NodesInOrder(k, p)'
    BY <2>1, <2>3, <2>6, <2>8 DEF NodesInOrder
  <2>10. ClosedList(k, p)'
    BY <2>1, <2>6, <2>7, <2>9 DEF ClosedList
  <2>11. QED
    BY <1>e, <2>2, <2>5, <2>10
<1>11. ASSUME ~(\E k \in 1 .. n : q[k] = d), n # 0
       PROVE  Ends(nx, head) = IF nx[q[n]] = Nil THEN {q[n]} ELSE {}
  <2>1. \A ix \in 1 .. n : nx[q[ix]] = nextNode[q[ix]]
    BY <1>2, <1>5, <1>11
  <2>2. \A ix \in 1 .. n - 1 : nx[q[ix]] = q[ix + 1]
    <3>1. \A ix \in 1 .. n - 1 : nextNode[q[ix]] = q[ix + 1] /\ ix \in 1 .. n
      BY <1>4, <1>5 DEF NodesInOrder
    <3>2. QED
      BY <2>1, <3>1
  <2>3. n \in 1 .. n /\ nx[q[n]] = nextNode[q[n]]
    BY <1>5, <1>11, <2>1
  <2>4. nx[q[n]] \in {Nil, q[n]}
    BY <1>11, <2>3 DEF OpenList, ClosedList
  <2>5. Ends(nx, q[1]) = IF nx[q[n]] = Nil THEN {q[n]} ELSE {}
    BY <1>3, <1>5, <1>11, <2>2, <2>4, EndsAre
  <2>6. QED
    BY <1>5, <1>11, <2>5
<1>12. ASSUME ~(\E k \in 1 .. n : q[k] = d), OpenList(n, q)
       PROVE  ~Endless(d) /\ \E p : OpenList(n + 1, p)'
  <2> DEFINE p == [ix \in 1 .. n + 1 |-> IF ix = n + 1 THEN d ELSE q[ix]]
  <2>1. n + 1 \in Nat /\ n + 1 # 0 /\ p \in [1 .. n + 1 -> users] /\ p[n + 1] = d
        /\ \A ix \in 1 .. n : p[ix] = q[ix] /\ p[ix] # d /\ ix \in 1 .. n + 1
    BY <1>5, <1>12
  <2>2. \A ix, l \in 1 .. n + 1 : p[ix] = p[l] => ix = l
    <3>1. ASSUME NEW ix \in 1 .. n + 1, NEW l \in 1 .. n + 1, p[ix] = p[l] PROVE ix = l
      <4>1. CASE ix \in 1 .. n /\ l \in 1 .. n
        <5>1. q[ix] = q[l]
          BY <2>1, <3>1, <4>1
        <5>2. QED
          BY <1>4, <4>1, <5>1 DEF NodesInOrder
      <4>2. CASE ~(ix \in 1 .. n /\ l \in 1 .. n)
        <5>1. ix = n + 1 \/ l = n + 1
          BY <1>5, <4>2
        <5>2. ix \in 1 .. n \/ ix = n + 1
          BY <1>5
        <5>3. l \in 1 .. n \/ l = n + 1
          BY <1>5
        <5>4. QED
          BY <2>1, <3>1, <5>1, <5>2, <5>3
      <4>3. QED
        BY <4>1, <4>2
    <3>2. QED
      BY <3>1
  <2> HIDE DEF p
  <2>3. Ends(nx, head) = {q[n]} \/ n = 0
    <3>1. SUFFICES ASSUME n # 0 PROVE Ends(nx, head) = {q[n]}
      OBVIOUS
    <3>2. q[n] \in users /\ q[n] # d /\ nextNode[q[n]] = Nil
      BY <1>5, <1>12, <3>1 DEF OpenList
    <3>3. QED
      BY <1>2, <1>11, <1>12, <3>1, <3>2
  <2>4. head' = p[1]
    <3>1. CASE n = 0
      BY <1>1, <1>6, <2>1, <3>1
    <3>2. CASE n # 0
      BY <1>1, <1>5, <1>6, <2>1, <3>2
    <3>3. QED
      BY <3>1, <3>2
  <2>5. nextNode'[d] = Nil
    <3>1. ~(head # Nil /\ d \in Ends(nx, head))
      <4>1. n # 0 => q[n] # d
        BY <1>5, <1>12
      <4>2. QED
        BY <1>6, <2>3, <4>1
    <3>2. QED
      BY <1>1, <1>2, <3>1
  <2>6. \A ix \in 1 .. n : nextNode'[p[ix]] = p[ix + 1]
    <3>1. ASSUME NEW ix \in 1 .. n PROVE nextNode'[p[ix]] = p[ix + 1]
      <4>1. n # 0 /\ head # Nil /\ q[ix] \in users /\ q[ix] # d /\ p[ix] = q[ix] /\ Ends(nx, head) = {q[n]}
        BY <1>5, <1>6, <1>12, <2>1, <2>3
      <4>2. CASE ix = n
        <5>1. nextNode'[q[ix]] = d
          BY <1>1, <4>1, <4>2
        <5>2. QED
          BY <2>1, <4>1, <4>2, <5>1
      <4>3. CASE ix # n
        <5>1. ix \in 1 .. n - 1 /\ ix + 1 \in 1 .. n /\ n \in 1 .. n
          BY <1>5, <4>3
        <5>2. nextNode[q[ix]] = q[ix + 1] /\ q[ix] # q[n]
          BY <1>4, <4>3, <5>1 DEF NodesInOrder
        <5>3. nextNode'[q[ix]] = q[ix + 1]
          BY <1>1, <1>2, <4>1, <5>2
        <5>4. QED
          BY <2>1, <4>1, <5>1, <5>3
      <4>4. QED
        BY <4>2, <4>3
    <3>2. QED
      BY <3>1
  <2>7. NodesInOrder(n + 1, p)'
    <3>1. (n + 1) - 1 = n
      BY <1>5
    <3>2. QED
      BY <2>1, <2>2, <2>4, <2>6, <3>1 DEF NodesInOrder
  <2>8. \A m \in users : registered'[m] = IF \E ix \in 1 .. n + 1 : p[ix] = m THEN 1 ELSE 0
    <3>1. TAKE m \in users
    <3>2. registered[m] = IF \E ix \in 1 .. n : q[ix] = m THEN 1 ELSE 0
      BY <1>12 DEF OpenList
    <3>3. CASE m = d
      <4>1. registered[m] = 0 /\ n + 1 \in 1 .. n + 1
        BY <1>5, <1>12, <3>2, <3>3
      <4>2. QED
        BY <1>8, <2>1, <3>3, <4>1
    <3>4. CASE m # d
      <4>1. (\E ix \in 1 .. n + 1 : p[ix] = m) <=> \E ix \in 1 .. n : q[ix] = m
        <5>1. ASSUME NEW ix \in 1 .. n + 1, p[ix] = m PROVE \E l \in 1 .. n : q[l] = m
          <6>1. ix \in 1 .. n
            BY <1>5, <2>1, <3>4, <5>1
          <6>2. QED
            BY <2>1, <5>1, <6>1
        <5>2. QED
          BY <2>1, <5>1
      <4>2. QED
        BY <1>8, <3>2, <3>4, <4>1
    <3>5. QED
      BY <3>3, <3>4
  <2>9. OpenList(n + 1, p)'
    BY <2>1, <2>5, <2>7, <2>8 DEF OpenList
  <2>10. ~Endless(d)
    BY <1>6, <1>e, <2>3
  <2>11. QED
    BY <2>9, <2>10
<1>13. ASSUME ~(\E k \in 1 .. n : q[k] = d), ClosedList(n, q) PROVE Endless(d)
  <2>1. n # 0 /\ q[n] \in users /\ q[n] # d /\ nextNode[q[n]] = q[n] /\ q[n] # Nil
    BY <1>3, <1>5, <1>13 DEF ClosedList
  <2>2. Ends(nx, head) = {}
    BY <1>2, <1>11, <1>13, <2>1
  <2>3. QED
    BY <1>6, <1>e, <2>1, <2>2
<1>14. QED
  <2>1. OpenList(n, q) \/ ClosedList(n, q)
    OBVIOUS
  <2>2. \A k \in 1 .. n : q[k] = d => \E p : ClosedList(k, p)' /\ \A ix \in 1 .. k : p[ix] = q[ix]
    BY <1>10
  <2>3. ~(\E k \in 1 .. n : q[k] = d) /\ OpenList(n, q) => \E p : OpenList(n + 1, p)'
    BY <1>12
  <2>4. Endless(d) <=> ClosedList(n, q) /\ ~(\E k \in 1 .. n : q[k] = d)
    BY <1>10, <1>12, <1>13, <2>1
  <2>5. QED
    BY <1>7, <2>2, <2>3, <2>4

-----------------------------------------------------------------------------
(* The PWM unit.                                                            *)

PwmUnits == [freq : Nat, count : Int, scale : SUBSET (0 .. 3), running : SUBSET RunModes, duty : 0 .. 100, cmp : Int]

\* The unit is no faster than is told, if the count is one it can hold.
ToldRight(d) ==
    d.freq > 0 /\ d.count < PwmMaxCount =>
        (get_rate_hz \div PowerOf2[ScaleOf(d.scale)]) \div ((d.count % (PwmMaxCount + 1)) + 1) <= d.freq

LEMMA ScaleAtLeast ==
    ASSUME NEW S \in SUBSET (0 .. 3), NEW p \in 0 .. 15, PrescaleBits(p) \subseteq S
    PROVE  ScaleOf(S) \in Nat /\ p <= ScaleOf(S)
<1>1. PowerOf2[0] = 1 /\ PowerOf2[1] = 2 /\ PowerOf2[2] = 4 /\ PowerOf2[3] = 8
  <2>1. \A n \in Nat : PowerOf2[n + 1] = 2 * PowerOf2[n]
    BY PowerNext
  <2>2. PowerOf2[1 + 1] = 2 * PowerOf2[1] /\ PowerOf2[2 + 1] = 2 * PowerOf2[2]
    BY <2>1
  <2>3. QED
    BY <2>2, PowerNext
<1> DEFINE bit(b) == IF b \in S THEN PowerOf2[b] ELSE 0
<1>2. ScaleOf(S) = bit(0) + bit(1) + bit(2) + bit(3)
  BY DEF ScaleOf
<1>3. \A b \in 0 .. 3 : (p \div PowerOf2[b]) % 2 = 1 => b \in S
  BY DEF PrescaleBits
<1>4. /\ (p \div 1) % 2 = 1 => 0 \in S
      /\ (p \div 2) % 2 = 1 => 1 \in S
      /\ (p \div 4) % 2 = 1 => 2 \in S
      /\ (p \div 8) % 2 = 1 => 3 \in S
  <2>1. 0 \in 0 .. 3 /\ 1 \in 0 .. 3 /\ 2 \in 0 .. 3 /\ 3 \in 0 .. 3
    OBVIOUS
  <2>2. QED
    BY <1>1, <1>3, <2>1
<1>5. /\ bit(0) = (IF 0 \in S THEN 1 ELSE 0) /\ bit(1) = (IF 1 \in S THEN 2 ELSE 0)
      /\ bit(2) = (IF 2 \in S THEN 4 ELSE 0) /\ bit(3) = (IF 3 \in S THEN 8 ELSE 0)
  BY <1>1
<1> HIDE DEF bit
<1>6. QED
  BY <1>2, <1>4, <1>5

TopRate == 800000

LEMMA OnesAreNat == AllOnes \in Nat /\ TopRate \in Nat /\ TopRate <= AllOnes
  BY SMT DEF AllOnes, TopRate

LEMMA FrequencyIsTold ==
    ASSUME get_rate_hz \in 0 .. AllOnes, pwmDev \in PwmUnits, PwmMaxCount \in Nat \ {0}, NEW f \in Nat \ {0}
    PROVE  /\ PwmWith(f) \in PwmUnits /\ ToldRight(PwmWith(f))
           /\ PwmWith(f).running = pwmDev.running /\ PwmWith(f).duty = pwmDev.duty
           /\ PwmWith(f).cmp = pwmDev.cmp
<1> DEFINE r == get_rate_hz
           P == Prescale(f)
           C == PwmCount(f)
           d == PwmWith(f)
<1>1. r \in Nat /\ r <= AllOnes /\ AllOnes \in Nat
  BY OnesAreNat
<1>2. \A p \in Nat : /\ r \div PowerOf2[p] \in Nat /\ r \div PowerOf2[p] <= r
                     /\ CountAt(f, p) = (r \div PowerOf2[p]) \div f /\ CountAt(f, p) \in Nat
  <2>1. TAKE p \in Nat
  <2>2. PowerOf2[p] \in Nat \ {0}
    BY PowerNext
  <2>3. r \div PowerOf2[p] \in Nat /\ r \div PowerOf2[p] <= r
    <3>1. r \in Int
      BY <1>1
    <3>2. QED
      BY <1>1, <2>2, <3>1, Division, Zenon
  <2>4. CountAt(f, p) = (r \div PowerOf2[p]) \div f
    BY DEF CountAt, Over
  <2> HIDE DEF r
  <2>5. (r \div PowerOf2[p]) \div f \in Nat
    BY <2>3, Division
  <2>6. QED
    BY <2>3, <2>4, <2>5
<1>3. P \in 0 .. 16 /\ (P # 16 => CountAt(f, P) <= PwmMaxCount) /\ (P = 16 => PwmMaxCount < CountAt(f, 15))
  <2> DEFINE T == {p \in 0 .. 15 : CountAt(f, p) <= PwmMaxCount}
  <2>1. CASE T = {}
    <3>1. P = 16
      BY <2>1 DEF Prescale
    <3>2. CountAt(f, 15) \in Nat
      BY <1>2
    <3>3. ~(CountAt(f, 15) <= PwmMaxCount)
      BY <2>1
    <3> HIDE DEF P, T
    <3>4. QED
      BY <3>1, <3>2, <3>3
  <2>2. CASE T # {}
    <3>1. PICK m \in T : \A n \in T : m <= n
      <4>1. T \subseteq Nat
        OBVIOUS
      <4> HIDE DEF T
      <4>2. QED
        BY <2>2, <4>1, LeastElement
    <3>2. m \in 0 .. 15 /\ CountAt(f, m) <= PwmMaxCount
      BY <3>1
    <3>3. \A k \in 0 .. m - 1 : CountAt(f, k) > PwmMaxCount
      <4>1. TAKE k \in 0 .. m - 1
      <4>2. k \notin T /\ k \in 0 .. 15
        BY <3>1, <3>2
      <4>3. CountAt(f, k) \in Nat
        BY <4>2, <1>2
      <4>4. QED
        BY <4>2, <4>3
    <3>4. P = CHOOSE p \in 0 .. 15 : /\ CountAt(f, p) <= PwmMaxCount
                                     /\ \A k \in 0 .. p - 1 : CountAt(f, k) > PwmMaxCount
      BY <3>2 DEF Prescale
    <3>5. P \in 0 .. 15 /\ CountAt(f, P) <= PwmMaxCount
      BY <3>2, <3>3, <3>4
    <3>6. QED
      BY <3>5
  <2>3. QED
    BY <2>1, <2>2
<1>4. C = CountAt(f, IF P = 16 THEN 15 ELSE P) /\ C \in Nat
  BY <1>2, <1>3 DEF PwmCount
<1>5. d = [pwmDev EXCEPT !.freq = Over(r \div PowerOf2[P], C), !.count = C - 1, !.scale = @ \cup PrescaleBits(P)]
  BY DEF PwmWith
<1>6. Over(r \div PowerOf2[P], C) \in Nat
  <2>1. P \in Nat
    BY <1>3
  <2> HIDE DEF r, P, C
  <2>2. r \div PowerOf2[P] \in Nat
    BY <1>2, <2>1
  <2>3. CASE C = 0
    BY <1>1, <2>3 DEF Over
  <2>4. CASE C # 0
    <3>1. r \div PowerOf2[P] \in Int /\ C \in Nat \ {0}
      BY <1>4, <2>2, <2>4
    <3>2. (r \div PowerOf2[P]) \div C \in Nat
      BY <2>2, <3>1, Division, Zenon
    <3>3. QED
      BY <2>4, <3>2 DEF Over
  <2>5. QED
    BY <2>3, <2>4
<1>7. PrescaleBits(P) \subseteq 0 .. 3
  BY DEF PrescaleBits
<1>p. pwmDev \in PwmUnits
  OBVIOUS
<1>8. /\ d \in PwmUnits /\ d.freq = Over(r \div PowerOf2[P], C) /\ d.count = C - 1
      /\ d.scale = pwmDev.scale \cup PrescaleBits(P)
      /\ d.running = pwmDev.running /\ d.duty = pwmDev.duty /\ d.cmp = pwmDev.cmp
  <2> HIDE DEF d, r, P, C
  <2>1. pwmDev.scale \cup PrescaleBits(P) \in SUBSET (0 .. 3)
    BY <1>7, <1>p DEF PwmUnits
  <2> DEFINE fr == Over(r \div PowerOf2[P], C)
             cn == C - 1
             sc == pwmDev.scale \cup PrescaleBits(P)
  <2>2. d = [pwmDev EXCEPT !.freq = fr, !.count = cn, !.scale = sc]
    BY <1>5
  <2>3. fr \in Nat /\ cn \in Int /\ sc \in SUBSET (0 .. 3)
    BY <1>4, <1>6, <2>1
  <2> HIDE DEF fr, cn, sc
  <2>4. /\ d \in PwmUnits /\ d.freq = fr /\ d.count = cn /\ d.scale = sc
        /\ d.running = pwmDev.running /\ d.duty = pwmDev.duty /\ d.cmp = pwmDev.cmp
    BY <1>p, <2>2, <2>3 DEF PwmUnits
  <2>5. QED
    BY <2>4 DEF fr, cn, sc
<1>9. ASSUME d.freq > 0, d.count < PwmMaxCount
      PROVE  (r \div PowerOf2[ScaleOf(d.scale)]) \div ((d.count % (PwmMaxCount + 1)) + 1) <= d.freq
  <2> DEFINE s == ScaleOf(d.scale)
             n == r \div PowerOf2[s]
             m == r \div PowerOf2[P]
  <2>1. P \in 0 .. 15 /\ C = CountAt(f, P) /\ C <= PwmMaxCount
    <3> HIDE DEF d, P, C, r
    <3>1. P # 16
      BY <1>3, <1>4, <1>8, <1>9
    <3>2. QED
      BY <1>3, <1>4, <3>1
  <2>2. s \in Nat /\ P <= s
    <3>1. d.scale \in SUBSET (0 .. 3) /\ PrescaleBits(P) \subseteq d.scale
      BY <1>8 DEF PwmUnits
    <3> HIDE DEF d, P
    <3>2. QED
      BY <2>1, <3>1, ScaleAtLeast
  <2>3. n \in Nat /\ m \in Nat /\ n <= m /\ m <= r
    <3>1. PowerOf2[P] <= PowerOf2[s] /\ PowerOf2[P] \in Nat \ {0} /\ PowerOf2[s] \in Nat \ {0} /\ P \in Nat
      <4>1. P \in Nat
        BY <2>1
      <4> HIDE DEF P, s
      <4>2. QED
        BY <2>2, <4>1, PowersGrow, PowerNext, Zenon
    <3> HIDE DEF P, s, r
    <3>2. r \div PowerOf2[s] \in Nat /\ r \div PowerOf2[P] \in Nat /\ r \div PowerOf2[P] <= r
      BY <1>2, <2>2, <3>1
    <3>3. r <= r
      BY <1>1
    <3>4. r \div PowerOf2[s] <= r \div PowerOf2[P]
      BY <1>1, <3>1, <3>3, DivisionOrder, Zenon
    <3>5. QED
      BY <3>2, <3>4
  <2>4. d.freq = Over(m, C) /\ d.count = C - 1
    BY <1>8
  <2> HIDE DEF d, s, n, m, P, C, r
  <2>5. CASE C = 0
    <3>1. d.freq = AllOnes
      BY <2>4, <2>5 DEF Over
    <3> DEFINE z == (d.count % (PwmMaxCount + 1)) + 1
    <3>2. z \in Nat \ {0}
      <4>1. d.count \in Int
        BY <2>4, <2>5
      <4>2. PwmMaxCount + 1 \in Nat \ {0}
        OBVIOUS
      <4>3. d.count % (PwmMaxCount + 1) \in 0 .. (PwmMaxCount + 1) - 1
        BY <4>1, <4>2, Division, Zenon
      <4>4. QED
        BY <4>3
    <3> HIDE DEF z
    <3>3. n \in Int
      BY <2>3
    <3>4. n \div z \in Nat /\ n \div z <= n
      BY <2>3, <3>2, <3>3, Division, Zenon
    <3>5. n \div z <= d.freq
      BY <1>1, <2>3, <3>1, <3>4
    <3>6. QED
      BY <3>5 DEF n, z, s
  <2>6. CASE C # 0
    <3>1. d.freq = m \div C
      BY <2>4, <2>6 DEF Over
    <3>2. C \in Nat \ {0}
      BY <1>4, <2>6
    <3>3. (d.count % (PwmMaxCount + 1)) + 1 = C
      <4>0. 0 \in Int
        OBVIOUS
      <4>1. d.count \in 0 .. (PwmMaxCount + 1) - 1 /\ PwmMaxCount + 1 \in Nat \ {0}
        BY <2>1, <2>4, <3>2
      <4>2. (0 * (PwmMaxCount + 1) + d.count) % (PwmMaxCount + 1) = d.count
        BY <4>0, <4>1, DivisionIs, Zenon
      <4>3. 0 * (PwmMaxCount + 1) + d.count = d.count
        BY <4>1
      <4>4. d.count % (PwmMaxCount + 1) = d.count
        BY <4>2, <4>3
      <4>5. QED
        BY <2>4, <3>2, <4>4
    <3>4. n \div C <= m \div C
      <4>1. C <= C
        BY <3>2
      <4>2. QED
        BY <2>3, <3>2, <4>1, DivisionOrder, Zenon
    <3>5. QED
      BY <3>1, <3>3, <3>4 DEF n, s
  <2>7. QED
    BY <2>5, <2>6
<1>10. ToldRight(d)
  BY <1>9 DEF ToldRight
<1>11. QED
  BY <1>8, <1>10

-----------------------------------------------------------------------------
(* The walks along the list, and what the devices have done of a change.     *)

\* The callbacks of q that are before j.
Called(q, j, d) == \E ix \in 1 .. j - 1 : q[ix] = d

Follows(d) == Encodable(d, get_rate_hz) => divider[d] = DividerFor(d, get_rate_hz)

DutyKept == pwmDev.cmp = CompareFor(pwmDev.duty, pwmDev.count)

\* Where the walk is: at the j-th node of q, or behind the last one.
WalkAt(n, q, j) ==
    j \in 1 .. n + 1 /\ (phase \in {"pre", "post"} => node = IF j = n + 1 THEN Nil ELSE q[j])

\* What the devices were doing and what has become of it, as far as they were called.
DevicesAt(q, j) ==
    /\ sending # "no" => "uart" \in users /\ registered["uart"] > 0
    /\ pwmDev.freq # 0 => "pwm" \in users /\ registered["pwm"] > 0
    /\ phase = "idle" => /\ \A d \in users \ {"pwm"} : registered[d] > 0 => Follows(d)
                         /\ ToldRight(pwmDev)
    /\ phase = "pre" => /\ Called(q, j, "uart") => sending = "no" \/ ~Drains
                        /\ Called(q, j, "pwm") => "always" \notin pwmDev.running
    /\ phase \in {"config", "lock", "select", "post"} /\ pwmDev.freq # 0 => "always" \notin pwmDev.running
    /\ phase = "post" => /\ ~Called(q, j, "i2c")
                         /\ \A d \in users \ {"pwm"} : Called(q, j, d) => Follows(d)
                         /\ Called(q, j, "pwm") => ToldRight(pwmDev) /\ (pwmDev.freq # 0 => DutyKept)

OpenState(n, q, j) == OpenList(n, q) /\ WalkAt(n, q, j) /\ DevicesAt(q, j)

ClosedState(n, q, j) ==
    ClosedList(n, q) /\ WalkAt(n, q, j) /\ j # n + 1 /\ phase \in {"idle", "pre", "post"}

Standing == phase = "stuck" \/ \E n, q, j : OpenState(n, q, j) \/ ClosedState(n, q, j)

ClkTypes ==
    /\ ListTypes /\ pwmDev \in PwmUnits /\ divider \in [users -> Int]
    /\ pwmDev.duty = 0 => pwmDev.cmp = 0
    /\ sending \in {"no", "fifo", "line"}

ClkIInv == ClockIInv /\ ClkTypes /\ Standing

-----------------------------------------------------------------------------
LEMMA ClkConstants ==
    /\ PwmMaxCount \in Nat \ {0} /\ PwmRates \subseteq Nat \ {0} /\ PwmDuties \subseteq 0 .. 100
    /\ UartBaud \in Nat \ {0} /\ SpiBaud \in Nat \ {0} /\ I2cBaud \in Nat \ {0}
  BY ClkRatesAssumption DEF ClkRatesAssumption

LEMMA RatesAreLow == ClockIInv => get_rate_hz \in 0 .. AllOnes
<1>1. SUFFICES ASSUME ClockIInv PROVE get_rate_hz \in 0 .. AllOnes
  OBVIOUS
<1>2. pll \in [sel : BOOLEAN, bypass : BOOLEAN, row : pll_configs, locked : BOOLEAN]
  BY <1>1 DEF ClockIInv
<1>3. \A c \in pll_configs : RowRate(c) \in 0 .. TopRate
  <2>1. TAKE c \in pll_configs
  <2>2. c.f \in 0 .. 47 /\ c.q \in 1 .. 3 /\ c.d \in Nat
    BY DEF pll_configs, PllRow
  <2>3. DivQ[c.q] \in {2, 4, 8}
    BY <2>2 DEF DivQ
  <2> DEFINE m == (Hfxosc \div 2) * 2 * (c.f + 1)
             v == DivQ[c.q]
             w == IF c.d = 0 THEN 1 ELSE c.d
  <2>a. m \in Nat /\ m <= TopRate
    <3> DEFINE f == c.f
    <3>1. f \in 0 .. 47 /\ m = (Hfxosc \div 2) * 2 * (f + 1)
      BY <2>2
    <3> HIDE DEF f, m
    <3>2. QED
      BY <3>1, SMT DEF Hfxosc, TopRate
  <2>4. m \in 0 .. TopRate /\ v \in {2, 4, 8} /\ w \in Nat \ {0} /\ RowRate(c) = (m \div v) \div w
    <3>1. RowRate(c) = (m \div v) \div w
      BY DEF RowRate
    <3>2. v \in {2, 4, 8} /\ w \in Nat \ {0}
      BY <2>2, <2>3
    <3> HIDE DEF m, v, w
    <3>3. QED
      BY <2>a, <3>1, <3>2, OnesAreNat
  <2> HIDE DEF m, v, w
  <2>5. m \div v \in 0 .. TopRate /\ m \div v \in Int
    BY <2>4, OnesAreNat
  <2>6. (m \div v) \div w \in 0 .. TopRate
    <3> DEFINE x == m \div v
    <3>1. x \in Nat /\ x \in Int /\ x <= TopRate
      BY <2>5
    <3> HIDE DEF x
    <3>2. x \div w \in Nat /\ x \div w <= x
      BY <2>4, <3>1, Division, Zenon
    <3>3. x \div w \in 0 .. TopRate
      BY <3>1, <3>2, OnesAreNat
    <3>4. QED
      BY <3>3 DEF x
  <2>7. QED
    BY <2>4, <2>6
<1>4. get_rate_hz \in 0 .. TopRate
  <2>1. Hfxosc \in Nat /\ Hfxosc <= TopRate /\ Hfrosc \in Nat /\ Hfrosc <= TopRate
    BY SMT DEF Hfxosc, Hfrosc, TopRate
  <2>2. Hfxosc \in 0 .. TopRate /\ Hfrosc \in 0 .. TopRate
    BY <2>1, OnesAreNat
  <2>3. QED
    BY <1>2, <1>3, <2>2 DEF get_rate_hz
<1>5. QED
  BY <1>4, OnesAreNat

LEMMA DividersAreNumbers ==
    ASSUME NEW rate \in Int, NEW d PROVE DividerFor(d, rate) \in Int
<1>1. rate \div UartBaud \in Int /\ rate \div (2 * SpiBaud) \in Int /\ rate \div (5 * I2cBaud) \in Int
  <2>1. UartBaud \in Nat \ {0} /\ 2 * SpiBaud \in Nat \ {0} /\ 5 * I2cBaud \in Nat \ {0}
    BY ClkConstants
  <2>2. QED
    BY <2>1, Division, Zenon
<1>2. QED
  BY <1>1 DEF DividerFor

LEMMA CompareIsNumber ==
    /\ \A u \in 0 .. 100, c \in Int : CompareFor(u, c) \in Int
    /\ \A c \in Int : CompareFor(0, c) = 0
<1>1. ASSUME NEW u \in 0 .. 100, NEW c \in Int PROVE CompareFor(u, c) \in Int
  <2> DEFINE x == u * c
  <2>1. x \in Int
    BY Products
  <2> HIDE DEF x
  <2>2. x \div 100 \in Int
    BY <2>1
  <2>3. QED
    BY <2>2 DEF CompareFor, x
<1>2. ASSUME NEW c \in Int PROVE CompareFor(0, c) = 0
  <2>1. 0 * c = 0
    OBVIOUS
  <2>2. QED
    BY <2>1 DEF CompareFor
<1>3. QED
  BY <1>1, <1>2

\* Restoring the PWM unit after a change of the rate.
LEMMA PwmIsRestored ==
    ASSUME ClockIInv, ClkTypes, pwmDev.freq # 0
    PROVE  /\ PwmRestored \in PwmUnits /\ ToldRight(PwmRestored)
           /\ PwmRestored.running = pwmDev.running /\ PwmRestored.duty = pwmDev.duty
           /\ PwmRestored.duty = 0 => PwmRestored.cmp = 0
           /\ PwmRestored.cmp = CompareFor(PwmRestored.duty, PwmRestored.count)
<1>1. pwmDev \in PwmUnits /\ pwmDev.freq \in Nat \ {0} /\ (pwmDev.duty = 0 => pwmDev.cmp = 0)
  BY DEF ClkTypes, PwmUnits
<1> DEFINE w == PwmWith(pwmDev.freq)
           c == CompareFor(pwmDev.duty, w.count)
<1>2. /\ w \in PwmUnits /\ ToldRight(w)
      /\ w.running = pwmDev.running /\ w.duty = pwmDev.duty /\ w.cmp = pwmDev.cmp
  BY <1>1, RatesAreLow, ClkConstants, FrequencyIsTold
<1>3. PwmRestored = IF pwmDev.duty = 0 THEN w ELSE [w EXCEPT !.cmp = c]
  BY DEF PwmRestored
<1>4. c \in Int /\ (pwmDev.duty = 0 => c = 0)
  <2>1. pwmDev.duty \in 0 .. 100 /\ w.count \in Int
    BY <1>1, <1>2 DEF PwmUnits
  <2> HIDE DEF w
  <2>2. QED
    BY <2>1, CompareIsNumber
<1> DEFINE p == PwmRestored
<1> HIDE DEF w
<1>5. CASE pwmDev.duty = 0
  BY <1>1, <1>2, <1>3, <1>4, <1>5 DEF w
<1>6. CASE pwmDev.duty # 0
  <2> HIDE DEF c, p
  <2>1. p = [w EXCEPT !.cmp = c]
    BY <1>3, <1>6 DEF p
  <2>2. /\ p \in PwmUnits /\ p.freq = w.freq /\ p.count = w.count /\ p.scale = w.scale
        /\ p.running = w.running /\ p.duty = w.duty /\ p.cmp = c
    BY <1>2, <1>4, <2>1 DEF PwmUnits
  <2>3. ToldRight(p)
    BY <1>2, <2>2 DEF ToldRight
  <2>4. p.cmp = CompareFor(p.duty, p.count)
    BY <1>2, <2>2 DEF c
  <2>5. QED
    BY <1>2, <1>6, <2>2, <2>3, <2>4 DEF p
<1>7. QED
  BY <1>5, <1>6

-----------------------------------------------------------------------------
LEMMA RateStands ==
    ASSUME ClockIInv, pll' = pll \/ Lock
    PROVE  get_rate_hz' = get_rate_hz
<1>1. CASE pll' = pll
  BY <1>1 DEF get_rate_hz
<1>2. CASE Lock
  <2>1. pll' = [pll EXCEPT !.locked = TRUE] /\ pll \in [sel : BOOLEAN, bypass : BOOLEAN, row : pll_configs, locked : BOOLEAN]
    BY <1>2 DEF Lock, ClockIInv
  <2>2. pll'.sel = pll.sel /\ pll'.bypass = pll.bypass /\ pll'.row = pll.row
    BY <2>1
  <2>3. QED
    BY <2>2 DEF get_rate_hz
<1>3. QED
  BY <1>1, <1>2

LEMMA SameRate ==
    ASSUME get_rate_hz' = get_rate_hz
    PROVE  /\ Drains' <=> Drains
           /\ \A d : divider'[d] = divider[d] => (Follows(d)' <=> Follows(d))
           /\ /\ pwmDev'.freq = pwmDev.freq /\ pwmDev'.count = pwmDev.count /\ pwmDev'.scale = pwmDev.scale
              => (ToldRight(pwmDev)' <=> ToldRight(pwmDev))
           /\ \A w : pwmDev' = w /\ ToldRight(w) => ToldRight(pwmDev)'
<1>1. Drains' <=> Drains
  BY DEF Drains
<1>2. \A d : divider'[d] = divider[d] => (Follows(d)' <=> Follows(d))
  BY DEF Follows, Encodable, DividerFor
<1>3. \A w : pwmDev' = w /\ ToldRight(w) => ToldRight(pwmDev)'
  BY DEF ToldRight
<1>4. /\ pwmDev'.freq = pwmDev.freq /\ pwmDev'.count = pwmDev.count /\ pwmDev'.scale = pwmDev.scale
      => (ToldRight(pwmDev)' <=> ToldRight(pwmDev))
  BY DEF ToldRight
<1>5. QED
  BY <1>1, <1>2, <1>3, <1>4

\* What SetBaudRate does.
LEMMA BaudRateIsSet ==
    ASSUME ClockIInv, ClkTypes, NEW d \in users, SetBaudRate(d), users' = users, pll' = pll
    PROVE  /\ divider' \in [users -> Int] /\ Follows(d)'
           /\ \A e \in users : e # d => divider'[e] = divider[e]
<1>1. get_rate_hz' = get_rate_hz /\ get_rate_hz \in Int
  <2>1. get_rate_hz \in 0 .. AllOnes
    BY RatesAreLow
  <2>2. QED
    BY <2>1, RateStands
<1> DEFINE v == DividerFor(d, get_rate_hz)
<1>2. v \in Int
  BY <1>1, DividersAreNumbers
<1>3. divider \in [users -> Int]
  BY DEF ClkTypes
<1> DEFINE w == v % (DividerMost(d) + 1)
<1>4. divider' = IF Refused(d, get_rate_hz) THEN divider ELSE [divider EXCEPT ![d] = w]
  BY DEF SetBaudRate
<1>5. Encodable(d, get_rate_hz)' <=> Encodable(d, get_rate_hz)
  BY <1>1 DEF Encodable, DividerFor
<1>6. DividerFor(d, get_rate_hz)' = v
  BY <1>1 DEF DividerFor
<1>7. w \in Int /\ (Encodable(d, get_rate_hz) => w = v /\ ~Refused(d, get_rate_hz))
  <2> DEFINE m == DividerMost(d)
  <2>1. m \in Nat
    BY SMT DEF DividerMost
  <2>2. Encodable(d, get_rate_hz) <=> v \in 0 .. m
    BY DEF Encodable
  <2>3. v \in 0 .. m => ~Refused(d, get_rate_hz)
    <3>1. Refused(d, get_rate_hz) => v > m \/ ~Encodable(d, get_rate_hz)
      BY DEF Refused
    <3> HIDE DEF v, m
    <3>2. QED
      BY <1>2, <2>1, <2>2, <3>1
  <2> HIDE DEF v, m
  <2>4. v % (m + 1) \in Int /\ (v \in 0 .. m => v % (m + 1) = v)
    BY <1>2, <2>1
  <2>5. QED
    BY <2>2, <2>3, <2>4 DEF m
<1> HIDE DEF v, w
<1>8. Follows(d)'
  <2>1. SUFFICES ASSUME Encodable(d, get_rate_hz) PROVE divider'[d] = v
    BY <1>5, <1>6 DEF Follows
  <2>2. QED
    BY <1>3, <1>4, <1>7, <2>1
<1>9. QED
  BY <1>3, <1>4, <1>7, <1>8

\* The places of the walk, one after the other.
LEMMA NextCalled ==
    ASSUME NEW n \in Nat, NEW q \in [1 .. n -> users], NEW j \in 1 .. n, NEW e
    PROVE  Called(q, j + 1, e) <=> (Called(q, j, e) \/ e = q[j])
<1>1. (j + 1) - 1 = j /\ j \in 1 .. j
  OBVIOUS
<1>2. ASSUME Called(q, j + 1, e) PROVE Called(q, j, e) \/ e = q[j]
  <2>1. PICK ix \in 1 .. j : q[ix] = e
    BY <1>1, <1>2 DEF Called
  <2>2. ix \in 1 .. j - 1 \/ ix = j
    OBVIOUS
  <2>3. QED
    BY <2>1, <2>2 DEF Called
<1>3. ASSUME Called(q, j, e) PROVE Called(q, j + 1, e)
  <2>1. PICK ix \in 1 .. j - 1 : q[ix] = e
    BY <1>3 DEF Called
  <2>2. ix \in 1 .. (j + 1) - 1
    OBVIOUS
  <2>3. QED
    BY <2>1, <2>2 DEF Called
<1>4. e = q[j] => Called(q, j + 1, e)
  BY <1>1 DEF Called
<1>5. QED
  BY <1>2, <1>3, <1>4

LEMMA NobodyCalled == \A q, e : ~Called(q, 1, e)
  BY DEF Called

LEMMA AllCalled ==
    ASSUME ListTypes, NEW n, NEW q, OpenList(n, q), NEW e \in users, registered[e] > 0
    PROVE  Called(q, n + 1, e)
<1>1. n \in Nat /\ registered[e] = IF \E ix \in 1 .. n : q[ix] = e THEN 1 ELSE 0
  BY DEF OpenList, NodesInOrder
<1>2. \E ix \in 1 .. n : q[ix] = e
  BY <1>1
<1>3. (n + 1) - 1 = n
  BY <1>1
<1>4. QED
  BY <1>2, <1>3 DEF Called

LEMMA ListsStand ==
    ASSUME users' = users, UNCHANGED listVars
    PROVE  /\ ListTypes => ListTypes'
           /\ \A n, q : (OpenList(n, q) => OpenList(n, q)') /\ (ClosedList(n, q) => ClosedList(n, q)')
  BY DEF listVars, ListTypes, OpenList, ClosedList, NodesInOrder, ListIsSound

LEMMA ListTypesKept ==
    ASSUME ListTypes, users' = users, NEW d \in users, _metal_clock_append_to_callbacks(d)
    PROVE  /\ ListTypes' /\ registered'[d] > 0
           /\ \A e \in users : /\ registered[e] > 0 => registered'[e] > 0
                               /\ registered'[e] > 0 => registered[e] > 0 \/ e = d
<1>1. /\ head' = IF head = Nil THEN d ELSE head
      /\ nextNode' = [m \in users |-> IF head # Nil /\ m \in Ends(Detached(d), head) THEN d ELSE Detached(d)[m]]
      /\ registered' = [registered EXCEPT ![d] = IF @ = 0 THEN 1 ELSE 2]
  BY DEF _metal_clock_append_to_callbacks
<1>2. Detached(d) \in [users -> users \cup {Nil}]
  BY DEF ListTypes, Detached
<1>3. nextNode' \in [users -> users \cup {Nil}] /\ head' \in users \cup {Nil}
  BY <1>1, <1>2 DEF ListTypes
<1>4. registered' \in [users -> 0 .. 2] /\ registered'[d] \in 1 .. 2 /\ \A e \in users : e # d => registered'[e] = registered[e]
  BY <1>1 DEF ListTypes
<1>5. QED
  BY <1>3, <1>4 DEF ListTypes

-----------------------------------------------------------------------------
\* A step that leaves the list and the walk alone.
LEMMA StandsStill ==
    ASSUME ClkIInv, UNCHANGED <<users, listVars, walkVars>>,
           \A q, j : DevicesAt(q, j) => DevicesAt(q, j)'
    PROVE  Standing'
<1>1. phase' = phase /\ node' = node /\ users' = users
  BY DEF walkVars
<1>2. CASE phase = "stuck"
  BY <1>1, <1>2 DEF Standing
<1>3. ASSUME NEW n, NEW q, NEW j, OpenState(n, q, j) PROVE Standing'
  <2>1. OpenList(n, q)' /\ DevicesAt(q, j)'
    BY <1>1, <1>3, ListsStand DEF OpenState
  <2>2. WalkAt(n, q, j)'
    BY <1>1, <1>3 DEF OpenState, WalkAt
  <2>3. OpenState(n, q, j)'
    BY <2>1, <2>2 DEF OpenState
  <2>4. QED
    BY <2>3 DEF Standing
<1>4. ASSUME NEW n, NEW q, NEW j, ClosedState(n, q, j) PROVE Standing'
  <2>1. ClosedList(n, q)'
    BY <1>1, <1>4, ListsStand DEF ClosedState
  <2>2. WalkAt(n, q, j)'
    BY <1>1, <1>4 DEF ClosedState, WalkAt
  <2>3. ClosedState(n, q, j)'
    BY <1>1, <1>4, <2>1, <2>2 DEF ClosedState
  <2>4. QED
    BY <2>3 DEF Standing
<1>5. QED
  BY <1>2, <1>3, <1>4 DEF ClkIInv, Standing

\* A registration outside of a change of the rate.
LEMMA StandsRegistered ==
    ASSUME ClkIInv, phase = "idle", NEW d \in users, _metal_clock_append_to_callbacks(d),
           UNCHANGED <<users, sending>>, phase' = IF Endless(d) THEN "stuck" ELSE phase,
           ~Endless(d) =>
               /\ \A e \in users \ {"pwm"} : registered[e] > 0 /\ e # d /\ Follows(e) => Follows(e)'
               /\ d # "pwm" => Follows(d)'
               /\ ToldRight(pwmDev) => ToldRight(pwmDev)'
               /\ pwmDev'.freq # 0 => pwmDev.freq # 0 \/ d = "pwm"
    PROVE  Standing'
<1>0. ListTypes
  BY DEF ClkIInv, ClkTypes
<1>1. CASE Endless(d)
  BY <1>1 DEF Standing
<1>2. CASE ~Endless(d)
  <2>1. PICK n, q, j : OpenState(n, q, j) \/ ClosedState(n, q, j)
    BY DEF ClkIInv, Standing
  <2>2. OpenList(n, q) \/ ClosedList(n, q)
    BY <2>1 DEF OpenState, ClosedState
  <2>3. /\ \A k \in 1 .. n : q[k] = d => \E p : ClosedList(k, p)' /\ \A ix \in 1 .. k : p[ix] = q[ix]
        /\ ~(\E k \in 1 .. n : q[k] = d) /\ OpenList(n, q) => \E p : OpenList(n + 1, p)'
        /\ Endless(d) <=> ClosedList(n, q) /\ ~(\E k \in 1 .. n : q[k] = d)
    <3>1. users' = users
      OBVIOUS
    <3>2. QED
      BY <1>0, <2>2, <3>1, Registering
  <2>4. phase' = "idle" /\ users' = users /\ sending' = sending
    BY <1>2
  <2>5. ASSUME NEW k \in 1 .. n, q[k] = d PROVE Standing'
    <3>1. PICK p : ClosedList(k, p)'
      BY <2>3, <2>5
    <3>2. k \in Nat /\ k # 0
      BY <3>1 DEF ClosedList, NodesInOrder
    <3>3. ClosedState(k, p, 1)'
      BY <2>4, <3>1, <3>2 DEF ClosedState, WalkAt
    <3>4. QED
      BY <3>3 DEF Standing
  <2>6. ASSUME ~(\E k \in 1 .. n : q[k] = d) PROVE Standing'
    <3>1. OpenState(n, q, j)
      BY <1>2, <2>1, <2>2, <2>3, <2>6 DEF ClosedState
    <3>2. PICK p : OpenList(n + 1, p)'
      BY <2>3, <2>6, <3>1 DEF OpenState
    <3>3. n + 1 \in Nat /\ n \in Nat
      BY <3>1, <3>2 DEF OpenList, NodesInOrder, OpenState
    <3>4. /\ registered'[d] > 0
          /\ \A e \in users : /\ registered[e] > 0 => registered'[e] > 0
                              /\ registered'[e] > 0 => registered[e] > 0 \/ e = d
      BY <1>0, <2>4, ListTypesKept
    <3>5. /\ sending # "no" => "uart" \in users /\ registered["uart"] > 0
          /\ pwmDev.freq # 0 => "pwm" \in users /\ registered["pwm"] > 0
          /\ \A e \in users \ {"pwm"} : registered[e] > 0 => Follows(e)
          /\ ToldRight(pwmDev)
      BY <3>1 DEF OpenState, DevicesAt
    <3>6. \A e \in users \ {"pwm"} : registered'[e] > 0 => Follows(e)'
      <4>1. TAKE e \in users \ {"pwm"}
      <4>2. CASE e = d
        BY <1>2, <4>2
      <4>3. CASE e # d
        BY <1>2, <3>4, <3>5, <4>3
      <4>4. QED
        BY <4>2, <4>3
    <3>7. pwmDev'.freq # 0 => "pwm" \in users /\ registered'["pwm"] > 0
      BY <1>2, <3>4, <3>5
    <3>8. DevicesAt(p, 1)'
      BY <1>2, <2>4, <3>4, <3>5, <3>6, <3>7 DEF DevicesAt
    <3>9. WalkAt(n + 1, p, 1)'
      BY <2>4, <3>3 DEF WalkAt
    <3>10. OpenState(n + 1, p, 1)'
      BY <3>2, <3>8, <3>9 DEF OpenState
    <3>11. QED
      BY <3>10 DEF Standing
  <2>7. QED
    BY <2>5, <2>6
<1>3. QED
  BY <1>1, <1>2

-----------------------------------------------------------------------------
LEMMA RunningIsSet ==
    ASSUME NEW b \in SUBSET RunModes, NEW r \in PwmUnits
    PROVE  /\ [r EXCEPT !.running = b] \in PwmUnits
           /\ [r EXCEPT !.running = b].duty = r.duty /\ [r EXCEPT !.running = b].cmp = r.cmp
           /\ [r EXCEPT !.running = b].freq = r.freq /\ [r EXCEPT !.running = b].count = r.count
           /\ [r EXCEPT !.running = b].scale = r.scale /\ [r EXCEPT !.running = b].running = b
  BY DEF PwmUnits

LEMMA SerialInitStands ==
    ASSUME ClkIInv, NEW d \in users \ {"pwm"}, SerialInit(d)
    PROVE  ClkTypes' /\ Standing'
<1>0. ClockIInv /\ ClkTypes /\ ListTypes
  BY DEF ClkIInv, ClkTypes
<1>1. /\ phase = "idle" /\ _metal_clock_append_to_callbacks(d)
      /\ UNCHANGED <<users, sending, pwmDev>> /\ pll' = pll
      /\ phase' = IF Endless(d) THEN "stuck" ELSE phase
      /\ Endless(d) => divider' = divider
      /\ ~Endless(d) => SetBaudRate(d)
  BY DEF SerialInit, pllVars
<1>2. ~Endless(d) => /\ divider' \in [users -> Int] /\ Follows(d)'
                     /\ \A e \in users : e # d => divider'[e] = divider[e]
  BY <1>0, <1>1, BaudRateIsSet
<1>3. get_rate_hz' = get_rate_hz
  BY <1>0, <1>1, RateStands
<1>4. ClkTypes'
  <2>1. ListTypes'
    BY <1>0, <1>1, ListTypesKept
  <2>2. divider' \in [users' -> Int]
    BY <1>0, <1>1, <1>2 DEF ClkTypes
  <2>3. QED
    BY <1>0, <1>1, <2>1, <2>2 DEF ClkTypes
<1>5. ~Endless(d) =>
          /\ \A e \in users \ {"pwm"} : registered[e] > 0 /\ e # d /\ Follows(e) => Follows(e)'
          /\ ToldRight(pwmDev) => ToldRight(pwmDev)'
  BY <1>1, <1>2, <1>3, SameRate
<1>6. Standing'
  BY <1>1, <1>2, <1>5, StandsRegistered
<1>7. QED
  BY <1>4, <1>6

LEMMA PwmFreqStands ==
    ASSUME ClkIInv, pwm_set_freq
    PROVE  ClkTypes' /\ Standing'
<1>0. ClockIInv /\ ClkTypes /\ ListTypes /\ pwmDev \in PwmUnits
  BY DEF ClkIInv, ClkTypes
<1>1. phase = "idle" /\ "pwm" \in users /\ UNCHANGED <<users, node, divider, sending>> /\ pll' = pll
  BY DEF pwm_set_freq, pllVars
<1>2. phase' = "stuck" => pwmDev' = pwmDev
  BY DEF pwm_set_freq
<1>3. ASSUME phase' # "stuck"
      PROVE  /\ pwmDev' \in PwmUnits /\ ToldRight(pwmDev)'
             /\ pwmDev'.duty = pwmDev.duty /\ pwmDev'.cmp = pwmDev.cmp
  <2>1. PICK f \in PwmRates : pwmDev' = PwmWith(f)
    BY <1>3 DEF pwm_set_freq
  <2>2. f \in Nat \ {0}
    BY ClkConstants
  <2>3. /\ PwmWith(f) \in PwmUnits /\ ToldRight(PwmWith(f))
        /\ PwmWith(f).duty = pwmDev.duty /\ PwmWith(f).cmp = pwmDev.cmp
    BY <1>0, <2>2, RatesAreLow, ClkConstants, FrequencyIsTold
  <2>4. get_rate_hz' = get_rate_hz
    BY <1>0, <1>1, RateStands
  <2>5. ToldRight(pwmDev)'
    BY <2>1, <2>3, <2>4, SameRate
  <2>6. QED
    BY <2>1, <2>3, <2>5
<1>4. pwmDev' \in PwmUnits /\ (pwmDev'.duty = 0 => pwmDev'.cmp = 0)
  BY <1>0, <1>2, <1>3 DEF ClkTypes
<1>5. CASE pwmDev.freq # 0
  <2>1. phase' = phase /\ UNCHANGED listVars
    BY <1>5 DEF pwm_set_freq
  <2>2. ClkTypes'
    BY <1>0, <1>1, <1>4, <2>1, ListsStand DEF ClkTypes
  <2>3. get_rate_hz' = get_rate_hz
    BY <1>0, <1>1, RateStands
  <2>4. ASSUME NEW q, NEW j, DevicesAt(q, j) PROVE DevicesAt(q, j)'
    <3>1. phase' = "idle" /\ sending' = sending /\ registered' = registered /\ users' = users
      BY <1>1, <2>1 DEF listVars
    <3>2. \A d \in users \ {"pwm"} : registered[d] > 0 => Follows(d)
      BY <1>1, <2>4 DEF DevicesAt
    <3>3. \A d \in users \ {"pwm"} : registered[d] > 0 => Follows(d)'
      BY <1>1, <2>3, <3>2, SameRate
    <3>4. ToldRight(pwmDev)'
      BY <1>3, <3>1
    <3>5. /\ sending # "no" => "uart" \in users /\ registered["uart"] > 0
          /\ "pwm" \in users /\ registered["pwm"] > 0
      BY <1>5, <2>4 DEF DevicesAt
    <3>6. QED
      BY <3>1, <3>3, <3>4, <3>5 DEF DevicesAt
  <2>5. Standing'
    BY <1>1, <2>1, <2>4, StandsStill DEF walkVars
  <2>6. QED
    BY <2>2, <2>5
<1>6. CASE pwmDev.freq = 0
  <2>1. _metal_clock_append_to_callbacks("pwm") /\ phase' = IF Endless("pwm") THEN "stuck" ELSE phase
    BY <1>6 DEF pwm_set_freq
  <2>2. ListTypes'
    BY <1>0, <1>1, <2>1, ListTypesKept
  <2>3. ClkTypes'
    BY <1>0, <1>1, <1>4, <2>2 DEF ClkTypes
  <2>4. get_rate_hz' = get_rate_hz
    BY <1>0, <1>1, RateStands
  <2>5. ~Endless("pwm") =>
            /\ \A e \in users \ {"pwm"} : registered[e] > 0 /\ e # "pwm" /\ Follows(e) => Follows(e)'
            /\ ToldRight(pwmDev) => ToldRight(pwmDev)'
    BY <1>1, <1>3, <2>1, <2>4, SameRate
  <2>6. Standing'
    BY <1>1, <2>1, <2>5, StandsRegistered
  <2>7. QED
    BY <2>3, <2>6
<1>7. QED
  BY <1>5, <1>6

\* The steps that are neither a registration nor a part of a change of the rate.
LEMMA OthersStand ==
    ASSUME ClkIInv, putc \/ Line \/ Lock \/ pwm_enable \/ pwm_set_duty \/ pwm_trigger \/ pwm_stop \/ PwmCycleEnds
    PROVE  ClkTypes' /\ Standing'
<1>0. ClockIInv /\ ClkTypes /\ ListTypes /\ pwmDev \in PwmUnits
  BY DEF ClkIInv, ClkTypes
<1>1. /\ UNCHANGED <<users, listVars, walkVars, divider>> /\ (pll' = pll \/ Lock)
      /\ phase' = phase /\ registered' = registered
  BY DEF putc, Line, Lock, pwm_enable, pwm_set_duty, pwm_trigger, pwm_stop, PwmCycleEnds, walkVars, listVars, pllVars
<1>2. get_rate_hz' = get_rate_hz
  BY <1>0, <1>1, RateStands
<1>3. ListTypes'
  BY <1>0, <1>1, ListsStand
<1>4. ASSUME NEW q, NEW j, DevicesAt(q, j), pwmDev' = pwmDev,
             sending' # "no" => "uart" \in users /\ registered["uart"] > 0, sending = "no" => sending' = "no" \/ phase = "idle"
      PROVE  DevicesAt(q, j)'
  <2>1. /\ Drains' <=> Drains
        /\ \A d : Follows(d)' <=> Follows(d)
        /\ ToldRight(pwmDev)' <=> ToldRight(pwmDev)
        /\ DutyKept' <=> DutyKept
        /\ \A d : Called(q, j, d)' <=> Called(q, j, d)
    BY <1>1, <1>2, <1>4, SameRate DEF DutyKept, Called
  <2>2. QED
    BY <1>1, <1>4, <2>1 DEF DevicesAt
<1>5. CASE putc \/ Line \/ Lock
  <2>1. /\ pwmDev' = pwmDev /\ sending' \in {"no", "fifo", "line"}
        /\ sending = "no" => sending' = "no" \/ (phase = "idle" /\ "uart" \in users /\ registered["uart"] > 0)
    BY <1>0, <1>5 DEF putc, Line, Lock, ClkTypes
  <2>2. \A q, j : DevicesAt(q, j) => DevicesAt(q, j)'
    <3>1. SUFFICES ASSUME NEW q, NEW j, DevicesAt(q, j) PROVE DevicesAt(q, j)'
      OBVIOUS
    <3>2. sending' # "no" => "uart" \in users /\ registered["uart"] > 0
      BY <2>1, <3>1 DEF DevicesAt
    <3>3. QED
      BY <1>4, <2>1, <3>1, <3>2
  <2>3. Standing'
    BY <1>1, <2>2, StandsStill
  <2>4. ClkTypes'
    BY <1>0, <1>1, <1>3, <2>1 DEF ClkTypes
  <2>5. QED
    BY <2>3, <2>4
<1>6. CASE pwm_enable \/ pwm_set_duty \/ pwm_trigger \/ pwm_stop \/ PwmCycleEnds
  <2> DEFINE d == pwmDev'
  <2>1. sending' = sending /\ (phase = "idle" \/ PwmCycleEnds)
    BY <1>6 DEF pwm_enable, pwm_set_duty, pwm_trigger, pwm_stop, PwmCycleEnds
  <2>2. /\ d \in PwmUnits /\ (d.duty = 0 => d.cmp = 0)
        /\ d.freq = 0 \/ (d.freq = pwmDev.freq /\ d.count = pwmDev.count /\ d.scale = pwmDev.scale)
    <3>1. CASE pwm_enable
      <4>1. d = [pwmDev EXCEPT !.freq = 0, !.count = 0, !.scale = {}, !.running = {}]
        BY <3>1 DEF pwm_enable
      <4> HIDE DEF d
      <4>2. d \in PwmUnits /\ d.freq = 0 /\ d.duty = pwmDev.duty /\ d.cmp = pwmDev.cmp
        <5>1. PICK f \in Nat, c \in Int, s \in SUBSET (0 .. 3), b \in SUBSET RunModes :
                  f = 0 /\ c = 0 /\ s = {} /\ b = {}
          <6>1. 0 \in Nat /\ 0 \in Int /\ {} \in SUBSET (0 .. 3) /\ {} \in SUBSET RunModes
            OBVIOUS
          <6>2. QED
            BY <6>1, Zenon
        <5>2. f \in Nat /\ c \in Int /\ s \in SUBSET (0 .. 3) /\ b \in SUBSET RunModes
          OBVIOUS
        <5>3. d = [pwmDev EXCEPT !.freq = f, !.count = c, !.scale = s, !.running = b]
          BY <4>1, <5>1
        <5>4. d \in PwmUnits /\ d.freq = f /\ d.duty = pwmDev.duty /\ d.cmp = pwmDev.cmp
          BY <1>0, <5>2, <5>3 DEF PwmUnits
        <5>5. QED
          BY <5>1, <5>4
      <4>3. QED
        BY <1>0, <4>2 DEF ClkTypes
    <3>2. CASE pwm_set_duty
      <4>1. PICK u \in PwmDuties : d = [pwmDev EXCEPT !.duty = u, !.cmp = CompareFor(u, pwmDev.count)]
        BY <3>2 DEF pwm_set_duty
      <4> DEFINE c == CompareFor(u, pwmDev.count)
      <4>2. d = [pwmDev EXCEPT !.duty = u, !.cmp = c]
        BY <4>1
      <4>3. u \in 0 .. 100 /\ c \in Int /\ (u = 0 => c = 0)
        <5>1. u \in 0 .. 100 /\ pwmDev.count \in Int
          BY <1>0, ClkConstants DEF PwmUnits
        <5>2. QED
          BY <5>1, CompareIsNumber
      <4> HIDE DEF d, c
      <4>4. /\ d \in PwmUnits /\ d.duty = u /\ d.cmp = c
            /\ d.freq = pwmDev.freq /\ d.count = pwmDev.count /\ d.scale = pwmDev.scale
        BY <1>0, <4>2, <4>3 DEF PwmUnits
      <4>5. QED
        BY <4>3, <4>4
    <3>3. CASE pwm_trigger \/ pwm_stop \/ PwmCycleEnds
      <4>1. PICK b \in SUBSET RunModes : d = [pwmDev EXCEPT !.running = b]
        <5>1. ASSUME NEW m \in RunModes
              PROVE  pwmDev.running \cup {m} \in SUBSET RunModes /\ pwmDev.running \ {m} \in SUBSET RunModes
          BY <1>0 DEF PwmUnits
        <5>2. "always" \in RunModes /\ "oneshot" \in RunModes
          BY DEF RunModes
        <5>3. CASE pwm_trigger
          BY <5>1, <5>3 DEF pwm_trigger
        <5>4. CASE pwm_stop
          BY <5>1, <5>2, <5>4 DEF pwm_stop, PwmStopped
        <5>5. CASE PwmCycleEnds
          BY <5>1, <5>2, <5>5 DEF PwmCycleEnds
        <5>6. QED
          BY <3>3, <5>3, <5>4, <5>5
      <4> HIDE DEF d
      <4>2. /\ d \in PwmUnits /\ d.duty = pwmDev.duty /\ d.cmp = pwmDev.cmp
            /\ d.freq = pwmDev.freq /\ d.count = pwmDev.count /\ d.scale = pwmDev.scale
        <5> DEFINE r == [pwmDev EXCEPT !.running = b]
        <5>2. /\ r \in PwmUnits /\ r.duty = pwmDev.duty /\ r.cmp = pwmDev.cmp
              /\ r.freq = pwmDev.freq /\ r.count = pwmDev.count /\ r.scale = pwmDev.scale
          BY <1>0, RunningIsSet, Zenon
        <5>3. d = r
          BY <4>1
        <5> HIDE DEF r
        <5>4. QED
          BY <5>2, <5>3
      <4>3. QED
        BY <1>0, <4>2 DEF ClkTypes
    <3>4. QED
      BY <1>6, <3>1, <3>2, <3>3
  <2>8. ASSUME phase # "idle"
        PROVE  d.running \subseteq pwmDev.running /\ (DutyKept' <=> DutyKept)
    <3> DEFINE b == pwmDev.running \ {"oneshot"}
               r == [pwmDev EXCEPT !.running = b]
    <3>1. d = r
      BY <2>1, <2>8 DEF PwmCycleEnds
    <3>2. b \in SUBSET RunModes /\ b \subseteq pwmDev.running
      BY <1>0 DEF PwmUnits
    <3>3. r.duty = pwmDev.duty /\ r.cmp = pwmDev.cmp /\ r.count = pwmDev.count /\ r.running = b
      BY <1>0, <3>2, RunningIsSet, Zenon
    <3> HIDE DEF d, r, b
    <3>4. d.duty = pwmDev.duty /\ d.cmp = pwmDev.cmp /\ d.count = pwmDev.count /\ d.running = b
      BY <3>1, <3>3
    <3>5. QED
      BY <3>2, <3>4 DEF d, DutyKept
  <2>3. ToldRight(pwmDev) => ToldRight(pwmDev)'
    <3>1. CASE d.freq = 0
      BY <3>1 DEF ToldRight
    <3>2. CASE d.freq # 0
      BY <1>2, <2>2, <3>2, SameRate
    <3>3. QED
      BY <3>1, <3>2
  <2>4. \A q, j : DevicesAt(q, j) => DevicesAt(q, j)'
    <3>1. SUFFICES ASSUME NEW q, NEW j, DevicesAt(q, j) PROVE DevicesAt(q, j)'
      OBVIOUS
    <3>2. \A e : Follows(e)' <=> Follows(e)
      BY <1>1, <1>2, SameRate
    <3>3. d.freq # 0 => pwmDev.freq # 0
      BY <2>2
    <3>4. \A e : Called(q, j, e)' <=> Called(q, j, e)
      BY <1>1 DEF Called
    <3>5. CASE phase = "idle"
      BY <1>1, <2>1, <2>3, <3>1, <3>2, <3>3, <3>5 DEF DevicesAt
    <3>6. CASE phase # "idle"
      <4>1. /\ Drains' <=> Drains
            /\ "always" \notin pwmDev.running => "always" \notin d.running
            /\ DutyKept' <=> DutyKept
        BY <1>2, <2>8, <3>6, SameRate
      <4>2. QED
        BY <1>1, <2>1, <2>3, <3>1, <3>2, <3>3, <3>4, <3>6, <4>1 DEF DevicesAt
    <3>7. QED
      BY <3>5, <3>6
  <2>5. Standing'
    BY <1>1, <2>4, StandsStill
  <2>6. ClkTypes'
    BY <1>0, <1>1, <1>3, <2>1, <2>2 DEF ClkTypes
  <2>7. QED
    BY <2>5, <2>6
<1>7. QED
  BY <1>5, <1>6

-----------------------------------------------------------------------------
\* A walk that is at Nil has passed an open list.
LEMMA WalkIsOver ==
    ASSUME ClkTypes, phase \in {"pre", "post"}, NEW n, NEW q, NEW j, OpenState(n, q, j) \/ ClosedState(n, q, j), node = Nil
    PROVE  OpenState(n, q, j) /\ j = n + 1 /\ \A e \in users : registered[e] > 0 => Called(q, j, e)
<1>0. ListTypes /\ Nil \notin users
  BY DEF ClkTypes, ListTypes, Nil
<1>1. n \in Nat /\ q \in [1 .. n -> users] /\ j \in 1 .. n + 1 /\ node = IF j = n + 1 THEN Nil ELSE q[j]
  BY DEF OpenState, ClosedState, OpenList, ClosedList, NodesInOrder, WalkAt
<1>2. j = n + 1
  <2>1. j # n + 1 => j \in 1 .. n
    BY <1>1
  <2>2. QED
    BY <1>0, <1>1, <2>1
<1>3. OpenState(n, q, j)
  BY <1>2 DEF ClosedState
<1>4. QED
  BY <1>0, <1>2, <1>3, AllCalled DEF OpenState

\* A walk that is at a node is at one of the list's.
LEMMA WalkGoesOn ==
    ASSUME ClkTypes, phase \in {"pre", "post"}, NEW n, NEW q, NEW j, OpenState(n, q, j) \/ ClosedState(n, q, j), node # Nil
    PROVE  /\ n \in Nat /\ q \in [1 .. n -> users] /\ j \in 1 .. n /\ node = q[j] /\ node \in users
           /\ OpenState(n, q, j) => nextNode[node] = IF j + 1 = n + 1 THEN Nil ELSE q[j + 1]
           /\ ClosedState(n, q, j) => \E k \in 1 .. n : nextNode[node] = q[k]
<1>1. n \in Nat /\ q \in [1 .. n -> users] /\ j \in 1 .. n + 1 /\ node = IF j = n + 1 THEN Nil ELSE q[j]
  BY DEF OpenState, ClosedState, OpenList, ClosedList, NodesInOrder, WalkAt
<1>2. j \in 1 .. n /\ node = q[j] /\ node \in users
  BY <1>1
<1>3. j # n => nextNode[q[j]] = q[j + 1] /\ j + 1 \in 1 .. n
  <2>1. SUFFICES ASSUME j # n PROVE nextNode[q[j]] = q[j + 1] /\ j + 1 \in 1 .. n
    OBVIOUS
  <2>2. j \in 1 .. n - 1 /\ j + 1 \in 1 .. n
    BY <1>1, <1>2, <2>1
  <2>3. NodesInOrder(n, q)
    BY DEF OpenState, ClosedState, OpenList, ClosedList
  <2>4. QED
    BY <2>2, <2>3 DEF NodesInOrder
<1>4. OpenState(n, q, j) => nextNode[node] = IF j + 1 = n + 1 THEN Nil ELSE q[j + 1]
  <2>1. SUFFICES ASSUME OpenState(n, q, j) PROVE nextNode[node] = IF j + 1 = n + 1 THEN Nil ELSE q[j + 1]
    OBVIOUS
  <2>2. j = n => nextNode[q[j]] = Nil
    BY <1>1, <1>2, <2>1 DEF OpenState, OpenList
  <2>3. j + 1 = n + 1 <=> j = n
    BY <1>1, <1>2
  <2>4. QED
    BY <1>2, <1>3, <2>2, <2>3
<1>5. ClosedState(n, q, j) => \E k \in 1 .. n : nextNode[node] = q[k]
  <2>1. SUFFICES ASSUME ClosedState(n, q, j) PROVE \E k \in 1 .. n : nextNode[node] = q[k]
    OBVIOUS
  <2>2. j = n => nextNode[q[j]] = q[j]
    BY <1>1, <1>2, <2>1 DEF ClosedState, ClosedList
  <2>3. QED
    BY <1>2, <1>3, <2>2
<1>6. QED
  BY <1>1, <1>2, <1>4, <1>5

-----------------------------------------------------------------------------
\* What all the steps of a change of the rate that do not call anything leave alone.
LEMMA TypesStay ==
    ASSUME ClkTypes, UNCHANGED <<users, listVars, divider, sending, pwmDev>>
    PROVE  ClkTypes'
<1>1. ListTypes'
  BY ListsStand DEF ClkTypes
<1>2. QED
  BY <1>1 DEF ClkTypes

LEMMA SetRateStands ==
    ASSUME ClkIInv, SetRate
    PROVE  ClkTypes' /\ Standing'
<1>1. /\ phase = "idle" /\ phase' = "pre" /\ node' = head /\ UNCHANGED <<users, listVars, divider, sending, pwmDev>>
      /\ users' = users /\ registered' = registered /\ head' = head
  BY DEF SetRate, listVars
<1>2. ClkTypes /\ ClkTypes'
  BY <1>1, TypesStay DEF ClkIInv
<1>3. PICK n, q, j : OpenState(n, q, j) \/ ClosedState(n, q, j)
  BY <1>1 DEF ClkIInv, Standing
<1>4. n \in Nat /\ head = IF n = 0 THEN Nil ELSE q[1]
  BY <1>3 DEF OpenState, ClosedState, OpenList, ClosedList, NodesInOrder
<1>5. WalkAt(n, q, 1)'
  BY <1>1, <1>4 DEF WalkAt
<1>6. CASE OpenState(n, q, j)
  <2>1. DevicesAt(q, 1)'
    <3>1. ~Called(q, 1, "uart")' /\ ~Called(q, 1, "pwm")'
      BY NobodyCalled DEF Called
    <3>2. QED
      BY <1>1, <1>6, <3>1 DEF OpenState, DevicesAt
  <2>2. OpenList(n, q)'
    BY <1>1, <1>6, ListsStand DEF OpenState
  <2>3. OpenState(n, q, 1)'
    BY <1>5, <2>1, <2>2 DEF OpenState
  <2>4. QED
    BY <1>2, <2>3 DEF Standing
<1>7. CASE ClosedState(n, q, j)
  <2>1. ClosedList(n, q)' /\ n # 0
    BY <1>1, <1>7, ListsStand DEF ClosedState, ClosedList
  <2>2. ClosedState(n, q, 1)'
    BY <1>1, <1>4, <1>5, <2>1 DEF ClosedState
  <2>3. QED
    BY <1>2, <2>2 DEF Standing
<1>8. QED
  BY <1>3, <1>6, <1>7

LEMMA PreCallbackStands ==
    ASSUME ClkIInv, PreCallback
    PROVE  ClkTypes' /\ Standing'
<1>0. ClockIInv /\ ClkTypes /\ pwmDev \in PwmUnits
  BY DEF ClkIInv, ClkTypes
<1>1. /\ phase = "pre" /\ phase' = "pre" /\ node # Nil /\ ~PreWaits(node) /\ node' = nextNode[node]
      /\ UNCHANGED <<users, listVars, divider, sending>> /\ pll' = pll
      /\ users' = users /\ registered' = registered
      /\ pwmDev' = IF node = "pwm" THEN PwmStopped ELSE pwmDev
  BY DEF PreCallback, pllVars, listVars
<1>2. /\ pwmDev' \in PwmUnits /\ pwmDev'.duty = pwmDev.duty /\ pwmDev'.cmp = pwmDev.cmp /\ pwmDev'.freq = pwmDev.freq
      /\ node = "pwm" => "always" \notin pwmDev'.running
      /\ node # "pwm" => pwmDev' = pwmDev
  <2>1. CASE node = "pwm"
    <3> DEFINE d == pwmDev'
               b == pwmDev.running \ {"always"}
               r == [pwmDev EXCEPT !.running = b]
    <3>1. d = r
      BY <1>1, <2>1 DEF PwmStopped
    <3>2. b \in SUBSET RunModes /\ "always" \notin b
      BY <1>0 DEF PwmUnits
    <3>3. r \in PwmUnits /\ r.duty = pwmDev.duty /\ r.cmp = pwmDev.cmp /\ r.freq = pwmDev.freq /\ r.running = b
      BY <1>0, <3>2, RunningIsSet, Zenon
    <3> HIDE DEF d, r, b
    <3>4. d \in PwmUnits /\ d.duty = pwmDev.duty /\ d.cmp = pwmDev.cmp /\ d.freq = pwmDev.freq /\ "always" \notin d.running
      BY <3>1, <3>2, <3>3
    <3>5. QED
      BY <2>1, <3>4 DEF d
  <2>2. CASE node # "pwm"
    BY <1>0, <1>1, <2>2
  <2>3. QED
    BY <2>1, <2>2
<1>3. ClkTypes'
  <2>1. ListTypes'
    BY <1>0, <1>1, ListsStand DEF ClkTypes
  <2>2. QED
    BY <1>0, <1>1, <1>2, <2>1 DEF ClkTypes
<1>4. PICK n, q, j : OpenState(n, q, j) \/ ClosedState(n, q, j)
  BY <1>1 DEF ClkIInv, Standing
<1>5. /\ n \in Nat /\ q \in [1 .. n -> users] /\ j \in 1 .. n /\ node = q[j] /\ node \in users
      /\ OpenState(n, q, j) => nextNode[node] = IF j + 1 = n + 1 THEN Nil ELSE q[j + 1]
      /\ ClosedState(n, q, j) => \E k \in 1 .. n : nextNode[node] = q[k]
  BY <1>0, <1>1, <1>4, WalkGoesOn
<1>6. CASE OpenState(n, q, j)
  <2>1. OpenList(n, q)' /\ DevicesAt(q, j)
    BY <1>1, <1>6, ListsStand DEF OpenState
  <2>2. WalkAt(n, q, j + 1)'
    <3>1. j + 1 \in 1 .. n + 1
      BY <1>5
    <3>2. QED
      BY <1>1, <1>5, <1>6, <3>1 DEF WalkAt
  <2>3. \A e : Called(q, j + 1, e)' => Called(q, j, e) \/ e = node
    <3>1. \A e : Called(q, j + 1, e) => Called(q, j, e) \/ e = node
      BY <1>5, NextCalled
    <3>2. QED
      BY <3>1 DEF Called
  <2>4. node = "uart" => sending = "no" \/ ~Drains
    BY <1>0, <1>1 DEF PreWaits, ClkTypes
  <2>5. Drains' <=> Drains
    BY <1>0, <1>1, RateStands, SameRate
  <2>6. Called(q, j + 1, "uart")' => sending' = "no" \/ ~Drains'
    BY <1>1, <2>1, <2>3, <2>4, <2>5 DEF DevicesAt
  <2>7. Called(q, j + 1, "pwm")' => "always" \notin pwmDev'.running
    BY <1>1, <1>2, <2>1, <2>3 DEF DevicesAt
  <2>8. DevicesAt(q, j + 1)'
    BY <1>1, <1>2, <2>1, <2>6, <2>7 DEF DevicesAt
  <2>9. OpenState(n, q, j + 1)'
    BY <2>1, <2>2, <2>8 DEF OpenState
  <2>10. QED
    BY <1>3, <2>9 DEF Standing
<1>7. CASE ClosedState(n, q, j)
  <2>1. PICK k \in 1 .. n : nextNode[node] = q[k]
    BY <1>5, <1>7
  <2>2. ClosedList(n, q)'
    BY <1>1, <1>7, ListsStand DEF ClosedState
  <2>3. k \in 1 .. n + 1 /\ k # n + 1
    BY <1>5
  <2>4. ClosedState(n, q, k)'
    BY <1>1, <2>1, <2>2, <2>3 DEF ClosedState, WalkAt
  <2>5. QED
    BY <1>3, <2>4 DEF Standing
<1>8. QED
  BY <1>4, <1>6, <1>7

\* The PLL's steps: between the walks there is no call, and the list ends.
LEMMA PllStepsStand ==
    ASSUME ClkIInv, Deselect \/ Configure \/ AwaitPllLock \/ Select
    PROVE  ClkTypes' /\ Standing'
<1>0. ClockIInv /\ ClkTypes
  BY DEF ClkIInv
<1>1. UNCHANGED <<users, listVars, divider, sending, pwmDev>> /\ users' = users /\ registered' = registered /\ head' = head
  BY DEF Deselect, Configure, AwaitPllLock, Select, listVars
<1>2. ClkTypes'
  BY <1>0, <1>1, TypesStay
<1>3. PICK n, q, j : OpenState(n, q, j) \/ ClosedState(n, q, j)
  BY DEF ClkIInv, Standing, Deselect, Configure, AwaitPllLock, Select
<1>4. OpenState(n, q, j) /\ (pwmDev.freq # 0 => "always" \notin pwmDev.running)
  <2>1. CASE Deselect
    <3>1. phase = "pre" /\ node = Nil
      BY <2>1 DEF Deselect
    <3>2. OpenState(n, q, j) /\ \A e \in users : registered[e] > 0 => Called(q, j, e)
      BY <1>0, <1>3, <3>1, WalkIsOver
    <3>3. QED
      BY <3>1, <3>2 DEF OpenState, DevicesAt
  <2>2. CASE Configure \/ AwaitPllLock \/ Select
    <3>1. phase \in {"config", "lock", "select"}
      BY <2>2 DEF Configure, AwaitPllLock, Select
    <3>2. OpenState(n, q, j)
      BY <1>3, <3>1 DEF ClosedState
    <3>3. QED
      BY <3>1, <3>2 DEF OpenState, DevicesAt
  <2>3. QED
    BY <2>1, <2>2
<1>5. n \in Nat /\ head = IF n = 0 THEN Nil ELSE q[1]
  BY <1>4 DEF OpenState, OpenList, NodesInOrder
<1>6. phase' \in {"config", "lock", "select"} \/ (phase' = "post" /\ node' = head)
  BY DEF Deselect, Configure, AwaitPllLock, Select
<1>7. WalkAt(n, q, 1)'
  BY <1>1, <1>5, <1>6 DEF WalkAt
<1>8. DevicesAt(q, 1)'
  <2>1. \A e : ~Called(q, 1, e)'
    BY NobodyCalled DEF Called
  <2>2. QED
    BY <1>1, <1>4, <1>6, <2>1 DEF OpenState, DevicesAt
<1>9. OpenList(n, q)'
  BY <1>1, <1>4, ListsStand DEF OpenState
<1>10. OpenState(n, q, 1)'
  BY <1>7, <1>8, <1>9 DEF OpenState
<1>11. QED
  BY <1>2, <1>10 DEF Standing

\* I2C's callback closes the list.
LEMMA I2cClosesList ==
    ASSUME ClkIInv, PostCallback, node = "i2c"
    PROVE  ClkTypes' /\ Standing'
<1>0. ClockIInv /\ ClkTypes /\ ListTypes
  BY DEF ClkIInv, ClkTypes
<1>1. /\ phase = "post" /\ node # Nil /\ node' = nextNode'[node] /\ _metal_clock_append_to_callbacks(node)
      /\ phase' = IF Endless(node) THEN "stuck" ELSE phase
      /\ SetBaudRate(node) /\ pwmDev' = pwmDev /\ sending' = sending /\ users' = users /\ pll' = pll
  BY DEF PostCallback, Reregisters, Nil, pllVars
<1>2. PICK n, q, j : OpenState(n, q, j) \/ ClosedState(n, q, j)
  BY <1>1 DEF ClkIInv, Standing
<1>3. n \in Nat /\ q \in [1 .. n -> users] /\ j \in 1 .. n /\ node = q[j] /\ node \in users
  BY <1>0, <1>1, <1>2, WalkGoesOn
<1>4. OpenList(n, q) \/ ClosedList(n, q)
  BY <1>2 DEF OpenState, ClosedState
<1>5. /\ \A k \in 1 .. n : q[k] = node => \E p : ClosedList(k, p)' /\ \A ix \in 1 .. k : p[ix] = q[ix]
      /\ Endless(node) <=> ClosedList(n, q) /\ ~(\E k \in 1 .. n : q[k] = node)
  BY <1>0, <1>1, <1>3, <1>4, Registering
<1>6. PICK p : ClosedList(j, p)' /\ \A ix \in 1 .. j : p[ix] = q[ix]
  BY <1>3, <1>5
<1>7. phase' = "post"
  BY <1>1, <1>3, <1>5
<1>8. j \in Nat /\ j # 0 /\ p[j] = node /\ nextNode'[node] = p[j]
  <2>1. j \in 1 .. j
    BY <1>3
  <2>2. p[j] = node
    BY <1>3, <1>6, <2>1
  <2>3. nextNode'[p[j]] = p[j]
    BY <1>6 DEF ClosedList
  <2>4. QED
    BY <1>3, <2>2, <2>3
<1>9. ClosedState(j, p, j)'
  <2>1. j \in 1 .. j + 1 /\ j # j + 1
    BY <1>8
  <2>2. QED
    BY <1>1, <1>6, <1>7, <1>8, <2>1 DEF ClosedState, WalkAt
<1>10. ClkTypes'
  <2>1. ListTypes'
    BY <1>0, <1>1, <1>3, ListTypesKept
  <2>2. divider' \in [users -> Int]
    BY <1>0, <1>1, <1>3, BaudRateIsSet
  <2>3. QED
    BY <1>0, <1>1, <2>1, <2>2 DEF ClkTypes
<1>11. QED
  BY <1>9, <1>10 DEF Standing

LEMMA PostCallbackStands ==
    ASSUME ClkIInv, PostCallback, node # "i2c"
    PROVE  ClkTypes' /\ Standing'
<1>0. ClockIInv /\ ClkTypes /\ ListTypes /\ pwmDev \in PwmUnits
  BY DEF ClkIInv, ClkTypes
<1>1. /\ phase = "post" /\ node # Nil /\ node' = nextNode[node] /\ UNCHANGED listVars
      /\ phase' = phase /\ registered' = registered
      /\ IF node = "pwm" THEN divider' = divider ELSE SetBaudRate(node)
      /\ pwmDev' = IF node = "pwm" /\ pwmDev.freq # 0 THEN PwmRestored ELSE pwmDev
      /\ sending' = sending /\ users' = users /\ pll' = pll
  BY DEF PostCallback, Reregisters, pllVars, listVars
<1>2. PICK n, q, j : OpenState(n, q, j) \/ ClosedState(n, q, j)
  BY <1>1 DEF ClkIInv, Standing
<1>3. /\ n \in Nat /\ q \in [1 .. n -> users] /\ j \in 1 .. n /\ node = q[j] /\ node \in users
      /\ OpenState(n, q, j) => nextNode[node] = IF j + 1 = n + 1 THEN Nil ELSE q[j + 1]
      /\ ClosedState(n, q, j) => \E k \in 1 .. n : nextNode[node] = q[k]
  BY <1>0, <1>1, <1>2, WalkGoesOn
<1>4. get_rate_hz' = get_rate_hz
  BY <1>0, <1>1, RateStands
<1>5. /\ divider' \in [users -> Int]
      /\ \A e \in users : e # node => divider'[e] = divider[e]
      /\ \A e \in users \ {"pwm"} : e = node => Follows(e)'
  <2>1. CASE node = "pwm"
    BY <1>0, <1>1, <2>1 DEF ClkTypes
  <2>2. CASE node # "pwm"
    <3>1. PICK d \in users : d = node
      BY <1>3
    <3>2. SetBaudRate(d)
      BY <1>1, <2>2, <3>1
    <3>3. /\ divider' \in [users -> Int] /\ Follows(d)'
          /\ \A e \in users : e # d => divider'[e] = divider[e]
      BY <1>0, <1>1, <3>2, BaudRateIsSet
    <3>4. QED
      BY <3>1, <3>3
  <2>3. QED
    BY <2>1, <2>2
<1>6. /\ pwmDev' \in PwmUnits /\ (pwmDev'.duty = 0 => pwmDev'.cmp = 0)
      /\ pwmDev'.running = pwmDev.running /\ (pwmDev'.freq # 0 => pwmDev.freq # 0)
      /\ node = "pwm" => ToldRight(pwmDev)' /\ (pwmDev'.freq # 0 => DutyKept')
      /\ node # "pwm" => pwmDev' = pwmDev
  <2>1. CASE node = "pwm" /\ pwmDev.freq # 0
    <3>1. pwmDev' = PwmRestored
      BY <1>1, <2>1
    <3>2. /\ PwmRestored \in PwmUnits /\ ToldRight(PwmRestored)
          /\ PwmRestored.running = pwmDev.running
          /\ PwmRestored.duty = 0 => PwmRestored.cmp = 0
          /\ PwmRestored.cmp = CompareFor(PwmRestored.duty, PwmRestored.count)
      BY <1>0, <2>1, PwmIsRestored
    <3>3. ToldRight(pwmDev)'
      BY <1>4, <3>1, <3>2, SameRate
    <3>4. DutyKept'
      BY <3>1, <3>2 DEF DutyKept, CompareFor
    <3>5. QED
      BY <2>1, <3>1, <3>2, <3>3, <3>4
  <2>2. CASE node = "pwm" /\ pwmDev.freq = 0
    <3>1. pwmDev' = pwmDev
      BY <1>1, <2>2
    <3>2. ToldRight(pwmDev)'
      BY <2>2, <3>1 DEF ToldRight
    <3>3. QED
      BY <1>0, <2>2, <3>1, <3>2 DEF ClkTypes
  <2>3. CASE node # "pwm"
    BY <1>0, <1>1, <2>3 DEF ClkTypes
  <2>4. QED
    BY <2>1, <2>2, <2>3
<1>7. ClkTypes'
  <2>1. ListTypes'
    BY <1>0, <1>1, ListsStand
  <2>2. sending' \in {"no", "fifo", "line"} /\ divider' \in [users' -> Int]
    BY <1>0, <1>1, <1>5 DEF ClkTypes
  <2>3. QED
    BY <1>6, <2>1, <2>2 DEF ClkTypes
<1>8. CASE OpenState(n, q, j)
  <2>1. OpenList(n, q)' /\ DevicesAt(q, j)
    BY <1>1, <1>8, ListsStand DEF OpenState
  <2>2. WalkAt(n, q, j + 1)'
    <3>1. j + 1 \in 1 .. n + 1
      BY <1>3
    <3>2. QED
      BY <1>1, <1>3, <1>8, <3>1 DEF WalkAt
  <2>3. \A e : Called(q, j + 1, e)' => Called(q, j, e) \/ e = node
    <3>1. \A e : Called(q, j + 1, e) => Called(q, j, e) \/ e = node
      BY <1>3, NextCalled
    <3>2. QED
      BY <3>1 DEF Called
  <2>4. ~Called(q, j + 1, "i2c")'
    BY <1>1, <2>1, <2>3 DEF DevicesAt
  <2>5. ASSUME NEW d \in users \ {"pwm"}, Called(q, j + 1, d)' PROVE Follows(d)'
    <3>1. CASE d = node
      BY <1>5, <3>1
    <3>2. CASE d # node
      <4>1. Follows(d)
        BY <1>1, <2>1, <2>3, <2>5, <3>2 DEF DevicesAt
      <4>2. divider'[d] = divider[d]
        BY <1>5, <3>2
      <4>3. QED
        BY <1>4, <4>1, <4>2, SameRate
    <3>3. QED
      BY <3>1, <3>2
  <2>6. ASSUME Called(q, j + 1, "pwm")' PROVE ToldRight(pwmDev)' /\ (pwmDev'.freq # 0 => DutyKept')
    <3>1. CASE node = "pwm"
      BY <1>6, <3>1
    <3>2. CASE node # "pwm"
      <4>1. ToldRight(pwmDev) /\ (pwmDev.freq # 0 => DutyKept) /\ pwmDev' = pwmDev
        BY <1>1, <1>6, <2>1, <2>3, <2>6, <3>2 DEF DevicesAt
      <4>2. ToldRight(pwmDev)'
        BY <1>4, <4>1, SameRate
      <4>3. QED
        BY <4>1, <4>2 DEF DutyKept
    <3>3. QED
      BY <3>1, <3>2
  <2>7. /\ sending # "no" => "uart" \in users /\ registered["uart"] > 0
        /\ pwmDev.freq # 0 => "pwm" \in users /\ registered["pwm"] > 0
        /\ pwmDev.freq # 0 => "always" \notin pwmDev.running
    BY <1>1, <2>1 DEF DevicesAt
  <2>8. DevicesAt(q, j + 1)'
    BY <1>1, <1>6, <2>4, <2>5, <2>6, <2>7 DEF DevicesAt
  <2>9. OpenState(n, q, j + 1)'
    BY <2>1, <2>2, <2>8 DEF OpenState
  <2>10. QED
    BY <1>7, <2>9 DEF Standing
<1>9. CASE ClosedState(n, q, j)
  <2>1. PICK k \in 1 .. n : nextNode[node] = q[k]
    BY <1>3, <1>9
  <2>2. ClosedList(n, q)'
    BY <1>1, <1>9, ListsStand DEF ClosedState
  <2>3. k \in 1 .. n + 1 /\ k # n + 1
    BY <1>3
  <2>4. ClosedState(n, q, k)'
    BY <1>1, <2>1, <2>2, <2>3 DEF ClosedState, WalkAt
  <2>5. QED
    BY <1>7, <2>4 DEF Standing
<1>10. QED
  BY <1>2, <1>8, <1>9

\* What a change of the rate has done when it returns.
LEMMA ReturnsDone ==
    ASSUME ClkTypes, Standing, phase = "post", node = Nil
    PROVE  \E n, q, j : /\ OpenState(n, q, j)
                        /\ \A d \in users \ {"pwm"} : registered[d] > 0 => Follows(d)
                        /\ pwmDev.freq # 0 => "always" \notin pwmDev.running /\ DutyKept
                        /\ ToldRight(pwmDev)
                        /\ "i2c" \in users => ~(registered["i2c"] > 0)
<1>1. PICK n, q, j : OpenState(n, q, j) \/ ClosedState(n, q, j)
  BY DEF Standing
<1>2. OpenState(n, q, j) /\ \A e \in users : registered[e] > 0 => Called(q, j, e)
  BY <1>1, WalkIsOver
<1>3. DevicesAt(q, j)
  BY <1>2 DEF OpenState
<1>4. /\ \A d \in users \ {"pwm"} : registered[d] > 0 => Follows(d)
      /\ pwmDev.freq # 0 => "always" \notin pwmDev.running /\ DutyKept
      /\ "i2c" \in users => ~(registered["i2c"] > 0)
  BY <1>2, <1>3 DEF DevicesAt
<1>5. ToldRight(pwmDev)
  <2>1. CASE pwmDev.freq # 0
    BY <1>2, <1>3, <2>1 DEF DevicesAt
  <2>2. CASE pwmDev.freq = 0
    BY <2>2 DEF ToldRight
  <2>3. QED
    BY <2>1, <2>2
<1>6. QED
  BY <1>2, <1>4, <1>5

LEMMA ReturnStands ==
    ASSUME ClkIInv, Return
    PROVE  ClkTypes' /\ Standing'
<1>0. ClockIInv /\ ClkTypes /\ Standing
  BY DEF ClkIInv
<1>1. /\ phase = "post" /\ node = Nil /\ phase' = "idle" /\ pll' = pll
      /\ UNCHANGED <<users, listVars, divider, sending, pwmDev>> /\ users' = users /\ registered' = registered
  BY DEF Return, listVars, pllVars
<1>2. ClkTypes'
  BY <1>0, <1>1, TypesStay
<1>3. PICK n, q, j : /\ OpenState(n, q, j)
                     /\ \A d \in users \ {"pwm"} : registered[d] > 0 => Follows(d)
                     /\ ToldRight(pwmDev)
  BY <1>0, <1>1, ReturnsDone
<1>4. get_rate_hz' = get_rate_hz
  BY <1>0, <1>1, RateStands
<1>5. ToldRight(pwmDev)' /\ \A d \in users \ {"pwm"} : registered[d] > 0 => Follows(d)'
  BY <1>1, <1>3, <1>4, SameRate
<1>6. DevicesAt(q, j)'
  BY <1>1, <1>3, <1>5 DEF OpenState, DevicesAt
<1>7. OpenList(n, q)' /\ WalkAt(n, q, j)'
  BY <1>1, <1>3, ListsStand DEF OpenState, WalkAt
<1>8. OpenState(n, q, j)'
  BY <1>6, <1>7 DEF OpenState
<1>9. QED
  BY <1>2, <1>8 DEF Standing

-----------------------------------------------------------------------------
LEMMA ClkStarts == ClkInit => ClkIInv
<1>1. SUFFICES ASSUME ClkInit PROVE ClkIInv
  OBVIOUS
<1>2. /\ users \subseteq {"uart", "spi", "i2c", "pwm"} /\ phase = "idle"
      /\ head = Nil /\ nextNode = [d \in users |-> Nil]
      /\ registered = [d \in users |-> 0] /\ divider = [d \in users |-> 0] /\ sending = "no"
      /\ pwmDev = [freq |-> 0, count |-> 0, scale |-> {}, running |-> {}, duty |-> 0, cmp |-> 0]
  BY <1>1 DEF ClkInit
<1>3. pwmDev \in PwmUnits /\ pwmDev.freq = 0 /\ pwmDev.cmp = 0
  BY <1>2 DEF PwmUnits
<1>4. ClkTypes
  BY <1>2, <1>3 DEF ClkTypes, ListTypes
<1>5. PICK q : q = [ix \in 1 .. 0 |-> Nil]
  OBVIOUS
<1>6. OpenList(0, q)
  <2>1. q \in [1 .. 0 -> users]
    BY <1>5
  <2>2. NodesInOrder(0, q)
    BY <1>2, <2>1 DEF NodesInOrder
  <2>3. QED
    BY <1>2, <2>2 DEF OpenList
<1>7. DevicesAt(q, 1)
  BY <1>2, <1>3 DEF DevicesAt, ToldRight
<1>8. OpenState(0, q, 1)
  BY <1>2, <1>6, <1>7 DEF OpenState, WalkAt
<1>9. QED
  BY <1>1, <1>4, <1>8, ClockStarts DEF ClkIInv, Standing

LEMMA ClockKept == ClockIInv /\ [ClkNext]_clkVars => ClockIInv'
<1>1. SUFFICES ASSUME ClockIInv, [ClkNext]_clkVars PROVE ClockIInv'
  OBVIOUS
<1>2. CASE UNCHANGED clkVars
  BY <1>1, <1>2, ClockStands DEF clkVars, walkVars
<1>3. CASE \E d \in users \ {"pwm"} : SerialInit(d)
  <2>1. UNCHANGED pllVars /\ (phase' = phase \/ phase' = "stuck")
    BY <1>3 DEF SerialInit
  <2>2. QED
    BY <1>1, <2>1, ClockStands
<1>4. CASE putc \/ Line \/ pwm_enable \/ pwm_set_freq \/ pwm_set_duty \/ pwm_trigger \/ pwm_stop \/ PwmCycleEnds
  <2>1. UNCHANGED pllVars /\ (phase' = phase \/ phase' = "stuck")
    BY <1>4 DEF putc, Line, pwm_enable, pwm_set_freq, pwm_set_duty, pwm_trigger, pwm_stop, PwmCycleEnds, walkVars
  <2>2. QED
    BY <1>1, <2>1, ClockStands
<1>5. CASE PreCallback \/ AwaitPllLock \/ PostCallback \/ Return
  <2>1. UNCHANGED pllVars
    BY <1>5 DEF PreCallback, AwaitPllLock, PostCallback, Return
  <2>2. phase' = phase \/ phase' = "stuck" \/ (phase = "post" /\ phase' = "idle") \/ (phase = "lock" /\ pll.locked /\ phase' = "select")
    BY <1>5 DEF PreCallback, AwaitPllLock, PostCallback, Return, LockSeen
  <2>3. QED
    BY <1>1, <2>1, <2>2, ClockStands
<1>6. CASE SetRate \/ Lock \/ Deselect \/ Configure \/ Select
  BY <1>1, <1>6, RateChangeKeepsClock
<1>7. QED
  BY <1>1, <1>2, <1>3, <1>4, <1>5, <1>6 DEF ClkNext, RateChange

LEMMA ClkKept == ClkIInv /\ [ClkNext]_clkVars => ClkIInv'
<1>1. SUFFICES ASSUME ClkIInv, [ClkNext]_clkVars PROVE ClkTypes' /\ Standing'
  BY ClockKept DEF ClkIInv
<1>2. CASE UNCHANGED clkVars
  <2>1. /\ UNCHANGED <<users, listVars, walkVars, divider, sending, pwmDev>> /\ pll' = pll
        /\ phase' = phase /\ registered' = registered /\ users' = users
    BY <1>2 DEF clkVars, walkVars, listVars, pllVars
  <2>2. ClkTypes'
    BY <1>1, <2>1, TypesStay DEF ClkIInv
  <2>3. get_rate_hz' = get_rate_hz
    BY <1>1, <2>1, RateStands DEF ClkIInv
  <2>4. ASSUME NEW q, NEW j, DevicesAt(q, j) PROVE DevicesAt(q, j)'
    <3>1. /\ Drains' <=> Drains
          /\ \A d : Follows(d)' <=> Follows(d)
          /\ ToldRight(pwmDev)' <=> ToldRight(pwmDev)
          /\ DutyKept' <=> DutyKept
          /\ \A d : Called(q, j, d)' <=> Called(q, j, d)
      BY <2>1, <2>3, SameRate DEF DutyKept, Called
    <3>2. QED
      BY <2>1, <2>4, <3>1 DEF DevicesAt
  <2>5. QED
    BY <1>1, <2>1, <2>2, <2>4, StandsStill
<1>3. ASSUME NEW d \in users \ {"pwm"}, SerialInit(d) PROVE ClkTypes' /\ Standing'
  BY <1>1, <1>3, SerialInitStands
<1>4. CASE pwm_set_freq
  BY <1>1, <1>4, PwmFreqStands
<1>5. CASE putc \/ Line \/ Lock \/ pwm_enable \/ pwm_set_duty \/ pwm_trigger \/ pwm_stop \/ PwmCycleEnds
  BY <1>1, <1>5, OthersStand
<1>6. CASE SetRate
  BY <1>1, <1>6, SetRateStands
<1>7. CASE PreCallback
  BY <1>1, <1>7, PreCallbackStands
<1>8. CASE Deselect \/ Configure \/ AwaitPllLock \/ Select
  BY <1>1, <1>8, PllStepsStand
<1>9. CASE PostCallback
  BY <1>1, <1>9, I2cClosesList, PostCallbackStands
<1>10. CASE Return
  BY <1>1, <1>10, ReturnStands
<1>11. QED
  BY <1>1, <1>2, <1>3, <1>4, <1>5, <1>6, <1>7, <1>8, <1>9, <1>10 DEF ClkNext, RateChange

\* Between two changes of the rate, if nobody registered twice.
LEMMA StandingIsRight ==
    ASSUME ClkIInv
    PROVE  CoreClockIsStable /\ ReportsClosest /\ DividersFollow /\ PwmNoFasterThanTold
<1>1. CoreClockIsStable /\ ReportsClosest
  BY ClosestIsReported DEF ClkIInv, ClockIInv
<1>2. ASSUME phase = "idle", ListIsSound
      PROVE  (\A d \in users \ {"pwm"} : registered[d] > 0 => Follows(d)) /\ ToldRight(pwmDev)
  <2>1. PICK n, q, j : OpenState(n, q, j) \/ ClosedState(n, q, j)
    BY <1>2 DEF ClkIInv, Standing
  <2>2. OpenState(n, q, j)
    BY <1>2, <2>1 DEF ClosedState, ClosedList
  <2>3. QED
    BY <1>2, <2>2 DEF OpenState, DevicesAt
<1>3. DividersFollow
  BY <1>2 DEF DividersFollow, Follows
<1>4. PwmNoFasterThanTold
  BY <1>2 DEF PwmNoFasterThanTold, ToldRight
<1>5. QED
  BY <1>1, <1>3, <1>4

\* Which steps end the first walk and the change of the rate.
LEMMA WalksEndWith ==
    ASSUME ClkNext
    PROVE  /\ phase = "pre" /\ phase' = "config" => Deselect
           /\ phase = "post" /\ phase' = "idle" => Return
<1>1. CASE \E d \in users \ {"pwm"} : SerialInit(d)
  BY <1>1 DEF SerialInit
<1>2. CASE putc \/ Line \/ Lock
  BY <1>2 DEF putc, Line, Lock, walkVars
<1>3. CASE pwm_enable \/ pwm_set_freq \/ pwm_set_duty \/ pwm_trigger \/ pwm_stop \/ PwmCycleEnds
  BY <1>3 DEF pwm_enable, pwm_set_freq, pwm_set_duty, pwm_trigger, pwm_stop, PwmCycleEnds, walkVars
<1>4. CASE SetRate \/ PreCallback \/ Configure \/ AwaitPllLock \/ Select
  BY <1>4 DEF SetRate, PreCallback, Configure, AwaitPllLock, Select
<1>5. CASE PostCallback
  BY <1>5 DEF PostCallback
<1>6. CASE Deselect
  BY <1>6 DEF Deselect
<1>7. CASE Return
  BY <1>7 DEF Return
<1>8. QED
  BY <1>1, <1>2, <1>3, <1>4, <1>5, <1>6, <1>7 DEF ClkNext, RateChange

LEMMA ChangeIsRight ==
    ASSUME ClkIInv, ClkNext
    PROVE  /\ phase = "pre" /\ phase' = "config" /\ sending # "no" => ~Drains
           /\ phase = "post" /\ phase' = "idle" =>
                  /\ pwmDev.freq # 0 => "always" \notin pwmDev.running /\ DutyKept
                  /\ "i2c" \notin users \/ registered["i2c"] = 0
<1>1. ClkTypes /\ Standing
  BY DEF ClkIInv
<1>2. ASSUME phase = "pre", phase' = "config", sending # "no" PROVE ~Drains
  <2>1. node = Nil
    BY <1>2, WalksEndWith DEF Deselect
  <2>2. PICK n, q, j : OpenState(n, q, j) \/ ClosedState(n, q, j)
    BY <1>1, <1>2 DEF Standing
  <2>3. OpenState(n, q, j) /\ \A e \in users : registered[e] > 0 => Called(q, j, e)
    BY <1>1, <1>2, <2>1, <2>2, WalkIsOver
  <2>4. QED
    BY <1>2, <2>3 DEF OpenState, DevicesAt
<1>3. ASSUME phase = "post", phase' = "idle"
      PROVE  /\ pwmDev.freq # 0 => "always" \notin pwmDev.running /\ DutyKept
             /\ "i2c" \notin users \/ registered["i2c"] = 0
  <2>1. node = Nil
    BY <1>3, WalksEndWith DEF Return
  <2>2. /\ pwmDev.freq # 0 => "always" \notin pwmDev.running /\ DutyKept
        /\ "i2c" \in users => ~(registered["i2c"] > 0)
    BY <1>1, <1>3, <2>1, ReturnsDone
  <2>3. "i2c" \in users => registered["i2c"] \in 0 .. 2
    BY <1>1 DEF ClkTypes, ListTypes
  <2>4. QED
    BY <2>2, <2>3
<1>4. QED
  BY <1>2, <1>3

\* What a step of a change of the rate does to the modes that the PWM unit runs in.
LEMMA NoRestart ==
    ASSUME ClkIInv, ClkNext, phase # "idle"
    PROVE  pwmDev'.running \subseteq pwmDev.running
<1>0. ClockIInv /\ ClkTypes /\ pwmDev \in PwmUnits
  BY DEF ClkIInv, ClkTypes
<1> DEFINE Shrinks(m) == [pwmDev EXCEPT !.running = @ \ {m}]
<1>1. ASSUME NEW m \in RunModes PROVE Shrinks(m).running \subseteq pwmDev.running
  <2> DEFINE b == pwmDev.running \ {m}
             r == [pwmDev EXCEPT !.running = b]
  <2>1. b \in SUBSET RunModes /\ b \subseteq pwmDev.running
    BY <1>0 DEF PwmUnits
  <2>2. r.running = b
    BY <1>0, <2>1, RunningIsSet, Zenon
  <2>3. Shrinks(m) = r
    OBVIOUS
  <2> HIDE DEF r, b, Shrinks
  <2>4. QED
    BY <2>1, <2>2, <2>3
<1>2. CASE PreCallback
  <2>1. pwmDev' = pwmDev \/ pwmDev' = Shrinks("always")
    BY <1>2 DEF PreCallback, PwmStopped
  <2>2. "always" \in RunModes
    BY DEF RunModes
  <2> HIDE DEF Shrinks
  <2>3. QED
    BY <1>1, <2>1, <2>2
<1>3. CASE PwmCycleEnds
  <2>1. pwmDev' = Shrinks("oneshot")
    BY <1>3 DEF PwmCycleEnds
  <2>2. "oneshot" \in RunModes
    BY DEF RunModes
  <2> HIDE DEF Shrinks
  <2>3. QED
    BY <1>1, <2>1, <2>2
<1>4. CASE PostCallback
  <2>1. node = "pwm" \/ node # "pwm"
    OBVIOUS
  <2>2. pwmDev' = IF node = "pwm" /\ pwmDev.freq # 0 THEN PwmRestored ELSE pwmDev
    BY <1>4 DEF PostCallback
  <2>3. pwmDev.freq # 0 => PwmRestored.running = pwmDev.running
    BY <1>0, PwmIsRestored
  <2>4. QED
    BY <2>2, <2>3
<1>5. CASE \E d \in users \ {"pwm"} : SerialInit(d)
  BY <1>5 DEF SerialInit
<1>6. CASE putc \/ Line \/ Lock
  BY <1>6 DEF putc, Line, Lock
<1>7. CASE pwm_enable \/ pwm_set_freq \/ pwm_set_duty \/ pwm_trigger \/ pwm_stop \/ SetRate
  BY <1>7 DEF pwm_enable, pwm_set_freq, pwm_set_duty, pwm_trigger, pwm_stop, SetRate
<1>8. CASE Deselect \/ Configure \/ AwaitPllLock \/ Select \/ Return
  BY <1>8 DEF Deselect, Configure, AwaitPllLock, Select, Return
<1>9. QED
  BY <1>2, <1>3, <1>4, <1>5, <1>6, <1>7, <1>8 DEF ClkNext, RateChange

(* sifive_fe310-g000_pll.c:253-384, clock.h:63-79, and the callbacks of the   *)
(* UART, SPI, I2C and PWM drivers: for any rates that follow one another, any *)
(* drivers that a program uses and any order in which they registered, the    *)
(* core never runs from a PLL that has not locked and tells the closest rate; *)
(* the dividers fit it and the PWM unit is no faster than it tells; no byte   *)
(* is on the line when the rate changes; and no PWM unit runs on after the    *)
(* change but for a one-shot's cycle, and it has its duty.  Where I2C         *)
(* registered, a change never returns.                                       *)
THEOREM DevicesFollowClock == ClkSpec => DevicesFollow /\ I2cRateChangeNeverReturns
<1>1. ClkInit => ClkIInv
  BY ClkStarts
<1>2. ClkIInv /\ [ClkNext]_clkVars => ClkIInv'
  BY ClkKept
<1>3. ClkIInv => CoreClockIsStable /\ ReportsClosest /\ DividersFollow /\ PwmNoFasterThanTold
  BY StandingIsRight
<1>4. ClkIInv /\ [ClkNext]_clkVars => [phase = "pre" /\ phase' = "config" /\ sending # "no" => ~Drains]_clkVars
  BY ChangeIsRight
<1>5. ClkIInv /\ [ClkNext]_clkVars => [phase = "post" /\ phase' = "idle" /\ pwmDev.freq # 0 => "always" \notin pwmDev.running]_clkVars
  BY ChangeIsRight
<1>6. ClkIInv /\ [ClkNext]_clkVars => [phase # "idle" => pwmDev'.running \subseteq pwmDev.running]_clkVars
  BY NoRestart
<1>7. ClkIInv /\ [ClkNext]_clkVars =>
          [phase = "post" /\ phase' = "idle" /\ ListIsSound /\ pwmDev.freq # 0 =>
              pwmDev.cmp = CompareFor(pwmDev.duty, pwmDev.count)]_clkVars
  BY ChangeIsRight DEF DutyKept
<1>8. ClkIInv /\ [ClkNext]_clkVars =>
          [phase = "post" /\ phase' = "idle" => "i2c" \notin users \/ registered["i2c"] = 0]_clkVars
  BY ChangeIsRight
<1>9. QED
  BY <1>1, <1>2, <1>3, <1>4, <1>5, <1>6, <1>7, <1>8, PTL
     DEF ClkSpec, DevicesFollow, BytesSurviveRateChange, PwmSilentAfterChange, DutySurvivesChange, I2cRateChangeNeverReturns

-----------------------------------------------------------------------------
(* I2C (sifive_i2c0.c)                                                       *)

\* A transfer whose refused byte is forgotten: it reads after it has written.
Forgets == call.kind = "transfer" /\ dir = "rx" /\ call.tx > 0 /\ call.rx > 0

BusTypes ==
    /\ call.kind \in {"none", "write", "read", "transfer"}
    /\ call.kind \in {"write", "read"} => call.len \in Nat /\ call.stop \in BOOLEAN
    /\ call.kind = "transfer" => call.tx \in Nat /\ call.rx \in Nat
    /\ at \in {"idle", "free", "address", "next", "data"} /\ dir \in {"tx", "rx"} /\ i \in Nat
    /\ tip \in BOOLEAN /\ nack \in BOOLEAN /\ held \in BOOLEAN /\ refused \in BOOLEAN

\* A direction is one that the call has, and a transfer has bytes in it.
DirAccount ==
    at # "idle" =>
        /\ call.kind # "none" /\ ~Nothing(call)
        /\ call.kind = "write" => dir = "tx"
        /\ call.kind = "read" => dir = "rx"
        /\ call.kind = "transfer" => Len0 > 0

\* The command that a wait is for, and what it leaves of the bus.
CommandAccount ==
    /\ at = "address" => cmd.start = TRUE /\ cmd.stop = FALSE /\ i = 0
    /\ at = "next" => ~tip /\ i < Len0
    /\ at = "data" => cmd.start = FALSE /\ i < Len0 /\ (cmd.stop <=> LastByte(i) /\ StopsAfter(call, dir))
    /\ at \in {"address", "data"} /\ ~tip => (held <=> ~cmd.stop)

\* A byte that was refused is seen by the next look at RXACK, unless it is forgotten.
RefusedAccount ==
    refused => \/ at = "idle" /\ ret # "ok"
               \/ at = "idle" /\ call.kind = "transfer" /\ call.tx > 0 /\ call.rx > 0
               \/ at # "idle" /\ Forgets
               \/ at = "address" /\ nack /\ ~tip
               \/ at = "data" /\ dir = "tx" /\ nack /\ ~tip

\* A call that returned OK had waited for its last command.
BusAccount ==
    (at = "idle" /\ ret = "ok" /\ call.kind # "none" /\ ~Nothing(call)) => ~tip /\ BusLeftAsAsked

I2cAccount == BusTypes /\ DirAccount /\ CommandAccount /\ RefusedAccount /\ BusAccount

NoOverlap == cmd' # cmd => ~tip

-----------------------------------------------------------------------------
LEMMA CallsOfI2c ==
    ASSUME NEW c \in I2cCalls
    PROVE  /\ c.kind \in {"write", "read", "transfer"}
           /\ c.kind \in {"write", "read"} => c.len \in Nat /\ c.stop \in BOOLEAN
           /\ c.kind = "transfer" => c.tx \in Nat /\ c.rx \in Nat
<1>1. Lengths \subseteq Nat
  BY I2cBytesAssumption DEF Lengths
<1>2. CASE c \in [kind : {"write", "read"}, len : Lengths, stop : BOOLEAN]
  BY <1>1, <1>2
<1>3. CASE c \in [kind : {"transfer"}, tx : Lengths, rx : Lengths]
  BY <1>1, <1>3
<1>4. QED
  BY <1>2, <1>3 DEF I2cCalls

LEMMA I2cStart == I2c0Init => I2cAccount
<1>1. SUFFICES ASSUME I2c0Init PROVE I2cAccount
  OBVIOUS
<1>2. call.kind = "none" /\ at = "idle" /\ dir = "tx" /\ i = 0 /\ tip = FALSE /\ nack = FALSE /\ held = FALSE /\ refused = FALSE
  BY <1>1 DEF I2c0Init
<1>3. QED
  BY <1>2 DEF I2cAccount, BusTypes, DirAccount, CommandAccount, RefusedAccount, BusAccount

\* The controller's shift, and time.
LEMMA ShiftsKeepI2c ==
    ASSUME I2cAccount, Initialise \/ Shifts \/ SecondPasses \/ PollsBusy
    PROVE  I2cAccount' /\ NoOverlap
<1>0. BusTypes /\ DirAccount /\ CommandAccount /\ RefusedAccount /\ BusAccount
  BY DEF I2cAccount
<1>1. UNCHANGED <<call, at, dir, i, ret, cmd>>
  BY DEF Initialise, Shifts, SecondPasses, PollsBusy, callVars, coreVars
<1>2. NoOverlap
  BY <1>1 DEF NoOverlap
<1>3. CASE Shifts
  <2>1. /\ tip /\ ~tip' /\ held' = ~cmd.stop
        /\ \/ dir = "rx" /\ ~cmd.start /\ nack' = nack /\ refused' = refused
           \/ ~(dir = "rx" /\ ~cmd.start) /\ nack' \in BOOLEAN /\ refused' = (refused \/ (at \in {"address", "data"} /\ nack'))
    BY <1>3 DEF Shifts
  <2>2. BusTypes'
    <3>1. tip' \in BOOLEAN /\ held' \in BOOLEAN
      BY <1>3 DEF Shifts
    <3>2. nack' \in BOOLEAN /\ refused' \in BOOLEAN
      BY <1>0, <2>1 DEF BusTypes
    <3>3. QED
      BY <1>0, <1>1, <3>1, <3>2 DEF BusTypes
  <2>3. DirAccount'
    BY <1>0, <1>1 DEF DirAccount, Len0
  <2>4. CommandAccount'
    BY <1>0, <1>1, <2>1 DEF CommandAccount, Len0, LastByte
  <2>5. RefusedAccount'
    BY <1>0, <1>1, <2>1 DEF RefusedAccount, CommandAccount, BusTypes, Forgets
  <2>6. BusAccount'
    BY <1>0, <1>1, <2>1 DEF BusAccount
  <2>7. QED
    BY <1>2, <2>2, <2>3, <2>4, <2>5, <2>6 DEF I2cAccount
<1>4. CASE Initialise \/ SecondPasses \/ PollsBusy
  <2>1. UNCHANGED <<tip, nack, held, refused>>
    BY <1>4 DEF Initialise, SecondPasses, PollsBusy, coreVars
  <2>2. QED
    BY <1>0, <1>1, <1>2, <2>1 DEF I2cAccount, BusTypes, DirAccount, Len0, CommandAccount, LastByte, RefusedAccount, Forgets, BusAccount, BusLeftAsAsked
<1>5. QED
  BY <1>3, <1>4

LEMMA CallKeepsI2c ==
    ASSUME I2cAccount, Call
    PROVE  I2cAccount' /\ NoOverlap
<1>0. BusTypes /\ DirAccount /\ CommandAccount /\ RefusedAccount /\ BusAccount
  BY DEF I2cAccount
<1>1. /\ call' \in I2cCalls /\ refused' = FALSE /\ UNCHANGED <<cmd, tip, nack, held>>
      /\ IF ready /\ ~Nothing(call') THEN dir' = Starts(call') /\ at' = "free" /\ UNCHANGED <<i, ret>>
         ELSE /\ ret' \in (IF ready THEN {"ok", "error"} ELSE {"error"})
              /\ UNCHANGED <<at, dir, i>> /\ at = "idle"
  BY DEF Call, WaitFrom, coreVars
<1>2. /\ call'.kind \in {"write", "read", "transfer"}
      /\ call'.kind \in {"write", "read"} => call'.len \in Nat /\ call'.stop \in BOOLEAN
      /\ call'.kind = "transfer" => call'.tx \in Nat /\ call'.rx \in Nat
  BY <1>1, CallsOfI2c
<1>3. BusTypes'
  BY <1>0, <1>1, <1>2 DEF BusTypes, Starts
<1>4. CASE ready /\ ~Nothing(call')
  <2>1. at' = "free" /\ dir' = Starts(call')
    BY <1>1, <1>4
  <2>2. DirAccount'
    BY <1>2, <1>4, <2>1 DEF DirAccount, Len0, Starts, Nothing, TxLen, RxLen
  <2>3. CommandAccount' /\ RefusedAccount' /\ BusAccount'
    BY <1>1, <2>1 DEF CommandAccount, RefusedAccount, BusAccount
  <2>4. QED
    BY <1>1, <1>3, <2>2, <2>3 DEF I2cAccount, NoOverlap
<1>5. CASE ~(ready /\ ~Nothing(call'))
  <2>1. at' = "idle" /\ (ret' = "ok" => Nothing(call'))
    BY <1>1, <1>5
  <2>2. DirAccount' /\ CommandAccount' /\ RefusedAccount' /\ BusAccount'
    BY <1>1, <2>1 DEF DirAccount, CommandAccount, RefusedAccount, BusAccount
  <2>3. QED
    BY <1>1, <1>3, <2>2 DEF I2cAccount, NoOverlap
<1>6. QED
  BY <1>4, <1>5

LEMMA GivingUpKeepsI2c ==
    ASSUME I2cAccount, GiveUp
    PROVE  I2cAccount' /\ NoOverlap
<1>0. BusTypes
  BY DEF I2cAccount
<1>1. at' = "idle" /\ ret' = "error" /\ UNCHANGED <<call, dir, i, cmd, tip, nack, held, refused>>
  BY DEF GiveUp, coreVars
<1>2. BusTypes'
  BY <1>0, <1>1 DEF BusTypes
<1>3. QED
  BY <1>1, <1>2 DEF I2cAccount, DirAccount, CommandAccount, RefusedAccount, BusAccount, NoOverlap

LEMMA CommandsKeepI2c ==
    ASSUME I2cAccount, SendAddress \/ NextByte
    PROVE  I2cAccount' /\ NoOverlap
<1>0. BusTypes /\ DirAccount /\ CommandAccount /\ RefusedAccount /\ BusAccount
  BY DEF I2cAccount
<1>1. UNCHANGED <<call, dir, ret, nack, held, refused>> /\ tip' = TRUE
  BY DEF SendAddress, NextByte, Command
<1>2. CASE SendAddress
  <2>1. at = "free" /\ ~tip /\ cmd' = [start |-> TRUE, stop |-> FALSE] /\ at' = "address" /\ i' = 0
    BY <1>2 DEF SendAddress, Free, Command, WaitFrom
  <2>2. BusTypes'
    BY <1>0, <1>1, <2>1 DEF BusTypes
  <2>3. DirAccount' /\ CommandAccount'
    BY <1>0, <1>1, <2>1 DEF DirAccount, CommandAccount, Len0
  <2>4. RefusedAccount' /\ BusAccount'
    BY <1>0, <1>1, <2>1 DEF RefusedAccount, BusAccount, Forgets
  <2>5. QED
    BY <2>1, <2>2, <2>3, <2>4 DEF I2cAccount, NoOverlap
<1>3. CASE NextByte
  <2>1. at = "next" /\ cmd' = [start |-> FALSE, stop |-> LastByte(i) /\ StopsAfter(call, dir)] /\ at' = "data" /\ i' = i
    BY <1>3 DEF NextByte, Command, WaitFrom
  <2>2. BusTypes'
    BY <1>0, <1>1, <2>1 DEF BusTypes
  <2>3. ~tip /\ i < Len0
    BY <1>0, <2>1 DEF CommandAccount
  <2>4. cmd'.start = FALSE /\ (cmd'.stop <=> LastByte(i) /\ StopsAfter(call, dir))
    BY <2>1
  <2>5. Len0' = Len0 /\ (LastByte(i)' <=> LastByte(i))
    BY <1>1, <2>1 DEF Len0, LastByte
  <2>6. CommandAccount'
    <3>1. StopsAfter(call, dir)' = StopsAfter(call, dir)
      BY <1>1
    <3>2. QED
      BY <1>1, <2>1, <2>3, <2>4, <2>5, <3>1 DEF CommandAccount
  <2>7. DirAccount' /\ RefusedAccount' /\ BusAccount'
    BY <1>0, <1>1, <2>1, <2>5 DEF DirAccount, RefusedAccount, BusAccount, Forgets
  <2>8. QED
    BY <2>2, <2>3, <2>6, <2>7 DEF I2cAccount, NoOverlap
<1>4. QED
  BY <1>2, <1>3

\* How a direction ends: the call goes on to read, or returns.
LEMMA FinishKeepsI2c ==
    ASSUME I2cAccount, at # "idle", NEW r \in {"ok", "error"}, Finish(r), UNCHANGED <<call, cmd, tip, nack, held, refused>>, i' \in Nat,
           r = "ok" /\ ~ReadsOn(dir) => ~tip /\ (refused => Forgets) /\ (held <=> IF call.kind = "transfer" THEN FALSE ELSE call.len = 0 \/ ~call.stop)
    PROVE  I2cAccount' /\ NoOverlap
<1>0. BusTypes /\ DirAccount /\ CommandAccount /\ RefusedAccount /\ BusAccount
  BY DEF I2cAccount
<1>1. CASE ReadsOn(dir)
  <2>1. dir' = "rx" /\ at' = "free" /\ ret' = ret /\ call.kind = "transfer" /\ dir = "tx" /\ call.rx > 0
    BY <1>1 DEF Finish, WaitFrom, ReadsOn
  <2>2. call.tx > 0
    BY <1>0, <2>1 DEF DirAccount, Len0, TxLen
  <2>3. BusTypes'
    BY <1>0, <2>1 DEF BusTypes
  <2>4. DirAccount'
    BY <1>0, <2>1, <2>2 DEF DirAccount, Len0, RxLen, Nothing
  <2>5. CommandAccount' /\ RefusedAccount' /\ BusAccount'
    BY <2>1, <2>2 DEF CommandAccount, RefusedAccount, BusAccount, Forgets
  <2>6. QED
    BY <2>3, <2>4, <2>5 DEF I2cAccount, NoOverlap
<1>2. CASE ~ReadsOn(dir)
  <2>1. at' = "idle" /\ ret' = r /\ dir' = dir
    BY <1>2 DEF Finish
  <2>2. BusTypes'
    BY <1>0, <2>1 DEF BusTypes
  <2>3. DirAccount' /\ CommandAccount'
    BY <2>1 DEF DirAccount, CommandAccount
  <2>4. RefusedAccount' /\ BusAccount'
    BY <1>2, <2>1 DEF RefusedAccount, BusAccount, BusLeftAsAsked, Forgets
  <2>5. QED
    BY <2>2, <2>3, <2>4 DEF I2cAccount, NoOverlap
<1>3. QED
  BY <1>1, <1>2

LEMMA AddressKeepsI2c ==
    ASSUME I2cAccount, AddressSent
    PROVE  I2cAccount' /\ NoOverlap
<1>0. BusTypes /\ DirAccount /\ CommandAccount /\ RefusedAccount /\ BusAccount
  BY DEF I2cAccount
<1>1. at = "address" /\ ~tip /\ UNCHANGED <<call, i, cmd, tip, nack, held, refused>>
  BY DEF AddressSent, coreVars
<1>2. CASE nack
  <2>1. at' = "idle" /\ ret' = "error" /\ dir' = dir
    BY <1>2 DEF AddressSent, AddressRefused
  <2>2. BusTypes'
    BY <1>0, <1>1, <2>1 DEF BusTypes
  <2>3. QED
    BY <1>1, <2>1, <2>2 DEF I2cAccount, DirAccount, CommandAccount, RefusedAccount, BusAccount, NoOverlap
<1>3. ~nack => (refused => Forgets) /\ held
  BY <1>0, <1>1 DEF RefusedAccount, CommandAccount
<1>4. CASE ~nack /\ Len0 = 0
  <2>1. Finish("ok")
    BY <1>4 DEF AddressSent, AddressRefused
  <2>2. call.kind \in {"write", "read"} /\ call.len = 0
    BY <1>0, <1>1, <1>4 DEF DirAccount, BusTypes, Len0, TxLen, RxLen
  <2>3. i' \in Nat /\ ~tip /\ (refused => Forgets) /\ (held <=> IF call.kind = "transfer" THEN FALSE ELSE call.len = 0 \/ ~call.stop)
    BY <1>0, <1>1, <1>3, <1>4, <2>2 DEF BusTypes
  <2>4. QED
    BY <1>1, <2>1, <2>3, FinishKeepsI2c
<1>5. CASE ~nack /\ Len0 # 0
  <2>1. at' = "next" /\ UNCHANGED <<dir, ret>>
    BY <1>5 DEF AddressSent, AddressRefused
  <2>2. Len0 > 0
    BY <1>0, <1>1, <1>5 DEF BusTypes, DirAccount, Len0, TxLen, RxLen
  <2>3. Len0' = Len0 /\ i' = i
    BY <1>1, <2>1 DEF Len0
  <2>4. BusTypes'
    BY <1>0, <1>1, <2>1 DEF BusTypes
  <2>5. DirAccount' /\ RefusedAccount' /\ BusAccount'
    BY <1>0, <1>1, <1>3, <1>5, <2>1, <2>3 DEF DirAccount, RefusedAccount, BusAccount, Forgets
  <2>6. CommandAccount'
    BY <1>0, <1>1, <2>1, <2>2, <2>3 DEF CommandAccount
  <2>7. QED
    BY <1>1, <2>4, <2>5, <2>6 DEF I2cAccount, NoOverlap
<1>6. QED
  BY <1>2, <1>4, <1>5

LEMMA BytesKeepI2c ==
    ASSUME I2cAccount, ByteDone
    PROVE  I2cAccount' /\ NoOverlap
<1>0. BusTypes /\ DirAccount /\ CommandAccount /\ RefusedAccount /\ BusAccount
  BY DEF I2cAccount
<1>1. at = "data" /\ ~tip /\ i' = i + 1 /\ UNCHANGED <<call, cmd, tip, nack, held, refused>>
  BY DEF ByteDone, coreVars
<1>2. i' \in Nat /\ i < Len0 /\ (cmd.stop <=> LastByte(i) /\ StopsAfter(call, dir)) /\ (held <=> ~cmd.stop)
  BY <1>0, <1>1 DEF BusTypes, CommandAccount
<1>3. Len0 \in Nat /\ call.kind \in {"write", "read", "transfer"}
  BY <1>0, <1>1 DEF BusTypes, DirAccount, Len0, TxLen, RxLen
<1>4. CASE dir = "tx" /\ nack
  <2>1. Finish("error")
    BY <1>4 DEF ByteDone
  <2>2. QED
    BY <1>1, <1>2, <2>1, FinishKeepsI2c
<1>5. CASE ~(dir = "tx" /\ nack)
  <2>1. refused => Forgets
    BY <1>0, <1>1, <1>5 DEF RefusedAccount
  <2>2. CASE i' = Len0
    <3>1. Finish("ok")
      BY <1>5, <2>2 DEF ByteDone
    <3>2. LastByte(i)
      BY <1>0, <1>1, <1>3, <2>2 DEF LastByte, BusTypes
    <3>3. ~ReadsOn(dir) => (held <=> IF call.kind = "transfer" THEN FALSE ELSE call.len = 0 \/ ~call.stop)
      <4>1. SUFFICES ASSUME ~ReadsOn(dir) PROVE held <=> IF call.kind = "transfer" THEN FALSE ELSE call.len = 0 \/ ~call.stop
        OBVIOUS
      <4>2. held <=> ~StopsAfter(call, dir)
        BY <1>2, <3>2
      <4>3. CASE call.kind = "transfer"
        <5>1. dir = "rx" \/ call.rx = 0
          BY <1>0, <4>1, <4>3 DEF ReadsOn, BusTypes
        <5>2. QED
          BY <4>2, <4>3, <5>1 DEF StopsAfter
      <4>4. CASE call.kind # "transfer"
        <5>1. call.len # 0
          BY <1>0, <1>1, <1>2, <1>3, <4>4 DEF BusTypes, DirAccount, Len0, TxLen, RxLen
        <5>2. QED
          BY <4>2, <4>4, <5>1 DEF StopsAfter
      <4>5. QED
        BY <4>3, <4>4
    <3>4. QED
      BY <1>1, <1>2, <2>1, <3>1, <3>3, FinishKeepsI2c
  <2>3. CASE i' # Len0
    <3>1. at' = "next" /\ UNCHANGED <<dir, ret>>
      BY <1>5, <2>3 DEF ByteDone
    <3>2. i' < Len0 /\ Len0' = Len0
      BY <1>0, <1>1, <1>2, <1>3, <2>3, <3>1 DEF BusTypes, Len0
    <3>3. BusTypes'
      BY <1>0, <1>1, <1>2, <3>1 DEF BusTypes
    <3>4. DirAccount'
      BY <1>0, <1>1, <3>1, <3>2 DEF DirAccount
    <3>5. CommandAccount'
      BY <1>1, <3>1, <3>2 DEF CommandAccount
    <3>6. RefusedAccount' /\ BusAccount'
      BY <1>1, <2>1, <3>1 DEF RefusedAccount, BusAccount, Forgets
    <3>7. QED
      BY <1>1, <3>3, <3>4, <3>5, <3>6 DEF I2cAccount, NoOverlap
  <2>4. QED
    BY <2>2, <2>3
<1>6. QED
  BY <1>4, <1>5

\* sifive_i2c0.c:148-402: a call that returns OK had every byte acknowledged,
\* or forgets one that was not, and leaves the bus as asked; and no command is
\* written while another executes, for buffers of every length.
THEOREM I2cKeepsItsWord == I2c0Spec => [](OkMeansAcknowledged /\ BusLeftAsAsked) /\ CommandsDoNotOverlap
<1>1. I2c0Init => I2cAccount
  BY I2cStart
<1>2. I2cAccount /\ [I2c0Next]_i2c0Vars => I2cAccount' /\ [NoOverlap]_i2c0Vars
  <2>1. SUFFICES ASSUME I2cAccount, [I2c0Next]_i2c0Vars PROVE I2cAccount' /\ [NoOverlap]_i2c0Vars
    OBVIOUS
  <2>2. CASE UNCHANGED i2c0Vars
    <3>1. UNCHANGED <<call, at, dir, i, ret, cmd, tip, nack, held, refused>>
      BY <2>2 DEF i2c0Vars, callVars, coreVars
    <3>2. QED
      BY <2>1, <2>2, <3>1 DEF I2cAccount, BusTypes, DirAccount, Len0, CommandAccount, LastByte, RefusedAccount, Forgets, BusAccount, BusLeftAsAsked
  <2>3. CASE I2c0Next
    BY <2>1, <2>3, ShiftsKeepI2c, CallKeepsI2c, GivingUpKeepsI2c, CommandsKeepI2c, AddressKeepsI2c, BytesKeepI2c DEF I2c0Next, I2c0Program
  <2>4. QED
    BY <2>1, <2>2, <2>3
<1>3. I2cAccount => OkMeansAcknowledged /\ BusLeftAsAsked
  <2>1. SUFFICES ASSUME I2cAccount PROVE OkMeansAcknowledged /\ BusLeftAsAsked
    OBVIOUS
  <2>2. RefusedAccount /\ BusAccount
    BY <2>1 DEF I2cAccount
  <2>3. OkMeansAcknowledged
    BY <2>2 DEF RefusedAccount, OkMeansAcknowledged, Forgets
  <2>4. BusLeftAsAsked
    BY <2>2 DEF BusAccount, BusLeftAsAsked
  <2>5. QED
    BY <2>3, <2>4
<1>4. [NoOverlap]_i2c0Vars <=> [cmd' # cmd => ~tip]_i2c0Vars
  BY DEF NoOverlap
<1>5. QED
  BY <1>1, <1>2, <1>3, <1>4, PTL DEF I2c0Spec, CommandsDoNotOverlap

-----------------------------------------------------------------------------
(* What main finds of the image (crt0.S, scrub.S).                          *)

Sections == {"data", "itim", "lim"}

ImageTypes ==
    /\ image.harts \in Nat /\ (image.harts > 0 => image.boot \in HartIds)
    /\ DOMAIN content = Sections /\ content = [s \in Sections |-> content[s]]
    /\ image.harts > 0 => /\ DOMAIN reached = HartIds /\ reached = [h \in HartIds |-> reached[h]]
                          /\ DOMAIN stack = HartIds /\ stack = [h \in HartIds |-> stack[h]]

\* What is loaded in its place is there, but for what the boot hart scrubs; what is
\* not is there once that hart has copied it; and no hart is in main before then.
ContentAccount ==
    /\ image.harts > 0 =>
        /\ \A s \in Sections : image.vma[s] = image.lma => content[s] = "here" \/ (image.ecc /\ s # "lim")
        /\ reached[image.boot] \in {"synchronize", "main"} =>
            \A s \in Sections : image.vma[s] # image.lma => content[s] = "here"
        /\ \A h \in HartIds : reached[h] = "main" => \A g \in HartIds : reached[g] \in {"synchronize", "main"}
        /\ \A h \in HartIds : reached[h] \in {"data", "itim"} => h = image.boot /\ image.ecc

ImageIInv == ImageTypes /\ ContentAccount /\ StacksAreKept

-----------------------------------------------------------------------------
LEMMA ImageStarts == ImageInit => ImageIInv
<1>1. SUFFICES ASSUME ImageInit PROVE ImageIInv
  OBVIOUS
<1>2. image.harts = 0 /\ content = [data |-> "none", itim |-> "none", lim |-> "none"]
  BY <1>1 DEF ImageInit, NoImage
<1>3. HartIds = {}
  BY <1>2 DEF HartIds
<1>4. DOMAIN content = Sections /\ content = [s \in Sections |-> content[s]]
  BY <1>2 DEF Sections
<1>5. QED
  BY <1>2, <1>3, <1>4 DEF ImageIInv, ImageTypes, ContentAccount, StacksAreKept

\* Linking makes a new image, which no hart has begun.
LEMMA LinkKeepsImage ==
    ASSUME ImageIInv, link
    PROVE  ImageIInv'
<1>1. PICK layout \in {"default", "scratchpad"}, ecc \in BOOLEAN, harts \in 1 .. ImageHarts, boothart \in -1 .. ImageHarts - 1 :
        LET map == get_load_map(memories, layout = "scratchpad")
        IN  /\ boothart < harts
            /\ image' = [harts |-> harts, ecc |-> ecc /\ layout # "scratchpad", lma |-> map.lma, vma |-> map.vma,
                         boot |-> IF boothart >= 0 THEN boothart ELSE IF harts > 1 THEN 1 ELSE 0,
                         readOnly |-> {m \in DOMAIN memories : memories[m].node = "spi"}]
            /\ reached' = [h \in 0 .. harts - 1 |-> "reset"] /\ stack' = [h \in 0 .. harts - 1 |-> "free"]
            /\ content' = [s \in DOMAIN map.vma |-> IF map.vma[s] = map.lma THEN "here" ELSE "old"]
  BY DEF link
<1> DEFINE map == get_load_map(memories, layout = "scratchpad")
<1>2. DOMAIN map.vma = Sections
  BY DEF get_load_map, Sections
<1> HIDE DEF map
<1>3. /\ image'.harts = harts /\ image'.lma = map.lma /\ image'.vma = map.vma
      /\ image'.boot = IF boothart >= 0 THEN boothart ELSE IF harts > 1 THEN 1 ELSE 0
      /\ boothart < harts
      /\ reached' = [h \in 0 .. harts - 1 |-> "reset"] /\ stack' = [h \in 0 .. harts - 1 |-> "free"]
      /\ content' = [s \in DOMAIN map.vma |-> IF map.vma[s] = map.lma THEN "here" ELSE "old"]
  BY <1>1 DEF map
<1>4. harts \in Nat /\ harts > 0 /\ HartIds' = 0 .. harts - 1 /\ image'.boot \in 0 .. harts - 1
  BY <1>3, ImageAssumption DEF HartIds, ImageAssumption
<1>5. ImageTypes'
  BY <1>2, <1>3, <1>4 DEF ImageTypes
<1>6. \A h \in 0 .. harts - 1 : reached'[h] = "reset" /\ stack'[h] = "free"
  BY <1>3
<1>7. \A s \in Sections : image'.vma[s] = image'.lma => content'[s] = "here"
  BY <1>2, <1>3
<1>8. ContentAccount'
  BY <1>4, <1>6, <1>7 DEF ContentAccount
<1>9. StacksAreKept'
  BY <1>4, <1>6 DEF StacksAreKept
<1>10. QED
  BY <1>5, <1>8, <1>9 DEF ImageIInv

\* A hart's steps.
LEMMA HartsKeepImage ==
    ASSUME ImageIInv, NEW h \in HartIds,
           enter(h) \/ __metal_before_start(h, "data", "itim") \/ __metal_before_start(h, "itim", "start") \/ _start(h) \/ secondary_main(h)
    PROVE  ImageIInv'
<1>0. ImageTypes /\ ContentAccount /\ StacksAreKept
  BY DEF ImageIInv
<1>1. image' = image /\ HartIds' = HartIds /\ image.harts > 0
  <2>1. image' = image
    BY DEF enter, __metal_before_start, _start, secondary_main, layVars
  <2>2. image.harts > 0
    BY <1>0 DEF ImageTypes, HartIds
  <2>3. QED
    BY <2>1, <2>2 DEF HartIds
<1>2. /\ DOMAIN reached = HartIds /\ reached = [g \in HartIds |-> reached[g]]
      /\ DOMAIN stack = HartIds /\ stack = [g \in HartIds |-> stack[g]]
      /\ DOMAIN content = Sections /\ content = [s \in Sections |-> content[s]] /\ image.boot \in HartIds
  BY <1>0, <1>1 DEF ImageTypes
<1>3. /\ \A s \in Sections : image.vma[s] = image.lma => content[s] = "here" \/ (image.ecc /\ s # "lim")
      /\ reached[image.boot] \in {"synchronize", "main"} => \A s \in Sections : image.vma[s] # image.lma => content[s] = "here"
      /\ \A f \in HartIds : reached[f] = "main" => \A g \in HartIds : reached[g] \in {"synchronize", "main"}
      /\ \A f \in HartIds : reached[f] \in {"data", "itim"} => f = image.boot /\ image.ecc
  BY <1>0, <1>1 DEF ContentAccount
<1>4. SUFFICES /\ DOMAIN content' = Sections /\ content' = [s \in Sections |-> content'[s]]
               /\ DOMAIN reached' = HartIds /\ reached' = [g \in HartIds |-> reached'[g]]
               /\ DOMAIN stack' = HartIds /\ stack' = [g \in HartIds |-> stack'[g]]
               /\ \A s \in Sections : image.vma[s] = image.lma => content'[s] = "here" \/ (image.ecc /\ s # "lim")
               /\ reached'[image.boot] \in {"synchronize", "main"} => \A s \in Sections : image.vma[s] # image.lma => content'[s] = "here"
               /\ \A f \in HartIds : reached'[f] = "main" => \A g \in HartIds : reached'[g] \in {"synchronize", "main"}
               /\ \A f \in HartIds : reached'[f] \in {"data", "itim"} => f = image.boot /\ image.ecc
               /\ \A f \in HartIds : stack'[f] = "lost" => image.ecc /\ f > 0
  BY <1>0, <1>1 DEF ImageIInv, ImageTypes, ContentAccount, StacksAreKept
<1>5. \A f \in HartIds : stack[f] = "lost" => image.ecc /\ f > 0
  BY <1>0 DEF StacksAreKept
<1>6. CASE enter(h)
  <2>1. /\ reached[h] = "reset" /\ content' = content
        /\ reached' = [reached EXCEPT ![h] = IF image.ecc /\ h = image.boot THEN "data" ELSE "start"]
        /\ stack' = [g \in HartIds |-> IF image.ecc /\ g \in Above(h) /\ stack[g] = "used" THEN "lost" ELSE stack[g]]
    BY <1>6 DEF enter
  <2>2. \A g \in Above(h) : g > 0
    BY DEF Above, HartIds
  <2>3. \A f \in HartIds : stack'[f] = "lost" => image.ecc /\ f > 0
    BY <1>5, <2>1, <2>2
  <2>4. reached'[h] \in {"data", "start"} /\ (reached'[h] = "data" => h = image.boot /\ image.ecc)
        /\ \A g \in HartIds : g # h => reached'[g] = reached[g]
    BY <1>2, <2>1
  <2>5. \A f \in HartIds : reached[f] # "main"
    BY <1>3, <2>1
  <2>6. DOMAIN reached' = HartIds /\ reached' = [g \in HartIds |-> reached'[g]] /\ DOMAIN stack' = HartIds /\ stack' = [g \in HartIds |-> stack'[g]]
    BY <1>2, <2>1
  <2>7. QED
    BY <1>2, <1>3, <2>1, <2>3, <2>4, <2>5, <2>6
<1>7. ASSUME NEW from \in {"data", "itim"}, NEW to \in {"itim", "start"}, __metal_before_start(h, from, to)
      PROVE  /\ DOMAIN content' = Sections /\ content' = [s \in Sections |-> content'[s]]
             /\ DOMAIN reached' = HartIds /\ reached' = [g \in HartIds |-> reached'[g]] /\ stack' = stack
             /\ \A s \in Sections : image.vma[s] = image.lma => content'[s] = "here" \/ (image.ecc /\ s # "lim")
             /\ reached'[image.boot] \in {"synchronize", "main"} => \A s \in Sections : image.vma[s] # image.lma => content'[s] = "here"
             /\ \A f \in HartIds : reached'[f] = "main" => \A g \in HartIds : reached'[g] \in {"synchronize", "main"}
             /\ \A f \in HartIds : reached'[f] \in {"data", "itim"} => f = image.boot /\ image.ecc
  <2>1. /\ reached[h] = from /\ stack' = stack
        /\ \/ reached' = [reached EXCEPT ![h] = "early_trap_vector"] /\ content' = content
           \/ reached' = [reached EXCEPT ![h] = to] /\ content' = [content EXCEPT ![from] = "zero"]
    BY <1>7 DEF __metal_before_start
  <2>2. h = image.boot /\ image.ecc
    BY <1>3, <2>1
  <2>3. /\ DOMAIN reached' = HartIds /\ reached' = [g \in HartIds |-> reached'[g]]
        /\ \A g \in HartIds : g # h => reached'[g] = reached[g]
        /\ reached'[h] \in {"early_trap_vector", "itim", "start"}
    BY <1>2, <2>1
  <2>4. /\ DOMAIN content' = Sections /\ content' = [s \in Sections |-> content'[s]]
        /\ content'["lim"] = content["lim"]
    BY <1>2, <2>1 DEF Sections
  <2>5. \A s \in Sections : image.vma[s] = image.lma => content'[s] = "here" \/ (image.ecc /\ s # "lim")
    BY <1>3, <2>2, <2>4 DEF Sections
  <2>6. \A f \in HartIds : reached[f] # "main"
    BY <1>3, <2>1
  <2>7. QED
    BY <1>2, <1>3, <2>1, <2>2, <2>3, <2>4, <2>5, <2>6
<1>8. CASE _start(h)
  <2>1. /\ reached[h] = "start" /\ reached' = [reached EXCEPT ![h] = "synchronize"] /\ stack' = [stack EXCEPT ![h] = "used"]
        /\ content' = IF h # image.boot THEN content
                      ELSE [s \in DOMAIN content |-> IF image.vma[s] # image.lma THEN "here" ELSE content[s]]
    BY <1>8 DEF _start
  <2>2. /\ DOMAIN reached' = HartIds /\ reached' = [g \in HartIds |-> reached'[g]]
        /\ DOMAIN stack' = HartIds /\ stack' = [g \in HartIds |-> stack'[g]]
        /\ \A g \in HartIds : g # h => reached'[g] = reached[g] /\ stack'[g] = stack[g]
        /\ reached'[h] = "synchronize" /\ stack'[h] = "used"
    BY <1>2, <2>1
  <2>3. \A f \in HartIds : reached[f] # "main"
    BY <1>3, <2>1
  <2>4. /\ DOMAIN content' = Sections /\ content' = [s \in Sections |-> content'[s]]
        /\ \A s \in Sections : image.vma[s] = image.lma => content'[s] = content[s]
        /\ h = image.boot => \A s \in Sections : image.vma[s] # image.lma => content'[s] = "here"
        /\ h # image.boot => content' = content
    BY <1>2, <2>1
  <2>5. \A f \in HartIds : stack'[f] = "lost" => image.ecc /\ f > 0
    BY <1>5, <2>2
  <2>6. QED
    BY <1>2, <1>3, <2>2, <2>3, <2>4, <2>5
<1>9. CASE secondary_main(h)
  <2>1. /\ reached[h] = "synchronize" /\ \A g \in HartIds : reached[g] \in {"synchronize", "main"}
        /\ reached' = [reached EXCEPT ![h] = "main"] /\ content' = content /\ stack' = stack
    BY <1>9 DEF secondary_main
  <2>2. /\ DOMAIN reached' = HartIds /\ reached' = [g \in HartIds |-> reached'[g]]
        /\ \A g \in HartIds : reached'[g] \in {"synchronize", "main"}
    BY <1>2, <2>1
  <2>3. QED
    BY <1>2, <1>3, <1>5, <2>1, <2>2
<1>10. QED
  <2>1. CASE enter(h)
    BY <1>6, <2>1
  <2>2. CASE __metal_before_start(h, "data", "itim") \/ __metal_before_start(h, "itim", "start")
    BY <1>2, <1>5, <1>7, <2>2
  <2>3. QED
    BY <1>8, <1>9, <2>1, <2>2

(* crt0.S:53, scrub.S:106: for any tree, layout and number of harts, and      *)
(* whichever boots, what a hart in main finds is what the image has, but for  *)
(* what was scrubbed where it had been loaded; and the stack of no hart but   *)
(* one above another is scrubbed while it is used.                           *)
THEOREM ImageReachesMain == ImageSpec => [](MainFindsItsImage /\ StacksAreKept)
<1>1. ImageInit => ImageIInv
  BY ImageStarts
<1>2. ImageIInv /\ [ImageNext]_imageVars => ImageIInv'
  <2>1. SUFFICES ASSUME ImageIInv, [ImageNext]_imageVars PROVE ImageIInv'
    OBVIOUS
  <2>2. ASSUME UNCHANGED <<image, reached, content, stack>> PROVE ImageIInv'
    BY <2>1, <2>2 DEF ImageIInv, ImageTypes, ContentAccount, StacksAreKept, HartIds
  <2>3. CASE UNCHANGED imageVars
    BY <2>2, <2>3 DEF imageVars, layVars, startVars
  <2>4. CASE generate \/ get_sorted_ram_memories \/ \E n \in Counts : _sbrk(n)
    BY <2>2, <2>4 DEF generate, get_sorted_ram_memories, _sbrk, layVars, startVars
  <2>5. CASE link
    BY <2>1, <2>5, LinkKeepsImage
  <2>6. CASE \E h \in HartIds : enter(h) \/ __metal_before_start(h, "data", "itim") \/ __metal_before_start(h, "itim", "start")
                                 \/ _start(h) \/ secondary_main(h)
    BY <2>1, <2>6, HartsKeepImage
  <2>7. QED
    BY <2>1, <2>3, <2>4, <2>5, <2>6 DEF ImageNext
<1>3. ImageIInv => MainFindsItsImage /\ StacksAreKept
  <2>1. SUFFICES ASSUME ImageIInv, NEW h \in HartIds, reached[h] = "main", NEW s \in DOMAIN content
                 PROVE  content[s] = "here" \/ (image.ecc /\ image.vma[s] = image.lma /\ s # "lim")
    BY DEF MainFindsItsImage, ImageIInv
  <2>2. ImageTypes /\ ContentAccount
    BY <2>1 DEF ImageIInv
  <2>3. image.harts > 0 /\ s \in Sections
    BY <2>1, <2>2 DEF ImageTypes, HartIds
  <2>4. reached[image.boot] \in {"synchronize", "main"}
    BY <2>1, <2>2, <2>3 DEF ImageTypes, ContentAccount
  <2>5. QED
    BY <2>2, <2>3, <2>4 DEF ContentAccount
<1>4. QED
  BY <1>1, <1>2, <1>3, PTL DEF ImageSpec

-----------------------------------------------------------------------------
\* A word at a time where it can, a byte where not: all that it was asked for,
\* and one byte where it was asked for none.
LEMMA ScrubsAsAsked ==
    ASSUME NEW a \in Nat, NEW n \in Int
    PROVE  metal_mem_scrub(a, n) = IF n > 0 THEN a .. a + n - 1 ELSE {a}
<1> DEFINE D == Nat \X Int
           V == SUBSET Int
           Cleared(p) == IF p[2] >= 4 /\ p[1] % 4 = 0 THEN 4 ELSE 1
           P(f) == f = [p \in D |-> (p[1] .. p[1] + Cleared(p) - 1) \cup (IF p[2] - Cleared(p) > 0 THEN f[<<p[1] + Cleared(p), p[2] - Cleared(p)>>] ELSE {})]
           stop == {p \in D : ~(p[2] - Cleared(p) > 0)}
           m == [p \in D |-> IF p[2] > 0 THEN p[2] ELSE 0]
           base == [p \in D |-> p[1] .. p[1] + Cleared(p) - 1]
           pred == [p \in D |-> IF p[2] - Cleared(p) > 0 THEN <<p[1] + Cleared(p), p[2] - Cleared(p)>> ELSE p]
           step == [x \in D \X V |-> base[x[1]] \cup x[2]]
<1>1. metal_mem_scrub(a, n) = (CHOOSE f : P(f))[<<a, n>>]
  BY DEF metal_mem_scrub
<1>2. \A p \in D : /\ p[1] \in Nat /\ p[2] \in Int /\ p = <<p[1], p[2]>> /\ Cleared(p) \in {1, 4}
                   /\ p[2] >= 4 \/ Cleared(p) = 1
  OBVIOUS
<1> HIDE DEF Cleared
<1>3. m \in [D -> Nat] /\ base \in [D -> V]
  <2>1. \A p \in D : p[1] .. p[1] + Cleared(p) - 1 \in V
    BY <1>2
  <2>2. base \in [D -> V]
    BY <2>1
  <2>3. m \in [D -> Nat]
    OBVIOUS
  <2>4. QED
    BY <2>2, <2>3
<1>4. pred \in [D -> D]
  <2>1. \A p \in D : <<p[1] + Cleared(p), p[2] - Cleared(p)>> \in D
    BY <1>2
  <2>2. QED
    BY <2>1
<1>5. \A p \in D, S \in V : step[<<p, S>>] = base[p] \cup S
  <2> HIDE DEF D, V, base
  <2>1. QED
    OBVIOUS
<1>6. step \in [D \X V -> V]
  <2>1. \A x \in D \X V : x[1] \in D /\ x[2] \in V
    <3> HIDE DEF D, V
    <3>1. QED
      OBVIOUS
  <2>2. \A x \in D \X V : base[x[1]] \cup x[2] \in V
    <3>1. \A x \in D \X V : base[x[1]] \in V /\ x[2] \in V
      <4> HIDE DEF D, V, base
      <4>1. QED
        BY <1>3, <2>1
    <3> HIDE DEF D, base
    <3>2. QED
      BY <3>1
  <2> HIDE DEF D, V, base
  <2>3. QED
    BY <2>2
<1>7. \A p \in D : p \notin stop => m[pred[p]] < m[p]
  <2>1. SUFFICES ASSUME NEW p \in D, p \notin stop PROVE m[pred[p]] < m[p]
    OBVIOUS
  <2> DEFINE w == Cleared(p)
             x == p[1] + w
             y == p[2] - w
  <2>2. p[1] \in Nat /\ p[2] \in Int /\ w \in {1, 4} /\ y > 0
    BY <1>2, <2>1
  <2>3. pred[p] = <<x, y>> /\ m[p] = p[2]
    BY <2>2
  <2>4. x \in Nat /\ y \in Int /\ y < p[2] /\ y > 0
    BY <2>2
  <2> HIDE DEF x, y, w
  <2>5. m[<<x, y>>] = y
    BY <2>4
  <2>6. QED
    BY <2>3, <2>4, <2>5
<1>8. \A p \in D : /\ p \in stop <=> ~(p[2] - Cleared(p) > 0)
                   /\ base[p] = p[1] .. p[1] + Cleared(p) - 1
                   /\ p[2] - Cleared(p) > 0 => pred[p] = <<p[1] + Cleared(p), p[2] - Cleared(p)>>
  OBVIOUS
<1> HIDE DEF m, base, pred, step, stop
<1>9. Recursion(D, V, stop, m, base, pred, step)
  BY <1>3, <1>4, <1>6, <1>7, Zenon DEF Recursion
<1>10. PICK f \in [D -> V] : Solves(f, D, stop, base, pred, step)
  <2> HIDE DEF D, V
  <2>1. QED
    BY <1>9, RecursionEnds
<1> DEFINE F(f0, p) == (p[1] .. p[1] + Cleared(p) - 1) \cup (IF p[2] - Cleared(p) > 0 THEN f0[<<p[1] + Cleared(p), p[2] - Cleared(p)>>] ELSE {})
<1>11. \A p \in D : f[p] = F(f, p)
  <2>1. SUFFICES ASSUME NEW p \in D PROVE f[p] = F(f, p)
    OBVIOUS
  <2>2. f[p] = IF p \in stop THEN base[p] ELSE step[<<p, f[pred[p]]>>]
    BY <1>10, Zenon DEF Solves
  <2>3. pred[p] \in D /\ f[pred[p]] \in V
    <3> HIDE DEF D, V
    <3>1. QED
      BY <1>4, <1>10
  <2> HIDE DEF D, V
  <2>4. step[<<p, f[pred[p]]>>] = base[p] \cup f[pred[p]]
    BY <1>5, <2>3, Zenon
  <2>5. CASE p[2] - Cleared(p) > 0
    <3>1. p \notin stop /\ pred[p] = <<p[1] + Cleared(p), p[2] - Cleared(p)>> /\ base[p] = p[1] .. p[1] + Cleared(p) - 1
      BY <1>8, <2>5, Zenon
    <3>2. f[p] = base[p] \cup f[<<p[1] + Cleared(p), p[2] - Cleared(p)>>]
      BY <2>2, <2>4, <3>1, Zenon
    <3>3. QED
      BY <2>5, <3>1, <3>2, Zenon
  <2>6. CASE ~(p[2] - Cleared(p) > 0)
    <3>1. f[p] = p[1] .. p[1] + Cleared(p) - 1
      BY <1>8, <2>2, <2>6, Zenon
    <3>2. QED
      BY <2>6, <3>1
  <2>7. QED
    BY <2>5, <2>6, Zenon
<1>12. P(f)
  <2> DEFINE g == [p \in D |-> F(f, p)]
  <2>1. f = [p \in D |-> f[p]]
    BY <1>10
  <2> HIDE DEF D, F
  <2>2. [p \in D |-> f[p]] = g
    BY <1>11
  <2>3. f = g
    BY <2>1, <2>2, Zenon
  <2>4. QED
    BY <2>3, Zenon DEF F
<1> DEFINE Z == CHOOSE f0 : P(f0)
<1>13. P(Z)
  <2> HIDE DEF P
  <2>1. QED
    BY <1>12, Zenon
<1>14. \A p \in D : Z[p] = F(Z, p)
  <2>1. Z = [p \in D |-> F(Z, p)]
    BY <1>13, Zenon
  <2> HIDE DEF Z, D, F, P
  <2>2. QED
    BY <2>1
<1> HIDE DEF Z, P
<1>15. \A v \in Nat, k \in Int :
            Z[<<v, k>>] = (v .. v + Cleared(<<v, k>>) - 1) \cup (IF k - Cleared(<<v, k>>) > 0 THEN Z[<<v + Cleared(<<v, k>>), k - Cleared(<<v, k>>)>>] ELSE {})
  <2>1. SUFFICES ASSUME NEW v \in Nat, NEW k \in Int
                 PROVE  Z[<<v, k>>] = (v .. v + Cleared(<<v, k>>) - 1) \cup (IF k - Cleared(<<v, k>>) > 0 THEN Z[<<v + Cleared(<<v, k>>), k - Cleared(<<v, k>>)>>] ELSE {})
    OBVIOUS
  <2> DEFINE p == <<v, k>>
  <2>2. p \in D /\ p[1] = v /\ p[2] = k
    OBVIOUS
  <2> HIDE DEF p, D
  <2>3. Z[p] = (v .. v + Cleared(p) - 1) \cup (IF k - Cleared(p) > 0 THEN Z[<<v + Cleared(p), k - Cleared(p)>>] ELSE {})
    BY <1>14, <2>2, Zenon
  <2>4. QED
    BY <2>3, Zenon DEF p
<1>16. ASSUME NEW v \in Nat, NEW k \in Int PROVE Cleared(<<v, k>>) \in {1, 4} /\ (k >= 4 \/ Cleared(<<v, k>>) = 1)
  <2>1. <<v, k>> \in D /\ <<v, k>>[2] = k
    OBVIOUS
  <2> HIDE DEF D
  <2>2. QED
    BY <1>2, <2>1
<1> HIDE DEF F, D, V, Cleared
<1> DEFINE Right(v, k) == Z[<<v, k>>] = v .. v + k - 1
           T == {k \in Nat : k > 0 /\ \E v \in Nat : ~Right(v, k)}
<1>17. T = {}
  <2>1. SUFFICES ASSUME T # {} PROVE FALSE
    OBVIOUS
  <2>2. PICK k \in T : \A j \in T : k <= j
    BY <2>1, LeastElement
  <2>3. PICK v \in Nat : ~Right(v, k)
    BY <2>2
  <2>4. k \in Nat /\ k > 0 /\ k \in Int
    BY <2>2
  <2>5. \A j \in Nat : j > 0 /\ j < k => \A u \in Nat : Right(u, j)
    <3>1. SUFFICES ASSUME NEW j \in Nat, j > 0, j < k, NEW u \in Nat, ~Right(u, j) PROVE FALSE
      OBVIOUS
    <3> HIDE DEF Right
    <3>2. j \in T
      BY <3>1
    <3>3. k <= j
      BY <2>2, <3>2
    <3>4. QED
      BY <2>4, <3>1, <3>3
  <2> HIDE DEF T
  <2> DEFINE w == Cleared(<<v, k>>)
             u == v + w
             j == k - w
  <2>6. w \in {1, 4} /\ (k >= 4 \/ w = 1)
    BY <1>16, <2>4
  <2>7. Z[<<v, k>>] = (v .. v + w - 1) \cup (IF j > 0 THEN Z[<<u, j>>] ELSE {})
    BY <1>15, <2>4, Zenon
  <2>8. j \in Nat /\ j < k /\ u \in Nat
    BY <2>4, <2>6
  <2>9. CASE j > 0
    <3>1. Right(u, j)
      BY <2>5, <2>8, <2>9
    <3>2. Z[<<u, j>>] = u .. u + j - 1
      BY <3>1
    <3>3. Z[<<v, k>>] = (v .. v + w - 1) \cup (u .. u + j - 1)
      BY <2>7, <2>9, <3>2, Zenon
    <3> HIDE DEF w
    <3>4. (v .. v + w - 1) \cup (u .. u + j - 1) = v .. v + k - 1
      BY <2>4, <2>6, <2>8, <2>9
    <3>5. QED
      BY <2>3, <3>3, <3>4, Zenon
  <2>10. CASE ~(j > 0)
    <3>1. Z[<<v, k>>] = (v .. v + w - 1) \cup {}
      BY <2>7, <2>10, Zenon
    <3> HIDE DEF w
    <3>2. (v .. v + w - 1) \cup {} = v .. v + k - 1
      BY <2>4, <2>6, <2>8, <2>10
    <3>3. QED
      BY <2>3, <3>1, <3>2, Zenon
  <2>11. QED
    BY <2>9, <2>10
<1>18. CASE n > 0
  <2>1. n \notin T /\ n \in Nat
    <3>1. n \in Nat
      BY <1>18
    <3> HIDE DEF T
    <3>2. QED
      BY <1>17, <3>1
  <2>2. Right(a, n)
    BY <1>18, <2>1
  <2> HIDE DEF T
  <2>3. QED
    BY <1>1, <1>18, <2>2, Zenon DEF Z
<1>19. CASE ~(n > 0)
  <2> DEFINE w == Cleared(<<a, n>>)
  <2>1. w = 1
    BY <1>16, <1>19
  <2>2. Z[<<a, n>>] = (a .. a + w - 1) \cup (IF n - w > 0 THEN Z[<<a + w, n - w>>] ELSE {})
    BY <1>15, Zenon
  <2> HIDE DEF w
  <2>3. a .. a + w - 1 = {a} /\ ~(n - w > 0)
    BY <1>19, <2>1
  <2>4. Z[<<a, n>>] = {a}
    BY <2>2, <2>3
  <2>5. QED
    BY <1>1, <1>19, <2>4, Zenon DEF Z
<1>20. QED
  BY <1>18, <1>19

-----------------------------------------------------------------------------
\* What the program has is below the break, and the break is inside the heap.
HeapAccount ==
    /\ brk \in Int /\ brk <= HeapEnd /\ (brk >= 0 => live \subseteq 0 .. brk - 1)
    /\ brk < 0 => live = {}

LEMMA HeapStep ==
    ASSUME HeapAccount, NEW n \in Counts, _sbrk(n)
    PROVE  HeapAccount' /\ HeapIsClean
<1>0. HeapEnd \in Nat /\ brk \in Int /\ brk >= 0 /\ brk <= HeapEnd /\ live \subseteq 0 .. brk - 1
  BY ImageAssumption DEF HeapAccount, _sbrk
<1>1. \A k \in Counts : k \in Int
  <2>1. \A k \in HeapCounts : k \in Int /\ -k \in Int
    BY ImageAssumption, SMT
  <2>2. QED
    BY <2>1 DEF Counts
<1>2. IsFiniteSet(live) /\ Cardinality(live) \in Nat /\ Cardinality(live) <= brk
  <2>1. IsFiniteSet(0 .. brk - 1) /\ Cardinality(0 .. brk - 1) = brk
    BY <1>0, FS_Interval
  <2>2. QED
    BY <1>0, <2>1, FS_Subset, FS_CardinalityType
<1>3. ASSUME NEW k \in Counts, _sbrk(k), Granted(k)
      PROVE  /\ HeapAccount'
             /\ LET zeroed == metal_mem_scrub(brk, k)
                IN  /\ zeroed \cap live = {} /\ (k > 0 => zeroed = live' \ live /\ zeroed \subseteq 0 .. HeapEnd - 1)
                    /\ k <= 0 => zeroed = {brk}
  <2>1. k \in Int /\ brk' = brk + k /\ brk + k < HeapEnd /\ -k <= Cardinality(live)
        /\ live' = IF k > 0 THEN live \cup (brk .. brk + k - 1)
                   ELSE {b \in live : Cardinality({c \in live : c > b}) >= -k}
    BY <1>1, <1>3 DEF _sbrk, Granted
  <2>2. brk \in Nat
    BY <1>0
  <2>3. CASE k > 0
    <3> DEFINE Z == brk .. brk + k - 1
    <3>1. metal_mem_scrub(brk, k) = Z
      BY <2>1, <2>2, <2>3, ScrubsAsAsked
    <3>2. live' = live \cup Z
      BY <2>1, <2>3
    <3>3. Z \cap live = {} /\ Z \subseteq 0 .. HeapEnd - 1 /\ live \cup Z \subseteq 0 .. (brk + k) - 1
      BY <1>0, <2>1, <2>3
    <3> HIDE DEF Z
    <3>4. Z = live' \ live
      BY <3>2, <3>3
    <3>5. brk + k >= 0 /\ brk + k \in Int /\ brk + k <= HeapEnd /\ ~(k <= 0)
      BY <1>0, <2>1, <2>3
    <3>6. HeapAccount'
      BY <2>1, <3>2, <3>3, <3>5 DEF HeapAccount
    <3>7. QED
      BY <3>1, <3>3, <3>4, <3>5, <3>6, Zenon
  <2>4. CASE ~(k > 0)
    <3>1. metal_mem_scrub(brk, k) = {brk} /\ brk \notin live /\ k <= 0
      BY <1>0, <2>1, <2>2, <2>4, ScrubsAsAsked
    <3>2. live' = {b \in live : Cardinality({c \in live : c > b}) >= -k}
      BY <2>1, <2>4
    <3>3. live' \subseteq 0 .. (brk + k) - 1
      <4>1. SUFFICES ASSUME NEW b \in live, Cardinality({c \in live : c > b}) >= -k PROVE b \in 0 .. (brk + k) - 1
        BY <3>2
      <4> DEFINE up == {c \in live : c > b}
      <4>2. b \in Int /\ 0 <= b /\ b <= brk - 1
        BY <1>0
      <4>3. up \subseteq b + 1 .. brk - 1
        <5>1. SUFFICES ASSUME NEW c \in live, c > b PROVE c \in b + 1 .. brk - 1
          OBVIOUS
        <5>2. c \in 0 .. brk - 1
          BY <1>0, <5>1
        <5>3. QED
          BY <1>0, <4>2, <5>1, <5>2
      <4>4. IsFiniteSet(b + 1 .. brk - 1) /\ Cardinality(b + 1 .. brk - 1) = brk - 1 - b
        <5>1. b + 1 \in Int /\ brk - 1 \in Int
          BY <1>0, <4>2
        <5> DEFINE x == b + 1
                   y == brk - 1
        <5> HIDE DEF x, y
        <5>2. IsFiniteSet(x .. y) /\ Cardinality(x .. y) = IF x > y THEN 0 ELSE y - x + 1
          BY <5>1, FS_Interval DEF x, y
        <5>3. QED
          BY <1>0, <4>2, <5>1, <5>2 DEF x, y
      <4>5. Cardinality(up) <= brk - 1 - b /\ Cardinality(up) \in Nat
        <5> HIDE DEF up
        <5>1. QED
          BY <4>3, <4>4, FS_Subset, FS_CardinalityType
      <4> HIDE DEF up
      <4>6. Cardinality(up) >= -k
        BY <4>1 DEF up
      <4>7. QED
        BY <1>0, <2>1, <4>2, <4>5, <4>6
    <3>4. brk + k >= 0 /\ brk + k \in Int /\ brk + k <= HeapEnd
      BY <1>0, <1>2, <2>1, <2>4
    <3>5. HeapAccount'
      <4>1. brk' = brk + k
        BY <2>1
      <4> DEFINE e == brk + k
      <4>2. brk' = e /\ e \in Int /\ e >= 0 /\ e <= HeapEnd /\ live' \subseteq 0 .. e - 1
        BY <3>3, <3>4, <4>1
      <4> HIDE DEF e
      <4>3. QED
        BY <4>2 DEF HeapAccount
    <3>6. QED
      BY <2>4, <3>1, <3>5
  <2>5. QED
    BY <2>3, <2>4
<1>4. HeapIsClean
  BY <1>3, Zenon DEF HeapIsClean
<1>5. HeapAccount'
  <2>1. CASE Granted(n)
    BY <1>3, <2>1
  <2>2. CASE ~Granted(n)
    <3>1. brk' = HeapEnd /\ live' = live
      BY <2>2 DEF _sbrk
    <3>2. live \subseteq 0 .. HeapEnd - 1
      BY <1>0
    <3>3. QED
      BY <1>0, <3>1, <3>2 DEF HeapAccount
  <2>3. QED
    BY <2>1, <2>2
<1>6. QED
  BY <1>4, <1>5

(* sys_sbrk.c:37: for a heap of any size and any requests, memory from the    *)
(* heap is nobody else's, inside the heap, and zeroed word by word or byte by *)
(* byte; nothing else is, but one byte at the break when nothing is asked for. *)
THEOREM HeapIsZeroed == ImageSpec => [][HeapIsClean]_imageVars
<1>1. ImageInit => HeapAccount
  BY ImageAssumption DEF ImageInit, HeapAccount
<1>2. HeapAccount /\ [ImageNext]_imageVars => HeapAccount' /\ [HeapIsClean]_imageVars
  <2>1. SUFFICES ASSUME HeapAccount, [ImageNext]_imageVars PROVE HeapAccount' /\ [HeapIsClean]_imageVars
    OBVIOUS
  <2>2. CASE \E n \in Counts : _sbrk(n)
    BY <2>1, <2>2, HeapStep
  <2>3. CASE ~\E n \in Counts : _sbrk(n)
    <3>1. HeapIsClean
      BY <2>3, Zenon DEF HeapIsClean
    <3>2. UNCHANGED heapVars
      BY <2>1, <2>3 DEF ImageNext, imageVars, generate, link, enter, __metal_before_start, _start, secondary_main, get_sorted_ram_memories
    <3>3. HeapAccount'
      BY <2>1, <3>2 DEF HeapAccount, heapVars
    <3>4. QED
      BY <3>1, <3>3
  <2>4. QED
    BY <2>2, <2>3
<1>3. QED
  BY <1>1, <1>2, PTL DEF ImageSpec

-----------------------------------------------------------------------------
(* Caches and bus errors (sifive_ccache0.c, sifive_l2pf0.c,                  *)
(* sifive_buserror0.c)                                                       *)

CacheOps == Captured \cup {"none", "count", "cause", "accrued"}

CallRecords ==
    [op : CacheOps, pc : Nat, vh : Nat, vl : Nat, given : Nat, events : SUBSET BeuEvents, was : SUBSET BeuEvents,
     on : BOOLEAN, missed : BOOLEAN]

CacheTypes ==
    /\ enabledWays \in 1 .. CacheWays /\ lim \in CacheLims /\ limKept \in BOOLEAN
    /\ doing \in CallRecords /\ pm \in Nat
    /\ has \in BOOLEAN /\ irqsOn \in BOOLEAN
    /\ prefetch \in [on : BOOLEAN, basic : Nat, user : Nat, flushed : BOOLEAN]
    /\ beuAccrued \subseteq BeuEvents /\ beuEnabled \subseteq BeuEvents /\ beuHas \subseteq BeuEvents

\* Until its constructor runs the cache has the one way it cannot lose.
WaysAccount == "ccache" \notin constructed => enabledWays = 1

\* A call that captured the trap and has met none has done what its place says.
TrapAccount ==
    /\ doing.op \notin Captured => trapsTo = "program"
    /\ doing.op \in Captured =>
        /\ doing.pc \in 1 .. Accesses + 1
        /\ doing.missed => ~irqsOn /\ (~has \/ doing.on)
        /\ ~doing.missed => (doing.on <=> irqsOn)
        /\ doing.op = "set_config" /\ ~doing.missed =>
            /\ doing.pc >= 2 => prefetch.basic = doing.given
            /\ doing.pc >= 3 => prefetch.user = doing.given

\* Each half is of a value the counter had since the call began, in that order.
EventAccount ==
    doing.op = "count" =>
        /\ doing.pc \in 1 .. 4 /\ doing.given <= pm
        /\ doing.pc = 2 => \E c \in Nat : doing.given <= c /\ c <= pm /\ doing.vh = c \div PmWord
        /\ doing.pc = 3 => \E c, d \in Nat : /\ doing.given <= c /\ c <= d /\ d <= pm
                                             /\ doing.vh = c \div PmWord /\ doing.vl = d % PmWord
        /\ doing.pc = 4 => doing.given <= EventsRead /\ EventsRead <= pm

CacheAccount == CacheTypes /\ WaysAccount /\ TrapAccount /\ EventAccount

CachePromises == LimIsTaken /\ TrapsAreBack /\ CountsAreWhole /\ ErrorsAccrue

-----------------------------------------------------------------------------
LEMMA CallsBegin ==
    /\ NoneCalled \in CallRecords /\ NoneCalled.op = "none"
    /\ \A o \in CacheOps : /\ Enters(o) \in CallRecords /\ Enters(o).op = o /\ Enters(o).pc = 1 /\ ~Enters(o).missed
<1>1. NoneCalled \in CallRecords /\ NoneCalled.op = "none" /\ NoneCalled.missed = FALSE
  BY DEF NoneCalled, CallRecords, CacheOps, Captured
<1>2. \A o \in CacheOps : Enters(o) \in CallRecords /\ Enters(o).op = o /\ Enters(o).pc = 1 /\ Enters(o).missed = FALSE
  <2>1. TAKE o \in CacheOps
  <2>2. Enters(o) = [NoneCalled EXCEPT !.op = o, !.pc = 1]
    BY DEF Enters
  <2> DEFINE c == NoneCalled
             d == Enters(o)
  <2>3. c \in CallRecords /\ c.missed = FALSE /\ d = [c EXCEPT !.op = o, !.pc = 1]
    BY <1>1, <2>2
  <2> HIDE DEF c, d
  <2>4. d \in CallRecords /\ d.op = o /\ d.pc = 1 /\ d.missed = FALSE
    BY <2>1, <2>3 DEF CallRecords
  <2>5. QED
    BY <2>4 DEF d
<1>3. QED
  BY <1>1, <1>2

\* The constructor's ways are those that the program leaves; so many can be asked for.
LEMMA WaysAre ==
    ASSUME NEW w \in 1 .. CacheWays
    PROVE  WayEnable((w - 1) % 256) = {IF w > enabledWays THEN w ELSE enabledWays}
<1>1. (w - 1) % 256 = w - 1 /\ w - 1 < CacheWays
  BY CacheAssumption DEF CacheAssumption
<1>2. \A k \in Int : k < CacheWays => WayEnable(k) = {IF k + 1 > enabledWays THEN k + 1 ELSE enabledWays}
  BY CacheAssumption DEF WayEnable, CacheAssumption
<1>3. WayEnable(w - 1) = {IF (w - 1) + 1 > enabledWays THEN (w - 1) + 1 ELSE enabledWays}
  BY <1>1, <1>2
<1>4. (w - 1) + 1 = w
  OBVIOUS
<1>5. QED
  BY <1>1, <1>3, <1>4

LEMMA InitWaysAre ==
    ASSUME NEW bytes \in CacheLims
    PROVE  InitWays(bytes) \in 0 .. CacheWays
<1>1. bytes \in Nat /\ bytes <= CacheWays * 2 /\ CacheWays \in Nat
  BY CacheAssumption, LimAssumption DEF CacheAssumption, LimAssumption, WayBytes
<1>2. (bytes + 2 - 1) \div 2 \in 0 .. CacheWays
  BY <1>1
<1>3. QED
  BY <1>1, <1>2 DEF InitWays, LimWays, WayBytes

\* What a call of set_enabled_ways leaves.
LEMMA EnabledWaysAre ==
    ASSUME CacheTypes, NEW ways \in Int, set_enabled_ways(ways)
    PROVE  /\ enabledWays' \in 1 .. CacheWays /\ limKept' \in BOOLEAN
           /\ ways >= 1 /\ ways <= InitWays(lim) => limKept' = limKept
<1>0. enabledWays \in 1 .. CacheWays /\ lim \in CacheLims /\ limKept \in BOOLEAN /\ CacheWays \in 1 .. 256 /\ InitWays(lim) \in 0 .. CacheWays
  BY CacheAssumption, InitWaysAre DEF CacheTypes
<1>1. CASE ways >= 0 /\ enabledWays > ways
  BY <1>0, <1>1 DEF set_enabled_ways
<1>2. CASE ~(ways >= 0 /\ enabledWays > ways)
  <2>1. enabledWays' \in WayEnable((ways - 1) % 256) /\ limKept' = (limKept /\ ~InLim(enabledWays'))
    BY <1>2 DEF set_enabled_ways
  <2>2. enabledWays' \in 1 .. CacheWays
    <3>1. (ways - 1) % 256 \in 0 .. 255
      OBVIOUS
    <3> DEFINE index == (ways - 1) % 256
    <3> HIDE DEF index
    <3>2. index \in 0 .. 255 /\ enabledWays' \in WayEnable(index)
      BY <2>1, <3>1 DEF index
    <3>3. QED
      BY <1>0, <3>2 DEF WayEnable
  <2>3. ASSUME ways >= 1, ways <= InitWays(lim) PROVE ~InLim(enabledWays')
    <3>1. ways \in 1 .. CacheWays
      BY <1>0, <2>3
    <3>2. enabledWays' = IF ways > enabledWays THEN ways ELSE enabledWays
      BY <2>1, <3>1, WaysAre
    <3>3. enabledWays' = ways
      BY <1>0, <1>2, <3>1, <3>2
    <3>4. QED
      BY <1>0, <2>3, <3>1, <3>3 DEF InLim, InitWays
  <2>4. QED
    BY <1>0, <2>1, <2>2, <2>3
<1>3. QED
  BY <1>1, <1>2

-----------------------------------------------------------------------------
LEMMA CacheStart == CacheInit => CacheAccount
<1>1. SUFFICES ASSUME CacheInit PROVE CacheAccount
  OBVIOUS
<1>2. /\ lim \in CacheLims /\ enabledWays = 1 /\ limKept = TRUE /\ has \in BOOLEAN /\ trapsTo = "program" /\ irqsOn = FALSE
      /\ prefetch = [on |-> FALSE, basic |-> 0, user |-> 0, flushed |-> FALSE] /\ pm = 0 /\ doing = NoneCalled
      /\ beuHas \in SUBSET BeuEvents /\ beuEnabled = {} /\ beuAccrued = {}
  BY <1>1 DEF CacheInit
<1>3. CacheTypes
  <2>1. enabledWays \in 1 .. CacheWays
    BY <1>2, CacheAssumption DEF CacheAssumption
  <2>2. prefetch \in [on : BOOLEAN, basic : Nat, user : Nat, flushed : BOOLEAN]
    BY <1>2
  <2>3. doing \in CallRecords
    BY <1>2, CallsBegin
  <2>4. QED
    BY <1>2, <2>1, <2>2, <2>3 DEF CacheTypes
<1>4. WaysAccount /\ TrapAccount /\ EventAccount
  BY <1>2, CallsBegin DEF WaysAccount, TrapAccount, EventAccount, Captured
<1>5. QED
  BY <1>3, <1>4 DEF CacheAccount

LEMMA HalvesOf ==
    ASSUME NEW x \in Nat, PmWord \in Nat \ {0}
    PROVE  x \div PmWord \in Nat /\ x = (x \div PmWord) * PmWord + (x % PmWord)
  OBVIOUS

LEMMA HalvesGrow ==
    ASSUME NEW x \in Nat, NEW y \in Nat, x <= y, PmWord \in Nat \ {0}
    PROVE  x \div PmWord <= y \div PmWord /\ x \div PmWord \in Int /\ y \div PmWord \in Int
  OBVIOUS

\* What calls return, whichever step comes next.
LEMMA ReturnsAreTrue ==
    ASSUME CacheAccount
    PROVE  TrapsAreBack /\ CountsAreWhole /\ \A events \in SUBSET BeuEvents : set_event_enabled(events, FALSE) => events \cap beuEnabled' = {}
<1>1. TrapsAreBack
  <2>1. SUFFICES ASSUME TRAP_RESTORE
                 PROVE  /\ trapsTo' = "program" /\ (doing.missed => ~irqsOn' /\ (~has \/ doing.on))
                        /\ doing.op = "set_config" /\ ~doing.missed => {prefetch.basic, prefetch.user} = {doing.given}
    BY DEF TrapsAreBack
  <2>2. doing.op \in Captured /\ doing.pc = Accesses + 1 /\ trapsTo' = "program" /\ irqsOn' = irqsOn
    BY <2>1 DEF TRAP_RESTORE
  <2>3. doing.missed => ~irqsOn /\ (~has \/ doing.on)
    BY <2>2 DEF CacheAccount, TrapAccount
  <2>4. doing.op = "set_config" /\ ~doing.missed => prefetch.basic = doing.given /\ prefetch.user = doing.given
    BY <2>2 DEF CacheAccount, TrapAccount, Accesses
  <2>5. QED
    BY <2>2, <2>3, <2>4
<1>2. CountsAreWhole
  BY DEF CountsAreWhole, GetReturns, CacheAccount, EventAccount
<1>3. \A events \in SUBSET BeuEvents : set_event_enabled(events, FALSE) => events \cap beuEnabled' = {}
  BY DEF set_event_enabled
<1>4. QED
  BY <1>1, <1>2, <1>3

LEMMA WaysKeepCache ==
    ASSUME CacheAccount, sifive_ccache0_init \/ \E ways \in WayCounts : metal_l2cache_set_enabled_ways(ways)
    PROVE  CacheAccount' /\ CachePromises
<1>0. CacheTypes /\ WaysAccount /\ TrapAccount /\ EventAccount
  BY DEF CacheAccount
<1>1. UNCHANGED <<uses, lim, pfVars, pm, doing, beuVars>>
  BY DEF sifive_ccache0_init, metal_l2cache_set_enabled_ways
<1>2. UNCHANGED <<has, trapsTo, irqsOn, prefetch, beuHas, beuEnabled, beuAccrued>>
  BY <1>1 DEF pfVars, beuVars
<1>3. /\ enabledWays' \in 1 .. CacheWays /\ limKept' \in BOOLEAN /\ WaysAccount'
      /\ LimIsTaken
  <2>1. CASE sifive_ccache0_init
    <3>1. set_enabled_ways(InitWays(lim)) /\ enabledWays = 1 /\ "ccache" \in constructed' /\ InitWays(lim) \in 0 .. CacheWays
      BY <1>0, <2>1, InitWaysAre DEF sifive_ccache0_init, WaysAccount, CacheTypes
    <3>2. enabledWays' \in 1 .. CacheWays /\ limKept' \in BOOLEAN /\ (InitWays(lim) >= 1 => limKept' = limKept)
      <4>1. InitWays(lim) \in Int /\ InitWays(lim) <= InitWays(lim)
        BY <3>1
      <4>2. QED
        BY <1>0, <3>1, <4>1, EnabledWaysAre
    <3>3. InitWays(lim) = 0 => limKept' = limKept
      BY <3>1 DEF set_enabled_ways
    <3>4. limKept' = limKept
      BY <3>1, <3>2, <3>3
    <3>5. QED
      BY <1>0, <3>1, <3>2, <3>4 DEF WaysAccount, LimIsTaken, CacheTypes
  <2>2. CASE \E ways \in WayCounts : metal_l2cache_set_enabled_ways(ways)
    <3>1. PICK ways \in WayCounts : metal_l2cache_set_enabled_ways(ways)
      BY <2>2
    <3>2. set_enabled_ways(ways) /\ constructed' = constructed /\ "ccache" \in constructed
      BY <3>1 DEF metal_l2cache_set_enabled_ways, Idle, Started
    <3>3. ways \in Int /\ (ways < 1 => ways \in {-1, 0})
      BY CacheAssumption DEF WayCounts, CacheAssumption
    <3>4. enabledWays' \in 1 .. CacheWays /\ limKept' \in BOOLEAN /\ (ways >= 1 /\ ways <= InitWays(lim) => limKept' = limKept)
      BY <1>0, <3>2, <3>3, EnabledWaysAre
    <3>5. limKept /\ ~limKept' => ways > InitWays(lim) \/ ways \in {-1, 0}
      <4>1. InitWays(lim) \in Int
        BY <1>0, InitWaysAre DEF CacheTypes
      <4>2. limKept \in BOOLEAN
        BY <1>0 DEF CacheTypes
      <4>3. SUFFICES ASSUME limKept, ~limKept' PROVE ways > InitWays(lim) \/ ways \in {-1, 0}
        OBVIOUS
      <4>4. limKept' # limKept
        BY <4>3
      <4>5. ~(ways >= 1 /\ ways <= InitWays(lim))
        BY <3>4, <4>4
      <4>6. QED
        BY <3>3, <4>1, <4>5
    <3>6. LimIsTaken
      BY <3>1, <3>5 DEF LimIsTaken
    <3>7. QED
      BY <3>2, <3>4, <3>6 DEF WaysAccount
  <2>3. QED
    BY <2>1, <2>2
<1>4. CacheTypes' /\ TrapAccount' /\ EventAccount'
  BY <1>0, <1>1, <1>2, <1>3 DEF CacheTypes, TrapAccount, Accesses, EventAccount, EventsRead
<1>5. beuAccrued \ beuAccrued' = {}
  BY <1>2
<1>6. QED
  BY <1>3, <1>4, <1>5, ReturnsAreTrue DEF CacheAccount, CachePromises, ErrorsAccrue

\* The counter counts, and is read in halves until they are of one value.
LEMMA CountingKeepsCache ==
    ASSUME CacheAccount, get_pmevent_counter \/ GetReturns \/ Counted
    PROVE  CacheAccount' /\ CachePromises
<1>0. CacheTypes /\ WaysAccount /\ TrapAccount /\ EventAccount /\ PmWord \in Nat \ {0}
  BY CacheAssumption DEF CacheAccount, CacheAssumption
<1>1. UNCHANGED <<wayVars, pfVars, beuVars>>
  BY DEF get_pmevent_counter, GetReturns, Counted
<1>2. UNCHANGED <<lim, enabledWays, limKept, constructed, has, trapsTo, irqsOn, prefetch, beuHas, beuEnabled, beuAccrued>>
  BY <1>1 DEF wayVars, pfVars, beuVars
<1>3. LimIsTaken /\ WaysAccount'
  BY <1>0, <1>2 DEF LimIsTaken, WaysAccount
<1>4. doing' \in CallRecords /\ pm' \in Nat /\ TrapAccount' /\ EventAccount'
  <2>1. CASE Idle /\ doing' = [Enters("count") EXCEPT !.given = pm] /\ pm' = pm
    <3>1. Enters("count") \in CallRecords /\ Enters("count").op = "count" /\ Enters("count").pc = 1
      BY CallsBegin DEF CacheOps
    <3>2. doing' \in CallRecords /\ doing'.op = "count" /\ doing'.pc = 1 /\ doing'.given = pm
      BY <1>0, <2>1, <3>1 DEF CallRecords, CacheTypes
    <3>3. trapsTo' = "program"
      BY <1>0, <1>2, <2>1, CallsBegin DEF TrapAccount, Idle, Captured
    <3>4. QED
      BY <1>0, <2>1, <3>2, <3>3 DEF TrapAccount, EventAccount, Captured, CacheTypes
  <2>2. CASE doing.op = "count" /\ doing.pc = 1 /\ doing' = [doing EXCEPT !.vh = pm \div PmWord, !.pc = 2] /\ pm' = pm
    <3>1. pm \div PmWord \in Nat
      BY <1>0 DEF CacheTypes
    <3>2. /\ doing' \in CallRecords /\ doing'.op = "count" /\ doing'.pc = 2 /\ doing'.given = doing.given
          /\ doing'.vh = pm \div PmWord
      BY <1>0, <2>2, <3>1 DEF CallRecords, CacheTypes
    <3>3. doing.given <= pm
      BY <1>0, <2>2 DEF EventAccount
    <3>4. QED
      BY <1>0, <1>2, <2>2, <3>2, <3>3 DEF TrapAccount, EventAccount, Captured, CacheTypes
  <2>3. CASE doing.op = "count" /\ doing.pc = 2 /\ doing' = [doing EXCEPT !.vl = pm % PmWord, !.pc = 3] /\ pm' = pm
    <3>1. (pm % PmWord) \in Nat
      BY <1>0 DEF CacheTypes
    <3>2. /\ doing' \in CallRecords /\ doing'.op = "count" /\ doing'.pc = 3 /\ doing'.given = doing.given
          /\ doing'.vh = doing.vh /\ doing'.vl = pm % PmWord
      BY <1>0, <2>3, <3>1 DEF CallRecords, CacheTypes
    <3>3. doing.given <= pm /\ \E c \in Nat : doing.given <= c /\ c <= pm /\ doing.vh = c \div PmWord
      BY <1>0, <2>3 DEF EventAccount
    <3>4. QED
      BY <1>0, <1>2, <2>3, <3>2, <3>3 DEF TrapAccount, EventAccount, Captured, CacheTypes
  <2>4. CASE doing.op = "count" /\ doing.pc = 3 /\ doing' = [doing EXCEPT !.pc = IF doing.vh = pm \div PmWord THEN 4 ELSE 1] /\ pm' = pm
    <3>1. /\ doing' \in CallRecords /\ doing'.op = "count" /\ doing'.pc = (IF doing.vh = pm \div PmWord THEN 4 ELSE 1)
          /\ doing'.given = doing.given /\ doing'.vh = doing.vh /\ doing'.vl = doing.vl
      BY <1>0, <2>4 DEF CallRecords, CacheTypes
    <3>2. doing.given <= pm
      BY <1>0, <2>4 DEF EventAccount
    <3>3. PICK c \in Nat, d \in Nat : /\ doing.given <= c /\ c <= d /\ d <= pm
                                     /\ doing.vh = c \div PmWord /\ doing.vl = d % PmWord
      BY <1>0, <2>4 DEF EventAccount
    <3>4. doing.vh = pm \div PmWord => doing.vh * PmWord + doing.vl = d
      <4>1. pm \in Nat
        BY <1>0 DEF CacheTypes
      <4>2. c \div PmWord <= d \div PmWord /\ d \div PmWord <= pm \div PmWord /\ c \div PmWord \in Int /\ pm \div PmWord \in Int /\ d \div PmWord \in Int
        BY <1>0, <3>3, <4>1, HalvesGrow
      <4>3. d = (d \div PmWord) * PmWord + (d % PmWord)
        BY <1>0, HalvesOf
      <4>4. doing.vh = pm \div PmWord => doing.vh = d \div PmWord
        BY <3>3, <4>2
      <4>5. QED
        BY <3>3, <4>3, <4>4
    <3>5. doing'.pc = 4 => doing'.given <= EventsRead' /\ EventsRead' <= pm'
      <4>1. EventsRead' = doing.vh * PmWord + doing.vl
        BY <3>1 DEF EventsRead
      <4>2. doing.given \in Nat /\ pm \in Nat
        BY <1>0 DEF CacheTypes, CallRecords
      <4>3. QED
        BY <2>4, <3>1, <3>3, <3>4, <4>1, <4>2
    <3>6. EventAccount'
      BY <2>4, <3>1, <3>2, <3>5 DEF EventAccount
    <3>7. TrapAccount'
      BY <1>0, <1>2, <2>4, <3>1 DEF TrapAccount, Captured
    <3>8. QED
      BY <1>0, <2>4, <3>1, <3>6, <3>7 DEF CacheTypes
  <2>5. CASE GetReturns
    <3>1. doing' = NoneCalled /\ pm' = pm /\ doing.op = "count"
      BY <2>5 DEF GetReturns
    <3>2. QED
      BY <1>0, <1>2, <3>1, CallsBegin DEF TrapAccount, EventAccount, Captured, CacheTypes
  <2>6. CASE Counted
    <3>1. pm' = pm + 1 /\ doing' = doing
      BY <2>6 DEF Counted
    <3>2. pm \in Nat /\ doing.given \in Nat /\ doing \in CallRecords /\ pm <= pm + 1
      BY <1>0 DEF CacheTypes, CallRecords
    <3>3. doing.vh * PmWord + doing.vl \in Int
      BY <1>0, <3>2 DEF CallRecords
    <3>4. EventAccount'
      <4>1. doing.op = "count" => doing.pc \in 1 .. 4 /\ doing.given <= pm + 1
        BY <1>0, <3>2 DEF EventAccount
      <4>2. doing.op = "count" /\ doing.pc = 2 => \E c \in Nat : doing.given <= c /\ c <= pm + 1 /\ doing.vh = c \div PmWord
        BY <1>0, <3>2 DEF EventAccount
      <4>3. doing.op = "count" /\ doing.pc = 3 => \E c, d \in Nat : /\ doing.given <= c /\ c <= d /\ d <= pm + 1
                                                                  /\ doing.vh = c \div PmWord /\ doing.vl = d % PmWord
        <5>1. SUFFICES ASSUME doing.op = "count", doing.pc = 3
                       PROVE  \E c, d \in Nat : /\ doing.given <= c /\ c <= d /\ d <= pm + 1
                                                /\ doing.vh = c \div PmWord /\ doing.vl = d % PmWord
          OBVIOUS
        <5>2. PICK c \in Nat, d \in Nat : /\ doing.given <= c /\ c <= d /\ d <= pm
                                         /\ doing.vh = c \div PmWord /\ doing.vl = d % PmWord
          BY <1>0, <5>1 DEF EventAccount
        <5>3. d <= pm + 1
          BY <3>2, <5>2
        <5>4. QED
          BY <5>2, <5>3
      <4>4. doing.op = "count" /\ doing.pc = 4 => doing.given <= EventsRead /\ EventsRead <= pm + 1
        BY <1>0, <3>2, <3>3 DEF EventAccount, EventsRead
      <4>5. EventsRead' = EventsRead
        BY <3>1 DEF EventsRead
      <4>6. QED
        BY <3>1, <4>1, <4>2, <4>3, <4>4, <4>5 DEF EventAccount
    <3>5. QED
      BY <1>0, <1>2, <3>1, <3>2, <3>4 DEF TrapAccount, Accesses
  <2>7. QED
    BY <2>1, <2>2, <2>3, <2>4, <2>5, <2>6 DEF get_pmevent_counter
<1>5. CacheTypes'
  BY <1>0, <1>2, <1>4 DEF CacheTypes
<1>6. beuAccrued \ beuAccrued' = {}
  BY <1>2
<1>7. QED
  BY <1>3, <1>4, <1>5, <1>6, ReturnsAreTrue DEF CacheAccount, CachePromises, ErrorsAccrue

\* A call whose trap is captured: its accesses, a trap, and the program's own back.
LEMMA CapturesKeepCache ==
    ASSUME CacheAccount,
           (\E op \in Captured, config \in 1 .. 2 : TRAP_CAPTURE(op, config)) \/ Access1 \/ Missed \/ TRAP_RESTORE \/ interrupt_global
    PROVE  CacheAccount' /\ CachePromises
<1>0. CacheTypes /\ WaysAccount /\ TrapAccount /\ EventAccount
  BY DEF CacheAccount
<1>1. UNCHANGED <<wayVars, has, pm, beuVars>>
  BY DEF TRAP_CAPTURE, Access1, Missed, TRAP_RESTORE, interrupt_global
<1>2. UNCHANGED <<lim, enabledWays, limKept, constructed, has, beuHas, beuEnabled, beuAccrued>>
  BY <1>1 DEF wayVars, beuVars
<1>3. LimIsTaken /\ WaysAccount' /\ beuAccrued \ beuAccrued' = {}
  BY <1>0, <1>2 DEF LimIsTaken, WaysAccount
<1>4. "count" \notin Captured /\ "none" \notin Captured /\ \A op \in Captured : op \in CacheOps
  BY DEF Captured, CacheOps
<1>5. /\ doing' \in CallRecords /\ irqsOn' \in BOOLEAN /\ prefetch' \in [on : BOOLEAN, basic : Nat, user : Nat, flushed : BOOLEAN]
      /\ TrapAccount' /\ EventAccount'
  <2>1. CASE \E op \in Captured, config \in 1 .. 2 : TRAP_CAPTURE(op, config)
    <3>1. PICK op \in Captured, config \in 1 .. 2 : doing' = [Enters(op) EXCEPT !.given = config, !.on = irqsOn] /\ UNCHANGED <<irqsOn, prefetch>>
      BY <2>1 DEF TRAP_CAPTURE
    <3>2. Enters(op) \in CallRecords /\ Enters(op).op = op /\ Enters(op).pc = 1 /\ ~Enters(op).missed
      BY <1>4, CallsBegin
    <3>3. doing' \in CallRecords /\ doing'.op = op /\ doing'.pc = 1 /\ ~doing'.missed /\ doing'.on = irqsOn
      <4>1. config \in Nat /\ irqsOn \in BOOLEAN /\ op \in CacheOps
        BY <1>0, <1>4 DEF CacheTypes
      <4> DEFINE c == Enters(op)
                 d == doing'
      <4>2. /\ c \in CallRecords /\ c.op = op /\ c.pc = 1 /\ ~c.missed /\ config \in Nat /\ irqsOn \in BOOLEAN
            /\ d = [c EXCEPT !.given = config, !.on = irqsOn]
        BY <3>1, <3>2, <4>1
      <4> HIDE DEF c, d
      <4>3. d \in CallRecords /\ d.op = op /\ d.pc = 1 /\ ~d.missed /\ d.on = irqsOn
        BY <4>2 DEF CallRecords
      <4>4. QED
        BY <4>3 DEF d
    <3>4. TrapAccount'
      BY <3>1, <3>3 DEF TrapAccount, Accesses
    <3>5. QED
      BY <1>0, <1>4, <3>1, <3>3, <3>4 DEF EventAccount, CacheTypes
  <2>2. CASE Access1
    <3>1. /\ doing.op \in Captured /\ doing.pc <= Accesses /\ prefetch' = Effect /\ doing' = [doing EXCEPT !.pc = @ + 1]
          /\ irqsOn' = irqsOn /\ trapsTo' = trapsTo
      BY <2>2 DEF Access1
    <3>2. /\ doing' \in CallRecords /\ doing'.op = doing.op /\ doing'.pc = doing.pc + 1 /\ doing'.missed = doing.missed
          /\ doing'.on = doing.on /\ doing'.given = doing.given
      BY <1>0, <3>1 DEF CallRecords, CacheTypes
    <3>3. doing.pc \in 1 .. Accesses /\ Accesses' = Accesses /\ Accesses \in 1 .. 2
      BY <1>0, <3>1, <3>2 DEF TrapAccount, Accesses
    <3>4. Effect \in [on : BOOLEAN, basic : Nat, user : Nat, flushed : BOOLEAN]
      <4>1. doing.given \in Nat
        BY <1>0 DEF CacheTypes, CallRecords
      <4>2. CASE doing.op = "set_config" /\ doing.pc = 1
        BY <1>0, <4>1, <4>2 DEF Effect, CacheTypes
      <4>3. CASE doing.op = "set_config" /\ doing.pc # 1
        BY <1>0, <4>1, <4>3 DEF Effect, CacheTypes
      <4>4. CASE doing.op = "enable"
        BY <1>0, <4>4 DEF Effect, CacheTypes
      <4>5. CASE doing.op = "disable"
        BY <1>0, <4>5 DEF Effect, CacheTypes
      <4>6. CASE doing.op = "flush"
        BY <1>0, <4>6 DEF Effect, CacheTypes
      <4>7. QED
        BY <3>1, <4>2, <4>3, <4>4, <4>5, <4>6 DEF Captured
    <3>5. doing.op = "set_config" /\ ~doing.missed =>
              /\ doing.pc + 1 >= 2 => prefetch'.basic = doing.given
              /\ doing.pc + 1 >= 3 => prefetch'.user = doing.given
      <4>1. SUFFICES ASSUME doing.op = "set_config", ~doing.missed
                     PROVE  prefetch'.basic = doing.given /\ (doing.pc >= 2 => prefetch'.user = doing.given)
        BY <3>3
      <4>2. CASE doing.pc = 1
        <5>1. prefetch' = [prefetch EXCEPT !.on = TRUE, !.basic = doing.given]
          BY <3>1, <4>1, <4>2 DEF Effect
        <5>2. QED
          BY <1>0, <4>2, <5>1 DEF CacheTypes
      <4>3. CASE doing.pc = 2
        <5>1. prefetch' = [prefetch EXCEPT !.user = doing.given] /\ prefetch.basic = doing.given
          BY <1>0, <3>1, <4>1, <4>3 DEF Effect, TrapAccount
        <5>2. QED
          BY <1>0, <5>1 DEF CacheTypes
      <4>4. QED
        BY <3>3, <4>2, <4>3
    <3>6. /\ doing.missed => ~irqsOn /\ (~has \/ doing.on)
          /\ ~doing.missed => (doing.on <=> irqsOn)
      BY <1>0, <3>1 DEF TrapAccount
    <3>7. TrapAccount'
      BY <1>2, <3>1, <3>2, <3>3, <3>5, <3>6 DEF TrapAccount
    <3>8. QED
      BY <1>0, <1>4, <3>1, <3>2, <3>4, <3>7 DEF EventAccount, CacheTypes
  <2>3. CASE Missed
    <3>1. /\ doing.op \in Captured /\ doing.pc <= Accesses /\ (~has \/ irqsOn) /\ irqsOn' = FALSE
          /\ doing' = [doing EXCEPT !.pc = Accesses + 1, !.missed = TRUE] /\ UNCHANGED <<trapsTo, prefetch>>
      BY <2>3 DEF Missed
    <3>2. Accesses \in 1 .. 2
      BY DEF Accesses
    <3>3. /\ doing' \in CallRecords /\ doing'.op = doing.op /\ doing'.pc = Accesses + 1 /\ doing'.missed = TRUE /\ doing'.on = doing.on
      <4>1. Accesses + 1 \in Nat /\ doing \in CallRecords /\ "none" \in CacheOps
        BY <1>0, <3>2 DEF CacheTypes, CacheOps
      <4> DEFINE n == Accesses + 1
                 d == doing'
      <4>2. n \in Nat /\ doing \in CallRecords /\ d = [doing EXCEPT !.pc = n, !.missed = TRUE]
        BY <3>1, <4>1
      <4> HIDE DEF n, d
      <4>3. d \in CallRecords /\ d.op = doing.op /\ d.pc = n /\ d.missed = TRUE /\ d.on = doing.on
        BY <4>2 DEF CallRecords
      <4>4. QED
        BY <4>3 DEF n, d
    <3>4. Accesses' = Accesses
      BY <3>3 DEF Accesses
    <3>5. ~has \/ doing.on
      <4>1. doing.missed \/ (doing.on <=> irqsOn)
        BY <1>0, <3>1 DEF TrapAccount
      <4>2. doing.missed => ~has \/ doing.on
        BY <1>0, <3>1 DEF TrapAccount
      <4>3. QED
        BY <3>1, <4>1, <4>2
    <3>6. TrapAccount'
      BY <1>2, <3>1, <3>2, <3>3, <3>4, <3>5 DEF TrapAccount
    <3>7. QED
      BY <1>0, <1>4, <3>1, <3>3, <3>6 DEF EventAccount, CacheTypes
  <2>4. CASE TRAP_RESTORE
    <3>1. trapsTo' = "program" /\ doing' = NoneCalled /\ UNCHANGED <<irqsOn, prefetch>>
      BY <2>4 DEF TRAP_RESTORE
    <3>2. QED
      BY <1>0, <1>4, <3>1, CallsBegin DEF TrapAccount, EventAccount, CacheTypes
  <2>5. CASE interrupt_global
    <3>1. doing = NoneCalled /\ irqsOn' = ~irqsOn /\ UNCHANGED <<trapsTo, prefetch, doing>>
      BY <2>5 DEF interrupt_global, Idle
    <3>2. QED
      BY <1>0, <1>4, <3>1, CallsBegin DEF TrapAccount, EventAccount, CacheTypes
  <2>6. QED
    BY <2>1, <2>2, <2>3, <2>4, <2>5
<1>6. CacheTypes'
  BY <1>0, <1>1, <1>2, <1>5 DEF CacheTypes
<1>7. QED
  BY <1>3, <1>5, <1>6, ReturnsAreTrue DEF CacheAccount, CachePromises, ErrorsAccrue

\* The bus error unit: nobody but the call that clears takes an accrued error away.
LEMMA ErrorsKeepCache ==
    ASSUME CacheAccount,
           buserror_init \/ (\E events \in SUBSET BeuEvents, on \in BOOLEAN : set_event_enabled(events, on))
               \/ BusError \/ clear_cause \/ clear_event_accrued
    PROVE  CacheAccount' /\ CachePromises
<1>0. CacheTypes /\ WaysAccount /\ TrapAccount /\ EventAccount
  BY DEF CacheAccount
<1>1. UNCHANGED <<lim, enabledWays, limKept, pfVars, pm, beuHas>> /\ ("ccache" \in constructed => "ccache" \in constructed')
  BY DEF buserror_init, set_event_enabled, BusError, clear_cause, clear_event_accrued, wayVars
<1>2. UNCHANGED <<has, trapsTo, irqsOn, prefetch>>
  BY <1>1 DEF pfVars
<1>3. LimIsTaken /\ WaysAccount'
  BY <1>0, <1>1 DEF LimIsTaken, WaysAccount
<1>4. beuEnabled' \subseteq BeuEvents
  <2>1. CASE \E events \in SUBSET BeuEvents, on \in BOOLEAN : set_event_enabled(events, on)
    <3>1. PICK events \in SUBSET BeuEvents, on \in BOOLEAN : set_event_enabled(events, on)
      BY <2>1
    <3>2. beuEnabled' = beuEnabled \/ beuEnabled' = beuEnabled \cup (events \cap beuHas) \/ beuEnabled' = beuEnabled \ events
      BY <3>1 DEF set_event_enabled
    <3>3. QED
      BY <1>0, <3>2 DEF CacheTypes
  <2>2. CASE buserror_init
    BY <1>0, <2>2 DEF buserror_init, CacheTypes
  <2>3. CASE BusError \/ clear_cause \/ clear_event_accrued
    BY <1>0, <2>3 DEF BusError, clear_cause, clear_event_accrued, CacheTypes
  <2>4. QED
    BY <2>1, <2>2, <2>3
<1>5. beuAccrued' \subseteq BeuEvents /\ doing' \in CallRecords /\ TrapAccount' /\ EventAccount'
  <2>1. CASE doing' = doing
    <3>1. beuAccrued' \subseteq BeuEvents
      <4>1. CASE BusError
        BY <1>0, <4>1 DEF BusError, CacheTypes
      <4>2. CASE clear_event_accrued
        <5>1. beuAccrued' = beuAccrued \/ beuAccrued' = doing.was \ doing.events
          BY <4>2 DEF clear_event_accrued
        <5>2. doing.was \subseteq BeuEvents
          BY <1>0 DEF CacheTypes, CallRecords
        <5>3. QED
          BY <1>0, <5>1, <5>2 DEF CacheTypes
      <4>3. CASE buserror_init \/ (\E events \in SUBSET BeuEvents, on \in BOOLEAN : set_event_enabled(events, on)) \/ clear_cause
        BY <1>0, <4>3 DEF buserror_init, set_event_enabled, clear_cause, CacheTypes
      <4>4. QED
        BY <4>1, <4>2, <4>3
    <3>2. QED
      BY <1>0, <1>1, <1>2, <2>1, <3>1 DEF CacheTypes, TrapAccount, Accesses, EventAccount, EventsRead
  <2>2. CASE clear_cause
    <3>1. beuAccrued' = beuAccrued /\ ((Idle /\ doing' = Enters("cause")) \/ (doing.op = "cause" /\ doing' = NoneCalled))
      BY <2>2 DEF clear_cause
    <3>2. trapsTo = "program"
      BY <1>0, <3>1, CallsBegin DEF TrapAccount, Idle, Captured
    <3>3. doing' \in CallRecords /\ doing'.op \in {"cause", "none"}
      BY <3>1, CallsBegin DEF CacheOps
    <3>4. QED
      BY <1>0, <1>2, <3>1, <3>2, <3>3 DEF CacheTypes, TrapAccount, EventAccount, Captured
  <2>3. CASE clear_event_accrued
    <3>1. /\ doing.op \in {"none", "accrued"}
          /\ beuAccrued' = beuAccrued \/ beuAccrued' = doing.was \ doing.events
      BY <2>3, CallsBegin DEF clear_event_accrued, Idle
    <3>2. doing' \in CallRecords /\ doing'.op \in {"none", "accrued"}
      <4>1. CASE \E events \in SUBSET BeuEvents \ {{}} : doing' = [Enters("accrued") EXCEPT !.events = events, !.was = beuAccrued]
        <5>1. PICK events \in SUBSET BeuEvents : doing' = [Enters("accrued") EXCEPT !.events = events, !.was = beuAccrued]
          BY <4>1
        <5>2. Enters("accrued") \in CallRecords /\ Enters("accrued").op = "accrued" /\ beuAccrued \in SUBSET BeuEvents
          BY <1>0, CallsBegin DEF CacheOps, CacheTypes
        <5>3. QED
          BY <5>1, <5>2 DEF CallRecords
      <4>2. CASE doing.op = "accrued" /\ doing' = [doing EXCEPT !.pc = 2]
        BY <1>0, <4>2 DEF CacheTypes, CallRecords
      <4>3. CASE doing' = NoneCalled
        BY <4>3, CallsBegin
      <4>4. QED
        BY <2>3, <4>1, <4>2, <4>3 DEF clear_event_accrued
    <3>3. trapsTo = "program"
      BY <1>0, <3>1 DEF TrapAccount, Captured
    <3>4. beuAccrued' \subseteq BeuEvents
      <4>1. doing.was \subseteq BeuEvents /\ beuAccrued \subseteq BeuEvents
        BY <1>0 DEF CacheTypes, CallRecords
      <4>2. QED
        BY <3>1, <4>1
    <3>5. QED
      BY <1>2, <3>2, <3>3, <3>4 DEF TrapAccount, EventAccount, Captured
  <2>4. QED
    BY <2>1, <2>2, <2>3 DEF buserror_init, set_event_enabled, BusError
<1>6. CacheTypes'
  BY <1>0, <1>1, <1>2, <1>4, <1>5 DEF CacheTypes
<1>7. beuAccrued \ beuAccrued' # {} =>
          clear_event_accrued /\ beuAccrued \ beuAccrued' \subseteq doing.events \cup (beuAccrued \ doing.was)
  <2>1. CASE clear_event_accrued
    BY <2>1 DEF clear_event_accrued
  <2>2. CASE BusError
    BY <2>2 DEF BusError
  <2>3. CASE buserror_init \/ (\E events \in SUBSET BeuEvents, on \in BOOLEAN : set_event_enabled(events, on)) \/ clear_cause
    BY <2>3 DEF buserror_init, set_event_enabled, clear_cause
  <2>4. QED
    BY <2>1, <2>2, <2>3
<1>8. QED
  BY <1>3, <1>5, <1>6, <1>7, ReturnsAreTrue DEF CacheAccount, CachePromises, ErrorsAccrue

(* sifive_ccache0.c:40, 265; cache.c:177; sifive_buserror0.c: for any number *)
(* of ways and size of the program that fits them, counters of any size and  *)
(* any events, calls to the cache, its prefetcher and the bus error unit do  *)
(* what they say.                                                            *)
THEOREM CachesKeepWord == CacheSpec => CachesAreAsTold
<1>1. CacheAccount => (Idle => trapsTo = "program")
  BY CallsBegin DEF CacheAccount, TrapAccount, Idle, Captured
<1>2. CacheAccount /\ [CacheNext]_cacheVars => CacheAccount' /\ [LimIsTaken /\ TrapsAreBack /\ CountsAreWhole /\ ErrorsAccrue]_cacheVars
  <2>1. SUFFICES ASSUME CacheAccount, [CacheNext]_cacheVars
                 PROVE  CacheAccount' /\ [LimIsTaken /\ TrapsAreBack /\ CountsAreWhole /\ ErrorsAccrue]_cacheVars
    OBVIOUS
  <2>2. CASE UNCHANGED cacheVars
    BY <2>1, <2>2 DEF cacheVars, wayVars, pfVars, beuVars, CacheAccount, CacheTypes, WaysAccount, TrapAccount, Accesses, EventAccount, EventsRead
  <2>3. CASE CacheNext
    <3>1. CacheAccount' /\ CachePromises
      BY <2>1, <2>3, WaysKeepCache, CountingKeepsCache, CapturesKeepCache, ErrorsKeepCache DEF CacheNext
    <3>2. QED
      BY <3>1 DEF CachePromises
  <2>4. QED
    BY <2>1, <2>2, <2>3
<1>3. QED
  BY <1>1, <1>2, CacheStart, PTL DEF CacheSpec, CachesAreAsTold

-----------------------------------------------------------------------------
(* The parts together.                                                      *)

(* What a program that uses one of the parts does is what the part's own      *)
(* specification allows: the parts share nothing.                           *)
THEOREM WaitsImplementParts ==
    WaitsSpec => BootSpec /\ TimerSpec /\ ClkSpec /\ I2c0Spec /\ ImageSpec /\ CacheSpec /\ DemosSpec
<1>1. WaitsInit => BootInit /\ TimerInit /\ ClkInit /\ I2c0Init /\ ImageInit /\ CacheInit /\ DemosInit
  BY DEF WaitsInit
<1>2. [WaitsNext]_waitsVars =>
          /\ [BootNext]_bootVars /\ [TimerNext]_timerVars /\ [ClkNext]_clkVars /\ [I2c0Next]_i2c0Vars
          /\ [ImageNext]_imageVars /\ [CacheNext]_cacheVars /\ [DemosNext]_demosVars
  BY DEF WaitsNext, Others, waitsVars
<1>3. QED
  BY <1>1, <1>2, PTL DEF WaitsSpec, BootSpec, TimerSpec, ClkSpec, I2c0Spec, ImageSpec, CacheSpec, DemosSpec

(* Of such a program, for every value of the constants: harts start in order  *)
(* and exclude each other (crt0.S, lock.h); times are whole and the wait is   *)
(* an alarm (riscv_clint0.c, HCSR04); and the caches, the prefetcher and the  *)
(* bus error unit do as they are told (sifive_ccache0.c, sifive_l2pf0.c,      *)
(* sifive_buserror0.c).                                                     *)
THEOREM WaitsDoAsTold ==
    WaitsSpec => []BootOrder /\ []LockExcludes /\ TimeIsWhole /\ WaitIsAnAlarm /\ CachesAreAsTold
  BY WaitsImplementParts, BootComesInOrder, LockHasOneHolder, TimesAreWhole, WaitImplementsAlarm, CachesKeepWord, PTL

(* And what main finds and the heap, the core's clock and the devices that    *)
(* follow it, the bus and the sensor are as the parts say (crt0.S,           *)
(* sys_sbrk.c, sifive_fe310-g000_pll.c, clock.h, sifive_i2c0.c, HCSR04:132). *)
THEOREM WaitsKeepTheirWords ==
    WaitsSpec => /\ DevicesFollow /\ I2cRateChangeNeverReturns
                 /\ [](MainFindsItsImage /\ StacksAreKept) /\ [][HeapIsClean]_imageVars
                 /\ [](OkMeansAcknowledged /\ BusLeftAsAsked) /\ CommandsDoNotOverlap
                 /\ [](demo = "HCSR04" /\ dpc = "loop" => SensorAtRest)
  BY WaitsImplementParts, DevicesFollowClock, ImageReachesMain, HeapIsZeroed, I2cKeepsItsWord, TriggersFindSilence, PTL
=============================================================================
