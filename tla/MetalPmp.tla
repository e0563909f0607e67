--------------------------------- MODULE MetalPmp ---------------------------------
(***************************************************************************)
(* pmp.c: the regions of physical memory protection.  A call is one step:    *)
(* nothing else of a hart touches these registers.                           *)
(***************************************************************************)
EXTENDS Powers

CONSTANTS
    PmpRegions,     \* how many regions the hart has
    PmpBits,        \* the bits of pmpaddr
    PmpAddresses,   \* what the program asks for
    PmpGrains       \* low bits of pmpaddr that the hardware may lack

ASSUME PmpAssumption == /\ PmpRegions \in Nat \ {0} /\ PmpBits \in 1 .. 32
                        /\ PmpAddresses \subseteq 0 .. PowerOf2[PmpBits] - 1
                        /\ PmpGrains \subseteq 0 .. PmpBits - 1
                        /\ \A g \in PmpGrains : g + 2 <= 31   \* in bytes it fits a word

VARIABLES
    grain,          \* the hardware's
    pcfg, paddr,    \* the registers
    _granularity,   \* what init detected, in bytes; 0 before
    pmpCall         \* the last call: its result, and what it set if there was no error

pmpVars == <<grain, pcfg, paddr, _granularity, pmpCall>>

PmpIds == 0 .. PmpRegions - 1
OnesAddress   == PowerOf2[PmpBits] - 1
Modes  == {"off", "tor", "na4", "napot"}
Config(a, l) == [A |-> a, L |-> l]      \* the access bits are left out

PmpInit ==
    /\ grain \in PmpGrains
    /\ pcfg = [r \in PmpIds |-> Config("off", FALSE)] /\ paddr = [r \in PmpIds |-> 0]
    /\ _granularity = 0
    /\ pmpCall = [op |-> "none", ret |-> 0]

-----------------------------------------------------------------------------
(* The registers.                                                           *)

Without(a, k) == (a \div PowerOf2[k]) * PowerOf2[k]

\* What a read of pmpaddr gives: in some modes the low bits are not shown.
Shown(a, mode) ==
    CASE mode \in {"off", "tor"}          -> Without(a, grain)
      [] mode = "napot" /\ grain >= 1 -> Without(a, grain - 1) + PowerOf2[grain - 1] - 1
      [] OTHER                        -> a

\* A locked region above, with this one as its bottom, keeps the address too.
AddressHeld(r) == pcfg[r].L \/ (r + 1 \in PmpIds /\ pcfg[r + 1].L /\ pcfg[r + 1].A = "tor")

-----------------------------------------------------------------------------
(* Granularities, in bytes.                                                 *)

LowestOne(a)  == CHOOSE k \in 0 .. PmpBits - 1 : (a \div PowerOf2[k]) % 2 = 1 /\ a % PowerOf2[k] = 0
LowestZero(a) == CHOOSE k \in 0 .. PmpBits - 1 : (a \div PowerOf2[k]) % 2 = 0 /\ a % PowerOf2[k] = PowerOf2[k] - 1

\* 1 << n: the hart takes the count modulo 32, so that what needs more comes out small.
ShiftedOne(n) == PowerOf2[n % 32]

\* Of 0 it is (uintptr_t)-1, which is more than any other.
_get_detected_granularity(a) == IF a = 0 THEN PowerOf2[PmpBits + 3] ELSE ShiftedOne(LowestOne(a) + 2)
_get_pmpaddr_granularity(a)  == ShiftedOne(LowestZero(a) + 3)

\* The loop of _get_pmpaddr_granularity finds no zero.
Endless2(c, a)       == c.A = "napot" /\ a = OnesAddress
TooFine(c, a) == \/ c.A = "na4" /\ _granularity > 4
                 \/ c.A = "napot" /\ a # OnesAddress /\ _granularity > _get_pmpaddr_granularity(a)

-----------------------------------------------------------------------------
(* metal_pmp_set_region and the calls that end in it.                       *)

\* The address is written only if another is shown.
Writes(r, a)        == Shown(paddr[r], pcfg[r].A) # a

\* Address first: the configuration may lock it.  Mutant: _last.
AddressTaken_last(r, c) == ~AddressHeld(r) /\ ~c.L
AddressTaken(r, c)      == ~AddressHeld(r)

\* A region one past the last is let through, to registers that are not there.
metal_pmp_set_region(op, r, c, a) ==
    LET done(ret) == pmpCall' = IF ret # 0 THEN [op |-> "none", ret |-> ret]
                                ELSE [op |-> op, region |-> r, config |-> c, address |-> a, ret |-> 0]
    IN
    /\ IF Endless2(c, a) THEN done(-1) /\ UNCHANGED <<pcfg, paddr>>
       ELSE IF TooFine(c, a) THEN done(3) /\ UNCHANGED <<pcfg, paddr>>
       ELSE IF r = PmpRegions THEN (done(-1) \/ pmpCall' = [op |-> "none", ret |-> 0]) /\ UNCHANGED <<pcfg, paddr>>
       ELSE IF pcfg[r].L THEN done(4) /\ UNCHANGED <<pcfg, paddr>>
       ELSE /\ paddr' = IF Writes(r, a) /\ AddressTaken(r, c) THEN [paddr EXCEPT ![r] = a] ELSE paddr
            /\ pcfg' = [pcfg EXCEPT ![r] = c]
            /\ done(0)
    /\ UNCHANGED <<grain, _granularity>>

\* Not after a call that never returned, or trapped.
Goes == pmpCall.ret # -1

metal_pmp_set_address(r, a) == metal_pmp_set_region("address", r, pcfg[r], a)
\* What the setters of mode, access and lock read back they write.
Rewrite(r, c) == metal_pmp_set_region("field", r, c, Shown(paddr[r], pcfg[r].A))

\* Every region that is not locked is cleared, where its address does not show 0
\* already; ones in the first tell the grain, and it is cleared again.
metal_pmp_init ==
    /\ Goes
    /\ LET cleared == [r \in PmpIds |-> IF AddressHeld(r) \/ (r # 0 /\ ~Writes(r, 0)) THEN paddr[r] ELSE 0]
           probed  == Shown(IF AddressHeld(0) THEN paddr[0] ELSE OnesAddress, "off")
       IN  /\ pcfg' = [r \in PmpIds |-> IF pcfg[r].L THEN pcfg[r] ELSE Config("off", FALSE)]
           /\ paddr' = cleared
           /\ _granularity' = IF pcfg[0].L THEN _granularity ELSE _get_detected_granularity(probed)
           /\ pmpCall' = [op |-> "init", ret |-> 0]
    /\ UNCHANGED grain

PmpNext ==
    \/ metal_pmp_init
    \/ \E r \in 0 .. PmpRegions, m \in Modes, l \in BOOLEAN, a \in PmpAddresses :
        Goes /\ metal_pmp_set_region("address", r, Config(m, l), a)
    \/ \E r \in PmpIds : /\ Goes
                         /\ \/ \E a \in PmpAddresses : metal_pmp_set_address(r, a)
                            \/ \E m \in Modes : Rewrite(r, [pcfg[r] EXCEPT !.A = m])
                            \/ Rewrite(r, pcfg[r])
                            \/ ~pcfg[r].L /\ Rewrite(r, [pcfg[r] EXCEPT !.L = TRUE])

PmpSpec == PmpInit /\ [][PmpNext]_pmpVars

-----------------------------------------------------------------------------
(* pmp.c:151-152: a region that was set is as asked, also if it is locked   *)
(* at once, unless the locked region above it holds its address, or it is   *)
(* the one past the last.                                                   *)
SetAsAsked(r) ==
    (pmpCall.op \notin {"none", "init"} /\ pmpCall.ret = 0 /\ pmpCall.region = r) =>
        /\ pcfg[r] = pmpCall.config
        /\ \/ r + 1 \in PmpIds /\ pcfg[r + 1].L /\ pcfg[r + 1].A = "tor"
           \/ pmpCall.op = "address" =>
                  Without(paddr[r], grain) = Without(pmpCall.address, grain)

(* pmp.c:153: changing the mode, the access or the lock of a region never   *)
(* changes its address, though they write back one with bits missing.       *)
SettersKeepAddress ==
    pmpCall'.op = "field" => UNCHANGED paddr

(* pmp.c:94-103: init finds the granularity of the hart, unless the address *)
(* of the first region cannot be written.                                   *)
DetectedIsHardware ==
    (pmpCall'.op = "init" /\ ~AddressHeld(0)) => _granularity' = PowerOf2[grain + 2]

(* pmp.c:127-138: once init has detected the granularity, a region that is  *)
(* a power of two covers what was asked, and is not rounded by the hart.  An *)
(* address that is shown already is not written (pmp.c:151): where the hart *)
(* hides one bit of a region that is off, that bit may make the region      *)
(* twice as big.                                                            *)
NapotAsAsked ==
    (/\ pmpCall'.op = "address" /\ _granularity = PowerOf2[grain + 2]
     /\ ~AddressHeld(pmpCall'.region)
     /\ pmpCall'.config.A = "napot") =>
         LET r == pmpCall'.region
             shown == Shown(paddr'[r], "napot")
         IN  \/ shown = pmpCall'.address
             \/ grain = 1 /\ pcfg[r].A \in {"off", "tor"} /\ shown = pmpCall'.address + 1

(* pmp.c:54-59: no call gives the whole of memory to a region that is a     *)
(* power of two: the loop over its address ends nowhere.  Only an address   *)
(* that the locked region above held can be it.                             *)
NoWholeSpace ==
    \A r \in PmpIds : (grain = 0 /\ pcfg'[r].A = "napot" /\ paddr'[r] = OnesAddress) =>
        \/ pcfg[r].A = "napot" /\ paddr[r] = OnesAddress
        \/ AddressHeld(r)

(* A region is what the last call about it asked for.                       *)
RegionsAreAsAsked ==
    /\ [](\A r \in PmpIds : SetAsAsked(r))
    /\ [][SettersKeepAddress /\ DetectedIsHardware /\ NapotAsAsked /\ NoWholeSpace]_pmpVars
=============================================================================
