------------------------------ MODULE MetalImage ------------------------------
(***************************************************************************)
(* From the device tree to main: the generator of the linker script, which   *)
(* lays the program out in the board's memories; the code before main, with  *)
(* which every hart scrubs and the boot hart fills these; and the heap.      *)
(*                                                                         *)
(* The tree is abstract: a node's memory is a range of blocks.               *)
(***************************************************************************)
EXTENDS Integers, Sequences, FiniteSets
LOCAL INSTANCE SequencesExt

CONSTANTS
    ImageOffsets,   \* offsets of chosen regions, in blocks
    ImageHarts,     \* a bound: how many harts there are
    RamKinds, RamBases,     \* memories that may have to be scrubbed: what they are, and where
    RamMost, RamMax,        \* a bound: how many there are; the code's limit for one, in blocks
    HeapEnd,        \* the heap goes from byte 0 up to this one
    HeapCounts      \* what programs ask for, and give back

ASSUME ImageAssumption ==
    /\ ImageOffsets \subseteq Nat /\ ImageHarts \in Nat \ {0}
    /\ RamBases \subseteq Nat /\ {RamMost, RamMax, HeapEnd} \subseteq Nat /\ HeapCounts \subseteq Nat

-----------------------------------------------------------------------------
(* memory_map.py.  The nodes' memories; the flash is the second of its       *)
(* node's, and the cache's is what is left of it beside the first way.       *)

RegionNames == <<"entry", "ram", "itim", "lim">>
NodeReg(n) ==
    CASE n = "spi" -> [base |-> 64, length |-> 16]   [] n = "testram" -> [base |-> 32, length |-> 8]
      [] n = "dtim" -> [base |-> 128, length |-> 8]  [] n = "itim" -> [base |-> 16, length |-> 4]
CacheSize == 4
CacheWay  == 1
Sideband  == 8

Chosen(n, o) == [node |-> n, offset |-> o]
Unchosen     == Chosen("none", 0)

\* What a device tree may choose.
Trees == {t \in [entry : {Chosen(n, o) : n \in {"spi", "testram", "dtim"}, o \in ImageOffsets},
                 ram   : {Chosen(n, o) : n \in {"testram", "dtim"}, o \in ImageOffsets},
                 itim  : {Unchosen} \cup {Chosen(n, o) : n \in {"spi", "testram", "dtim", "itim"}, o \in ImageOffsets},
                 lim   : {Unchosen, Chosen("ccache", 0)}] :
             t.itim.node = "spi" => t.itim = t.entry}

compute_address_range(c) ==
    [node |-> c.node, offset |-> c.offset,
     base   |-> IF c.node = "ccache" THEN Sideband ELSE NodeReg(c.node).base + c.offset,
     length |-> IF c.node = "ccache" THEN CacheSize - CacheWay ELSE NodeReg(c.node).length - c.offset]

\* A node's regions, the first first.
PlaceIn(s, x) == CHOOSE i \in DOMAIN s : s[i] = x
Before(R, a, b) ==
    \/ R[a].offset < R[b].offset
    \/ R[a].offset = R[b].offset /\ PlaceIn(RegionNames, a) < PlaceIn(RegionNames, b)
Partition(R, n) == SetToSortSeq({r \in DOMAIN R : R[r].node = n}, LAMBDA a, b : Before(R, a, b))

\* The end of a region is the beginning of the next, unless both begin at one
\* address.  Mutant: _first looks at the first two only.
Shortened_first(R, r) ==
    LET p == Partition(R, R[r].node)
    IN  IF Len(p) >= 2 /\ p[1] = r /\ R[p[1]].base # R[p[2]].base THEN R[p[2]].base - R[r].base ELSE R[r].length
Shortened(R, r) ==
    LET p == Partition(R, R[r].node)
        i == PlaceIn(p, r)
    IN  IF i < Len(p) /\ i <= 2 /\ R[p[i]].base # R[p[i + 1]].base THEN R[p[i + 1]].base - R[r].base ELSE R[r].length
compute_address_ranges(R) == [r \in DOMAIN R |-> [R[r] EXCEPT !.length = Shortened(R, r)]]

regions_overlap(R, a, b) ==
    {a, b} \subseteq DOMAIN R /\ R[a].base = R[b].base /\ R[a].length = R[b].length

\* The memory that a region goes to.
MemoryFor(R, r) ==
    LET test == regions_overlap(R, "ram", "entry")
    IN  CASE r \in {"entry", "ram"} -> IF test THEN "testram" ELSE IF r = "entry" THEN "rom" ELSE "ram"
          [] r = "itim" -> IF regions_overlap(R, "itim", "entry") THEN IF test THEN "testram" ELSE "rom"
                           ELSE IF regions_overlap(R, "itim", "ram") /\ ~test THEN "ram" ELSE "itim"
          [] r = "lim"  -> "lim"

invert_regions_to_memories(R) ==
    [m \in {MemoryFor(R, r) : r \in DOMAIN R} |->
        LET in == {r \in DOMAIN R : MemoryFor(R, r) = m}
            r  == CHOOSE r \in in : "ram" \in in => r = "ram"
        IN  [base |-> R[r].base, length |-> R[r].length, node |-> R[r].node,
             contents |-> IF m = "ram" /\ "itim" \notin DOMAIN R THEN in \cup {"itim"} ELSE in]]

get_chosen_regions(t) == LET on == {r \in DOMAIN t : t[r] # Unchosen} IN [r \in on |-> compute_address_range(t[r])]
get_memories(t)       == invert_regions_to_memories(compute_address_ranges(get_chosen_regions(t)))

\* Where sections are when the program begins, and where it wants them.
get_load_map(M, scratchpad) ==
    LET test == "testram" \in DOMAIN M
        load == IF test THEN "testram" ELSE IF scratchpad THEN "ram" ELSE "rom"
        ram  == IF test THEN "testram" ELSE "ram"
    IN  [lma |-> load,
         vma |-> [data |-> ram,
                  itim |-> IF "itim" \in M[ram].contents THEN ram ELSE IF "itim" \in DOMAIN M THEN "itim" ELSE load,
                  lim  |-> IF "lim" \in DOMAIN M THEN "lim" ELSE ram]]

-----------------------------------------------------------------------------
(* The memories to scrub, of which the generator makes ranges.              *)

\* A name of letters only gets a number, any other stays and may be given twice.
RamName(s, i) ==
    [kind |-> s[i].kind,
     nr |-> IF s[i].kind \in {"sys-sram", "cache-controller"} THEN 0
            ELSE Cardinality({j \in 1 .. i - 1 : s[j].kind = s[i].kind})]
Named(s) == {s[i] : i \in {i \in DOMAIN s : \A j \in i + 1 .. Len(s) : RamName(s, j) # RamName(s, i)}}

\* What follows the last range makes it longer; a range is cut when all are made.
consolidate_address_ranges(S) ==
    LET Add(a, r) ==
            IF a # <<>> /\ Last(a).base + Last(a).length = r.base
            THEN [a EXCEPT ![Len(a)].length = @ + r.length] ELSE Append(a, [base |-> r.base, length |-> r.length])
        all == FoldLeft(Add, <<>>, SetToSortSeq(S, LAMBDA a, b : a.base < b.base))
    IN  {[r EXCEPT !.length = IF @ > RamMax THEN RamMax ELSE @] : r \in ToSet(all)}
get_ram_memories(s) == IF s = <<>> THEN {} ELSE consolidate_address_ranges(Named(s))

Blocks(r) == r.base .. r.base + r.length - 1
Rams == {s \in UNION {[1 .. n -> [kind : RamKinds, base : RamBases, length : {2, 3}]] : n \in 0 .. RamMost} :
            \A i, j \in DOMAIN s : i # j => Blocks(s[i]) \cap Blocks(s[j]) = {}}

-----------------------------------------------------------------------------
VARIABLES
    tree,           \* what the device tree chooses, until the program is linked
    memories,       \* those of the linker script, until then
    image,          \* the linked program
    reached,        \* how far each hart is
    content,        \* what is where each section is wanted: "here" is what should be
    stack,          \* each hart's: "free", "used", or "lost" while it is used
    rams, scrubs,   \* memories to scrub, and the ranges made of them
    brk, live       \* the break of the heap, and the bytes that the program has from it

layVars   == <<tree, memories, image>>
startVars == <<reached, content, stack>>
ramVars   == <<rams, scrubs>>
heapVars  == <<brk, live>>
imageVars == <<layVars, startVars, ramVars, heapVars>>

NoTree   == [entry |-> Unchosen, ram |-> Unchosen, itim |-> Unchosen, lim |-> Unchosen]
NoImage  == [harts |-> 0, boot |-> 0, ecc |-> FALSE, lma |-> "none", vma |-> [data |-> "none", itim |-> "none", lim |-> "none"],
             readOnly |-> {}]
NoScrubs == {[base |-> 0, length |-> 0]}
HartIds    == 0 .. image.harts - 1

\* One of the three is looked at: the image, the ranges to scrub, or the heap.
ImageInit ==
    /\ \/ tree \in Trees /\ rams = <<>> /\ brk = -1
       \/ tree = NoTree /\ rams \in Rams /\ brk = -1
       \/ tree = NoTree /\ rams = <<>> /\ brk = 0
    /\ memories = <<>> /\ image = NoImage /\ reached = <<>> /\ content = NoImage.vma /\ stack = <<>>
    /\ scrubs = NoScrubs /\ live = {}

\* generate_ldscript.py, up to the layout of the program.
generate ==
    /\ tree # NoTree /\ memories = <<>>
    /\ memories' = get_memories(tree)
    /\ UNCHANGED <<tree, image, startVars, ramVars, heapVars>>

Disjoint(M) == \A a, b \in DOMAIN M : a # b => Blocks(M[a]) \cap Blocks(M[b]) = {}

\* The rest of it, and the linker, which refuses sections that overlap.  All but
\* the scratchpad layout can scrub.
link ==
    /\ memories # <<>> /\ Disjoint(memories)
    /\ \E layout \in {"default", "scratchpad"}, ecc \in BOOLEAN, harts \in 1 .. ImageHarts, boothart \in -1 .. ImageHarts - 1 :
        LET map == get_load_map(memories, layout = "scratchpad")
        IN  /\ boothart < harts
            /\ image' = [harts |-> harts, ecc |-> ecc /\ layout # "scratchpad", lma |-> map.lma, vma |-> map.vma,
                         boot |-> IF boothart >= 0 THEN boothart ELSE IF harts > 1 THEN 1 ELSE 0,
                         readOnly |-> {m \in DOMAIN memories : memories[m].node = "spi"}]
            /\ reached' = [h \in 0 .. harts - 1 |-> "reset"] /\ stack' = [h \in 0 .. harts - 1 |-> "free"]
            /\ content' = [s \in DOMAIN map.vma |-> IF map.vma[s] = map.lma THEN "here" ELSE "old"]
    /\ tree' = NoTree /\ memories' = <<>> /\ UNCHANGED <<ramVars, heapVars>>

\* _enter, and __metal_before_start.  The stack pointer of a hart is the end of
\* its stack: what it scrubs from there on is the stack of the next.
Above(h)   == {h + 1} \cap HartIds
enter(h) ==
    /\ reached[h] = "reset"
    /\ reached' = [reached EXCEPT ![h] = IF image.ecc /\ h = image.boot THEN "data" ELSE "start"]
    /\ stack' = [g \in HartIds |-> IF image.ecc /\ g \in Above(h) /\ stack[g] = "used" THEN "lost" ELSE stack[g]]
    /\ UNCHANGED <<layVars, content, ramVars, heapVars>>

\* The boot hart scrubs the sections, of which one may be in flash.
__metal_before_start(h, from, to) ==
    LET s == from
    IN  /\ reached[h] = from
        /\ IF image.vma[s] \in image.readOnly
           THEN reached' = [reached EXCEPT ![h] = "early_trap_vector"] /\ UNCHANGED content
           ELSE reached' = [reached EXCEPT ![h] = to] /\ content' = [content EXCEPT ![s] = "zero"]
        /\ UNCHANGED <<layVars, stack, ramVars, heapVars>>

\* _start: the boot hart copies what is not in its place and runs constructors,
\* the others go to where they wait for it.  All have frames on their stacks.
_start(h) ==
    /\ reached[h] = "start"
    /\ reached' = [reached EXCEPT ![h] = "synchronize"] /\ stack' = [stack EXCEPT ![h] = "used"]
    /\ content' = IF h # image.boot THEN content
                  ELSE [s \in DOMAIN content |-> IF image.vma[s] # image.lma THEN "here" ELSE content[s]]
    /\ UNCHANGED <<layVars, ramVars, heapVars>>

\* After the harts have met, the boot hart is in main, any other in secondary_main.
secondary_main(h) ==
    /\ reached[h] = "synchronize" /\ \A g \in HartIds : reached[g] \in {"synchronize", "main"}
    /\ reached' = [reached EXCEPT ![h] = "main"]
    /\ UNCHANGED <<layVars, content, stack, ramVars, heapVars>>

get_sorted_ram_memories ==
    /\ scrubs = NoScrubs /\ tree = NoTree /\ image = NoImage /\ brk = -1
    /\ scrubs' = get_ram_memories(rams)
    /\ UNCHANGED <<layVars, startVars, rams, heapVars>>

\* The bytes that metal_mem_scrub(a, n) sets to 0: words where it can.
metal_mem_scrub(a, n) ==
    LET Zeroed[p \in Nat \X Int] ==
            LET w == IF p[2] >= 4 /\ p[1] % 4 = 0 THEN 4 ELSE 1
            IN  (p[1] .. p[1] + w - 1) \cup (IF p[2] - w > 0 THEN Zeroed[<<p[1] + w, p[2] - w>>] ELSE {})
    IN  Zeroed[<<a, n>>]

\* _sbrk.  A program gives back no more than it has.
Granted(n) == brk + n < HeapEnd
_sbrk(n) ==
    /\ brk >= 0 /\ HeapEnd # 0 /\ -n <= Cardinality(live)
    /\ IF Granted(n)
       THEN brk' = brk + n /\ live' = IF n > 0 THEN live \cup (brk .. brk + n - 1)
                                      ELSE {b \in live : Cardinality({c \in live : c > b}) >= -n}
       ELSE brk' = HeapEnd /\ UNCHANGED live
    /\ UNCHANGED <<layVars, startVars, ramVars>>

Counts == HeapCounts \cup {-n : n \in HeapCounts}
ImageNext ==
    \/ generate \/ link \/ get_sorted_ram_memories
    \/ \E h \in HartIds : enter(h) \/ __metal_before_start(h, "data", "itim") \/ __metal_before_start(h, "itim", "start")
                        \/ _start(h) \/ secondary_main(h)
    \/ \E n \in Counts : _sbrk(n)
ImageSpec == ImageInit /\ [][ImageNext]_imageVars

-----------------------------------------------------------------------------
(* Properties.                                                              *)

(* memory_map.py:260: regions do not overlap.  They do when three are on one *)
(* node and the first two begin at one address, where the second is          *)
(* shortened and the first is not.                                           *)
TwoFirst(p) == Len(p) = 3 /\ p[1].offset = p[2].offset /\ p[3].offset # p[1].offset
OnNode(n)   == SetToSortSeq({r \in DOMAIN tree : tree[r].node = n}, LAMBDA a, b : Before(tree, a, b))
MemoriesAreApart ==
    memories # <<>> =>
        /\ Disjoint(memories) <=> \A n \in {"testram", "dtim"} : ~TwoFirst([i \in DOMAIN OnNode(n) |-> tree[OnNode(n)[i]]])
        /\ \A m \in DOMAIN memories : memories[m].length > 0
        /\ \A r \in DOMAIN tree : tree[r].node \notin {"none", "ccache"} =>
            \E m \in DOMAIN memories : /\ r \in memories[m].contents
                                      /\ memories[m].base = NodeReg(tree[r].node).base + tree[r].offset
        /\ \A s \in BOOLEAN : LET map == get_load_map(memories, s) IN
            {map.lma} \cup {map.vma[x] : x \in DOMAIN map.vma} \subseteq DOMAIN memories

(* crt0.S:53: what a hart in main finds is what the image has, but for what   *)
(* was scrubbed where it had been loaded.                                    *)
MainFindsItsImage ==
    (\E h \in HartIds : reached[h] = "main") =>
        \A s \in DOMAIN content : content[s] = "here" \/ (image.ecc /\ image.vma[s] = image.lma /\ s # "lim")

(* scrub.S:106: a hart scrubs a stack that nobody uses.  It is that of the    *)
(* next hart, which may have begun.                                          *)
StacksAreKept == \A h \in HartIds : stack[h] = "lost" => image.ecc /\ h > 0

(* memory_map.py:219: what is scrubbed is memory, the first blocks of every   *)
(* piece of it, but for memories that lost their name to another.            *)
RamsAreCovered ==
    scrubs # NoScrubs =>
        LET ram == UNION {Blocks(r) : r \in Named(rams)}
        IN  UNION {Blocks(r) : r \in scrubs} = {b \in ram : \E k \in 1 .. RamMax : b - k \notin ram}

(* sys_sbrk.c:37: memory from the heap is nobody else's, inside the heap, and *)
(* zeroed; nothing else is, but for one byte at the break when nothing is     *)
(* asked for, and that may be behind the heap.                               *)
HeapIsClean ==
    \A n \in Counts : _sbrk(n) /\ Granted(n) =>
        LET zeroed == metal_mem_scrub(brk, n)
        IN  /\ zeroed \cap live = {} /\ (n > 0 => zeroed = live' \ live /\ zeroed \subseteq 0 .. HeapEnd - 1)
            /\ n <= 0 => zeroed = {brk}

(* The image is where it should be, and the memory beside it is as it should. *)
ImageIsLaidOut ==
    /\ [](MemoriesAreApart /\ MainFindsItsImage /\ StacksAreKept /\ RamsAreCovered)
    /\ [][HeapIsClean]_imageVars
=============================================================================
