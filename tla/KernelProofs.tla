---------------------------- MODULE KernelProofs -----------------------------
(***************************************************************************)
(* Proofs about the parts of the kernel: the heap, for every memory map,   *)
(* alignment, page size and set of requested sizes; the PCI scan, for      *)
(* every bus; the columns of numbers, for every number; and the two        *)
(* lookups of the application registry, for every table.                   *)
(***************************************************************************)
EXTENDS MCKernel, FiniteSetTheorems, WellFoundedInduction, TLAPS

-----------------------------------------------------------------------------
(* Rounding.                                                               *)

(* What % gives, in the two forms the lemmas below use.                    *)
LEMMA ModFacts ==
  ASSUME NEW x \in Nat, NEW a \in Nat \ {0}
  PROVE  /\ x % a \in Nat /\ x % a < a
         /\ x \div a \in Nat
         /\ x = a * (x \div a) + (x % a)
  BY SMT

LEMMA ProductBound ==
  ASSUME NEW k \in Nat, NEW a \in Nat \ {0}
  PROVE  k * a \in Nat /\ k <= k * a
  BY SMT

(* A value below the modulus is its own remainder.                         *)
LEMMA SmallMod ==
  ASSUME NEW x \in Nat, NEW w \in Nat \ {0}, x < w
  PROVE  x % w = x
  BY SMT

LEMMA MultipleIntro ==
  ASSUME NEW k \in Nat, NEW a \in Nat \ {0}
  PROVE  Multiple(k * a, a)
  BY ProductBound DEF Multiple

LEMMA MultipleElim ==
  ASSUME NEW x \in Nat, NEW a \in Nat \ {0}, Multiple(x, a)
  PROVE  \E k \in Nat : x = k * a
  BY DEF Multiple

LEMMA MultipleSum ==
  ASSUME NEW x \in Nat, NEW y \in Nat, NEW a \in Nat \ {0}, Multiple(x, a), Multiple(y, a)
  PROVE  Multiple(x + y, a)
<1>1. PICK k \in Nat : x = k * a
  BY MultipleElim
<1>2. PICK l \in Nat : y = l * a
  BY MultipleElim
<1>3. x + y = (k + l) * a /\ k + l \in Nat
  BY <1>1, <1>2, SMT
<1> QED
  BY <1>3, MultipleIntro

(* RoundDown(x + a - 1, a) is the least multiple of a that is not below x. *)
LEMMA RoundUp ==
  ASSUME NEW x \in Nat, NEW a \in Nat \ {0}
  PROVE  /\ RoundDown(x + a - 1, a) \in Nat
         /\ x <= RoundDown(x + a - 1, a)
         /\ Multiple(RoundDown(x + a - 1, a), a)
<1> DEFINE y == x + a - 1
<1>1. y \in Nat
  OBVIOUS
<1>2. /\ y % a \in Nat /\ y % a < a
      /\ y \div a \in Nat
      /\ y = a * (y \div a) + (y % a)
  BY <1>1, ModFacts
<1>3. RoundDown(y, a) = y - (y % a)
  BY DEF RoundDown
<1>4. RoundDown(y, a) = (y \div a) * a
  BY <1>1, <1>2, <1>3, SMT
<1>5. Multiple(RoundDown(y, a), a) /\ RoundDown(y, a) \in Nat
  BY <1>2, <1>4, MultipleIntro, ProductBound
<1>6. x <= RoundDown(y, a)
  BY <1>1, <1>2, <1>3, SMT
<1> QED
  BY <1>5, <1>6

(* The size kmalloc takes: no request wraps around.                        *)
LEMMA SizeUp ==
  ASSUME NEW n \in Sizes
  PROVE  /\ n \in Nat
         /\ AlignedSize(n) \in Nat
         /\ n <= AlignedSize(n)
         /\ Multiple(AlignedSize(n), Align)
<1>1. n \in Nat /\ n + Align <= Word /\ Align \in Nat \ {0} /\ Word \in Nat
  BY SizesAssumption, AlignAssumption
<1>2. n + Align - 1 \in Nat /\ n + Align - 1 < Word /\ Word # 0
  BY <1>1
<1>3. (n + Align - 1) % Word = n + Align - 1
  BY <1>1, <1>2, SmallMod
<1> QED
  BY <1>1, <1>3, RoundUp DEF AlignedSize

(* A page is aligned for kmalloc too.                                      *)
LEMMA PageMultiple ==
  ASSUME NEW x \in Nat, Multiple(x, PageSize)
  PROVE  Multiple(x, Align)
<1>1. PICK k \in Nat : PageSize = k * Align
  BY AlignAssumption
<1>2. PICK l \in Nat : x = l * PageSize
  BY MultipleElim, AlignAssumption
<1>3. l * k \in Nat /\ x = (l * k) * Align
  BY <1>1, <1>2, AlignAssumption, SMT
<1> QED
  BY <1>3, MultipleIntro, AlignAssumption
-----------------------------------------------------------------------------
(* Induction over the natural numbers.  The library states it for an       *)
(* operator; here it is derived for a set, from the fact that strict       *)
(* inclusion of finite sets is well-founded.                               *)
LEMMA LeastNat ==
  ASSUME NEW T, T \subseteq Nat, T # {}
  PROVE  \E x \in T : \A y \in T : x <= y
<1> DEFINE Down == {1 .. n : n \in T}
<1>1. \A n \in Nat : IsFiniteSet(1 .. n) /\ (1 .. n) \in SUBSET Nat
  BY FS_Interval
<1>2. \A n \in Nat : (1 .. n) \in FiniteSubsetsOf(Nat)
  BY <1>1 DEF FiniteSubsetsOf
<1>3. Down \subseteq FiniteSubsetsOf(Nat) /\ Down # {}
  BY <1>2
<1>4. PICK D \in Down : \A E \in Down : ~ (<<E, D>> \in StrictSubsetOrdering(Nat))
  BY <1>3, WFMin, FS_StrictSubsetOrderingWellFounded
<1>5. PICK x \in T : D = 1 .. x
  OBVIOUS
<1>6. ASSUME NEW y \in T, y < x  PROVE FALSE
  <2>1. x \in 1 .. x /\ x \notin 1 .. y /\ 1 .. y \subseteq 1 .. x
    BY <1>6
  <2>2. <<1 .. y, 1 .. x>> \in StrictSubsetOrdering(Nat)
    BY <1>1, <2>1 DEF StrictSubsetOrdering
  <2>3. QED  BY <1>4, <1>5, <2>2
<1>7. QED  BY <1>6

LEMMA SetInduction ==
  ASSUME NEW S \in SUBSET Nat, 0 \in S, \A n \in S : n + 1 \in S
  PROVE  S = Nat
<1> SUFFICES ASSUME S # Nat  PROVE FALSE
  OBVIOUS
<1>1. PICK x \in Nat \ S : \A y \in Nat \ S : x <= y
  <2>1. Nat \ S # {} /\ Nat \ S \subseteq Nat
    OBVIOUS
  <2>2. QED  BY <2>1, LeastNat
<1>2. x - 1 \in S
  BY <1>1
<1>3. QED  BY <1>1, <1>2
-----------------------------------------------------------------------------
(* The segment mm_init takes.                                              *)

SegmentType == [base : Nat, length : Nat, usable : BOOLEAN]

(* Segment i is at least as good as j for mm_init's search.                *)
AsGood(m, i, j) == m[j].length < m[i].length \/ (m[j].length = m[i].length /\ i <= j)

(* Among the usable segments up to any one there is a first largest one.   *)
LEMMA BestExists ==
  ASSUME NEW m \in Seq(SegmentType), Usable(m) # {}
  PROVE  \E i \in Usable(m) : \A j \in Usable(m) : AsGood(m, i, j)
<1>1. /\ \A i \in Usable(m) : i \in Nat /\ i <= Len(m) /\ m[i].length \in Nat
      /\ Len(m) \in Nat
  <2>1. ASSUME NEW i \in Usable(m)  PROVE i \in Nat /\ i <= Len(m) /\ m[i].length \in Nat
    <3>1. i \in 1 .. Len(m) /\ Len(m) \in Nat /\ m[i] \in SegmentType
      BY DEF Usable
    <3>2. QED  BY <3>1 DEF SegmentType
  <2>2. QED  BY <2>1
<1> DEFINE UpTo(n) == {i \in Usable(m) : i <= n}
           P(n) == UpTo(n) # {} => \E i \in UpTo(n) : \A j \in UpTo(n) : AsGood(m, i, j)
           S == {n \in Nat : P(n)}
<1>2. 0 \in S
  <2>1. UpTo(0) = {}
    BY DEF Usable
  <2>2. QED  BY <2>1
<1>3. ASSUME NEW n \in S  PROVE n + 1 \in S
  <2>0. n \in Nat /\ P(n)
    OBVIOUS
  <2>1. CASE n + 1 \notin Usable(m)
    <3>1. UpTo(n + 1) = UpTo(n)
      BY <1>1, <2>0, <2>1
    <3>2. QED  BY <2>0, <3>1
  <2>2. CASE n + 1 \in Usable(m)
    <3>1. UpTo(n + 1) = UpTo(n) \cup {n + 1}
      BY <1>1, <2>0, <2>2
    <3>2. CASE UpTo(n) = {}
      <4>1. \A j \in UpTo(n + 1) : AsGood(m, n + 1, j)
        BY <1>1, <2>2, <3>1, <3>2 DEF AsGood
      <4>2. QED  BY <3>1, <4>1
    <3>3. CASE UpTo(n) # {}
      <4>1. PICK i \in UpTo(n) : \A j \in UpTo(n) : AsGood(m, i, j)
        BY <2>0, <3>3
      <4>2. CASE m[n + 1].length <= m[i].length
        <5>1. AsGood(m, i, n + 1)
          BY <1>1, <2>0, <2>2, <4>2 DEF AsGood
        <5>2. \A j \in UpTo(n + 1) : AsGood(m, i, j)
          BY <3>1, <4>1, <5>1
        <5>3. QED  BY <3>1, <5>2
      <4>3. CASE m[i].length < m[n + 1].length
        <5>1. ASSUME NEW j \in UpTo(n + 1)  PROVE AsGood(m, n + 1, j)
          <6>1. CASE j = n + 1  BY <1>1, <6>1 DEF AsGood
          <6>2. CASE j \in UpTo(n)
            <7>1. m[j].length <= m[i].length /\ m[j].length \in Nat
              BY <1>1, <4>1, <6>2 DEF AsGood
            <7>2. QED  BY <1>1, <2>2, <4>3, <7>1 DEF AsGood
          <6>3. QED  BY <3>1, <6>1, <6>2
        <5>2. QED  BY <3>1, <5>1
      <4>4. m[n + 1].length \in Nat /\ m[i].length \in Nat
        BY <1>1, <2>2
      <4>5. QED  BY <4>2, <4>3, <4>4
    <3>4. QED  BY <3>2, <3>3
  <2>3. QED  BY <2>1, <2>2
<1> HIDE DEF P
<1>4. S = Nat
  <2> HIDE DEF S
  <2>1. S \in SUBSET Nat
    BY DEF S
  <2>2. QED  BY <1>2, <1>3, <2>1, SetInduction
<1>5. P(Len(m))
  BY <1>1, <1>4
<1>6. UpTo(Len(m)) = Usable(m)
  BY <1>1
<1>7. QED  BY <1>5, <1>6 DEF P

(* It is the one Best chooses.                                             *)
LEMMA BestFacts ==
  ASSUME NEW m \in Memmaps, Usable(m) # {}
  PROVE  /\ Best(m) \in Usable(m)
         /\ HeapStart(m) = m[Best(m)].base
         /\ \A j \in Usable(m) : AsGood(m, Best(m), j)
<1>1. \E i \in Usable(m) : \A j \in Usable(m) : AsGood(m, i, j)
  BY BestExists, MemmapAssumption DEF SegmentType
<1>2. Best(m) \in Usable(m) /\ \A j \in Usable(m) : AsGood(m, Best(m), j)
  BY <1>1 DEF Best, AsGood
<1>3. QED  BY <1>2 DEF HeapStart

LEMMA HeapStartType ==
  ASSUME NEW m \in Memmaps
  PROVE  HeapStart(m) \in Nat
<1>1. CASE Usable(m) = {}
  BY <1>1, MemmapAssumption DEF HeapStart
<1>2. CASE Usable(m) # {}
  <2>1. Best(m) \in DOMAIN m /\ HeapStart(m) = m[Best(m)].base /\ m \in Seq(SegmentType)
    BY <1>2, BestFacts, MemmapAssumption DEF Usable, SegmentType
  <2>2. m[Best(m)] \in SegmentType
    BY <2>1
  <2>3. QED  BY <2>1, <2>2 DEF SegmentType
<1>3. QED  BY <1>1, <1>2
-----------------------------------------------------------------------------
(* The inductive invariant.                                                *)
BlockType == [base : Nat, size : Nat, page : BOOLEAN, fill : Values \cup {Junk}, known : Nat]

HeapAligned == Multiple(heap_start_addr, Align) => Multiple(heap_ptr, Align)
HeapGrew == heap_start_addr <= heap_ptr
KnownInside == \A i \in DOMAIN blocks : blocks[i].known <= blocks[i].size

Inv ==
  /\ TypeOK /\ BlocksApart /\ BlocksAligned /\ CountersExact
  /\ HeapAligned /\ HeapGrew /\ KnownInside /\ ContentsKept

LEMMA InitInv == Init => Inv
<1> SUFFICES ASSUME Init PROVE Inv
  OBVIOUS
<1> USE DEF Init
<1>1. HeapStart(memmap) \in Nat
  BY HeapStartType
<1>2. TypeOK
  BY <1>1 DEF TypeOK, Cells
<1>3. blocks = <<>> /\ DOMAIN blocks = {} /\ Len(blocks) = 0
  OBVIOUS
<1> QED
  BY <1>1, <1>2, <1>3 DEF Inv, BlocksApart, BlocksAligned, CountersExact, HeapAligned, HeapGrew, KnownInside, ContentsKept

(* A new block behind all others keeps what was true of them.              *)
LEMMA NewBlock ==
  ASSUME Inv,
         NEW b \in BlockType, NEW top \in Nat,
         blocks' = Append(blocks, b),
         heap_ptr' = top, heap_start_addr' = heap_start_addr,
         heap_ptr <= b.base, b.base + b.size <= top, b.known <= b.size,
         b.page => Multiple(b.base, PageSize),
         ~b.page => (Multiple(heap_start_addr, Align) => Multiple(b.base, Align))
  PROVE  /\ blocks' \in Seq(BlockType)
         /\ BlocksApart' /\ BlocksAligned' /\ KnownInside'
<1> USE DEF Inv
<1>1. blocks \in Seq(BlockType) /\ heap_ptr \in Nat /\ heap_start_addr \in Nat
  BY DEF TypeOK, BlockType
<1>2. /\ blocks' \in Seq(BlockType)
      /\ DOMAIN blocks' = 1 .. Len(blocks) + 1
      /\ DOMAIN blocks = 1 .. Len(blocks)
      /\ Len(blocks) \in Nat
      /\ blocks'[Len(blocks) + 1] = b
      /\ \A i \in 1 .. Len(blocks) : blocks'[i] = blocks[i]
  BY <1>1
<1>3. \A i \in 1 .. Len(blocks) :
        /\ blocks[i] \in BlockType
        /\ heap_start_addr <= blocks[i].base /\ blocks[i].base + blocks[i].size <= heap_ptr
        /\ blocks[i].known <= blocks[i].size
        /\ blocks[i].base \in Nat /\ blocks[i].size \in Nat /\ blocks[i].known \in Nat
  <2>1. \A i \in 1 .. Len(blocks) : blocks[i] \in BlockType
    BY <1>1
  <2> QED
    BY <2>1, <1>2 DEF BlocksApart, KnownInside, End, BlockType
<1>4. b.base \in Nat /\ b.size \in Nat /\ b.known \in Nat
  BY DEF BlockType
<1>5. KnownInside'
  BY <1>2, <1>3, <1>4 DEF KnownInside
<1>6. BlocksApart'
  <2>1. ASSUME NEW i \in DOMAIN blocks'
        PROVE  heap_start_addr' <= blocks'[i].base /\ blocks'[i].base + blocks'[i].size <= heap_ptr'
    <3>1. CASE i = Len(blocks) + 1
      BY <3>1, <1>1, <1>2, <1>4 DEF HeapGrew
    <3>2. CASE i \in 1 .. Len(blocks)
      BY <3>2, <1>1, <1>2, <1>3, <1>4
    <3> QED
      BY <3>1, <3>2, <1>2
  <2>2. ASSUME NEW i \in DOMAIN blocks', NEW j \in DOMAIN blocks', i < j
        PROVE  blocks'[i].base + blocks'[i].size <= blocks'[j].base
    <3>1. i \in 1 .. Len(blocks)
      BY <2>2, <1>2
    <3>2. CASE j = Len(blocks) + 1
      BY <3>1, <3>2, <1>1, <1>2, <1>3, <1>4
    <3>3. CASE j \in 1 .. Len(blocks)
      BY <2>2, <3>1, <3>3, <1>2 DEF BlocksApart, End
    <3> QED
      BY <3>2, <3>3, <1>2
  <2> QED
    BY <2>1, <2>2 DEF BlocksApart, End
<1>7. BlocksAligned'
  <2>1. ASSUME NEW i \in DOMAIN blocks'
        PROVE  IF blocks'[i].page THEN Multiple(blocks'[i].base, PageSize)
               ELSE Multiple(heap_start_addr', Align) => Multiple(blocks'[i].base, Align)
    <3>1. CASE i = Len(blocks) + 1
      BY <3>1, <1>2
    <3>2. CASE i \in 1 .. Len(blocks)
      BY <3>2, <1>2 DEF BlocksAligned
    <3> QED
      BY <3>1, <3>2, <1>2
  <2> QED
    BY <2>1 DEF BlocksAligned, Multiple
<1> QED
  BY <1>2, <1>5, <1>6, <1>7

(* The parts of the invariant that Allocate decides, whatever it is for.   *)
LEMMA AllocateStep ==
  ASSUME Inv, NEW n \in Sizes, NEW fill \in Values \cup {Junk}, NEW known \in Nat, known <= n,
         Allocate(n, fill, known)
  PROVE  /\ memmap' \in Memmaps /\ heap_ptr' \in Nat /\ heap_start_addr' \in Nat
         /\ kmalloc_count' \in Nat /\ kmalloc_bytes' \in Nat /\ page_alloc_count' \in Nat
         /\ blocks' \in Seq(BlockType)
         /\ BlocksApart' /\ BlocksAligned' /\ CountersExact'
         /\ HeapAligned' /\ HeapGrew' /\ KnownInside'
<1> DEFINE b == Block(heap_ptr, n, FALSE, fill, known)
<1>1. /\ n \in Nat /\ AlignedSize(n) \in Nat /\ n <= AlignedSize(n)
      /\ Multiple(AlignedSize(n), Align)
  BY SizeUp
<1>2. heap_ptr \in Nat /\ heap_start_addr \in Nat /\ blocks \in Seq(BlockType) /\ memmap \in Memmaps
      /\ kmalloc_count \in Nat /\ kmalloc_bytes \in Nat /\ page_alloc_count \in Nat
  BY DEF Inv, TypeOK, BlockType
<1>3. /\ heap_ptr' = heap_ptr + AlignedSize(n) /\ heap_start_addr' = heap_start_addr
      /\ memmap' = memmap
      /\ kmalloc_count' = kmalloc_count + 1 /\ page_alloc_count' = page_alloc_count
      /\ kmalloc_bytes' = kmalloc_bytes + AlignedSize(n)
      /\ blocks' = Append(blocks, b)
  BY DEF Allocate
<1>4. b \in BlockType /\ b.base = heap_ptr /\ b.size = n /\ b.known = known /\ b.page = FALSE
  BY <1>1, <1>2 DEF Block, BlockType
<1>5. Multiple(heap_start_addr, Align) => Multiple(heap_ptr, Align)
  BY DEF Inv, HeapAligned
<1>6. HeapAligned'
  <2>1. SUFFICES ASSUME Multiple(heap_start_addr, Align)
                 PROVE  Multiple(heap_ptr + AlignedSize(n), Align)
    BY <1>3 DEF HeapAligned, Multiple
  <2> QED
    BY <1>1, <1>2, <1>5, <2>1, MultipleSum, AlignAssumption
<1> HIDE DEF b
<1>7. blocks' \in Seq(BlockType) /\ BlocksApart' /\ BlocksAligned' /\ KnownInside'
  <2>1. heap_ptr <= b.base /\ b.base + b.size <= heap_ptr' /\ heap_ptr' \in Nat
    BY <1>1, <1>2, <1>3, <1>4
  <2> QED
    BY <1>3, <1>4, <1>5, <2>1, NewBlock
<1>8. HeapGrew' /\ heap_ptr' \in Nat
  BY <1>1, <1>2, <1>3 DEF Inv, HeapGrew
<1>9. CountersExact'
  <2>1. Len(blocks') = Len(blocks) + 1 /\ Len(blocks) \in Nat
    BY <1>2, <1>3, <1>4
  <2> QED
    BY <1>1, <1>2, <1>3, <2>1 DEF Inv, CountersExact
<1> QED
  BY <1>1, <1>2, <1>3, <1>6, <1>7, <1>8, <1>9

(* Old blocks keep their contents when the cells from heap_ptr on change   *)
(* and a block is appended whose contents are as they should be.           *)
LEMMA AppendContents ==
  ASSUME Inv, NEW b \in BlockType,
         blocks' = Append(blocks, b),
         \A a \in Cells : a < heap_ptr => mem'[a] = mem[a],
         \A a \in Cells : a >= b.base /\ a < b.base + b.known => mem'[a] = <<b.fill, a - b.base>>
  PROVE  ContentsKept'
<1>1. blocks \in Seq(BlockType) /\ heap_ptr \in Nat /\ MemTop \in Nat
  BY BoundAssumption DEF Inv, TypeOK, BlockType
<1>2. /\ DOMAIN blocks' = 1 .. Len(blocks) + 1
      /\ DOMAIN blocks = 1 .. Len(blocks)
      /\ Len(blocks) \in Nat
      /\ blocks'[Len(blocks) + 1] = b
      /\ \A i \in 1 .. Len(blocks) : blocks'[i] = blocks[i]
  BY <1>1
<1>3. SUFFICES ASSUME NEW i \in DOMAIN blocks', NEW a \in Cells,
                      a >= blocks'[i].base, a < blocks'[i].base + blocks'[i].known
               PROVE  mem'[a] = <<blocks'[i].fill, a - blocks'[i].base>>
  BY DEF ContentsKept, Cells
<1>4. CASE i = Len(blocks) + 1
  BY <1>2, <1>3, <1>4
<1>5. CASE i \in 1 .. Len(blocks)
  <2>1. blocks[i] \in BlockType
    BY <1>1, <1>5
  <2>2. blocks[i].base + blocks[i].size <= heap_ptr /\ blocks[i].known <= blocks[i].size
    BY <1>2, <1>5 DEF Inv, BlocksApart, KnownInside, End
  <2>3. a \in Int /\ blocks[i].base \in Nat /\ blocks[i].size \in Nat /\ blocks[i].known \in Nat
    BY <2>1, <1>1 DEF BlockType, Cells
  <2>4. a < blocks[i].base + blocks[i].known
    BY <1>2, <1>3, <1>5
  <2>5. a < heap_ptr
    BY <1>1, <2>2, <2>3, <2>4
  <2>6. mem[a] = <<blocks[i].fill, a - blocks[i].base>>
    BY <1>2, <1>3, <1>5 DEF Inv, ContentsKept
  <2> QED
    BY <1>2, <1>5, <2>5, <2>6
<1> QED
  BY <1>2, <1>4, <1>5

LEMMA KmallocInv ==
  ASSUME Inv, NEW n \in Sizes, kmalloc(n)
  PROVE  Inv'
<1>1. n \in Nat
  BY SizeUp
<1>2. Allocate(n, Junk, 0) /\ mem' = mem
  BY DEF kmalloc
<1>3. /\ memmap' \in Memmaps /\ heap_ptr' \in Nat /\ heap_start_addr' \in Nat
      /\ kmalloc_count' \in Nat /\ kmalloc_bytes' \in Nat /\ page_alloc_count' \in Nat
      /\ blocks' \in Seq(BlockType)
      /\ BlocksApart' /\ BlocksAligned' /\ CountersExact'
      /\ HeapAligned' /\ HeapGrew' /\ KnownInside'
  BY <1>1, <1>2, AllocateStep
<1>4. TypeOK'
  BY <1>2, <1>3 DEF Inv, TypeOK, BlockType
<1>5. ContentsKept'
  <2> DEFINE b == Block(heap_ptr, n, FALSE, Junk, 0)
  <2>1. heap_ptr \in Nat
    BY DEF Inv, TypeOK
  <2>2. b \in BlockType /\ b.known = 0 /\ b.base = heap_ptr
    BY <1>1, <2>1 DEF Block, BlockType
  <2>3. blocks' = Append(blocks, b)
    BY <1>2 DEF Allocate
  <2> HIDE DEF b
  <2>4. \A a \in Cells : a >= b.base /\ a < b.base + b.known => mem'[a] = <<b.fill, a - b.base>>
    BY <2>1, <2>2, BoundAssumption DEF Cells
  <2> QED
    BY <1>2, <2>2, <2>3, <2>4, AppendContents
<1> QED
  BY <1>3, <1>4, <1>5 DEF Inv

(* The copy of krealloc: it changes no cell below the new block, and the   *)
(* first cells of the new block are those of the old one.                  *)
LEMMA CopyFacts ==
  ASSUME mem \in [Cells -> (Values \cup {Junk}) \X Nat],
         NEW from \in Nat, NEW to \in Nat, NEW n \in Nat, from <= to
  PROVE  /\ Copied(from, to, n) \in [Cells -> (Values \cup {Junk}) \X Nat]
         /\ \A a \in Cells : a < to => Copied(from, to, n)[a] = mem[a]
         /\ \A a \in Cells : a >= to /\ a < to + n /\ a - to < to - from
                             => Copied(from, to, n)[a] = mem[from + (a - to)]
<1> DEFINE T == (Values \cup {Junk}) \X Nat
<1>0. MemTop \in Nat
  BY BoundAssumption
<1> HIDE DEF T
<1>a. mem \in [Cells -> T]
  BY DEF T
<1>1. ASSUME NEW a \in Cells, a >= to, to > from
      PROVE  from + ((a - to) % (to - from)) \in Cells
  <2>1. a - to \in Nat /\ to - from \in Nat \ {0} /\ a \in Int
    BY <1>1, <1>0 DEF Cells
  <2>2. (a - to) % (to - from) \in Nat /\ (a - to) % (to - from) < to - from
    BY <2>1, ModFacts
  <2>3. ASSUME NEW r \in Nat, r < to - from PROVE from + r \in Cells
    BY <1>0, <1>1, <2>1, <2>3 DEF Cells
  <2> QED
    BY <2>2, <2>3
<1>2. Copied(from, to, n) \in [Cells -> T]
  BY <1>a, <1>1 DEF Copied
<1>3. \A a \in Cells : a < to => Copied(from, to, n)[a] = mem[a]
  BY <1>0 DEF Copied, Cells
<1>4. ASSUME NEW a \in Cells, a >= to, a < to + n, a - to < to - from
      PROVE  Copied(from, to, n)[a] = mem[from + (a - to)]
  <2>1. a - to \in Nat /\ to - from \in Nat \ {0} /\ to > from
    BY <1>0, <1>4 DEF Cells
  <2>2. (a - to) % (to - from) = a - to
    BY <1>4, <2>1, SmallMod
  <2>3. Copied(from, to, n)[a] = mem[from + ((a - to) % (to - from))]
    BY <1>4, <2>1 DEF Copied
  <2> QED
    BY <2>2, <2>3
<1> QED
  BY <1>2, <1>3, <1>4 DEF T

LEMMA KreallocInv ==
  ASSUME Inv, NEW i \in DOMAIN blocks, NEW n \in Sizes, krealloc(blocks[i], n)
  PROVE  Inv'
<1> DEFINE old == blocks[i]
           k == Smaller(old.known, n)
           b == Block(heap_ptr, n, FALSE, old.fill, k)
<1>1. n \in Nat
  BY SizeUp
<1>2. blocks \in Seq(BlockType) /\ heap_ptr \in Nat /\ MemTop \in Nat
  BY BoundAssumption DEF Inv, TypeOK, BlockType
<1>3. old \in BlockType
  BY <1>2
<1>4. /\ old.base \in Nat /\ old.size \in Nat /\ old.known \in Nat /\ old.fill \in Values \cup {Junk}
      /\ old.base + old.size <= heap_ptr /\ old.known <= old.size
  BY <1>3 DEF BlockType, Inv, BlocksApart, KnownInside, End
<1>5. \A a \in Cells : a >= old.base /\ a < old.base + old.known => mem[a] = <<old.fill, a - old.base>>
  BY DEF Inv, ContentsKept
<1>6. k \in Nat /\ k <= n /\ k <= old.known
  BY <1>1, <1>4 DEF Smaller
<1>7. Allocate(n, old.fill, k) /\ mem' = Copied(old.base, heap_ptr, n)
  BY DEF krealloc
<1>8. b \in BlockType /\ b.known = k /\ b.base = heap_ptr /\ b.fill = old.fill
  BY <1>1, <1>2, <1>4, <1>6 DEF Block, BlockType
<1>9. blocks' = Append(blocks, b)
  BY <1>7 DEF Allocate
<1> HIDE DEF old, k, b
<1>10. /\ memmap' \in Memmaps /\ heap_ptr' \in Nat /\ heap_start_addr' \in Nat
       /\ kmalloc_count' \in Nat /\ kmalloc_bytes' \in Nat /\ page_alloc_count' \in Nat
       /\ blocks' \in Seq(BlockType)
       /\ BlocksApart' /\ BlocksAligned' /\ CountersExact'
       /\ HeapAligned' /\ HeapGrew' /\ KnownInside'
  BY <1>4, <1>6, <1>7, AllocateStep
<1>11. /\ mem' \in [Cells -> (Values \cup {Junk}) \X Nat]
       /\ \A a \in Cells : a < heap_ptr => mem'[a] = mem[a]
       /\ \A a \in Cells : a >= heap_ptr /\ a < heap_ptr + n /\ a - heap_ptr < heap_ptr - old.base
                             => mem'[a] = mem[old.base + (a - heap_ptr)]
  <2>1. old.base <= heap_ptr
    BY <1>2, <1>4
  <2>2. mem \in [Cells -> (Values \cup {Junk}) \X Nat]
    BY DEF Inv, TypeOK
  <2> DEFINE copy == Copied(old.base, heap_ptr, n)
  <2>3. /\ copy \in [Cells -> (Values \cup {Junk}) \X Nat]
        /\ \A a \in Cells : a < heap_ptr => copy[a] = mem[a]
        /\ \A a \in Cells : a >= heap_ptr /\ a < heap_ptr + n /\ a - heap_ptr < heap_ptr - old.base
                              => copy[a] = mem[old.base + (a - heap_ptr)]
    BY <1>1, <1>2, <1>4, <2>1, <2>2, CopyFacts
  <2>4. mem' = copy
    BY <1>7
  <2> HIDE DEF copy
  <2> QED
    BY <2>3, <2>4
<1>12. TypeOK'
  BY <1>10, <1>11 DEF TypeOK, BlockType
<1>13. ASSUME NEW a \in Cells, a >= b.base, a < b.base + b.known
       PROVE  mem'[a] = <<b.fill, a - b.base>>
  <2>1. a \in Int /\ a >= heap_ptr /\ a < heap_ptr + k
    BY <1>2, <1>8, <1>13 DEF Cells
  <2>2. a < heap_ptr + n /\ a - heap_ptr < heap_ptr - old.base
    BY <1>1, <1>2, <1>4, <1>6, <2>1
  <2>3. mem'[a] = mem[old.base + (a - heap_ptr)]
    BY <1>11, <2>1, <2>2
  <2> DEFINE c == old.base + (a - heap_ptr)
  <2>4. c \in Cells /\ c >= old.base /\ c < old.base + old.known /\ c - old.base = a - heap_ptr
    <3>1. a \in 0 .. MemTop - 1 /\ old.base <= heap_ptr
      BY <1>2, <1>4 DEF Cells
    <3>2. ASSUME NEW x \in Nat, NEW y \in Nat, x <= heap_ptr, k <= y
          PROVE  /\ x + (a - heap_ptr) \in 0 .. MemTop - 1
                 /\ x + (a - heap_ptr) >= x /\ x + (a - heap_ptr) < x + y
                 /\ (x + (a - heap_ptr)) - x = a - heap_ptr
      BY <1>2, <1>6, <2>1, <3>1, <3>2
    <3> QED
      BY <1>4, <1>6, <3>1, <3>2 DEF Cells
  <2>5. mem[c] = <<old.fill, c - old.base>>
    BY <1>5, <2>4
  <2> QED
    BY <1>8, <2>3, <2>4, <2>5
<1>14. ContentsKept'
  BY <1>8, <1>9, <1>11, <1>13, AppendContents
<1> QED
  BY <1>10, <1>12, <1>14 DEF Inv

LEMMA PallocInv ==
  ASSUME Inv, palloc
  PROVE  Inv'
<1> DEFINE aligned == RoundDown(heap_ptr + PageSize - 1, PageSize)
           b == Block(aligned, PageSize, TRUE, Junk, 0)
<1>1. PageSize \in Nat \ {0} /\ Align \in Nat \ {0} /\ MemTop \in Nat
  BY AlignAssumption, BoundAssumption
<1>2. heap_ptr \in Nat /\ heap_start_addr \in Nat /\ blocks \in Seq(BlockType) /\ memmap \in Memmaps
      /\ kmalloc_count \in Nat /\ kmalloc_bytes \in Nat /\ page_alloc_count \in Nat
      /\ mem \in [Cells -> (Values \cup {Junk}) \X Nat]
  BY DEF Inv, TypeOK, BlockType
<1>3. aligned \in Nat /\ heap_ptr <= aligned /\ Multiple(aligned, PageSize)
  BY <1>1, <1>2, RoundUp
<1>4. /\ heap_ptr' = aligned + PageSize /\ heap_start_addr' = heap_start_addr /\ memmap' = memmap
      /\ page_alloc_count' = page_alloc_count + 1 /\ kmalloc_count' = kmalloc_count
      /\ kmalloc_bytes' = kmalloc_bytes + (heap_ptr' - heap_ptr)
      /\ blocks' = Append(blocks, b) /\ mem' = mem
  BY DEF palloc
<1> HIDE DEF aligned
<1>5. /\ b \in BlockType /\ b.base = aligned /\ b.size = PageSize
      /\ b.known = 0 /\ b.page = TRUE
  BY <1>1, <1>3 DEF Block, BlockType
<1> HIDE DEF b
<1>6. blocks' \in Seq(BlockType) /\ BlocksApart' /\ BlocksAligned' /\ KnownInside'
  <2>1. /\ heap_ptr' \in Nat /\ heap_ptr <= b.base /\ b.base + b.size <= heap_ptr'
        /\ b.known <= b.size
    BY <1>1, <1>2, <1>3, <1>4, <1>5
  <2> QED
    BY <1>3, <1>4, <1>5, <2>1, NewBlock
<1>7. HeapAligned'
  <2>1. Multiple(PageSize, PageSize)
    <3>1. PageSize = 1 * PageSize
      BY <1>1
    <3> QED
      BY <1>1, <3>1, MultipleIntro
  <2>2. Multiple(aligned + PageSize, PageSize) /\ aligned + PageSize \in Nat
    BY <1>1, <1>3, <2>1, MultipleSum
  <2>3. Multiple(aligned + PageSize, Align)
    BY <2>2, PageMultiple
  <2> QED
    BY <1>4, <2>3 DEF HeapAligned, Multiple
<1>8. HeapGrew' /\ heap_ptr' \in Nat
  BY <1>1, <1>2, <1>3, <1>4 DEF Inv, HeapGrew
<1>9. CountersExact'
  <2>1. Len(blocks') = Len(blocks) + 1 /\ Len(blocks) \in Nat
    BY <1>2, <1>4, <1>5
  <2> QED
    BY <1>1, <1>2, <1>3, <1>4, <2>1 DEF Inv, CountersExact
<1>10. kmalloc_bytes' \in Nat
  BY <1>1, <1>2, <1>3, <1>4
<1>11. TypeOK'
  BY <1>2, <1>4, <1>6, <1>8, <1>10 DEF TypeOK, BlockType
<1>12. ContentsKept'
  <2>1. \A a \in Cells : a >= b.base /\ a < b.base + b.known => mem'[a] = <<b.fill, a - b.base>>
    BY <1>1, <1>3, <1>5 DEF Cells
  <2> QED
    BY <1>4, <1>5, <2>1, AppendContents
<1> QED
  BY <1>6, <1>7, <1>8, <1>9, <1>11, <1>12 DEF Inv

LEMMA StoreInv ==
  ASSUME Inv, NEW i \in DOMAIN blocks, NEW v \in Values, store(i, v)
  PROVE  Inv'
<1> DEFINE old == blocks[i]
           new == Block(old.base, old.size, old.page, v, old.size)
<1>1. /\ blocks \in Seq(BlockType) /\ heap_ptr \in Nat /\ MemTop \in Nat
      /\ mem \in [Cells -> (Values \cup {Junk}) \X Nat]
  BY BoundAssumption DEF Inv, TypeOK, BlockType
<1>2. old \in BlockType
  BY <1>1
<1>3. old.base \in Nat /\ old.size \in Nat /\ old.known \in Nat
  BY <1>2 DEF BlockType
<1>4. /\ new \in BlockType /\ new.base = old.base /\ new.size = old.size
      /\ new.page = old.page /\ new.fill = v /\ new.known = old.size
  BY <1>2 DEF Block, BlockType
<1>5. /\ mem' = [a \in Cells |-> IF a >= old.base /\ a < old.base + old.size
                                 THEN <<v, a - old.base>> ELSE mem[a]]
      /\ blocks' = [blocks EXCEPT ![i] = new]
      /\ memmap' = memmap /\ heap_ptr' = heap_ptr /\ heap_start_addr' = heap_start_addr
      /\ kmalloc_count' = kmalloc_count /\ kmalloc_bytes' = kmalloc_bytes
      /\ page_alloc_count' = page_alloc_count
  BY DEF store, counters
<1> HIDE DEF new
<1>6. /\ blocks' \in Seq(BlockType) /\ DOMAIN blocks' = DOMAIN blocks /\ Len(blocks') = Len(blocks)
      /\ blocks'[i] = new /\ DOMAIN blocks = 1 .. Len(blocks) /\ Len(blocks) \in Nat
      /\ \A j \in DOMAIN blocks : j # i => blocks'[j] = blocks[j]
  BY <1>1, <1>4, <1>5
<1>7. \A j \in DOMAIN blocks :
        blocks'[j].base = blocks[j].base /\ blocks'[j].size = blocks[j].size /\ blocks'[j].page = blocks[j].page
  BY <1>4, <1>6
<1>8. \A j \in DOMAIN blocks :
        /\ blocks[j].base \in Nat /\ blocks[j].size \in Nat /\ blocks[j].known \in Nat
        /\ blocks[j].base + blocks[j].size <= heap_ptr /\ blocks[j].known <= blocks[j].size
  <2>1. \A j \in DOMAIN blocks : blocks[j] \in BlockType
    BY <1>1
  <2> QED
    BY <2>1 DEF BlockType, Inv, BlocksApart, KnownInside, End
<1>9. ASSUME NEW a \in Cells PROVE mem'[a] \in (Values \cup {Junk}) \X Nat
  <2>1. CASE a >= old.base /\ a < old.base + old.size
    <3>1. a - old.base \in Nat
      BY <1>1, <1>3, <2>1 DEF Cells
    <3> QED
      BY <1>5, <2>1, <3>1
  <2>2. CASE ~(a >= old.base /\ a < old.base + old.size)
    BY <1>1, <1>5, <2>2
  <2> QED
    BY <2>1, <2>2
<1>10. TypeOK'
  <2>1. mem' \in [Cells -> (Values \cup {Junk}) \X Nat]
    BY <1>5, <1>9
  <2> QED
    BY <1>5, <1>6, <2>1 DEF Inv, TypeOK, BlockType
<1>11. BlocksApart'
  BY <1>5, <1>6, <1>7 DEF Inv, BlocksApart, End
<1>12. BlocksAligned'
  BY <1>5, <1>6, <1>7 DEF Inv, BlocksAligned, Multiple
<1>13. CountersExact' /\ HeapAligned' /\ HeapGrew'
  BY <1>5, <1>6 DEF Inv, CountersExact, HeapAligned, HeapGrew, Multiple
<1>14. KnownInside'
  BY <1>3, <1>4, <1>6, <1>7 DEF Inv, KnownInside
<1>15. ContentsKept'
  <2>1. SUFFICES ASSUME NEW j \in DOMAIN blocks, NEW a \in Cells,
                        a >= blocks'[j].base, a < blocks'[j].base + blocks'[j].known
                 PROVE  mem'[a] = <<blocks'[j].fill, a - blocks'[j].base>>
    BY <1>6 DEF ContentsKept, Cells
  <2>2. CASE j = i
    BY <1>4, <1>5, <1>6, <2>1, <2>2
  <2>3. CASE j # i
    <3>1. blocks'[j] = blocks[j]
      BY <1>6, <2>3
    <3>2. a \in Int /\ a >= blocks[j].base /\ a < blocks[j].base + blocks[j].known
      BY <1>1, <2>1, <3>1 DEF Cells
    <3>3. ~(a >= old.base /\ a < old.base + old.size)
      <4>1. CASE i < j
        <5>1. old.base + old.size <= blocks[j].base
          BY <4>1 DEF Inv, BlocksApart, End
        <5> QED
          BY <1>3, <1>8, <3>2, <5>1
      <4>2. CASE j < i
        <5>1. blocks[j].base + blocks[j].size <= old.base
          BY <4>2 DEF Inv, BlocksApart, End
        <5> QED
          BY <1>3, <1>8, <3>2, <5>1
      <4> QED
        BY <1>6, <2>3, <4>1, <4>2
    <3>4. mem'[a] = mem[a]
      BY <1>5, <3>3
    <3>5. mem[a] = <<blocks[j].fill, a - blocks[j].base>>
      BY <3>2 DEF Inv, ContentsKept
    <3> QED
      BY <3>1, <3>4, <3>5
  <2> QED
    BY <2>2, <2>3
<1> QED
  BY <1>10, <1>11, <1>12, <1>13, <1>14, <1>15 DEF Inv

(* The invariant is inductive: one step per operation of the allocator.    *)
LEMMA NextInv == Inv /\ [Next]_vars => Inv'
<1> SUFFICES ASSUME Inv, [Next]_vars PROVE Inv'
  OBVIOUS
<1>1. ASSUME NEW n \in Sizes, kmalloc(n) PROVE Inv'
  BY <1>1, KmallocInv
<1>2. ASSUME NEW i \in DOMAIN blocks, NEW n \in Sizes, krealloc(blocks[i], n) PROVE Inv'
  BY <1>2, KreallocInv
<1>3. CASE palloc
  BY <1>3, PallocInv
<1>4. ASSUME NEW i \in DOMAIN blocks, NEW v \in Values, store(i, v) PROVE Inv'
  BY <1>4, StoreInv
<1>5. CASE UNCHANGED vars
  BY <1>5 DEF vars, counters, Inv, TypeOK, BlocksApart, BlocksAligned, CountersExact, HeapAligned,
              HeapGrew, KnownInside, ContentsKept, End, Multiple
<1> QED
  BY <1>1, <1>2, <1>3, <1>4, <1>5 DEF Next

LEMMA Invariance == Spec => []Inv
  BY InitInv, NextInv, PTL DEF Spec

(* Type correctness of the allocator.                                      *)
THEOREM TypeCorrect == Spec => []TypeOK
<1>1. Inv => TypeOK
  BY DEF Inv
<1> QED
  BY <1>1, Invariance, PTL

(* No two blocks of kmalloc, krealloc and palloc ever overlap.             *)
THEOREM BlocksNeverOverlap == Spec => []BlocksApart
<1>1. Inv => BlocksApart
  BY DEF Inv
<1> QED
  BY <1>1, Invariance, PTL

(* Blocks and pages are aligned as kmalloc and palloc say.                 *)
THEOREM BlocksStayAligned == Spec => []BlocksAligned
<1>1. Inv => BlocksAligned
  BY DEF Inv
<1> QED
  BY <1>1, Invariance, PTL

(* mm_get_info reports the length of the heap and the number of blocks.    *)
THEOREM CountersStayExact == Spec => []CountersExact
<1>1. Inv => CountersExact
  BY DEF Inv
<1> QED
  BY <1>1, Invariance, PTL

(* What was written into a block stays there, and krealloc carries it over *)
(* although it copies more than the old block.                             *)
THEOREM ContentsStay == Spec => []ContentsKept
<1>1. Inv => ContentsKept
  BY DEF Inv
<1> QED
  BY <1>1, Invariance, PTL

(* The copy of krealloc reads no cell beyond the new heap_ptr.             *)
THEOREM OverreadStaysInHeap == Spec => OverreadInHeap
<1>1. ASSUME Inv, NEW i \in DOMAIN blocks, NEW n \in Sizes, krealloc(blocks[i], n)
      PROVE  blocks[i].base + n <= heap_ptr'
  <2>1. heap_ptr' = heap_ptr + AlignedSize(n)
    BY <1>1 DEF krealloc, Allocate
  <2>2. n \in Nat /\ AlignedSize(n) \in Nat /\ n <= AlignedSize(n)
    BY SizeUp
  <2>3. blocks \in Seq(BlockType) /\ heap_ptr \in Nat
    BY <1>1 DEF Inv, TypeOK, BlockType
  <2>4. blocks[i] \in BlockType
    BY <2>3
  <2>5. blocks[i].base \in Nat /\ blocks[i].size \in Nat
    BY <2>4 DEF BlockType
  <2>6. blocks[i].base + blocks[i].size <= heap_ptr
    BY <1>1 DEF Inv, BlocksApart, End
  <2> QED
    BY <2>1, <2>2, <2>3, <2>5, <2>6
<1>2. Inv => [\A i \in DOMAIN blocks, n \in Sizes :
                krealloc(blocks[i], n) => blocks[i].base + n <= heap_ptr']_vars
  BY <1>1
<1> QED
  BY <1>2, Invariance, PTL DEF OverreadInHeap

(* mm_init's choice pays: as long as the bytes handed out would fit into   *)
(* any one usable segment of the boot loader's map, every block lies in    *)
(* usable memory, whatever the map and the order of the calls.             *)
THEOREM BlocksStayInRam == Spec => []BlocksInRam
<1> DEFINE Started == heap_start_addr = HeapStart(memmap)
<1>1. Init => Started
  BY DEF Init
<1>2. Started /\ [Next]_vars => Started'
  <2>1. [Next]_vars => UNCHANGED <<memmap, heap_start_addr>>
    BY DEF Next, vars, kmalloc, krealloc, palloc, store, Allocate
  <2>2. QED  BY <2>1
<1>3. Inv /\ Started => BlocksInRam
  <2> SUFFICES ASSUME Inv, Started,
                      NEW i \in Usable(memmap), kmalloc_bytes <= memmap[i].length,
                      NEW j \in DOMAIN blocks
               PROVE  \E k \in Usable(memmap) : InSegment(blocks[j], memmap[k])
    BY DEF BlocksInRam
  <2> DEFINE s == memmap[Best(memmap)]
             b == blocks[j]
  <2>1. memmap \in Memmaps /\ memmap \in Seq(SegmentType) /\ Usable(memmap) # {}
    BY MemmapAssumption DEF Inv, TypeOK, SegmentType
  <2>2. Best(memmap) \in Usable(memmap) /\ heap_start_addr = s.base /\ AsGood(memmap, Best(memmap), i)
    BY <2>1, BestFacts
  <2>3. s \in SegmentType /\ memmap[i] \in SegmentType
    BY <2>1, <2>2 DEF Usable
  <2>4. memmap[i].length <= s.length
    BY <2>2, <2>3 DEF AsGood, SegmentType
  <2>5. heap_ptr \in Nat /\ heap_start_addr \in Nat /\ kmalloc_bytes \in Nat
    BY DEF Inv, TypeOK
  <2>6. heap_start_addr <= b.base /\ End(b) <= heap_ptr /\ kmalloc_bytes = heap_ptr - heap_start_addr
    BY DEF Inv, BlocksApart, CountersExact
  <2>7. b \in BlockType
    <3>1. blocks \in Seq(BlockType)
      BY DEF Inv, TypeOK, BlockType
    <3>2. QED  BY <3>1
  <2>8. s.base <= b.base /\ End(b) <= s.base + s.length
    BY <2>2, <2>3, <2>4, <2>5, <2>6, <2>7 DEF SegmentType, BlockType, End
  <2>9. QED  BY <2>2, <2>8 DEF InSegment
<1>4. Spec => []Started
  BY <1>1, <1>2, PTL DEF Spec
<1>5. QED  BY <1>3, <1>4, Invariance, PTL
-----------------------------------------------------------------------------
(* A behaviour of the composition is one of every service: three of the    *)
(* four never move.                                                        *)
LEMMA OnlyOneServes ==
  /\ MCSpec => Scan!Spec
  /\ MCSpec => Sprintf!Spec
  /\ MCSpec => Registry!Spec
<1>1. MCInit => Scan!Init /\ Sprintf!Init /\ Registry!Init
  BY DEF MCInit
<1>2. [MCNext]_mcVars => [Scan!Next]_(Scan!vars)
  BY DEF MCNext, mcVars, RestOfHeap, RestOfPci, RestOfFormat, RestOfApps, pciVars,
     Scan!vars, Scan!hardware
<1>3. [MCNext]_mcVars => [Sprintf!Next]_(Sprintf!vars)
  BY DEF MCNext, mcVars, RestOfHeap, RestOfPci, RestOfFormat, RestOfApps, formatVars, Sprintf!vars
<1>4. [MCNext]_mcVars => [Registry!Next]_(Registry!vars)
  BY DEF MCNext, mcVars, RestOfHeap, RestOfPci, RestOfFormat, RestOfApps, appVars, Registry!vars
<1>5. QED  BY <1>1, <1>2, <1>3, <1>4, PTL DEF MCSpec, Scan!Spec, Sprintf!Spec, Registry!Spec
-----------------------------------------------------------------------------
(* The scan of the PCI buses.  Here is the function that is looked at      *)
(* next; what is listed comes before it, and what comes before it and can  *)
(* be reached is listed, unless the array is full.  The loops jump when it *)
(* is, and then nothing of the inventory before the last entry is missing. *)
Here == <<bus, dev, IF fn = -1 THEN 0 ELSE fn>>

ScanTypes ==
  /\ present \subseteq Scan!Function
  /\ max_devices \in Nat
  /\ bus \in 0 .. Buses /\ dev \in 0 .. Devs - 1 /\ fn \in -1 .. Fns
  /\ devices \in Seq(Scan!Function) /\ Len(devices) <= max_devices
  /\ fn # -1 => /\ pci_pc = "scan" /\ bus < Buses
                /\ <<bus, dev, 0>> \in present
                /\ fn <= Scan!num_functions
  /\ pci_pc \in {"scan", "done"}
  /\ pci_pc = "done" => bus = Buses \/ Len(devices) = max_devices
ListedInv ==
  /\ \A k \in 1 .. Len(devices) : devices[k] \in Scan!Reachable /\ Scan!Before(devices[k], Here)
  /\ \A j, k \in 1 .. Len(devices) : j < k => Scan!Before(devices[j], devices[k])
MissingInv ==
  \A f \in Scan!Reachable :
    \/ \E k \in 1 .. Len(devices) : devices[k] = f
    \/ /\ \A k \in 1 .. Len(devices) : Scan!Before(devices[k], f)
       /\ Len(devices) = max_devices \/ ~Scan!Before(f, Here)
ScanInv == ScanTypes /\ ListedInv /\ MissingInv

LEMMA ScanSizes == Buses \in Nat \ {0} /\ Devs \in Nat \ {0} /\ Fns \in Nat \ {0} /\ MaxArray \in Nat
BY ScanAssumption DEF Scan!SizesOK

LEMMA FunctionParts ==
  ASSUME NEW f \in Scan!Function
  PROVE  /\ f[1] \in 0 .. Buses - 1 /\ f[2] \in 0 .. Devs - 1 /\ f[3] \in 0 .. Fns - 1
         /\ f = <<f[1], f[2], f[3]>>
BY DEF Scan!Function

LEMMA BeforeTransitive ==
  ASSUME NEW a1 \in Int, NEW a2 \in Int, NEW a3 \in Int, NEW b1 \in Int, NEW b2 \in Int,
         NEW b3 \in Int, NEW c1 \in Int, NEW c2 \in Int, NEW c3 \in Int,
         Scan!Before(<<a1, a2, a3>>, <<b1, b2, b3>>), Scan!Before(<<b1, b2, b3>>, <<c1, c2, c3>>)
  PROVE  Scan!Before(<<a1, a2, a3>>, <<c1, c2, c3>>)
BY DEF Scan!Before

LEMMA ScanInit == Scan!Init => ScanInv
<1> SUFFICES ASSUME Scan!Init  PROVE ScanInv
  OBVIOUS
<1>1. /\ present \subseteq Scan!Function /\ max_devices \in Nat
      /\ bus = 0 /\ dev = 0 /\ fn = -1 /\ devices = <<>> /\ pci_pc = "scan"
  BY ScanSizes DEF Scan!Init
<1>2. devices \in Seq(Scan!Function) /\ Len(devices) = 0
  BY <1>1
<1>3. ScanTypes
  BY <1>1, <1>2, ScanSizes DEF ScanTypes
<1>4. ListedInv
  BY <1>2 DEF ListedInv
<1>5. MissingInv
  <2>1. ASSUME NEW f \in Scan!Reachable  PROVE ~Scan!Before(f, Here)
    <3>1. f \in Scan!Function
      BY <1>1 DEF Scan!Reachable
    <3>2. f[1] \in Nat /\ f[2] \in Nat /\ f[3] \in Nat
      BY <3>1, FunctionParts, ScanSizes
    <3>3. Here = <<0, 0, 0>>
      BY <1>1 DEF Here
    <3>4. QED  BY <3>2, <3>3 DEF Scan!Before
  <2>2. QED  BY <1>2, <2>1 DEF MissingInv
<1>6. QED  BY <1>3, <1>4, <1>5 DEF ScanInv

LEMMA ScanFacts ==
  ASSUME ScanInv
  PROVE  /\ Len(devices) \in Nat /\ max_devices \in Nat /\ Len(devices) <= max_devices
         /\ bus \in Int /\ dev \in Int /\ fn \in Int
         /\ \A k \in 1 .. Len(devices) : devices[k] \in Scan!Function
         /\ \A f \in Scan!Reachable : f \in Scan!Function
         /\ \A f \in Scan!Function : /\ f[1] \in Int /\ f[2] \in Int /\ f[3] \in Int
                                     /\ f = <<f[1], f[2], f[3]>>
<1>1. ScanTypes
  BY DEF ScanInv
<1>2. Len(devices) \in Nat /\ \A k \in 1 .. Len(devices) : devices[k] \in Scan!Function
  BY <1>1 DEF ScanTypes
<1>3. \A f \in Scan!Reachable : f \in Scan!Function
  BY <1>1 DEF ScanTypes, Scan!Reachable
<1>4. \A f \in Scan!Function : /\ f[1] \in Int /\ f[2] \in Int /\ f[3] \in Int
                               /\ f = <<f[1], f[2], f[3]>>
  BY FunctionParts, ScanSizes
<1>5. bus \in Int /\ dev \in Int /\ fn \in Int
  BY <1>1, ScanSizes DEF ScanTypes
<1>6. QED  BY <1>1, <1>2, <1>3, <1>4, <1>5 DEF ScanTypes

(* A step that lists nothing: it goes on behind functions that cannot be   *)
(* reached, or the array is full.                                          *)
LEMMA CursorMoves ==
  ASSUME ScanInv, UNCHANGED <<present, multi, max_devices, devices>>,
         bus' \in Int, dev' \in Int, fn' \in Int,
         Here' = Here \/ Scan!Before(Here, Here'),
         \A f \in Scan!Reachable :
            Scan!Before(f, Here') /\ ~Scan!Before(f, Here) => Len(devices) = max_devices
  PROVE  ListedInv' /\ MissingInv'
<1>1. Scan!Reachable' = Scan!Reachable
  BY DEF Scan!Reachable
<1>2. ASSUME NEW f \in Scan!Function, Scan!Before(f, Here)  PROVE Scan!Before(f, Here')
  <2>1. CASE Here' = Here
    BY <2>1, <1>2
  <2>2. CASE Scan!Before(Here, Here')
    <3> DEFINE x == IF fn = -1 THEN 0 ELSE fn
               y == IF fn' = -1 THEN 0 ELSE fn'
    <3>1. Here = <<bus, dev, x>> /\ Here' = <<bus', dev', y>> /\ x \in Int /\ y \in Int
      BY ScanFacts DEF Here
    <3>2. f = <<f[1], f[2], f[3]>> /\ f[1] \in Int /\ f[2] \in Int /\ f[3] \in Int
      BY ScanFacts
    <3> HIDE DEF x, y
    <3>3. Scan!Before(<<f[1], f[2], f[3]>>, <<bus, dev, x>>)
      BY <1>2, <3>1, <3>2
    <3>4. Scan!Before(<<bus, dev, x>>, <<bus', dev', y>>)
      BY <2>2, <3>1
    <3>5. Scan!Before(<<f[1], f[2], f[3]>>, <<bus', dev', y>>)
      BY <3>1, <3>2, <3>3, <3>4, ScanFacts, BeforeTransitive
    <3>6. QED  BY <3>1, <3>2, <3>5
  <2>3. QED  BY <2>1, <2>2
<1>3. ListedInv'
  <2>1. ListedInv
    BY DEF ScanInv
  <2>2. \A k \in 1 .. Len(devices) : devices[k] \in Scan!Reachable /\ Scan!Before(devices[k], Here')
    BY <2>1, <1>2, ScanFacts DEF ListedInv
  <2>3. QED  BY <1>1, <2>1, <2>2 DEF ListedInv, Scan!Before
<1>4. MissingInv'
  <2>1. MissingInv
    BY DEF ScanInv
  <2>2. ASSUME NEW f \in Scan!Reachable
        PROVE  \/ \E k \in 1 .. Len(devices) : devices[k] = f
               \/ /\ \A k \in 1 .. Len(devices) : Scan!Before(devices[k], f)
                  /\ Len(devices) = max_devices \/ ~Scan!Before(f, Here')
    BY <2>1 DEF MissingInv
  <2>3. QED  BY <1>1, <2>2 DEF MissingInv, Scan!Before
<1>5. QED  BY <1>3, <1>4

LEMMA NextDeviceFacts ==
  ASSUME ScanInv, Scan!NextDevice, bus < Buses
  PROVE  /\ bus' \in 0 .. Buses /\ dev' \in 0 .. Devs - 1 /\ bus' \in Int /\ dev' \in Int
         /\ \/ dev' = dev + 1 /\ bus' = bus /\ Len(devices) < max_devices
            \/ dev' = 0 /\ bus' = bus + 1 /\ (dev = Devs - 1 \/ Len(devices) = max_devices)
<1>1. /\ bus \in 0 .. Buses /\ dev \in 0 .. Devs - 1
      /\ Len(devices) \in Nat /\ max_devices \in Nat /\ Len(devices) <= max_devices
  BY ScanFacts DEF ScanInv, ScanTypes
<1>2. QED  BY <1>1, ScanSizes DEF Scan!NextDevice, Scan!count

(* Of a device that is not there, and behind its last function, nothing    *)
(* can be reached.                                                         *)
LEMMA DeviceEnds ==
  ASSUME ScanInv, Scan!NextDevice, bus < Buses, fn' = -1,
         UNCHANGED <<present, multi, max_devices, devices>>,
         \A f \in Scan!Reachable :
            f[1] = bus /\ f[2] = dev => Scan!Before(f, Here) \/ Len(devices) = max_devices
  PROVE  ListedInv' /\ MissingInv'
<1> DEFINE x == IF fn = -1 THEN 0 ELSE fn
<1>1. Here = <<bus, dev, x>> /\ Here' = <<bus', dev', 0>> /\ x \in Int
  BY ScanFacts DEF Here
<1> HIDE DEF x
<1>2. Scan!Before(Here, Here')
  BY <1>1, NextDeviceFacts, ScanFacts DEF Scan!Before
<1>3. ASSUME NEW f \in Scan!Reachable, Scan!Before(f, Here'), ~Scan!Before(f, Here)
      PROVE  Len(devices) = max_devices
  <2>1. f \in Scan!Function
    BY ScanFacts
  <2>2. /\ f[1] \in 0 .. Buses - 1 /\ f[2] \in 0 .. Devs - 1 /\ f[3] \in 0 .. Fns - 1
        /\ f[1] \in Int /\ f[2] \in Int /\ f[3] \in Int
    BY <2>1, FunctionParts, ScanFacts
  <2>3. ~(f[1] < bus) /\ (f[1] = bus => ~(f[2] < dev))
    BY <1>1, <1>3 DEF Scan!Before
  <2>4. f[1] < bus' \/ (f[1] = bus' /\ f[2] < dev')
    BY <1>1, <1>3, <2>2 DEF Scan!Before
  <2>5. CASE f[1] = bus /\ f[2] = dev
    BY <2>5, <1>3
  <2>6. CASE Len(devices) = max_devices
    BY <2>6
  <2>7. CASE ~(f[1] = bus /\ f[2] = dev) /\ Len(devices) # max_devices
    <3>1. \/ dev' = dev + 1 /\ bus' = bus
          \/ dev' = 0 /\ bus' = bus + 1 /\ dev = Devs - 1
      BY <2>7, NextDeviceFacts
    <3>2. bus \in Int /\ dev \in Int /\ Devs \in Int /\ f[1] \in Int /\ f[2] \in Int /\ f[2] <= Devs - 1
      BY <2>2, ScanFacts, ScanSizes
    <3>3. CASE dev' = dev + 1 /\ bus' = bus
      BY <2>3, <2>4, <2>7, <3>2, <3>3
    <3>4. CASE dev' = 0 /\ bus' = bus + 1 /\ dev = Devs - 1
      <4>1. f[1] = bus
        BY <2>2, <2>3, <2>4, <3>2, <3>4
      <4>2. f[2] = dev
        BY <2>3, <3>2, <3>4, <4>1
      <4>3. QED  BY <2>7, <4>1, <4>2
    <3>5. QED  BY <3>1, <3>3, <3>4
  <2>8. QED  BY <2>5, <2>6, <2>7
<1>4. QED  BY <1>2, <1>3, CursorMoves, NextDeviceFacts

LEMMA NoDeviceStep == ScanInv /\ Scan!no_device => ScanInv'
<1> SUFFICES ASSUME ScanInv, Scan!no_device  PROVE ScanInv'
  OBVIOUS
<1>1. /\ pci_pc = "scan" /\ fn = -1 /\ bus < Buses /\ <<bus, dev, 0>> \notin present
      /\ Scan!NextDevice /\ fn' = -1
      /\ UNCHANGED <<present, multi, max_devices, devices, pci_pc>>
  BY DEF Scan!no_device, Scan!Scanning, Scan!pci_device_exists, Scan!hardware
<1>2. \A f \in Scan!Reachable : ~(f[1] = bus /\ f[2] = dev)
  BY <1>1 DEF Scan!Reachable
<1>3. ListedInv' /\ MissingInv'
  BY <1>1, <1>2, DeviceEnds
<1>4. ScanTypes'
  BY <1>1, NextDeviceFacts, ScanSizes DEF ScanInv, ScanTypes, Scan!Function
<1>5. QED  BY <1>3, <1>4 DEF ScanInv

LEMMA DeviceStep == ScanInv /\ Scan!device => ScanInv'
<1> SUFFICES ASSUME ScanInv, Scan!device  PROVE ScanInv'
  OBVIOUS
<1>1. /\ pci_pc = "scan" /\ fn = -1 /\ bus < Buses /\ <<bus, dev, 0>> \in present /\ fn' = 0
      /\ UNCHANGED <<present, multi, max_devices, bus, dev, devices, pci_pc>>
  BY DEF Scan!device, Scan!Scanning, Scan!pci_device_exists, Scan!hardware
<1>2. Here' = Here
  BY <1>1 DEF Here
<1>3. ListedInv' /\ MissingInv'
  BY <1>1, <1>2, ScanFacts, CursorMoves
<1>4. ScanTypes'
  BY <1>1, ScanSizes DEF ScanInv, ScanTypes, Scan!Function, Scan!num_functions
<1>5. QED  BY <1>3, <1>4 DEF ScanInv

LEMMA FunctionsEndStep == ScanInv /\ Scan!functions_end => ScanInv'
<1> SUFFICES ASSUME ScanInv, Scan!functions_end  PROVE ScanInv'
  OBVIOUS
<1>1. /\ fn >= 0 /\ ~(fn < Scan!num_functions /\ Len(devices) < max_devices)
      /\ Scan!NextDevice /\ fn' = -1
      /\ UNCHANGED <<present, multi, max_devices, devices, pci_pc>>
  BY DEF Scan!functions_end, Scan!InFunctions, Scan!hardware, Scan!count
<1>2. /\ fn \in Int /\ fn # -1 /\ bus < Buses /\ fn <= Scan!num_functions /\ pci_pc = "scan"
      /\ Len(devices) \in Nat /\ max_devices \in Nat /\ Len(devices) <= max_devices
  BY <1>1, ScanFacts DEF ScanInv, ScanTypes
<1>3. Len(devices) = max_devices \/ fn = Scan!num_functions
  BY <1>1, <1>2, ScanSizes DEF Scan!num_functions
<1>4. ASSUME NEW f \in Scan!Reachable, f[1] = bus, f[2] = dev, fn = Scan!num_functions
      PROVE  Scan!Before(f, Here)
  <2>1. f[3] \in 0 .. Fns - 1
    BY ScanFacts, FunctionParts
  <2>2. f[3] = 0 \/ <<bus, dev>> \in multi
    BY <1>4 DEF Scan!Reachable
  <2>3. f[3] < fn
    BY <1>4, <2>1, <2>2, ScanSizes DEF Scan!num_functions
  <2>4. QED  BY <1>2, <1>4, <2>3 DEF Scan!Before, Here
<1>5. ListedInv' /\ MissingInv'
  BY <1>1, <1>2, <1>3, <1>4, DeviceEnds
<1>6. ScanTypes'
  BY <1>1, <1>2, NextDeviceFacts, ScanSizes DEF ScanInv, ScanTypes, Scan!Function
<1>7. QED  BY <1>5, <1>6 DEF ScanInv

LEMMA ReturnStep == ScanInv /\ Scan!return => ScanInv'
<1> SUFFICES ASSUME ScanInv, Scan!return  PROVE ScanInv'
  OBVIOUS
<1>1. /\ ~(bus < Buses /\ Len(devices) < max_devices) /\ pci_pc' = "done" /\ fn = -1
      /\ UNCHANGED <<present, multi, max_devices, bus, dev, fn, devices>>
  BY DEF Scan!return, Scan!hardware, Scan!count
<1>2. Here' = Here
  BY <1>1 DEF Here
<1>3. ListedInv' /\ MissingInv'
  BY <1>1, <1>2, ScanFacts, CursorMoves
<1>4. bus = Buses \/ Len(devices) = max_devices
  BY <1>1, ScanFacts, ScanSizes DEF ScanInv, ScanTypes
<1>5. ScanTypes'
  BY <1>1, <1>4, ScanSizes DEF ScanInv, ScanTypes, Scan!Function
<1>6. QED  BY <1>3, <1>5 DEF ScanInv

LEMMA FunctionStep == ScanInv /\ Scan!function => ScanInv'
<1> SUFFICES ASSUME ScanInv, Scan!function  PROVE ScanInv'
  OBVIOUS
<1> DEFINE this == <<bus, dev, fn>>
<1>1. /\ fn >= 0 /\ fn < Scan!num_functions /\ Len(devices) < max_devices
      /\ devices' = IF this \in present THEN Append(devices, this) ELSE devices
      /\ fn' = fn + 1
      /\ UNCHANGED <<present, multi, max_devices, bus, dev, pci_pc>>
  BY DEF Scan!function, Scan!InFunctions, Scan!hardware, Scan!count, Scan!pci_device_exists
<1>2. /\ fn \in Int /\ fn # -1 /\ bus < Buses /\ pci_pc = "scan" /\ <<bus, dev, 0>> \in present
      /\ bus \in 0 .. Buses /\ dev \in 0 .. Devs - 1 /\ bus \in Int /\ dev \in Int
      /\ devices \in Seq(Scan!Function) /\ present \subseteq Scan!Function
      /\ Len(devices) \in Nat /\ max_devices \in Nat
  BY <1>1, ScanFacts DEF ScanInv, ScanTypes
<1>3. Scan!num_functions \in Nat /\ Scan!num_functions <= Fns /\ Scan!num_functions' = Scan!num_functions
  BY <1>1, ScanSizes DEF Scan!num_functions
<1>4. Here = this /\ Here' = <<bus, dev, fn + 1>>
  BY <1>1, <1>2 DEF Here
<1>5. Scan!Reachable' = Scan!Reachable
  BY <1>1 DEF Scan!Reachable
<1>6. this \in present => this \in Scan!Reachable /\ this \in Scan!Function
  <2>1. fn = 0 \/ <<bus, dev>> \in multi
    BY <1>1, <1>2 DEF Scan!num_functions
  <2>2. QED  BY <1>2, <2>1 DEF Scan!Reachable
<1>7. ScanTypes'
  <2>1. devices' \in Seq(Scan!Function) /\ Len(devices') <= max_devices
    BY <1>1, <1>2, <1>6
  <2>2. Scan!Function' = Scan!Function
    BY DEF Scan!Function
  <2>3. fn' \in -1 .. Fns /\ fn' <= Scan!num_functions'
    BY <1>1, <1>2, <1>3, ScanSizes
  <2>4. QED  BY <1>1, <1>2, <2>1, <2>2, <2>3 DEF ScanInv, ScanTypes
<1>8. CASE this \notin present
  <2>1. Scan!Before(Here, Here')
    BY <1>2, <1>4 DEF Scan!Before
  <2>2. ASSUME NEW f \in Scan!Reachable, Scan!Before(f, Here'), ~Scan!Before(f, Here)
        PROVE  FALSE
    <3>1. f \in present /\ f = <<f[1], f[2], f[3]>> /\ f[1] \in Int /\ f[2] \in Int /\ f[3] \in Int
      BY ScanFacts DEF Scan!Reachable
    <3>2. f[1] = bus /\ f[2] = dev /\ f[3] = fn
      BY <1>2, <1>4, <2>2, <3>1 DEF Scan!Before
    <3>3. QED  BY <1>8, <3>1, <3>2
  <2>3. ListedInv' /\ MissingInv'
    BY <1>1, <1>2, <1>8, <2>1, <2>2, CursorMoves
  <2>4. QED  BY <1>7, <2>3 DEF ScanInv
<1>9. CASE this \in present
  <2> DEFINE n == Len(devices)
  <2>1. /\ n \in Nat /\ Len(devices') = n + 1 /\ devices'[n + 1] = this
        /\ \A k \in 1 .. n : devices'[k] = devices[k]
    BY <1>1, <1>2, <1>9
  <2>2. ListedInv
    BY DEF ScanInv
  <2>3. \A k \in 1 .. n : Scan!Before(devices[k], this) /\ devices[k] \in Scan!Reachable
    BY <1>4, <2>2 DEF ListedInv
  <2>4. \A k \in 1 .. n : Scan!Before(devices[k], Here')
    <3>1. \A k \in 1 .. n : devices[k][1] \in Int /\ devices[k][2] \in Int /\ devices[k][3] \in Int
      BY ScanFacts
    <3>2. QED  BY <1>2, <1>4, <2>3, <3>1 DEF Scan!Before
  <2>5. Scan!Before(this, Here')
    BY <1>2, <1>4 DEF Scan!Before
  <2> HIDE DEF this
  <2>6. \A k \in 1 .. n + 1 : devices'[k] \in Scan!Reachable /\ Scan!Before(devices'[k], Here')
    BY <1>6, <1>9, <2>1, <2>3, <2>4, <2>5
  <2>7. ASSUME NEW j \in 1 .. n + 1, NEW k \in 1 .. n + 1, j < k
        PROVE  Scan!Before(devices'[j], devices'[k])
    <3>1. j \in 1 .. n
      BY <2>1, <2>7
    <3>2. CASE k = n + 1
      BY <2>1, <2>3, <3>1, <3>2
    <3>3. CASE k \in 1 .. n
      BY <2>1, <2>2, <2>7, <3>1, <3>3 DEF ListedInv
    <3>4. QED  BY <2>1, <3>2, <3>3
  <2>8. ListedInv'
    BY <1>5, <2>1, <2>6, <2>7 DEF ListedInv, Scan!Before
  <2>9. ASSUME NEW f \in Scan!Reachable
        PROVE  \/ \E k \in 1 .. n + 1 : devices'[k] = f
               \/ /\ \A k \in 1 .. n + 1 : Scan!Before(devices'[k], f)
                  /\ ~Scan!Before(f, Here')
    <3>1. CASE \E k \in 1 .. n : devices[k] = f
      BY <3>1, <2>1
    <3>2. CASE f = this
      BY <3>2, <2>1
    <3>3. CASE ~(\E k \in 1 .. n : devices[k] = f) /\ f # this
      <4>1. (\A k \in 1 .. n : Scan!Before(devices[k], f)) /\ ~Scan!Before(f, Here)
        BY <1>1, <1>2, <3>3 DEF ScanInv, MissingInv
      <4>2. /\ f = <<f[1], f[2], f[3]>> /\ f[1] \in Int /\ f[2] \in Int /\ f[3] \in Int
            /\ ~(f[1] = bus /\ f[2] = dev /\ f[3] = fn)
        BY <3>3, ScanFacts DEF this
      <4>3. Scan!Before(this, f) /\ ~Scan!Before(f, Here')
        BY <1>2, <1>4, <4>1, <4>2 DEF Scan!Before, this
      <4>4. QED  BY <2>1, <4>1, <4>3
    <3>4. QED  BY <3>1, <3>2, <3>3
  <2>10. MissingInv'
    BY <1>5, <2>1, <2>9 DEF MissingInv, Scan!Before
  <2>11. QED  BY <1>7, <2>8, <2>10 DEF ScanInv
<1>10. QED  BY <1>8, <1>9

LEMMA ScanNext == ScanInv /\ [Scan!Next]_(Scan!vars) => ScanInv'
<1> SUFFICES ASSUME ScanInv, [Scan!Next]_(Scan!vars)  PROVE ScanInv'
  OBVIOUS
<1>1. CASE UNCHANGED Scan!vars
  <2>1. UNCHANGED <<present, multi, max_devices, bus, dev, fn, devices, pci_pc>>
    BY <1>1 DEF Scan!vars, Scan!hardware
  <2>2. Here' = Here
    BY <2>1 DEF Here
  <2>3. ListedInv' /\ MissingInv'
    BY <2>1, <2>2, ScanFacts, CursorMoves
  <2>4. ScanTypes'
    BY <2>1 DEF ScanInv, ScanTypes, Scan!Function, Scan!num_functions
  <2>5. QED  BY <2>3, <2>4 DEF ScanInv
<1>2. QED  BY <1>1, NoDeviceStep, DeviceStep, FunctionStep, FunctionsEndStep, ReturnStep DEF Scan!Next

(* pci_enumerate_devices lists the start of the inventory, whatever the    *)
(* machine holds and however long the array is: nothing twice, nothing out *)
(* of order, and nothing missing but what a full array left out.           *)
THEOREM InventoryAlwaysListed == MCSpec => []ListsInventory
<1>1. Scan!Spec => []ScanInv
  BY ScanInit, ScanNext, PTL DEF Scan!Spec
<1>2. ASSUME ScanInv  PROVE ListsInventory
  <2>1. DOMAIN devices = 1 .. Len(devices)
    BY <1>2 DEF ScanInv, ScanTypes
  <2>2. Scan!TypeOK
    BY <1>2 DEF ScanInv, ScanTypes, Scan!TypeOK, Scan!count
  <2>3. ASSUME pci_pc = "done", NEW f \in Scan!Reachable, Len(devices) # max_devices
        PROVE  \E k \in 1 .. Len(devices) : devices[k] = f
    <3>1. bus = Buses /\ bus \in Int
      BY <1>2, <2>3, ScanFacts DEF ScanInv, ScanTypes
    <3>2. f[1] \in 0 .. Buses - 1
      BY <1>2, ScanFacts, FunctionParts
    <3>3. Scan!Before(f, Here)
      BY <3>1, <3>2, ScanSizes DEF Scan!Before, Here
    <3>4. QED  BY <1>2, <2>3, <3>3 DEF ScanInv, MissingInv
  <2>4. Scan!ListsInventory
    BY <1>2, <2>1, <2>3 DEF ScanInv, ListedInv, MissingInv, Scan!ListsInventory, Scan!count
  <2>5. QED  BY <2>2, <2>4 DEF ListsInventory
<1>3. QED  BY <1>1, <1>2, OnlyOneServes, PTL
-----------------------------------------------------------------------------
(* The applications.  On strings without a zero, strcmp tells whether they *)
(* are equal and strncmp, over the length of the first, whether that one   *)
(* is the beginning of the other.                                          *)
String == Seq(Nat \ {0})
Stops(s1, s2) == {k \in 0 .. Len(s1) : Registry!At(s1, k) = 0 \/ Registry!At(s1, k) # Registry!At(s2, k)}

LEMMA AtFacts ==
  ASSUME NEW t \in String, NEW k \in Nat
  PROVE  /\ Len(t) \in Nat
         /\ k < Len(t) => Registry!At(t, k) = t[k + 1] /\ Registry!At(t, k) \in Nat \ {0}
         /\ k >= Len(t) => Registry!At(t, k) = 0
BY DEF String, Registry!At, Registry!NUL

LEMMA MinFacts ==
  ASSUME NEW S \in SUBSET Nat, S # {}
  PROVE  Registry!Min(S) \in S /\ \A k \in S : Registry!Min(S) <= k
BY LeastNat DEF Registry!Min

LEMMA StopFacts ==
  ASSUME NEW s1 \in String, NEW s2 \in String
  PROVE  /\ Stops(s1, s2) \in SUBSET Nat /\ Len(s1) \in Stops(s1, s2)
         /\ Registry!NUL = 0
BY AtFacts DEF Stops, String, Registry!NUL

LEMMA StrcmpFacts ==
  ASSUME NEW s1 \in String, NEW s2 \in String
  PROVE  Registry!strcmp(s1, s2) = 0 <=> s1 = s2
<1> DEFINE i == Registry!Min(Stops(s1, s2))
<1>1. i \in Stops(s1, s2) /\ (\A k \in Stops(s1, s2) : i <= k) /\ i \in Nat /\ i <= Len(s1)
  BY StopFacts, MinFacts DEF Stops
<1>2. Registry!strcmp(s1, s2) = Registry!At(s1, i) - Registry!At(s2, i)
  BY DEF Registry!strcmp, Registry!NUL, Stops
<1> HIDE DEF i
<1>3. Registry!At(s1, i) \in Nat /\ Registry!At(s2, i) \in Nat /\ Len(s1) \in Nat /\ Len(s2) \in Nat
  BY <1>1, AtFacts
<1>4. s1 = s2 => Registry!strcmp(s1, s2) = 0
  BY <1>2, <1>3
<1>5. ASSUME Registry!strcmp(s1, s2) = 0  PROVE s1 = s2
  <2>1. Registry!At(s1, i) = Registry!At(s2, i)
    BY <1>2, <1>3, <1>5
  <2>2. Registry!At(s1, i) = 0
    BY <1>1, <2>1 DEF Stops
  <2>3. i = Len(s1) /\ Len(s2) <= i
    <3>1. ~(i < Len(s1)) /\ ~(i < Len(s2))
      BY <1>1, <2>1, <2>2, AtFacts
    <3>2. QED  BY <1>1, <1>3, <3>1
  <2>4. ASSUME NEW k \in Nat, k < Len(s1)  PROVE k < Len(s2) /\ s1[k + 1] = s2[k + 1]
    <3>1. k \notin Stops(s1, s2)
      BY <1>1, <1>3, <2>3, <2>4
    <3>2. Registry!At(s1, k) # 0 /\ Registry!At(s1, k) = Registry!At(s2, k)
      BY <1>3, <2>4, <3>1 DEF Stops
    <3>3. k < Len(s2)
      BY <1>3, <3>2, AtFacts
    <3>4. QED  BY <2>4, <3>2, <3>3, AtFacts
  <2>5. Len(s1) = Len(s2)
    <3>1. CASE Len(s2) < Len(s1)
      BY <3>1, <1>3, <2>4
    <3>2. QED  BY <1>3, <2>3, <3>1
  <2>6. \A k \in 1 .. Len(s1) : s1[k] = s2[k]
    <3>1. ASSUME NEW k \in 1 .. Len(s1)  PROVE s1[k] = s2[k]
      <4>1. k - 1 \in Nat /\ k - 1 < Len(s1) /\ (k - 1) + 1 = k
        BY <1>3
      <4>2. QED  BY <2>4, <4>1
    <3>2. QED  BY <3>1
  <2>7. QED  BY <2>5, <2>6 DEF String
<1>6. QED  BY <1>4, <1>5

LEMMA StrncmpFacts ==
  ASSUME NEW s1 \in String, NEW s2 \in String
  PROVE  Registry!strncmp(s1, s2, Len(s1)) = 0 <=> Registry!Beginning(s1, s2)
<1> DEFINE S == {Len(s1)} \cup Stops(s1, s2)
           i == Registry!Min(S)
<1>1. S \in SUBSET Nat /\ S # {} /\ Len(s1) \in Nat /\ Len(s2) \in Nat
  BY StopFacts DEF String
<1>2. i \in S /\ (\A k \in S : i <= k)
  BY <1>1, MinFacts
<1>3. Registry!strncmp(s1, s2, Len(s1)) =
        IF i = Len(s1) THEN 0 ELSE Registry!At(s1, i) - Registry!At(s2, i)
  BY DEF Registry!strncmp, Registry!NUL, Stops
<1>4. i \in Stops(s1, s2) /\ (\A k \in Stops(s1, s2) : i <= k)
  BY <1>2, StopFacts
<1>5. i \in Nat /\ i <= Len(s1)
  BY <1>4 DEF Stops
<1> HIDE DEF i, S
<1>6. ASSUME i = Len(s1)  PROVE Registry!Beginning(s1, s2)
  <2>1. ASSUME NEW k \in Nat, k < Len(s1)  PROVE k < Len(s2) /\ s1[k + 1] = s2[k + 1]
    <3>1. k \notin Stops(s1, s2)
      BY <1>1, <1>4, <1>6, <2>1
    <3>2. Registry!At(s1, k) # 0 /\ Registry!At(s1, k) = Registry!At(s2, k)
      BY <1>1, <2>1, <3>1 DEF Stops
    <3>3. k < Len(s2)
      BY <1>1, <3>2, AtFacts
    <3>4. QED  BY <2>1, <3>2, <3>3, AtFacts
  <2>2. Len(s1) <= Len(s2)
    <3>1. CASE Len(s2) < Len(s1)
      BY <3>1, <1>1, <2>1
    <3>2. QED  BY <1>1, <3>1
  <2>3. ASSUME NEW k \in 1 .. Len(s1)  PROVE s1[k] = s2[k]
    <3>1. k - 1 \in Nat /\ k - 1 < Len(s1) /\ (k - 1) + 1 = k
      BY <1>1
    <3>2. QED  BY <2>1, <3>1
  <2>4. QED  BY <2>2, <2>3 DEF Registry!Beginning
<1>7. ASSUME i # Len(s1)
      PROVE  Registry!strncmp(s1, s2, Len(s1)) # 0 /\ ~Registry!Beginning(s1, s2)
  <2>1. i < Len(s1)
    BY <1>1, <1>5, <1>7
  <2>2. Registry!At(s1, i) = s1[i + 1] /\ Registry!At(s1, i) \in Nat \ {0}
    BY <1>5, <2>1, AtFacts
  <2>3. Registry!At(s1, i) # Registry!At(s2, i)
    BY <1>4, <2>2 DEF Stops
  <2>4. Registry!At(s2, i) \in Nat
    BY <1>1, <1>5, AtFacts
  <2>5. Registry!strncmp(s1, s2, Len(s1)) # 0
    BY <1>3, <1>7, <2>2, <2>3, <2>4
  <2>6. ~Registry!Beginning(s1, s2)
    <3> SUFFICES ASSUME Registry!Beginning(s1, s2)  PROVE FALSE
      OBVIOUS
    <3>1. Len(s1) <= Len(s2) /\ s1[i + 1] = s2[i + 1]
      BY <1>1, <1>5, <2>1 DEF Registry!Beginning
    <3>2. Registry!At(s2, i) = s2[i + 1]
      BY <1>1, <1>5, <2>1, <3>1, AtFacts
    <3>3. QED  BY <2>2, <2>3, <3>1, <3>2
  <2>7. QED  BY <2>5, <2>6
<1>8. QED  BY <1>3, <1>6, <1>7

LEMMA RegistryFacts ==
  /\ MAX_APPS \in Nat /\ MAX_WINDOWS \in Nat /\ MAX_WINDOWS > 0 /\ BaseTasks \in Nat
  /\ BootOrder \in Seq(Registry!App) /\ Len(BootOrder) <= MAX_APPS
  /\ Len(BootOrder) \in Nat /\ Len(BootOrder) > 0
  /\ \A j, k \in 1 .. Len(BootOrder) : BootOrder[j] = BootOrder[k] => j = k
  /\ \A a \in Registry!App : \E k \in 1 .. Len(BootOrder) : BootOrder[k] = a
  /\ \A a \in Registry!App : Name[a] \in String /\ Title[a] \in String
  /\ Suffixes \subseteq String
  /\ \A a, b \in Registry!App : a # b => Name[a] # Name[b] /\ ~Registry!Beginning(Title[a], Title[b])
  /\ Terminal \in Registry!App /\ Editor \in Registry!App /\ Terminal # Editor
<1>1. BootOrder \in Seq(Registry!App)
  BY RegistryAssumption DEF Registry!SizesOK
<1>2. DOMAIN BootOrder = 1 .. Len(BootOrder) /\ Len(BootOrder) \in Nat
  BY <1>1
<1>3. \A a \in Registry!App : \E k \in 1 .. Len(BootOrder) : BootOrder[k] = a
  BY <1>2 DEF Registry!App
<1>4. Terminal \in Registry!App /\ Editor \in Registry!App /\ Terminal # Editor
  BY RegistryAssumption DEF Registry!Distinct
<1>5. Len(BootOrder) > 0
  BY <1>2, <1>3, <1>4
<1>6. QED
  BY <1>1, <1>2, <1>3, <1>4, <1>5, RegistryAssumption DEF Registry!SizesOK, Registry!StringsOK, String

(* A search of the whole registry that accepts one application finds it.   *)
LEMMA OnlyAccepted ==
  ASSUME registry = BootOrder, NEW A, NEW a \in Registry!App,
         \A b \in Registry!App : b \in A <=> b = a
  PROVE  Registry!FirstApp(A) = {a}
<1> DEFINE found == {k \in DOMAIN registry : registry[k] \in A}
<1>1. DOMAIN registry = 1 .. Len(BootOrder)
  BY RegistryFacts
<1>2. \A k \in 1 .. Len(BootOrder) : BootOrder[k] \in Registry!App
  BY RegistryFacts
<1>3. \A k \in found : registry[k] = a /\ k \in 1 .. Len(BootOrder)
  BY <1>1, <1>2
<1>4. PICK k \in 1 .. Len(BootOrder) : BootOrder[k] = a
  BY RegistryFacts
<1>5. k \in found
  BY <1>1, <1>4
<1>6. \A j \in found : k <= j
  <2>1. \A j \in found : j = k
    BY <1>3, <1>4, RegistryFacts
  <2>2. QED  BY <2>1
<1>7. (CHOOSE m \in found : \A j \in found : m <= j) \in found
  BY <1>5, <1>6
<1>8. registry[CHOOSE m \in found : \A j \in found : m <= j] = a
  BY <1>3, <1>7
<1>9. QED  BY <1>5, <1>8 DEF Registry!FirstApp

LEMMA FoundByName ==
  ASSUME registry = BootOrder, NEW a \in Registry!App
  PROVE  Registry!app_find(Name[a]) = {a}
<1> DEFINE A == {b \in Registry!App : Registry!strcmp(Name[b], Name[a]) = 0}
<1>1. ASSUME NEW b \in Registry!App  PROVE b \in A <=> b = a
  <2>1. Name[a] \in String /\ Name[b] \in String /\ (a # b => Name[a] # Name[b])
    BY RegistryFacts
  <2>2. Registry!strcmp(Name[b], Name[a]) = 0 <=> Name[b] = Name[a]
    BY <2>1, StrcmpFacts
  <2>3. QED  BY <2>1, <2>2
<1> HIDE DEF A
<1>2. Registry!FirstApp(A) = {a}
  BY <1>1, OnlyAccepted
<1>3. QED  BY <1>2 DEF Registry!app_find, A

(* A title that begins with an application's: behind it the editor has the *)
(* name of a file, the others nothing.                                     *)
LEMMA BeginningsCompare ==
  ASSUME NEW s1 \in String, NEW s2 \in String, NEW t \in String,
         Registry!Beginning(s1, t), Registry!Beginning(s2, t)
  PROVE  Registry!Beginning(s1, s2) \/ Registry!Beginning(s2, s1)
<1>1. Len(s1) \in Nat /\ Len(s2) \in Nat
  BY DEF String
<1>2. CASE Len(s1) <= Len(s2)
  BY <1>1, <1>2 DEF Registry!Beginning
<1>3. CASE Len(s2) <= Len(s1)
  BY <1>1, <1>3 DEF Registry!Beginning
<1>4. QED  BY <1>1, <1>2, <1>3

LEMMA FoundByTitle ==
  ASSUME registry = BootOrder, NEW a \in Registry!App, NEW t \in String,
         Registry!Beginning(Title[a], t)
  PROVE  Registry!app_find_by_title(t) = {a}
<1> DEFINE A == {b \in Registry!App : \/ Registry!strcmp(Title[b], t) = 0
                                      \/ Registry!strncmp(Title[b], t, Len(Title[b])) = 0}
<1>1. ASSUME NEW b \in Registry!App  PROVE b \in A <=> b = a
  <2>1. Title[b] \in String /\ Title[a] \in String
    BY RegistryFacts
  <2>2. Registry!strncmp(Title[b], t, Len(Title[b])) = 0 <=> Registry!Beginning(Title[b], t)
    BY <2>1, StrncmpFacts
  <2>3. Registry!strcmp(Title[b], t) = 0 => Registry!Beginning(Title[b], t)
    <3>1. Registry!strcmp(Title[b], t) = 0 => Title[b] = t
      BY <2>1, StrcmpFacts
    <3>2. Len(t) \in Nat
      BY DEF String
    <3>3. QED  BY <3>1, <3>2 DEF Registry!Beginning
  <2>4. b \in A <=> Registry!Beginning(Title[b], t)
    BY <2>2, <2>3
  <2>5. Registry!Beginning(Title[b], t) => b = a
    BY <2>1, BeginningsCompare, RegistryFacts
  <2>6. QED  BY <2>4, <2>5
<1> HIDE DEF A
<1>2. Registry!FirstApp(A) = {a}
  BY <1>1, OnlyAccepted
<1>3. QED  BY <1>2 DEF Registry!app_find_by_title, A

LEMMA BehindTitle ==
  ASSUME NEW s1 \in String, NEW s2 \in String
  PROVE  s1 \o s2 \in String /\ Registry!Beginning(s1, s1 \o s2) /\ Registry!Beginning(s1, s1)
<1>1. /\ Len(s1) \in Nat /\ Len(s2) \in Nat /\ Len(s1 \o s2) = Len(s1) + Len(s2)
      /\ \A k \in 1 .. Len(s1) : (s1 \o s2)[k] = s1[k]
  BY DEF String
<1>2. s1 \o s2 \in String
  BY DEF String
<1>3. QED  BY <1>1, <1>2 DEF Registry!Beginning

(* The registry is BootOrder once it is complete, which it is before any   *)
(* window opens; once the editor has a window its title is set.            *)
AppWindow == [app : Registry!App, closed : BOOLEAN]

RegistryInv ==
  /\ app_pc \in {"boot", "start", "loop"}
  /\ app_pc = "boot" => /\ registry \in Seq(Registry!App) /\ Len(registry) < Len(BootOrder)
                        /\ \A k \in 1 .. Len(registry) : registry[k] = BootOrder[k]
  /\ app_pc # "boot" => registry = BootOrder
WindowsInv ==
  /\ windows \in Seq(AppWindow) /\ Len(windows) <= MAX_WINDOWS
  /\ active \in 0 .. Len(windows)
  /\ app_pc # "loop" => Len(windows) = 0
TasksInv ==
  /\ next_pid \in Nat
  /\ \A t \in tasks : t.pid \in Nat /\ t.pid < next_pid /\ t.win \in 0 .. Len(windows)
TitleInv ==
  (\E w \in 1 .. Len(windows) : windows[w].app = Editor)
    => \E sfx \in Suffixes : window_title = Title[Editor] \o sfx
AppsInv == RegistryInv /\ WindowsInv /\ TasksInv /\ TitleInv

LEMMA AppsInit == Registry!Init => AppsInv
<1> SUFFICES ASSUME Registry!Init  PROVE AppsInv
  OBVIOUS
<1>1. /\ registry = <<>> /\ windows = <<>> /\ active = 0 /\ app_pc = "boot"
      /\ tasks = {[pid |-> p, win |-> 0] : p \in 1 .. BaseTasks} /\ next_pid = BaseTasks + 1
  BY DEF Registry!Init
<1>2. /\ registry \in Seq(Registry!App) /\ Len(registry) = 0
      /\ windows \in Seq(AppWindow) /\ Len(windows) = 0
  BY <1>1
<1>3. RegistryInv
  BY <1>1, <1>2, RegistryFacts DEF RegistryInv
<1>4. WindowsInv
  BY <1>1, <1>2, RegistryFacts DEF WindowsInv
<1>5. TasksInv
  <2>1. BaseTasks \in Nat
    BY RegistryFacts
  <2>2. next_pid \in Nat
    BY <1>1, <2>1
  <2>3. ASSUME NEW t \in tasks
        PROVE  t.pid \in Nat /\ t.pid < next_pid /\ t.win \in 0 .. Len(windows)
    <3>1. PICK p \in 1 .. BaseTasks : t = [pid |-> p, win |-> 0]
      BY <1>1, <2>3
    <3>2. t.pid = p /\ t.win = 0 /\ p \in Nat /\ p < BaseTasks + 1
      BY <2>1, <3>1
    <3>3. QED  BY <1>1, <1>2, <3>2
  <2>4. QED  BY <2>2, <2>3 DEF TasksInv
<1>6. TitleInv
  BY <1>2 DEF TitleInv
<1>7. QED  BY <1>3, <1>4, <1>5, <1>6 DEF AppsInv

LEMMA RegisterStep == AppsInv /\ Registry!register => AppsInv'
<1> SUFFICES ASSUME AppsInv, Registry!register  PROVE AppsInv'
  OBVIOUS
<1> DEFINE n == Len(registry)
<1>1. /\ app_pc = "boot" /\ registry' = Registry!app_register(BootOrder[n + 1])
      /\ app_pc' = IF n + 1 = Len(BootOrder) THEN "start" ELSE "boot"
      /\ UNCHANGED <<windows, active, window_title, tasks, next_pid>>
  BY DEF Registry!register
<1>2. /\ registry \in Seq(Registry!App) /\ n \in Nat /\ n < Len(BootOrder)
      /\ \A k \in 1 .. n : registry[k] = BootOrder[k]
  BY <1>1 DEF AppsInv, RegistryInv
<1>3. n < MAX_APPS
  BY <1>2, RegistryFacts
<1>4. registry' = Append(registry, BootOrder[n + 1]) /\ BootOrder[n + 1] \in Registry!App
  <2>1. n + 1 \in 1 .. Len(BootOrder) /\ BootOrder \in Seq(Registry!App)
    BY <1>2, RegistryFacts
  <2>2. QED  BY <1>1, <1>3, <2>1 DEF Registry!app_register
<1>5. /\ registry' \in Seq(Registry!App) /\ Len(registry') = n + 1
      /\ \A k \in 1 .. n + 1 : registry'[k] = BootOrder[k]
  BY <1>2, <1>4
<1> HIDE DEF n
<1>6. RegistryInv'
  <2>1. CASE n + 1 = Len(BootOrder)
    <3>1. registry' = BootOrder
      BY <1>5, <2>1, RegistryFacts
    <3>2. QED  BY <1>1, <2>1, <3>1 DEF RegistryInv
  <2>2. CASE n + 1 # Len(BootOrder)
    <3>1. n + 1 < Len(BootOrder)
      BY <1>2, <2>2, RegistryFacts
    <3>2. QED  BY <1>1, <1>5, <2>2, <3>1 DEF RegistryInv
  <2>3. QED  BY <2>1, <2>2
<1>7. app_pc' # "loop"
  BY <1>1
<1>8. WindowsInv'
  BY <1>1, <1>7 DEF AppsInv, WindowsInv
<1>9. TasksInv'
  BY <1>1 DEF AppsInv, TasksInv
<1>10. TitleInv'
  BY <1>1 DEF AppsInv, TitleInv
<1>11. QED  BY <1>6, <1>8, <1>9, <1>10 DEF AppsInv

(* A new window, or none because the table is full.                        *)
LEMMA LaunchStep ==
  ASSUME AppsInv, app_pc = "loop", NEW a \in Registry!App, NEW sfx \in Suffixes,
         Registry!launch(a, sfx)
  PROVE  AppsInv'
<1> DEFINE n == Len(windows)
<1>1. /\ IF n >= MAX_WINDOWS
         THEN /\ UNCHANGED <<windows, active>>
              /\ tasks' = tasks \cup {[pid |-> next_pid, win |-> 0]}
         ELSE /\ windows' = Append(windows, [app |-> a, closed |-> FALSE])
              /\ active' = n + 1
              /\ tasks' = tasks \cup {[pid |-> next_pid, win |-> n + 1]}
      /\ next_pid' = next_pid + 1
      /\ window_title' = IF a = Editor THEN Title[a] \o sfx ELSE window_title
      /\ UNCHANGED <<registry, app_pc>>
  BY DEF Registry!launch
<1>2. /\ windows \in Seq(AppWindow) /\ n \in Nat /\ n <= MAX_WINDOWS /\ MAX_WINDOWS \in Nat
      /\ active \in 0 .. n /\ next_pid \in Nat
  BY RegistryFacts DEF AppsInv, WindowsInv, TasksInv
<1>3. RegistryInv'
  BY <1>1 DEF AppsInv, RegistryInv
<1>4. a = Editor => \E x \in Suffixes : window_title' = Title[Editor] \o x
  BY <1>1
<1>5. a # Editor => window_title' = window_title
  BY <1>1
<1>6. CASE n >= MAX_WINDOWS
  <2>1. windows' = windows /\ active' = active /\ tasks' = tasks \cup {[pid |-> next_pid, win |-> 0]}
    BY <1>1, <1>6
  <2>2. WindowsInv'
    BY <1>1, <2>1 DEF AppsInv, WindowsInv
  <2>3. TasksInv'
    BY <1>1, <1>2, <2>1 DEF AppsInv, TasksInv
  <2>4. TitleInv'
    BY <1>4, <1>5, <2>1 DEF AppsInv, TitleInv
  <2>5. QED  BY <1>3, <2>2, <2>3, <2>4 DEF AppsInv
<1>7. CASE ~(n >= MAX_WINDOWS)
  <2>1. /\ windows' = Append(windows, [app |-> a, closed |-> FALSE]) /\ active' = n + 1
        /\ tasks' = tasks \cup {[pid |-> next_pid, win |-> n + 1]}
    BY <1>1, <1>7
  <2>2. [app |-> a, closed |-> FALSE] \in AppWindow
    BY Zenon DEF AppWindow
  <2>3. /\ windows' \in Seq(AppWindow) /\ Len(windows') = n + 1
        /\ windows'[n + 1].app = a
        /\ \A w \in 1 .. n : windows'[w] = windows[w]
    BY <1>2, <2>1, <2>2
  <2> HIDE DEF n
  <2>4. WindowsInv'
    BY <1>1, <1>2, <1>7, <2>1, <2>3 DEF WindowsInv
  <2>5. TasksInv'
    <3>1. ASSUME NEW t \in tasks'  PROVE t.pid \in Nat /\ t.pid < next_pid' /\ t.win \in 0 .. n + 1
      <4>1. CASE t \in tasks
        BY <1>1, <1>2, <4>1 DEF AppsInv, TasksInv, n
      <4>2. CASE t = [pid |-> next_pid, win |-> n + 1]
        BY <1>1, <1>2, <4>2
      <4>3. QED  BY <2>1, <4>1, <4>2
    <3>2. QED  BY <1>1, <1>2, <2>3, <3>1 DEF TasksInv
  <2>6. TitleInv'
    <3>1. CASE a = Editor
      BY <1>4, <3>1 DEF TitleInv
    <3>2. CASE a # Editor
      <4>1. (\E w \in 1 .. n + 1 : windows'[w].app = Editor) => \E w \in 1 .. n : windows[w].app = Editor
        BY <1>2, <2>3, <3>2
      <4>2. QED  BY <1>5, <2>3, <3>2, <4>1 DEF AppsInv, TitleInv, n
    <3>3. QED  BY <3>1, <3>2
  <2>7. QED  BY <1>3, <2>4, <2>5, <2>6 DEF AppsInv
<1>8. QED  BY <1>6, <1>7

LEMMA BootTerminalStep == AppsInv /\ Registry!boot_terminal => AppsInv'
<1> SUFFICES ASSUME AppsInv, Registry!boot_terminal  PROVE AppsInv'
  OBVIOUS
<1>1. app_pc = "start" /\ registry = BootOrder /\ Terminal \in Registry!App /\ Terminal # Editor
  BY RegistryFacts DEF AppsInv, RegistryInv, Registry!boot_terminal
<1>2. Registry!app_find(Name[Terminal]) # {}
  BY <1>1, FoundByName
<1>3. /\ app_pc' = "loop"
      /\ windows' = <<[app |-> Terminal, closed |-> FALSE]>> /\ active' = 1
      /\ tasks' = tasks \cup {[pid |-> next_pid, win |-> 1]} /\ next_pid' = next_pid + 1
      /\ UNCHANGED <<registry, window_title>>
  BY <1>2 DEF Registry!boot_terminal
<1>4. [app |-> Terminal, closed |-> FALSE] \in AppWindow
  BY <1>1, Zenon DEF AppWindow
<1>5. windows' \in Seq(AppWindow) /\ Len(windows') = 1 /\ windows'[1].app = Terminal
  BY <1>3, <1>4
<1>6. RegistryInv'
  BY <1>1, <1>3 DEF RegistryInv
<1>7. WindowsInv'
  BY <1>3, <1>5, RegistryFacts DEF WindowsInv
<1>8. TasksInv'
  <2>1. next_pid \in Nat /\ Len(windows) = 0
    BY <1>1 DEF AppsInv, TasksInv, WindowsInv
  <2>2. ASSUME NEW t \in tasks'  PROVE t.pid \in Nat /\ t.pid < next_pid' /\ t.win \in 0 .. 1
    <3>1. CASE t \in tasks
      BY <1>3, <2>1, <3>1 DEF AppsInv, TasksInv
    <3>2. CASE t = [pid |-> next_pid, win |-> 1]
      BY <1>3, <2>1, <3>2
    <3>3. QED  BY <1>3, <3>1, <3>2
  <2>3. QED  BY <1>3, <1>5, <2>1, <2>2 DEF TasksInv
<1>9. TitleInv'
  BY <1>1, <1>5 DEF TitleInv
<1>10. QED  BY <1>6, <1>7, <1>8, <1>9 DEF AppsInv

(* Closing a window and moving the focus.                                  *)
LEMMA WindowStep ==
  ASSUME AppsInv, app_pc = "loop", NEW w \in 1 .. Len(windows),
         windows' = windows \/ windows' = [windows EXCEPT ![w].closed = TRUE],
         active' \in 0 .. Len(windows), tasks' \subseteq tasks,
         UNCHANGED <<registry, window_title, next_pid, app_pc>>
  PROVE  AppsInv'
<1>1. windows \in Seq(AppWindow) /\ Len(windows) <= MAX_WINDOWS /\ Len(windows) \in Nat
  BY DEF AppsInv, WindowsInv
<1>2. /\ windows' \in Seq(AppWindow) /\ Len(windows') = Len(windows)
      /\ \A v \in 1 .. Len(windows) : windows'[v].app = windows[v].app
  <2>1. CASE windows' = windows
    BY <1>1, <2>1
  <2>2. CASE windows' = [windows EXCEPT ![w].closed = TRUE]
    <3>1. windows[w] \in AppWindow
      BY <1>1
    <3>2. [windows[w] EXCEPT !.closed = TRUE] \in AppWindow
      BY <3>1 DEF AppWindow
    <3>3. [windows[w] EXCEPT !.closed = TRUE].app = windows[w].app
      BY <3>1 DEF AppWindow
    <3> DEFINE new == [windows[w] EXCEPT !.closed = TRUE]
    <3>4. windows' = [windows EXCEPT ![w] = new]
      BY <2>2
    <3> HIDE DEF new
    <3>5. windows' \in Seq(AppWindow) /\ Len(windows') = Len(windows)
      BY <1>1, <3>2, <3>4 DEF new
    <3>6. \A v \in 1 .. Len(windows) : windows'[v] = IF v = w THEN new ELSE windows[v]
      BY <1>1, <3>4
    <3>7. \A v \in 1 .. Len(windows) : windows'[v].app = windows[v].app
      BY <3>3, <3>6 DEF new
    <3>8. QED  BY <3>5, <3>7
  <2>3. QED  BY <2>1, <2>2
<1>3. RegistryInv'
  BY DEF AppsInv, RegistryInv
<1>4. WindowsInv'
  BY <1>1, <1>2 DEF AppsInv, WindowsInv
<1>5. TasksInv'
  BY <1>2 DEF AppsInv, TasksInv
<1>6. TitleInv'
  BY <1>2 DEF AppsInv, TitleInv
<1>7. QED  BY <1>3, <1>4, <1>5, <1>6 DEF AppsInv

LEMMA OpenFacts ==
  ASSUME NEW ws \in Seq(AppWindow)
  PROVE  Registry!Open(ws) \subseteq 1 .. Len(ws)
BY DEF Registry!Open

LEMMA AppsNext == AppsInv /\ [Registry!Next]_(Registry!vars) => AppsInv'
<1> SUFFICES ASSUME AppsInv, [Registry!Next]_(Registry!vars)  PROVE AppsInv'
  OBVIOUS
<1>1. CASE UNCHANGED Registry!vars
  BY <1>1 DEF AppsInv, RegistryInv, WindowsInv, TasksInv, TitleInv, Registry!vars
<1>2. app_pc = "loop" => registry = BootOrder
  BY DEF AppsInv, RegistryInv
<1>3. windows \in Seq(AppWindow) /\ Len(windows) \in Nat /\ active \in 0 .. Len(windows)
  BY DEF AppsInv, WindowsInv
<1>4. CASE Registry!register
  BY <1>4, RegisterStep
<1>5. CASE Registry!boot_terminal
  BY <1>5, BootTerminalStep
<1>6. CASE Registry!desktop_launch \/ Registry!command_launch
  <2>1. app_pc = "loop"
    BY <1>6 DEF Registry!desktop_launch, Registry!command_launch, Registry!Handles
  <2>2. PICK b \in Registry!App, sfx \in Suffixes :
             \E a \in Registry!app_find(Name[b]) : Registry!launch(a, sfx)
    BY <1>6 DEF Registry!desktop_launch, Registry!command_launch
  <2>3. Registry!app_find(Name[b]) = {b}
    BY <1>2, <2>1, FoundByName
  <2>4. Registry!launch(b, sfx)
    BY <2>2, <2>3
  <2>5. QED  BY <2>1, <2>4, LaunchStep
<1>7. CASE Registry!exit \/ Registry!yano_exit
  <2>1. /\ app_pc = "loop" /\ active # 0
        /\ windows' = [windows EXCEPT ![active].closed = TRUE]
        /\ tasks' \subseteq tasks
        /\ UNCHANGED <<registry, active, window_title, next_pid, app_pc>>
    BY <1>7 DEF Registry!exit, Registry!yano_exit, Registry!Handles
  <2>2. active \in 1 .. Len(windows)
    BY <1>3, <2>1
  <2>3. QED  BY <1>3, <2>1, <2>2, WindowStep
<1>8. ASSUME NEW w \in Registry!Open(windows), Registry!close(w)  PROVE AppsInv'
  <2>1. /\ app_pc = "loop" /\ windows' = [windows EXCEPT ![w].closed = TRUE]
        /\ active' \in IF active # w THEN {active}
                       ELSE IF Registry!Open(windows') = {} THEN {0} ELSE Registry!Open(windows')
        /\ UNCHANGED <<registry, window_title, tasks, next_pid, app_pc>>
    BY <1>8 DEF Registry!close
  <2>2. w \in 1 .. Len(windows)
    BY <1>3, OpenFacts
  <2>3. DOMAIN windows' = 1 .. Len(windows)
    BY <1>3, <2>1
  <2>4. Registry!Open(windows') \subseteq 1 .. Len(windows)
    BY <2>3 DEF Registry!Open
  <2>5. active' \in 0 .. Len(windows)
    <3>1. active' = active \/ active' = 0 \/ active' \in 1 .. Len(windows)
      BY <2>1, <2>4
    <3>2. QED  BY <1>3, <3>1
  <2>6. QED  BY <2>1, <2>2, <2>5, WindowStep
<1>9. ASSUME NEW w \in Registry!Open(windows), Registry!focus(w)  PROVE AppsInv'
  <2>1. /\ app_pc = "loop" /\ active' = w
        /\ UNCHANGED <<registry, windows, window_title, tasks, next_pid, app_pc>>
    BY <1>9 DEF Registry!focus
  <2>2. w \in 1 .. Len(windows)
    BY <1>3, OpenFacts
  <2>3. QED  BY <1>3, <2>1, <2>2, WindowStep
<1>10. QED  BY <1>1, <1>4, <1>5, <1>6, <1>7, <1>8, <1>9 DEF Registry!Next

(* For every list of applications whose names differ and of whose titles   *)
(* none is the beginning of another: a name finds its application, and a   *)
(* key goes to the application that opened the active window, whatever     *)
(* files the editor has opened since.                                      *)
THEOREM AppsAlwaysReached == MCSpec => []AppsAreReached
<1>1. Registry!Spec => []AppsInv
  BY AppsInit, AppsNext, PTL DEF Registry!Spec
<1>2. ASSUME AppsInv  PROVE AppsAreReached
  <2>1. Registry!TypeOK
    <3>1. Len(registry) <= MAX_APPS /\ registry \in Seq(Registry!App)
      BY <1>2, RegistryFacts DEF AppsInv, RegistryInv
    <3>2. QED  BY <1>2, <3>1 DEF AppsInv, WindowsInv, TasksInv, Registry!TypeOK
  <2>2. Registry!AppsAreFound
    BY <1>2, FoundByName DEF AppsInv, RegistryInv, Registry!AppsAreFound
  <2>3. Registry!KeysReachOwner
    <3>1. SUFFICES ASSUME NEW w \in Registry!Open(windows)
                   PROVE  Registry!app_find_by_title(Registry!TitleOf(w)) = {windows[w].app}
      BY DEF Registry!KeysReachOwner
    <3>2. windows \in Seq(AppWindow) /\ w \in 1 .. Len(windows)
      BY <1>2, OpenFacts DEF AppsInv, WindowsInv
    <3>3. windows[w] \in AppWindow
      BY <3>2
    <3>4. windows[w].app \in Registry!App
      BY <3>3 DEF AppWindow
    <3>5. registry = BootOrder
      BY <1>2, <3>2 DEF AppsInv, RegistryInv, WindowsInv
    <3>6. CASE windows[w].app = Editor
      <4>1. PICK sfx \in Suffixes : window_title = Title[Editor] \o sfx
        BY <1>2, <3>2, <3>6 DEF AppsInv, TitleInv
      <4>2. Title[Editor] \in String /\ sfx \in String /\ Editor \in Registry!App
        BY RegistryFacts
      <4>3. window_title \in String /\ Registry!Beginning(Title[Editor], window_title)
        BY <4>1, <4>2, BehindTitle
      <4>4. Registry!TitleOf(w) = window_title
        BY <3>6 DEF Registry!TitleOf
      <4>5. QED  BY <3>5, <3>6, <4>2, <4>3, <4>4, FoundByTitle
    <3>7. CASE windows[w].app # Editor
      <4> DEFINE a == windows[w].app
      <4>1. Title[a] \in String
        BY <3>4, RegistryFacts
      <4>2. Registry!Beginning(Title[a], Title[a])
        BY <4>1, BehindTitle
      <4>3. Registry!TitleOf(w) = Title[a]
        BY <3>7 DEF Registry!TitleOf
      <4> HIDE DEF a
      <4>4. Registry!app_find_by_title(Title[a]) = {a}
        BY <3>4, <3>5, <4>1, <4>2, FoundByTitle DEF a
      <4>5. QED  BY <4>3, <4>4 DEF a
    <3>8. QED  BY <3>6, <3>7
  <2>4. QED  BY <2>1, <2>2, <2>3 DEF AppsAreReached
<1>3. QED  BY <1>1, <1>2, OnlyOneServes, PTL
-----------------------------------------------------------------------------
(* xsprintf.  First the recursive functions of Format: that they satisfy   *)
(* the equations that define them, by induction over their domains.        *)
LEMMA ConcatenationExists ==
  ASSUME NEW N \in Nat, NEW H
  PROVE  \E f : f = [k \in 0 .. N |-> IF k = 0 THEN <<>> ELSE f[k - 1] \o H[k]]
<1> DEFINE P(n) == \E f : f = [k \in 0 .. n |-> IF k = 0 THEN <<>> ELSE f[k - 1] \o H[k]]
           S == {n \in Nat : P(n)}
<1>1. P(0)
  <2> DEFINE f == [k \in 0 .. 0 |-> <<>>]
  <2>1. f = [k \in 0 .. 0 |-> IF k = 0 THEN <<>> ELSE f[k - 1] \o H[k]]
    OBVIOUS
  <2>2. QED  BY <2>1
<1>2. ASSUME NEW n \in Nat, P(n)  PROVE P(n + 1)
  <2>1. PICK g : g = [k \in 0 .. n |-> IF k = 0 THEN <<>> ELSE g[k - 1] \o H[k]]
    BY <1>2
  <2> DEFINE f == [k \in 0 .. n + 1 |-> IF k = n + 1 THEN g[n] \o H[k] ELSE g[k]]
  <2>2. ASSUME NEW k \in 0 .. n + 1
        PROVE  f[k] = IF k = 0 THEN <<>> ELSE f[k - 1] \o H[k]
    <3>1. CASE k = n + 1
      <4>1. k # 0 /\ k - 1 = n /\ n \in 0 .. n + 1 /\ n # n + 1
        BY <3>1
      <4>2. f[k] = g[n] \o H[k] /\ f[n] = g[n]
        BY <3>1, <4>1
      <4>3. QED  BY <4>1, <4>2
    <3>2. CASE k # n + 1
      <4>1. k \in 0 .. n /\ f[k] = g[k]
        BY <3>2
      <4>2. g[k] = IF k = 0 THEN <<>> ELSE g[k - 1] \o H[k]
        BY <2>1, <4>1
      <4>3. k # 0 => k - 1 \in 0 .. n + 1 /\ k - 1 # n + 1 /\ f[k - 1] = g[k - 1]
        BY <4>1
      <4>4. QED  BY <4>1, <4>2, <4>3
    <3>3. QED  BY <3>1, <3>2
  <2>3. DOMAIN f = 0 .. n + 1
    OBVIOUS
  <2>4. f = [k \in 0 .. n + 1 |-> f[k]]
    BY <2>3
  <2> HIDE DEF f
  <2>5. f = [k \in 0 .. n + 1 |-> IF k = 0 THEN <<>> ELSE f[k - 1] \o H[k]]
    BY <2>2, <2>4
  <2>6. QED  BY <2>5
<1>3. S = Nat
  BY <1>1, <1>2, SetInduction
<1>4. QED  BY <1>3

LEMMA WrittenEquation ==
  ASSUME NEW c, Len(c.format) \in Nat
  PROVE  /\ Sprintf!Written(c)[0] = <<>>
         /\ \A k \in 1 .. Len(c.format) :
              Sprintf!Written(c)[k] =
                Sprintf!Written(c)[k - 1] \o Sprintf!Standard(c.format[k], Sprintf!ArgOf(c, k))
<1> DEFINE n == Len(c.format)
           H == [k \in 1 .. n |-> Sprintf!Standard(c.format[k], Sprintf!ArgOf(c, k))]
           Is(f) == f = [k \in 0 .. n |-> IF k = 0 THEN <<>> ELSE
                           f[k - 1] \o Sprintf!Standard(c.format[k], Sprintf!ArgOf(c, k))]
<1>1. PICK f : f = [k \in 0 .. n |-> IF k = 0 THEN <<>> ELSE f[k - 1] \o H[k]]
  BY ConcatenationExists
<1>2. Is(f)
  <2>1. ASSUME NEW k \in 0 .. n
        PROVE  f[k] = IF k = 0 THEN <<>> ELSE
                        f[k - 1] \o Sprintf!Standard(c.format[k], Sprintf!ArgOf(c, k))
    <3>1. f[k] = IF k = 0 THEN <<>> ELSE f[k - 1] \o H[k]
      BY <1>1
    <3>2. k # 0 => k \in 1 .. n
      OBVIOUS
    <3>3. k # 0 => H[k] = Sprintf!Standard(c.format[k], Sprintf!ArgOf(c, k))
      BY <3>2
    <3>4. QED  BY <3>1, <3>3
  <2>2. f = [k \in 0 .. n |-> f[k]]
    BY <1>1
  <2>3. QED  BY <2>1, <2>2
<1>3. Is(Sprintf!Written(c))
  BY <1>2 DEF Sprintf!Written
<1>4. QED  BY <1>3

LEMMA DigitsExists ==
  ASSUME NEW N \in Nat
  PROVE  \E f : f = [v \in 0 .. N |-> IF v < 10 THEN <<v>> ELSE Append(f[v \div 10], v % 10)]
<1> DEFINE P(n) == \E f : f = [v \in 0 .. n |-> IF v < 10 THEN <<v>> ELSE Append(f[v \div 10], v % 10)]
           S == {n \in Nat : P(n)}
<1>1. P(0)
  <2> DEFINE f == [v \in 0 .. 0 |-> <<v>>]
  <2>1. f = [v \in 0 .. 0 |-> IF v < 10 THEN <<v>> ELSE Append(f[v \div 10], v % 10)]
    OBVIOUS
  <2>2. QED  BY <2>1
<1>2. ASSUME NEW n \in Nat, P(n)  PROVE P(n + 1)
  <2>1. PICK g : g = [v \in 0 .. n |-> IF v < 10 THEN <<v>> ELSE Append(g[v \div 10], v % 10)]
    BY <1>2
  <2> DEFINE f == [v \in 0 .. n + 1 |-> IF v < 10 THEN <<v>> ELSE Append(g[v \div 10], v % 10)]
  <2>2. ASSUME NEW v \in 0 .. n  PROVE f[v] = g[v]
    <3>1. v \in 0 .. n + 1
      OBVIOUS
    <3>2. f[v] = IF v < 10 THEN <<v>> ELSE Append(g[v \div 10], v % 10)
      BY <3>1
    <3>3. QED  BY <2>1, <3>2
  <2>3. ASSUME NEW v \in 0 .. n + 1
        PROVE  f[v] = IF v < 10 THEN <<v>> ELSE Append(f[v \div 10], v % 10)
    <3>1. v >= 10 => v \div 10 \in 0 .. n
      BY SMT
    <3>2. v >= 10 => f[v \div 10] = g[v \div 10]
      BY <2>2, <3>1
    <3>3. f[v] = IF v < 10 THEN <<v>> ELSE Append(g[v \div 10], v % 10)
      OBVIOUS
    <3>4. v < 10 \/ v >= 10
      OBVIOUS
    <3>5. QED  BY <3>2, <3>3, <3>4
  <2>4. f = [v \in 0 .. n + 1 |-> f[v]]
    OBVIOUS
  <2> HIDE DEF f
  <2>5. f = [v \in 0 .. n + 1 |-> IF v < 10 THEN <<v>> ELSE Append(f[v \div 10], v % 10)]
    BY <2>3, <2>4
  <2>6. QED  BY <2>5
<1> HIDE DEF P
<1>3. 0 \in S /\ \A n \in S : n + 1 \in S
  BY <1>1, <1>2
<1>4. S = Nat
  BY <1>3, SetInduction
<1>5. P(N)
  BY <1>4
<1>6. QED  BY <1>5 DEF P

LEMMA CharFacts == Sprintf!INT_MAX \in Nat /\ Sprintf!Char = 0 .. 30
BY SMT DEF Sprintf!INT_MAX, Sprintf!Char

(* Every number is printed in characters.                                  *)
LEMMA DigitsType ==
  ASSUME NEW v \in 0 .. Sprintf!INT_MAX
  PROVE  Sprintf!Digits[v] \in Seq(Sprintf!Char)
<1> DEFINE D == Sprintf!Digits
           T(n) == \A x \in 0 .. n : x <= Sprintf!INT_MAX => D[x] \in Seq(Sprintf!Char)
           S == {n \in Nat : T(n)}
<1>1. Sprintf!INT_MAX \in Nat /\ Sprintf!Char = 0 .. 30
  BY CharFacts
<1>2. D = [x \in 0 .. Sprintf!INT_MAX |-> IF x < 10 THEN <<x>> ELSE Append(D[x \div 10], x % 10)]
  BY <1>1, DigitsExists DEF Sprintf!Digits
<1> HIDE DEF D
<1>3. T(0)
  <2>1. D[0] = <<0>>
    BY <1>1, <1>2
  <2>2. <<0>> \in Seq(Sprintf!Char)
    BY <1>1
  <2>3. \A x \in 0 .. 0 : x = 0
    OBVIOUS
  <2>4. QED  BY <2>1, <2>2, <2>3, Zenon
<1>4. ASSUME NEW n \in Nat, T(n)  PROVE T(n + 1)
  <2>1. SUFFICES ASSUME NEW x \in 0 .. n + 1, x <= Sprintf!INT_MAX
                 PROVE  D[x] \in Seq(Sprintf!Char)
    OBVIOUS
  <2>2. x \in 0 .. Sprintf!INT_MAX
    BY <1>1, <2>1
  <2>3. D[x] = IF x < 10 THEN <<x>> ELSE Append(D[x \div 10], x % 10)
    BY <1>2, <2>2
  <2>4. CASE x < 10
    BY <1>1, <2>3, <2>4
  <2>5. CASE ~(x < 10)
    <3>1. x \div 10 \in 0 .. n /\ x \div 10 <= x /\ x % 10 \in 0 .. 9
      BY <2>5, SMT
    <3>2. x \div 10 <= Sprintf!INT_MAX
      BY <1>1, <2>1, <3>1
    <3>3. D[x \div 10] \in Seq(Sprintf!Char)
      BY <1>4, <3>1, <3>2
    <3>4. x % 10 \in Sprintf!Char
      BY <1>1, <3>1
    <3>5. Append(D[x \div 10], x % 10) \in Seq(Sprintf!Char)
      BY <3>3, <3>4
    <3>6. QED  BY <2>3, <2>5, <3>5
  <2>6. QED  BY <2>4, <2>5
<1> HIDE DEF T
<1>5. 0 \in S /\ \A n \in S : n + 1 \in S
  BY <1>3, <1>4
<1>6. S = Nat
  BY <1>5, SetInduction
<1>7. v \in Nat /\ v <= Sprintf!INT_MAX /\ v \in 0 .. v
  BY <1>1
<1>8. T(v)
  BY <1>6, <1>7
<1>9. QED  BY <1>7, <1>8 DEF T, D

(* How many arguments the first k items of a call take, and that a call of *)
(* the system brings an argument of the right kind for each of them.       *)
Conversions == {"s", "d", "c"}
Taken(c, k) == Cardinality({j \in 1 .. k : c.format[j].conv \in Conversions})
IsItem(it) ==
  /\ it.conv \in {"none", "s", "d", "c", "x", "percent"}
  /\ it.width \in Nat /\ it.char \in Sprintf!Char
  /\ it.align_left \in BOOLEAN /\ it.pad_zero \in BOOLEAN
  /\ it.conv = "s" => ~it.pad_zero
  /\ it.conv = "d" => ~it.align_left
  /\ it.conv = "c" => it.width = 0
Fits(it, x) ==
  /\ it.conv = "s" => x \in Seq(Sprintf!Char)
  /\ it.conv = "d" => x \in 0 .. Sprintf!INT_MAX
  /\ it.conv = "c" => x \in Sprintf!Char
CallFits(c) ==
  /\ Len(c.format) \in Nat /\ c.format = [k \in 1 .. Len(c.format) |-> c.format[k]]
  /\ Len(c.args) \in Nat /\ c.args = [k \in 1 .. Len(c.args) |-> c.args[k]]
  /\ \A k \in 1 .. Len(c.format) :
       /\ IsItem(c.format[k])
       /\ c.format[k].conv \in Conversions =>
            Taken(c, k) \in 1 .. Len(c.args) /\ Fits(c.format[k], c.args[Taken(c, k)])

LEMMA TakenStep ==
  ASSUME NEW c, NEW k \in Nat
  PROVE  /\ Taken(c, k) \in Nat
         /\ Taken(c, 0) = 0
         /\ Taken(c, k + 1) = Taken(c, k) + (IF c.format[k + 1].conv \in Conversions THEN 1 ELSE 0)
<1> DEFINE S(n) == {j \in 1 .. n : c.format[j].conv \in Conversions}
<1>1. IsFiniteSet(1 .. k)
  BY FS_Interval
<1>2. S(k) \subseteq 1 .. k /\ IsFiniteSet(S(k)) /\ Cardinality(S(k)) \in Nat
  <2>1. S(k) \subseteq 1 .. k
    OBVIOUS
  <2>2. QED  BY <1>1, <2>1, FS_Subset, FS_CardinalityType
<1>3. S(0) = {}
  OBVIOUS
<1>4. c.format[k + 1].conv \in Conversions => S(k + 1) = S(k) \cup {k + 1} /\ k + 1 \notin S(k)
  OBVIOUS
<1>5. c.format[k + 1].conv \notin Conversions => S(k + 1) = S(k)
  <2>1. ASSUME c.format[k + 1].conv \notin Conversions, NEW j \in 1 .. k + 1, j \in S(k + 1)
        PROVE  j \in 1 .. k
    BY <2>1
  <2>2. QED  BY <2>1
<1>6. c.format[k + 1].conv \in Conversions => Cardinality(S(k + 1)) = Cardinality(S(k)) + 1
  BY <1>2, <1>4, FS_AddElement
<1>7. Cardinality({}) = 0
  BY FS_EmptySet
<1>8. Taken(c, 0) = Cardinality(S(0)) /\ Taken(c, k) = Cardinality(S(k))
      /\ Taken(c, k + 1) = Cardinality(S(k + 1))
  BY DEF Taken
<1> HIDE DEF S
<1>9. Taken(c, 0) = 0 /\ Taken(c, k) \in Nat
  BY <1>2, <1>3, <1>7, <1>8
<1>10. CASE c.format[k + 1].conv \in Conversions
  BY <1>6, <1>8, <1>9, <1>10
<1>11. CASE c.format[k + 1].conv \notin Conversions
  BY <1>5, <1>8, <1>9, <1>11
<1>12. QED  BY <1>9, <1>10, <1>11

(* The five formats, item by item.                                         *)
LEMMA ItemFacts ==
  /\ Sprintf!Plain.conv = "none" /\ IsItem(Sprintf!Plain)
  /\ \A w \in Nat : /\ Sprintf!Conv("d", FALSE, FALSE, w).conv = "d" /\ IsItem(Sprintf!Conv("d", FALSE, FALSE, w))
                    /\ Sprintf!Conv("d", FALSE, TRUE, w).conv = "d" /\ IsItem(Sprintf!Conv("d", FALSE, TRUE, w))
                    /\ Sprintf!Conv("s", FALSE, FALSE, w).conv = "s" /\ IsItem(Sprintf!Conv("s", FALSE, FALSE, w))
                    /\ Sprintf!Conv("s", TRUE, FALSE, w).conv = "s" /\ IsItem(Sprintf!Conv("s", TRUE, FALSE, w))
                    /\ Sprintf!Conv("x", FALSE, FALSE, w).conv = "x" /\ IsItem(Sprintf!Conv("x", FALSE, FALSE, w))
                    /\ Sprintf!Conv("x", FALSE, TRUE, w).conv = "x" /\ IsItem(Sprintf!Conv("x", FALSE, TRUE, w))
  /\ Sprintf!Conv("c", FALSE, FALSE, 0).conv = "c" /\ IsItem(Sprintf!Conv("c", FALSE, FALSE, 0))
  /\ Sprintf!Conv("percent", FALSE, FALSE, 0).conv = "percent"
  /\ IsItem(Sprintf!Conv("percent", FALSE, FALSE, 0))
BY CharFacts DEF Sprintf!Plain, Sprintf!Conv, Sprintf!BLANK, IsItem

LEMMA ValueFacts ==
  /\ \A x \in Numbers : x \in 0 .. Sprintf!INT_MAX
  /\ \A x \in Strings : x \in Seq(Sprintf!Char)
  /\ Sprintf!Letter.c \in Sprintf!Char
<1>1. Numbers \subseteq 0 .. Sprintf!INT_MAX /\ Strings \subseteq Seq(Sprintf!Char)
  BY SprintfAssumption DEF Sprintf!ValuesOK
<1>2. Sprintf!Letter.c = 14
  BY DEF Sprintf!Letter
<1>3. QED  BY <1>1, <1>2, CharFacts

LEMMA TaskRowFits ==
  ASSUME NEW c, c.format = Sprintf!TaskRow,
         c.args \in Numbers \X Strings \X {Sprintf!Letter.c} \X Numbers \X Strings
  PROVE  CallFits(c)
<1>1. /\ Len(c.format) = 6 /\ c.format = [k \in 1 .. 6 |-> c.format[k]]
      /\ c.format[1] = Sprintf!Plain /\ c.format[2] = Sprintf!Conv("d", FALSE, FALSE, 2)
      /\ c.format[3] = Sprintf!Conv("s", TRUE, FALSE, 2) /\ c.format[4] = Sprintf!Conv("c", FALSE, FALSE, 0)
      /\ c.format[5] = Sprintf!Conv("d", FALSE, FALSE, 3) /\ c.format[6] = Sprintf!Conv("s", FALSE, FALSE, 0)
  BY DEF Sprintf!TaskRow, Sprintf!ps
<1>2. /\ Len(c.args) = 5 /\ c.args = [k \in 1 .. 5 |-> c.args[k]]
      /\ c.args[1] \in Numbers /\ c.args[2] \in Strings /\ c.args[3] = Sprintf!Letter.c
      /\ c.args[4] \in Numbers /\ c.args[5] \in Strings
  OBVIOUS
<1>3. /\ c.format[1].conv = "none" /\ c.format[2].conv = "d" /\ c.format[3].conv = "s"
      /\ c.format[4].conv = "c" /\ c.format[5].conv = "d" /\ c.format[6].conv = "s"
  BY <1>1 DEF Sprintf!Plain, Sprintf!Conv
<1>4. /\ IsItem(c.format[1]) /\ IsItem(c.format[2]) /\ IsItem(c.format[3])
      /\ IsItem(c.format[4]) /\ IsItem(c.format[5]) /\ IsItem(c.format[6])
  BY <1>1, ItemFacts
<1>5. Taken(c, 1) = 0
  BY <1>3, TakenStep, 0 + 1 = 1 DEF Conversions
<1>6. Taken(c, 2) = 1
  BY <1>3, <1>5, TakenStep, 1 + 1 = 2 DEF Conversions
<1>7. Taken(c, 3) = 2
  BY <1>3, <1>6, TakenStep, 2 + 1 = 3 DEF Conversions
<1>8. Taken(c, 4) = 3
  BY <1>3, <1>7, TakenStep, 3 + 1 = 4 DEF Conversions
<1>9. Taken(c, 5) = 4
  BY <1>3, <1>8, TakenStep, 4 + 1 = 5 DEF Conversions
<1>10. Taken(c, 6) = 5
  BY <1>3, <1>9, TakenStep, 5 + 1 = 6 DEF Conversions
<1>11. /\ Fits(c.format[2], c.args[1]) /\ Fits(c.format[3], c.args[2]) /\ Fits(c.format[4], c.args[3])
       /\ Fits(c.format[5], c.args[4]) /\ Fits(c.format[6], c.args[5])
  BY <1>2, <1>3, ValueFacts DEF Fits
<1>12. ASSUME NEW k \in 1 .. 6
       PROVE  /\ IsItem(c.format[k])
              /\ c.format[k].conv \in Conversions =>
                   Taken(c, k) \in 1 .. 5 /\ Fits(c.format[k], c.args[Taken(c, k)])
  <2>1. k = 1 \/ k = 2 \/ k = 3 \/ k = 4 \/ k = 5 \/ k = 6
    OBVIOUS
  <2>2. QED
    BY <2>1, <1>3, <1>4, <1>5, <1>6, <1>7, <1>8, <1>9, <1>10, <1>11 DEF Conversions
<1>13. QED  BY <1>1, <1>2, <1>12 DEF CallFits

LEMMA ShortFits ==
  ASSUME NEW c, c.format \in {Sprintf!Uptime, Sprintf!PciRow}, c.args \in Numbers \X Numbers
  PROVE  CallFits(c)
<1>1. /\ Len(c.format) = 3 /\ c.format = [k \in 1 .. 3 |-> c.format[k]]
      /\ c.format[1] = Sprintf!Conv("d", FALSE, FALSE, 0) /\ c.format[2] = Sprintf!Plain
      /\ c.format[3] = Sprintf!Conv("d", FALSE, TRUE, 3) \/ c.format[3] = Sprintf!Conv("x", FALSE, FALSE, 0)
  <2>1. CASE c.format = Sprintf!Uptime
    BY <2>1 DEF Sprintf!Uptime, Sprintf!pd
  <2>2. CASE c.format = Sprintf!PciRow
    BY <2>2 DEF Sprintf!PciRow, Sprintf!pd
  <2>3. QED  BY <2>1, <2>2
<1>2. /\ Len(c.args) = 2 /\ c.args = [k \in 1 .. 2 |-> c.args[k]]
      /\ c.args[1] \in Numbers /\ c.args[2] \in Numbers
  OBVIOUS
<1>3. c.format[1].conv = "d" /\ c.format[2].conv = "none" /\ c.format[3].conv \in {"d", "x"}
  BY <1>1 DEF Sprintf!Plain, Sprintf!Conv
<1>4. IsItem(c.format[1]) /\ IsItem(c.format[2]) /\ IsItem(c.format[3])
  BY <1>1, ItemFacts
<1>5. Taken(c, 1) = 1
  BY <1>3, TakenStep, 0 + 1 = 1 DEF Conversions
<1>6. Taken(c, 2) = 1
  BY <1>3, <1>5, TakenStep, 1 + 1 = 2 DEF Conversions
<1>7. c.format[3].conv = "d" => Taken(c, 3) = 2
  BY <1>6, TakenStep, 2 + 1 = 3 DEF Conversions
<1>8. /\ Fits(c.format[1], c.args[1])
      /\ c.format[3].conv = "d" => Fits(c.format[3], c.args[2])
  BY <1>2, <1>3, ValueFacts DEF Fits
<1>9. ASSUME NEW k \in 1 .. 3
      PROVE  /\ IsItem(c.format[k])
             /\ c.format[k].conv \in Conversions =>
                  Taken(c, k) \in 1 .. 2 /\ Fits(c.format[k], c.args[Taken(c, k)])
  <2>1. k = 1 \/ k = 2 \/ k = 3
    OBVIOUS
  <2>2. QED  BY <2>1, <1>3, <1>4, <1>5, <1>7, <1>8 DEF Conversions
<1>10. QED  BY <1>1, <1>2, <1>9 DEF CallFits

LEMMA OneValueFits ==
  ASSUME NEW c, c.format \in {Sprintf!Usage, Sprintf!Offset}, NEW v \in Numbers, c.args = <<v>>
  PROVE  CallFits(c)
<1>1. /\ Len(c.format) = 2 /\ c.format = [k \in 1 .. 2 |-> c.format[k]]
      /\ \/ /\ c.format[1] = Sprintf!Conv("d", FALSE, FALSE, 0)
            /\ c.format[2] = Sprintf!Conv("percent", FALSE, FALSE, 0)
         \/ c.format[1] = Sprintf!Conv("x", FALSE, TRUE, 3) /\ c.format[2] = Sprintf!Plain
  <2>1. CASE c.format = Sprintf!Usage
    BY <2>1 DEF Sprintf!Usage, Sprintf!pd
  <2>2. CASE c.format = Sprintf!Offset
    BY <2>2 DEF Sprintf!Offset
  <2>3. QED  BY <2>1, <2>2
<1>2. Len(c.args) = 1 /\ c.args = [k \in 1 .. 1 |-> c.args[k]] /\ c.args[1] \in Numbers
  OBVIOUS
<1>3. c.format[1].conv \in {"d", "x"} /\ c.format[2].conv \in {"percent", "none"}
  BY <1>1 DEF Sprintf!Plain, Sprintf!Conv
<1>4. IsItem(c.format[1]) /\ IsItem(c.format[2])
  BY <1>1, ItemFacts
<1>5. c.format[1].conv = "d" => Taken(c, 1) = 1
  BY TakenStep, 0 + 1 = 1 DEF Conversions
<1>6. c.format[1].conv = "d" => Fits(c.format[1], c.args[1])
  BY <1>2, ValueFacts DEF Fits
<1>7. ASSUME NEW k \in 1 .. 2
      PROVE  /\ IsItem(c.format[k])
             /\ c.format[k].conv \in Conversions =>
                  Taken(c, k) \in 1 .. 1 /\ Fits(c.format[k], c.args[Taken(c, k)])
  <2>1. k = 1 \/ k = 2
    OBVIOUS
  <2>2. QED  BY <2>1, <1>3, <1>4, <1>5, <1>6 DEF Conversions
<1>8. QED  BY <1>1, <1>2, <1>7 DEF CallFits

LEMMA CallsFit == \A c \in Sprintf!Calls : CallFits(c)
<1> SUFFICES ASSUME NEW c \in Sprintf!Calls  PROVE CallFits(c)
  OBVIOUS
<1>1. CASE c \in [format : {Sprintf!TaskRow},
                  args : Numbers \X Strings \X {Sprintf!Letter.c} \X Numbers \X Strings]
  <2>1. /\ c.format = Sprintf!TaskRow
        /\ c.args \in Numbers \X Strings \X {Sprintf!Letter.c} \X Numbers \X Strings
    BY <1>1
  <2>2. QED  BY <2>1, TaskRowFits
<1>2. CASE c \in [format : {Sprintf!Uptime, Sprintf!PciRow}, args : Numbers \X Numbers]
  <2>1. c.format \in {Sprintf!Uptime, Sprintf!PciRow} /\ c.args \in Numbers \X Numbers
    BY <1>2
  <2>2. QED  BY <2>1, ShortFits
<1>3. CASE c \in [format : {Sprintf!Usage, Sprintf!Offset}, args : {<<n>> : n \in Numbers}]
  <2>1. c.format \in {Sprintf!Usage, Sprintf!Offset} /\ \E v \in Numbers : c.args = <<v>>
    BY <1>3
  <2>2. QED  BY <2>1, OneValueFits
<1>4. QED  BY <1>1, <1>2, <1>3 DEF Sprintf!Calls

(* Padding is a string of characters too, empty for a value that fills its *)
(* column.                                                                 *)
LEMMA TimesFacts ==
  ASSUME NEW n \in Int, NEW x \in Sprintf!Char
  PROVE  /\ Sprintf!Times(n, x) \in Seq(Sprintf!Char)
         /\ n <= 0 => Sprintf!Times(n, x) = <<>>
<1>1. CASE n > 0
  BY <1>1 DEF Sprintf!Times
<1>2. CASE n <= 0
  <2>1. 1 .. n = {}
    BY <1>2
  <2>2. Sprintf!Times(n, x) = <<>>
    BY <2>1 DEF Sprintf!Times
  <2>3. QED  BY <2>2
<1>3. QED  BY <1>1, <1>2

LEMMA SameCardinality == \A S : Sprintf!Cardinality(S) = Cardinality(S)
BY DEF Sprintf!Cardinality, Cardinality

LEMMA FunctionIsSeq ==
  ASSUME NEW V, NEW l \in Nat, NEW q \in [1 .. l -> V]
  PROVE  q \in Seq(V)
OBVIOUS

LEMMA TailFacts ==
  ASSUME NEW V, NEW q \in Seq(V), Len(q) > 0
  PROVE  Len(Tail(q)) = Len(q) - 1 /\ Tail(q) = [k \in 1 .. Len(q) - 1 |-> q[k + 1]]
<1> DEFINE t == Tail(q)
<1>1. q # <<>>
  OBVIOUS
<1>2. t \in Seq(V) /\ Len(t) = Len(q) - 1 /\ \A k \in 1 .. Len(q) - 1 : t[k] = q[k + 1]
  BY <1>1
<1> HIDE DEF t
<1>3. t = [k \in 1 .. Len(q) - 1 |-> t[k]]
  BY <1>2
<1>4. t = [k \in 1 .. Len(q) - 1 |-> q[k + 1]]
  BY <1>2, <1>3
<1>5. QED  BY <1>2, <1>4 DEF t

(* After d items of the call: what is left of its format and its           *)
(* arguments, and, for a call the standard and xsprintf agree on, what is  *)
(* written.                                                                *)
ItemsDone(d) ==
  /\ Len(format) = Len(call.format) - d
  /\ format = [k \in 1 .. Len(format) |-> call.format[d + k]]
  /\ Len(args) = Len(call.args) - Taken(call, d)
  /\ args = [k \in 1 .. Len(args) |-> call.args[Taken(call, d) + k]]
  /\ Sprintf!Supported(call) => str = Sprintf!Written(call)[d]
FormatInv ==
  /\ call \in Sprintf!Calls
  /\ str \in Seq(Sprintf!Char)
  /\ \E d \in 0 .. Len(call.format) : ItemsDone(d)

LEMMA FirstItem ==
  ASSUME call \in Sprintf!Calls, NEW d \in 0 .. Len(call.format), ItemsDone(d), format # <<>>
  PROVE  /\ d + 1 \in 1 .. Len(call.format) /\ Len(call.format) \in Nat /\ Len(call.args) \in Nat
         /\ Sprintf!Item = call.format[d + 1] /\ IsItem(Sprintf!Item)
         /\ Len(Tail(format)) = Len(call.format) - (d + 1)
         /\ Tail(format) = [k \in 1 .. Len(Tail(format)) |-> call.format[d + 1 + k]]
         /\ Sprintf!Item.conv \in Conversions =>
              /\ args # <<>> /\ Head(args) = call.args[Taken(call, d + 1)]
              /\ Fits(Sprintf!Item, Head(args))
              /\ Taken(call, d + 1) = Taken(call, d) + 1
              /\ Len(Tail(args)) = Len(call.args) - Taken(call, d + 1)
              /\ Tail(args) = [k \in 1 .. Len(Tail(args)) |-> call.args[Taken(call, d + 1) + k]]
         /\ Sprintf!Item.conv \notin Conversions => Taken(call, d + 1) = Taken(call, d)
<1> DEFINE n == Len(call.format)
           m == Len(call.args)
<1>1. CallFits(call)
  BY CallsFit
<1>2. n \in Nat /\ m \in Nat /\ d \in Nat
  BY <1>1 DEF CallFits
<1>3. /\ Len(format) = n - d /\ Len(format) \in Nat
      /\ format = [k \in 1 .. Len(format) |-> call.format[d + k]]
  BY <1>2 DEF ItemsDone
<1>4. format \in Seq({call.format[k] : k \in 1 .. n})
  <2>1. \A k \in 1 .. Len(format) : d + k \in 1 .. n
    BY <1>2, <1>3
  <2>2. \A k \in 1 .. Len(format) : format[k] \in {call.format[j] : j \in 1 .. n}
    BY <1>3, <2>1
  <2>3. format \in [1 .. Len(format) -> {call.format[j] : j \in 1 .. n}]
    BY <1>3, <2>2
  <2>4. QED  BY <1>3, <2>3, FunctionIsSeq
<1>5. Len(format) > 0
  BY <1>3, <1>4
<1>6. d + 1 \in 1 .. n
  BY <1>2, <1>3, <1>5
<1>7. Sprintf!Item = call.format[d + 1]
  BY <1>3, <1>4, <1>5 DEF Sprintf!Item
<1>8. IsItem(Sprintf!Item)
  BY <1>1, <1>6, <1>7 DEF CallFits
<1>9. /\ Len(Tail(format)) = n - (d + 1)
      /\ Tail(format) = [k \in 1 .. Len(Tail(format)) |-> call.format[d + 1 + k]]
  <2>1. Len(Tail(format)) = Len(format) - 1 /\ Tail(format) = [k \in 1 .. Len(format) - 1 |-> format[k + 1]]
    BY <1>4, <1>5, TailFacts
  <2>2. \A k \in 1 .. Len(format) - 1 : format[k + 1] = call.format[d + 1 + k]
    <3>1. ASSUME NEW k \in 1 .. Len(format) - 1  PROVE format[k + 1] = call.format[d + 1 + k]
      <4>1. k + 1 \in 1 .. Len(format) /\ d + (k + 1) = d + 1 + k
        BY <1>2, <1>3
      <4>2. QED  BY <1>3, <4>1
    <3>2. QED  BY <3>1
  <2>3. n - (d + 1) = Len(format) - 1
    BY <1>2, <1>3
  <2>4. QED  BY <2>1, <2>2, <2>3
<1>10. /\ Taken(call, d) \in Nat
       /\ Taken(call, d + 1) = Taken(call, d) + (IF Sprintf!Item.conv \in Conversions THEN 1 ELSE 0)
  BY <1>2, <1>7, TakenStep
<1>11. Sprintf!Item.conv \notin Conversions => Taken(call, d + 1) = Taken(call, d)
  BY <1>10
<1>12. ASSUME Sprintf!Item.conv \in Conversions
       PROVE  /\ args # <<>> /\ Head(args) = call.args[Taken(call, d + 1)]
              /\ Fits(Sprintf!Item, Head(args))
              /\ Taken(call, d + 1) = Taken(call, d) + 1
              /\ Len(Tail(args)) = m - Taken(call, d + 1)
              /\ Tail(args) = [k \in 1 .. Len(Tail(args)) |-> call.args[Taken(call, d + 1) + k]]
  <2> DEFINE t == Taken(call, d)
  <2>1. t \in Nat /\ Taken(call, d + 1) = t + 1
    BY <1>10, <1>12
  <2>2. t + 1 \in 1 .. m /\ Fits(Sprintf!Item, call.args[t + 1])
    BY <1>1, <1>6, <1>7, <1>12, <2>1 DEF CallFits
  <2>3. Len(args) = m - t /\ args = [k \in 1 .. Len(args) |-> call.args[t + k]]
    BY DEF ItemsDone
  <2> HIDE DEF t
  <2>4. Len(args) \in Nat /\ Len(args) > 0
    BY <1>2, <2>1, <2>2, <2>3
  <2>5. args \in Seq({call.args[k] : k \in 1 .. m})
    <3>1. \A k \in 1 .. Len(args) : t + k \in 1 .. m
      BY <1>2, <2>1, <2>3
    <3>2. \A k \in 1 .. Len(args) : args[k] \in {call.args[j] : j \in 1 .. m}
      BY <2>3, <3>1
    <3>3. args \in [1 .. Len(args) -> {call.args[j] : j \in 1 .. m}]
      BY <2>3, <3>2
    <3>4. QED  BY <2>4, <3>3, FunctionIsSeq
  <2>6. args # <<>> /\ Head(args) = call.args[t + 1]
    BY <2>3, <2>4, <2>5
  <2>7. Len(Tail(args)) = Len(args) - 1 /\ Tail(args) = [k \in 1 .. Len(args) - 1 |-> args[k + 1]]
    BY <2>4, <2>5, TailFacts
  <2>8. \A k \in 1 .. Len(args) - 1 : args[k + 1] = call.args[t + 1 + k]
    <3>1. ASSUME NEW k \in 1 .. Len(args) - 1  PROVE args[k + 1] = call.args[t + 1 + k]
      <4>1. k + 1 \in 1 .. Len(args) /\ t + (k + 1) = t + 1 + k
        BY <2>1, <2>4
      <4>2. QED  BY <2>3, <4>1
    <3>2. QED  BY <3>1
  <2>9. m - (t + 1) = Len(args) - 1
    BY <1>2, <2>1, <2>3
  <2>10. QED  BY <2>1, <2>2, <2>6, <2>7, <2>8, <2>9 DEF t
<1>13. QED  BY <1>2, <1>6, <1>7, <1>8, <1>9, <1>11, <1>12

(* One item: xsprintf appends text, and the standard appends the same.     *)
LEMMA ItemStep ==
  ASSUME call \in Sprintf!Calls, str \in Seq(Sprintf!Char),
         NEW d \in 0 .. Len(call.format), ItemsDone(d), format # <<>>,
         NEW text \in Seq(Sprintf!Char), str' = str \o text, format' = Tail(format), call' = call,
         args' = IF Sprintf!Item.conv \in Conversions THEN Tail(args) ELSE args,
         Sprintf!Supported(call) =>
           text = Sprintf!Standard(Sprintf!Item,
                    IF Sprintf!Item.conv \in Conversions THEN Head(args) ELSE 0)
  PROVE  FormatInv'
<1> DEFINE it == Sprintf!Item
<1>1. d + 1 \in 0 .. Len(call.format) /\ d + 1 \in 1 .. Len(call.format) /\ Len(call.format) \in Nat
      /\ Len(call.args) \in Nat /\ it = call.format[d + 1] /\ d \in Nat
  BY FirstItem
<1>2. Sprintf!Supported(call) => str' = Sprintf!Written(call)[d + 1]
  <2> SUFFICES ASSUME Sprintf!Supported(call)  PROVE str' = Sprintf!Written(call)[d + 1]
    OBVIOUS
  <2>1. \A k \in 1 .. Len(call.format) : call.format[k].conv \in {"none", "s", "d", "c"}
    <3>1. DOMAIN call.format = 1 .. Len(call.format)
      BY CallsFit DEF CallFits
    <3>2. QED  BY <3>1 DEF Sprintf!Supported
  <2>2. \A k \in 1 .. Len(call.format) :
          Sprintf!Takes(call.format[k]) <=> call.format[k].conv \in Conversions
    BY <2>1 DEF Sprintf!Takes, Conversions
  <2>3. {j \in 1 .. d + 1 : Sprintf!Takes(call.format[j])} =
        {j \in 1 .. d + 1 : call.format[j].conv \in Conversions}
    <3>1. \A j \in 1 .. d + 1 : j \in 1 .. Len(call.format)
      BY <1>1
    <3>2. QED  BY <2>2, <3>1
  <2>4. Sprintf!ArgOf(call, d + 1) =
          IF it.conv \in Conversions THEN call.args[Taken(call, d + 1)] ELSE 0
    <3>1. Cardinality({j \in 1 .. d + 1 : Sprintf!Takes(call.format[j])}) = Taken(call, d + 1)
      BY <2>3 DEF Taken
    <3>2. Sprintf!Takes(call.format[d + 1]) <=> it.conv \in Conversions
      BY <1>1, <2>2
    <3>3. Sprintf!ArgOf(call, d + 1) =
            IF Sprintf!Takes(call.format[d + 1])
            THEN call.args[Sprintf!Cardinality({j \in 1 .. d + 1 : Sprintf!Takes(call.format[j])})]
            ELSE 0
      BY Zenon DEF Sprintf!ArgOf
    <3>4. QED  BY <3>1, <3>2, <3>3, SameCardinality, Zenon
  <2>5. Sprintf!ArgOf(call, d + 1) = IF it.conv \in Conversions THEN Head(args) ELSE 0
    BY <2>4, FirstItem
  <2>6. (d + 1) - 1 = d
    BY <1>1
  <2>7. Sprintf!Written(call)[d + 1] =
          Sprintf!Written(call)[d] \o Sprintf!Standard(it, Sprintf!ArgOf(call, d + 1))
    BY <1>1, <2>6, WrittenEquation
  <2>8. str = Sprintf!Written(call)[d]
    BY DEF ItemsDone
  <2>9. QED  BY <2>5, <2>7, <2>8
<1>3. /\ Len(format') = Len(call.format) - (d + 1)
      /\ format' = [k \in 1 .. Len(format') |-> call.format[d + 1 + k]]
  BY FirstItem
<1>4. /\ Len(args') = Len(call.args) - Taken(call, d + 1)
      /\ args' = [k \in 1 .. Len(args') |-> call.args[Taken(call, d + 1) + k]]
  <2>1. CASE it.conv \in Conversions
    BY <2>1, FirstItem
  <2>2. CASE it.conv \notin Conversions
    BY <2>2, FirstItem DEF ItemsDone
  <2>3. QED  BY <2>1, <2>2
<1>5. ItemsDone(d + 1)'
  <2>1. Taken(call, d + 1)' = Taken(call, d + 1) /\ Sprintf!Supported(call)' = Sprintf!Supported(call)
        /\ Sprintf!Written(call)' = Sprintf!Written(call)
    BY DEF Taken, Sprintf!Supported, Sprintf!Written, Sprintf!Standard, Sprintf!ArgOf, Sprintf!Takes,
           Sprintf!Field, Sprintf!Times
  <2>2. QED  BY <1>2, <1>3, <1>4, <2>1 DEF ItemsDone
<1>6. str' \in Seq(Sprintf!Char)
  OBVIOUS
<1>7. QED  BY <1>1, <1>5, <1>6 DEF FormatInv

LEMMA FormatInit == Sprintf!Init => FormatInv
<1> SUFFICES ASSUME Sprintf!Init  PROVE FormatInv
  OBVIOUS
<1>1. call \in Sprintf!Calls /\ format = call.format /\ args = call.args /\ str = <<>>
  BY DEF Sprintf!Init
<1>2. QED
  <2>1. CallFits(call)
    BY <1>1, CallsFit
  <2>2. Len(call.format) \in Nat /\ Len(call.args) \in Nat /\ Taken(call, 0) = 0
    BY <2>1, TakenStep DEF CallFits
  <2>3. /\ format = [k \in 1 .. Len(format) |-> call.format[0 + k]]
        /\ args = [k \in 1 .. Len(args) |-> call.args[0 + k]]
    BY <1>1, <2>1 DEF CallFits
  <2>4. str = Sprintf!Written(call)[0]
    BY <1>1, <2>2, WrittenEquation
  <2>5. ItemsDone(0)
    BY <1>1, <2>2, <2>3, <2>4 DEF ItemsDone
  <2>6. str \in Seq(Sprintf!Char) /\ 0 \in 0 .. Len(call.format)
    BY <1>1, <2>2
  <2>7. QED  BY <1>1, <2>5, <2>6 DEF FormatInv

(* The next call starts as the first one did.                              *)
LEMMA NextCallStep == FormatInv /\ Sprintf!return => FormatInv'
<1> SUFFICES ASSUME Sprintf!return  PROVE FormatInv'
  OBVIOUS
<1>1. call' \in Sprintf!Calls /\ format' = call'.format /\ args' = call'.args /\ str' = <<>>
  BY DEF Sprintf!return
<1>2. CallFits(call')
  BY <1>1, CallsFit
<1>3. Len(call'.format) \in Nat /\ Len(call'.args) \in Nat /\ Taken(call', 0) = 0
  BY <1>2, TakenStep DEF CallFits
<1>4. /\ format' = [k \in 1 .. Len(format') |-> call'.format[0 + k]]
      /\ args' = [k \in 1 .. Len(args') |-> call'.args[0 + k]]
  BY <1>1, <1>2 DEF CallFits
<1>5. str' = Sprintf!Written(call')[0]
  BY <1>1, <1>3, WrittenEquation
<1>6. Len(format') = Len(call'.format) - 0 /\ Len(args') = Len(call'.args) - Taken(call', 0)
  BY <1>1, <1>3
<1>7. str' \in Seq(Sprintf!Char) /\ 0 \in 0 .. Len(call'.format)
  BY <1>1, <1>3
<1>8. ItemsDone(0)'
  BY <1>3, <1>4, <1>5, <1>6 DEF ItemsDone
<1>9. QED  BY <1>1, <1>7, <1>8 DEF FormatInv

LEMMA StringStep == FormatInv /\ Sprintf!percent_s => FormatInv'
<1> SUFFICES ASSUME FormatInv, Sprintf!percent_s  PROVE FormatInv'
  OBVIOUS
<1>1. PICK d \in 0 .. Len(call.format) : ItemsDone(d)
  BY DEF FormatInv
<1> DEFINE it == Sprintf!Item
           x == Head(args)
           pad == Sprintf!Times(it.width - Len(x), Sprintf!BLANK)
           text == IF it.align_left THEN x \o pad ELSE pad \o x
<1>2. /\ format # <<>> /\ it.conv = "s" /\ str' = str \o text
      /\ args' = Tail(args) /\ format' = Tail(format) /\ call' = call
  BY DEF Sprintf!percent_s, Sprintf!Converts, Sprintf!Puts
<1>3. it.conv \in Conversions
  BY <1>2 DEF Conversions
<1>4. call \in Sprintf!Calls /\ str \in Seq(Sprintf!Char)
  BY DEF FormatInv
<1>5. IsItem(it) /\ Fits(it, x)
  BY <1>1, <1>2, <1>3, <1>4, FirstItem
<1>6. x \in Seq(Sprintf!Char) /\ it.width \in Nat /\ ~it.pad_zero
  BY <1>2, <1>5 DEF Fits, IsItem
<1>7. Len(x) \in Nat /\ Sprintf!BLANK \in Sprintf!Char
  BY <1>6, CharFacts DEF Sprintf!BLANK
<1> HIDE DEF it, x
<1>8. pad \in Seq(Sprintf!Char)
  BY <1>6, <1>7, TimesFacts
<1>9. text \in Seq(Sprintf!Char)
  BY <1>6, <1>8
<1>10. Sprintf!Standard(it, x) = text
  <2>1. Sprintf!Standard(it, x) = Sprintf!Field(it, x)
    BY <1>2 DEF Sprintf!Standard
  <2>2. QED  BY <1>6, <2>1 DEF Sprintf!Field
<1> HIDE DEF text
<1>11. QED
  BY <1>1, <1>2, <1>3, <1>4, <1>9, <1>10, ItemStep DEF it, x

LEMMA NumberStep == FormatInv /\ Sprintf!percent_d => FormatInv'
<1> SUFFICES ASSUME FormatInv, Sprintf!percent_d  PROVE FormatInv'
  OBVIOUS
<1>1. PICK d \in 0 .. Len(call.format) : ItemsDone(d)
  BY DEF FormatInv
<1> DEFINE it == Sprintf!Item
           x == Head(args)
           num == Sprintf!Digits[x]
           text == Sprintf!Times(it.width - Len(num), IF it.pad_zero THEN 0 ELSE Sprintf!BLANK) \o num
<1>2. /\ format # <<>> /\ it.conv = "d" /\ str' = str \o text
      /\ args' = Tail(args) /\ format' = Tail(format) /\ call' = call
  BY DEF Sprintf!percent_d, Sprintf!Converts, Sprintf!Puts
<1>3. it.conv \in Conversions
  BY <1>2 DEF Conversions
<1>4. call \in Sprintf!Calls /\ str \in Seq(Sprintf!Char)
  BY DEF FormatInv
<1>5. IsItem(it) /\ Fits(it, x)
  BY <1>1, <1>2, <1>3, <1>4, FirstItem
<1>6. x \in 0 .. Sprintf!INT_MAX /\ it.width \in Nat /\ ~it.align_left
  BY <1>2, <1>5 DEF Fits, IsItem
<1>7. num \in Seq(Sprintf!Char)
  BY <1>6, DigitsType
<1>8. Len(num) \in Nat /\ (IF it.pad_zero THEN 0 ELSE Sprintf!BLANK) \in Sprintf!Char
  BY <1>7, CharFacts DEF Sprintf!BLANK
<1> HIDE DEF it, x, num
<1>9. Sprintf!Times(it.width - Len(num), IF it.pad_zero THEN 0 ELSE Sprintf!BLANK) \in Seq(Sprintf!Char)
  BY <1>6, <1>8, TimesFacts
<1>10. text \in Seq(Sprintf!Char)
  BY <1>7, <1>9
<1>11. Sprintf!Standard(it, x) = text
  <2>1. Sprintf!Standard(it, x) = Sprintf!Field(it, num)
    BY <1>2 DEF Sprintf!Standard, num
  <2>2. QED  BY <1>6, <2>1 DEF Sprintf!Field
<1> HIDE DEF text
<1>12. QED
  BY <1>1, <1>2, <1>3, <1>4, <1>10, <1>11, ItemStep DEF it, x

LEMMA CharStep == FormatInv /\ Sprintf!percent_c => FormatInv'
<1> SUFFICES ASSUME FormatInv, Sprintf!percent_c  PROVE FormatInv'
  OBVIOUS
<1>1. PICK d \in 0 .. Len(call.format) : ItemsDone(d)
  BY DEF FormatInv
<1> DEFINE it == Sprintf!Item
           x == Head(args)
           text == <<x>>
<1>2. /\ format # <<>> /\ it.conv = "c" /\ str' = str \o text
      /\ args' = Tail(args) /\ format' = Tail(format) /\ call' = call
  BY DEF Sprintf!percent_c, Sprintf!Converts, Sprintf!Puts
<1>3. it.conv \in Conversions
  BY <1>2 DEF Conversions
<1>4. call \in Sprintf!Calls /\ str \in Seq(Sprintf!Char)
  BY DEF FormatInv
<1>5. IsItem(it) /\ Fits(it, x)
  BY <1>1, <1>2, <1>3, <1>4, FirstItem
<1>6. x \in Sprintf!Char /\ it.width = 0
  BY <1>2, <1>5 DEF Fits, IsItem
<1> HIDE DEF it, x
<1>7. text \in Seq(Sprintf!Char) /\ Len(text) = 1
  BY <1>6
<1>8. Sprintf!Standard(it, x) = text
  <2> DEFINE fill == IF it.pad_zero /\ ~it.align_left THEN 0 ELSE Sprintf!BLANK
             pad == Sprintf!Times(it.width - Len(text), fill)
  <2>1. Sprintf!Standard(it, x) = Sprintf!Field(it, text)
    BY <1>2 DEF Sprintf!Standard
  <2>2. fill \in Sprintf!Char
    BY CharFacts DEF Sprintf!BLANK
  <2>3. it.width - Len(text) \in Int /\ it.width - Len(text) <= 0
    BY <1>6, <1>7
  <2>4. Sprintf!Field(it, text) = IF it.align_left THEN text \o pad ELSE pad \o text
    BY DEF Sprintf!Field
  <2> HIDE DEF fill
  <2>5. pad = <<>>
    BY <2>2, <2>3, TimesFacts
  <2> HIDE DEF text, pad
  <2>6. text \o <<>> = text /\ <<>> \o text = text
    BY <1>7
  <2>7. QED  BY <2>1, <2>4, <2>5, <2>6
<1> HIDE DEF text
<1>9. QED
  BY <1>1, <1>2, <1>3, <1>4, <1>7, <1>8, ItemStep DEF it, x

(* An ordinary character; and a letter that xsprintf does not know, in a   *)
(* call of which nothing is claimed.                                       *)
LEMMA OtherStep == FormatInv /\ (Sprintf!ordinary \/ Sprintf!percent_other) => FormatInv'
<1> SUFFICES ASSUME FormatInv, Sprintf!ordinary \/ Sprintf!percent_other  PROVE FormatInv'
  OBVIOUS
<1>1. PICK d \in 0 .. Len(call.format) : ItemsDone(d)
  BY DEF FormatInv
<1> DEFINE it == Sprintf!Item
<1>2. call \in Sprintf!Calls /\ str \in Seq(Sprintf!Char)
  BY DEF FormatInv
<1>3. format # <<>> /\ it.conv \notin Conversions /\ UNCHANGED <<call, args>> /\ format' = Tail(format)
  BY DEF Sprintf!ordinary, Sprintf!percent_other, Sprintf!Converts, Conversions
<1>4. /\ IsItem(it) /\ it = call.format[d + 1] /\ d + 1 \in 1 .. Len(call.format)
      /\ Len(call.format) \in Nat
  BY <1>1, <1>2, <1>3, FirstItem
<1>5. CASE Sprintf!ordinary
  <2>1. it.conv = "none" /\ str' = Append(str, it.char)
    BY <1>5 DEF Sprintf!ordinary, Sprintf!Converts
  <2> DEFINE text == <<it.char>>
  <2>2. it.char \in Sprintf!Char
    BY <1>4 DEF IsItem
  <2> HIDE DEF it
  <2>3. text \in Seq(Sprintf!Char) /\ str' = str \o text
    BY <1>2, <2>1, <2>2
  <2>4. Sprintf!Standard(it, 0) = text
    BY <2>1 DEF Sprintf!Standard
  <2> HIDE DEF text
  <2>5. QED  BY <1>1, <1>2, <1>3, <2>3, <2>4, ItemStep DEF it
<1>6. CASE Sprintf!percent_other
  <2> DEFINE text == <<Sprintf!PERCENT, Sprintf!Letter[it.conv]>>
  <2>1. it.conv \in {"x", "percent"} /\ str' = str \o text
    BY <1>4, <1>6 DEF Sprintf!percent_other, IsItem
  <2>2. Sprintf!Letter["x"] = 15 /\ Sprintf!Letter["percent"] = 11 /\ Sprintf!PERCENT = 11
    BY DEF Sprintf!Letter, Sprintf!PERCENT
  <2>3. Sprintf!Letter[it.conv] \in Sprintf!Char /\ Sprintf!PERCENT \in Sprintf!Char
    <3>1. Sprintf!Letter[it.conv] = 15 \/ Sprintf!Letter[it.conv] = 11
      BY <2>1, <2>2, Zenon
    <3>2. 15 \in Sprintf!Char /\ 11 \in Sprintf!Char
      BY CharFacts
    <3>3. QED  BY <2>2, <3>1, <3>2, Zenon
  <2>4. text \in Seq(Sprintf!Char)
    BY <2>3
  <2>5. ~Sprintf!Supported(call)
    <3>1. DOMAIN call.format = 1 .. Len(call.format)
      BY <1>2, CallsFit DEF CallFits
    <3>2. QED  BY <1>4, <2>1, <3>1 DEF Sprintf!Supported
  <2> HIDE DEF text
  <2>6. QED  BY <1>1, <1>2, <1>3, <2>1, <2>4, <2>5, ItemStep
<1>7. QED  BY <1>5, <1>6

LEMMA FormatNext == FormatInv /\ [Sprintf!Next]_(Sprintf!vars) => FormatInv'
<1>1. FormatInv /\ UNCHANGED Sprintf!vars => FormatInv'
  <2> SUFFICES ASSUME FormatInv, UNCHANGED <<call, format, args, str>>  PROVE FormatInv'
    BY DEF Sprintf!vars
  <2>1. PICK d \in 0 .. Len(call.format) : ItemsDone(d)
    BY DEF FormatInv
  <2>2. ItemsDone(d)'
    <3>1. /\ Taken(call, d)' = Taken(call, d) /\ Sprintf!Supported(call)' = Sprintf!Supported(call)
          /\ Sprintf!Written(call)' = Sprintf!Written(call)
      BY DEF Taken, Sprintf!Supported, Sprintf!Written, Sprintf!Standard, Sprintf!ArgOf,
             Sprintf!Takes, Sprintf!Field, Sprintf!Times
    <3>2. QED  BY <2>1, <3>1 DEF ItemsDone
  <2>3. QED  BY <2>2 DEF FormatInv
<1>2. QED  BY <1>1, NextCallStep, StringStep, NumberStep, CharStep, OtherStep DEF Sprintf!Next

(* xsprintf writes what C's sprintf writes, for every number below 2^31    *)
(* and every string, in each of the system's calls that print with s, d    *)
(* and c; and each conversion finds its argument in every call.            *)
THEOREM ColumnsAlwaysWritten == MCSpec => []WritesColumns
<1>1. Sprintf!Spec => []FormatInv
  BY FormatInit, FormatNext, PTL DEF Sprintf!Spec
<1>2. ASSUME FormatInv  PROVE WritesColumns
  <2>1. PICK d \in 0 .. Len(call.format) : ItemsDone(d)
    BY <1>2 DEF FormatInv
  <2>2. call \in Sprintf!Calls /\ str \in Seq(Sprintf!Char)
    BY <1>2 DEF FormatInv
  <2>3. Sprintf!TypeOK
    <3>1. format # <<>> /\ Sprintf!Item.conv \in {"s", "d", "c"} => args # <<>>
      BY <2>1, <2>2, FirstItem DEF Conversions
    <3>2. \A k \in DOMAIN str : str[k] \in Sprintf!Char
      BY <2>2
    <3>3. QED  BY <2>2, <3>1, <3>2 DEF Sprintf!TypeOK
  <2>4. ASSUME format = <<>>, Sprintf!Supported(call)  PROVE str = Sprintf!SprintfOf(call)
    <3>1. Len(format) = 0 /\ Len(format) = Len(call.format) - d
      BY <2>1, <2>4 DEF ItemsDone
    <3>2. Len(call.format) \in Nat
      BY <2>2, CallsFit DEF CallFits
    <3>3. d = Len(call.format)
      BY <3>1, <3>2
    <3>4. str = Sprintf!Written(call)[d]
      BY <2>1, <2>4 DEF ItemsDone
    <3>5. QED  BY <3>3, <3>4 DEF Sprintf!SprintfOf
  <2>5. QED  BY <2>3, <2>4 DEF WritesColumns, Sprintf!WritesColumns
<1>3. QED  BY <1>1, <1>2, OnlyOneServes, PTL
=============================================================================
