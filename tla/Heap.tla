-------------------------------- MODULE Heap --------------------------------
(***************************************************************************)
(* kernel/mm.c: the bump allocator.  Memory is an array of cells; a block  *)
(* is what kmalloc, krealloc or palloc returned, and its owner fills it    *)
(* with a value of its own that tells each cell of the block from the      *)
(* others.                                                                 *)
(* kfree does nothing and krealloc to size 0 only calls it: neither is a   *)
(* step.  The code compares no request with the end of memory; MemTop and  *)
(* MaxBlocks only bound the model.                                         *)
(***************************************************************************)
EXTENDS Integers, Sequences

CONSTANTS Memmaps,    \* memory maps the boot loader may report, bases as the kernel maps them
          KernelEnd,  \* _kernel_end
          Align,      \* 16
          PageSize,   \* 4096
          Word,       \* 2^32: sizes are of type uint32_t
          Sizes,      \* sizes that are requested
          Values,     \* what owners write
          Junk,       \* what memory holds at the start
          MemTop,     \* bound: cells of memory
          MaxBlocks   \* bound: blocks that are allocated

ASSUME AlignAssumption ==
  /\ Align \in Nat \ {0} /\ PageSize \in Nat \ {0}
  /\ \E k \in 1 .. PageSize : PageSize = k * Align
  /\ Word \in Nat

(* Every request of the kernel and of stb_image is a positive int, far     *)
(* below 2^32 - 16.                                                        *)
ASSUME SizesAssumption == \A n \in Sizes : n \in Nat /\ n + Align <= Word
ASSUME BoundAssumption == MemTop \in Nat /\ MaxBlocks \in Nat
ASSUME MemmapAssumption ==
  /\ KernelEnd \in Nat
  /\ \A m \in Memmaps : m \in Seq([base : Nat, length : Nat, usable : BOOLEAN])

VARIABLES
  memmap,            \* the memory map of this boot
  heap_ptr, heap_start_addr,
  kmalloc_count, kmalloc_bytes, page_alloc_count,
  mem,               \* contents of memory
  blocks             \* history: blocks in the order of allocation, and how many
                     \* of their first cells (known) hold the owner's value (fill)

counters == <<kmalloc_count, kmalloc_bytes, page_alloc_count>>
vars == <<memmap, heap_ptr, heap_start_addr, counters, mem, blocks>>

Cells == 0 .. MemTop - 1
Usable(m) == {i \in DOMAIN m : m[i].usable /\ m[i].length > 0}

HeapStart_FirstUsable(m) ==
  IF Usable(m) = {} THEN KernelEnd
  ELSE m[CHOOSE i \in Usable(m) : \A j \in Usable(m) : i <= j].base

(* mm_init: the first of the largest usable segments.                      *)
Best(m) ==
  CHOOSE i \in Usable(m) :
    \A j \in Usable(m) : m[j].length < m[i].length \/ (m[j].length = m[i].length /\ i <= j)
HeapStart(m) == IF Usable(m) = {} THEN KernelEnd ELSE m[Best(m)].base

Init ==
  /\ memmap \in Memmaps
  /\ heap_ptr = HeapStart(memmap)
  /\ heap_start_addr = heap_ptr
  /\ kmalloc_count = 0 /\ kmalloc_bytes = 0 /\ page_alloc_count = 0
  /\ mem = [a \in Cells |-> <<Junk, 0>>]
  /\ blocks = <<>>
-----------------------------------------------------------------------------
RoundDown(x, a) == x - (x % a)
AlignedSize_Down(n) == RoundDown(n, Align)

(* (size + 15) & ~15 in 32 bits.                                           *)
AlignedSize(n) == RoundDown((n + Align - 1) % Word, Align)

Block(base, size, page, fill, known) ==
  [base |-> base, size |-> size, page |-> page, fill |-> fill, known |-> known]

Allocate(n, fill, known) ==
  /\ Len(blocks) < MaxBlocks
  /\ heap_ptr + AlignedSize(n) <= MemTop
  /\ heap_ptr' = heap_ptr + AlignedSize(n)
  /\ kmalloc_count' = kmalloc_count + 1
  /\ kmalloc_bytes' = kmalloc_bytes + AlignedSize(n)
  /\ blocks' = Append(blocks, Block(heap_ptr, n, FALSE, fill, known))
  /\ UNCHANGED <<memmap, heap_start_addr, page_alloc_count>>

kmalloc(n) == Allocate(n, Junk, 0) /\ UNCHANGED mem

(* memcpy copies forward, so where the source runs into the destination it *)
(* copies again what it has just copied.                                   *)
Copied(from, to, n) ==
  [a \in Cells |->
     IF a >= to /\ a < to + n /\ to > from THEN mem[from + ((a - to) % (to - from))] ELSE mem[a]]

Smaller(x, y) == IF x < y THEN x ELSE y

krealloc_NoCopy(b, n) ==
  n > 0 /\ Allocate(n, b.fill, Smaller(b.known, n)) /\ UNCHANGED mem

(* The size of the old block is not known: new_size cells are copied.      *)
krealloc(b, n) ==
  /\ n > 0
  /\ Allocate(n, b.fill, Smaller(b.known, n))
  /\ mem' = Copied(b.base, heap_ptr, n)

palloc_NoAdvance ==
  LET aligned == RoundDown(heap_ptr + PageSize - 1, PageSize)
  IN  /\ Len(blocks) < MaxBlocks
      /\ aligned + PageSize <= MemTop
      /\ heap_ptr' = aligned
      /\ page_alloc_count' = page_alloc_count + 1
      /\ kmalloc_bytes' = kmalloc_bytes + (heap_ptr' - heap_ptr)
      /\ blocks' = Append(blocks, Block(aligned, PageSize, TRUE, Junk, 0))
      /\ UNCHANGED <<memmap, heap_start_addr, kmalloc_count, mem>>

palloc ==
  LET aligned == RoundDown(heap_ptr + PageSize - 1, PageSize)
  IN  /\ Len(blocks) < MaxBlocks
      /\ aligned + PageSize <= MemTop
      /\ heap_ptr' = aligned + PageSize
      /\ page_alloc_count' = page_alloc_count + 1
      /\ kmalloc_bytes' = kmalloc_bytes + (heap_ptr' - heap_ptr)
      /\ blocks' = Append(blocks, Block(aligned, PageSize, TRUE, Junk, 0))
      /\ UNCHANGED <<memmap, heap_start_addr, kmalloc_count, mem>>

(* The owner of a block fills it.                                          *)
store(i, v) ==
  LET b == blocks[i]
  IN  /\ mem' = [a \in Cells |-> IF a >= b.base /\ a < b.base + b.size THEN <<v, a - b.base>> ELSE mem[a]]
      /\ blocks' = [blocks EXCEPT ![i] = Block(b.base, b.size, b.page, v, b.size)]
      /\ UNCHANGED <<memmap, heap_ptr, heap_start_addr, counters>>

Next ==
  \/ \E n \in Sizes : kmalloc(n)
  \/ \E i \in DOMAIN blocks, n \in Sizes : krealloc(blocks[i], n)
  \/ palloc
  \/ \E i \in DOMAIN blocks, v \in Values : store(i, v)

Spec == Init /\ [][Next]_vars
-----------------------------------------------------------------------------
(* Properties.                                                             *)

(* Type correctness.                                                       *)
TypeOK ==
  /\ memmap \in Memmaps
  /\ heap_ptr \in Nat /\ heap_start_addr \in Nat
  /\ kmalloc_count \in Nat /\ kmalloc_bytes \in Nat /\ page_alloc_count \in Nat
  /\ mem \in [Cells -> (Values \cup {Junk}) \X Nat]
  /\ blocks \in Seq([base : Nat, size : Nat, page : BOOLEAN, fill : Values \cup {Junk}, known : Nat])

(* The blocks kmalloc, krealloc and palloc return never overlap, whatever  *)
(* the sizes, the rounding and the order of the calls, and end below       *)
(* heap_ptr.                                                               *)
End(b) == b.base + b.size
BlocksApart ==
  /\ \A i \in DOMAIN blocks : heap_start_addr <= blocks[i].base /\ End(blocks[i]) <= heap_ptr
  /\ \A i, j \in DOMAIN blocks : i < j => End(blocks[i]) <= blocks[j].base

(* "16-byte align", "4096-byte aligned page": also after requests of odd   *)
(* size and pages in between.  The boot loader's segments are aligned; if  *)
(* there is none the heap starts at _kernel_end, which need not be.        *)
Multiple(x, a) == \E k \in 0 .. x : x = k * a
BlocksAligned ==
  \A i \in DOMAIN blocks :
    IF blocks[i].page THEN Multiple(blocks[i].base, PageSize)
    ELSE Multiple(heap_start_addr, Align) => Multiple(blocks[i].base, Align)

(* mm_get_info: heap_used_bytes is the length of the heap, the padding in  *)
(* front of a page included, and the two counts add up to the blocks.      *)
CountersExact ==
  /\ kmalloc_bytes = heap_ptr - heap_start_addr
  /\ kmalloc_count + page_alloc_count = Len(blocks)

(* What an owner wrote stays in its block, and krealloc carries it over to *)
(* the new one, though the copy is longer than the old block and may run   *)
(* into its own destination.                                               *)
ContentsKept ==
  \A i \in DOMAIN blocks : \A a \in Cells :
    a >= blocks[i].base /\ a < blocks[i].base + blocks[i].known => mem[a] = <<blocks[i].fill, a - blocks[i].base>>

(* "over-reading won't page fault inside the heap": the cells krealloc     *)
(* reads past the old block lie below the new heap_ptr.                    *)
OverreadInHeap ==
  [][\A i \in DOMAIN blocks, n \in Sizes :
       krealloc(blocks[i], n) => blocks[i].base + n <= heap_ptr']_vars

(* As long as what was handed out would fit into some usable segment, it   *)
(* lies in usable memory.                                                  *)
InSegment(b, s) == s.base <= b.base /\ End(b) <= s.base + s.length
BlocksInRam ==
  (\E i \in Usable(memmap) : kmalloc_bytes <= memmap[i].length) =>
    \A j \in DOMAIN blocks : \E i \in Usable(memmap) : InSegment(blocks[j], memmap[i])
=============================================================================
