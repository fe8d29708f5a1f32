----------------------------- MODULE UsbMemory -----------------------------
(***************************************************************************)
(* The memory of the USB driver (usb/memory.cpp): blocks are cut from a     *)
(* pool one after the other and never given back (FreeMem does nothing).    *)
(* Sizes are in units of 8 bytes and those of an x86-64 build.              *)
(***************************************************************************)
EXTENDS Integers, Sequences, FiniteSets

CONSTANT PoolBase  \* the address of memory_pool, which the linker aligns to 64 bytes

ASSUME UsbMemoryAssumption == PoolBase \in Nat /\ PoolBase % 8 = 0

PoolSize == 16384  \* kMemoryPoolSize

\* A block as it is asked for; an alignment or a boundary of 0 is none.
Block(size, alignment, boundary) ==
  [size |-> size, alignment |-> alignment, boundary |-> boundary]

Devices_       == Block(9, 0, 0)       \* devices_, kDeviceSize + 1 pointers
DeviceContexts == Block(9, 8, 512)     \* device_context_pointers_
DeviceBlock    == Block(450, 8, 512)   \* usb::xhci::Device
RingBlock      == Block(4, 8, 512)     \* Ring
RingBuffer     == Block(64, 8, 8192)   \* 32 TRBs
SegmentTable   == Block(2, 8, 8192)
DriverBlock    == Block(290, 0, 0)     \* HIDKeyboardDriver, HIDMouseDriver

\* The array of the scratchpad buffers and the buffers.
ScratchpadBlocks(n) ==
  IF n = 0 THEN <<>> ELSE <<Block(n, 8, 512)>> \o [i \in 1..n |-> Block(512, 512, 512)]

-----------------------------------------------------------------------------
\* next is alloc_ptr; blocks is what was given, and how it was asked for.
EmptyPool == [next |-> PoolBase, blocks |-> {}]

Ceil(value, alignment) == ((value + alignment - 1) \div alignment) * alignment

Aligned(value, alignment) == IF alignment = 0 THEN value ELSE Ceil(value, alignment)

\* Mutant: a block may begin before a boundary and end behind it.
Place_Anywhere(pool, b) == Aligned(pool.next, b.alignment)

\* Where AllocMem puts a block: aligned, and moved to the boundary it would cross.
Place(pool, b) ==
  LET p == Aligned(pool.next, b.alignment)
  IN  IF b.boundary > 0 /\ Ceil(p, b.boundary) < p + b.size THEN Ceil(p, b.boundary) ELSE p

\* AllocMem; without room it moves alloc_ptr and gives nothing.
AllocMem(pool, b) ==
  LET p == Place(pool, b)
  IN  IF PoolBase + PoolSize < p + b.size THEN [pool EXCEPT !.next = p]
      ELSE [next |-> p + b.size, blocks |-> pool.blocks \cup {[at |-> p, as |-> b]}]

AllocAll(pool, list) ==
  LET after[n \in 0..Len(list)] ==
        IF n = 0 THEN {pool} ELSE {AllocMem(p, list[n]) : p \in after[n - 1]}
  IN  CHOOSE p \in after[Len(list)] : TRUE

\* The address of the n-th block of a list that fits.
AddressOf(pool, list, n) == Place(AllocAll(pool, SubSeq(list, 1, n - 1)), list[n])

AllFit(pool, list) ==
  Cardinality(AllocAll(pool, list).blocks) = Cardinality(pool.blocks) + Len(list)

(***************************************************************************)
(* What AllocMem promises: the blocks lie in the pool, apart from each      *)
(* other, aligned, and none crosses its boundary unless it is longer.       *)
(***************************************************************************)
BlocksApart(pool) ==
  \A x \in pool.blocks :
    /\ PoolBase <= x.at /\ x.at + x.as.size <= PoolBase + PoolSize
    /\ x.as.alignment > 0 => x.at % x.as.alignment = 0
    /\ x.as.boundary >= x.as.size => (x.at % x.as.boundary) + x.as.size <= x.as.boundary
    /\ \A y \in pool.blocks \ {x} : x.at + x.as.size <= y.at \/ y.at + y.as.size <= x.at
=============================================================================
