----------------------------- MODULE MemoryMap ------------------------------
(***************************************************************************)
(* InitializeMemoryManager of kernel/memory_manager.cpp: the memory map     *)
(* that the loader left (Loader) is turned into the bitmap and the range of *)
(* the frame allocator, one descriptor at a time, and the kernel's heap is  *)
(* taken from what is free.  Then the tasks allocate and free               *)
(* (FrameAllocator).                                                        *)
(***************************************************************************)
EXTENDS FrameAllocator, Loader

CONSTANT HeapFrames  \* kHeapFrames

ASSUME MemoryMapAssumption == HeapFrames \in Nat \ {0}

VARIABLES
  memoryMap,     \* the argument, <<>> once it is not needed any more
  next,          \* iter, the index of the descriptor to look at
  availableEnd   \* available_end, in frames

mapVars == <<memoryMap, next, availableEnd>>
vars    == <<loaderVars, bitmap, bootVars, callVars, mapVars>>

Init ==
  /\ LoaderInit
  /\ memoryMap = <<>> /\ next = 1 /\ availableEnd = 0
  /\ bitmap = {} /\ reserved = {} /\ rangeEnd = 0
  /\ NoCalls

\* The end of UefiMain: the pixel format is known (or the loader halts), and the kernel is
\* called with the map.
EntryPoint ==
  /\ step = "entry" /\ step' = "kernel"
  /\ memoryMap' = memmap.map
  /\ UNCHANGED <<memory, key, changes, memmap, buffer, volume, content>>
  /\ UNCHANGED <<next, availableEnd, bitmap, bootVars, callVars>>

Iter == memoryMap[next]

\* The frames between the last available ones and this descriptor.
Hole == {f \in AllFrames : availableEnd <= f /\ f < Iter.start}

Described(d) == d.start..(d.end - 1)

\* One iteration of the loop.
ScanDescriptor ==
  /\ memoryMap # <<>> /\ next <= Len(memoryMap)
  /\ next' = next + 1
  /\ IF IsAvailable(Iter.type)
     THEN /\ bitmap' = bitmap \union Hole
          /\ availableEnd' = Iter.end
     ELSE /\ bitmap' = bitmap \union Hole \union Described(Iter)
          /\ UNCHANGED availableEnd
  /\ UNCHANGED <<memoryMap, bootVars, callVars, loaderVars>>

EndOfRange == availableEnd

\* The end of the loop: SetMemoryRange.
SetMemoryRange ==
  /\ memoryMap # <<>> /\ next > Len(memoryMap) /\ rangeEnd = 0
  /\ rangeEnd' = EndOfRange
  /\ UNCHANGED <<mapVars, bitmap, reserved, callVars, loaderVars>>

\* InitializeHeap allocates before there is another task; the kernel gives up when it
\* cannot have its heap.  The map and the loader are not needed any more.
InitializeHeap ==
  /\ memoryMap # <<>> /\ rangeEnd > 0
  /\ \E s \in Frames :
       /\ FreeRegion(s, HeapFrames)
       /\ \A t \in RangeBegin..(s - 1) : ~ FreeRegion(t, HeapFrames)
       /\ reserved' = bitmap \union Region(s, HeapFrames)
       /\ bitmap' = reserved'
  /\ memoryMap' = <<>> /\ next' = 1 /\ availableEnd' = 0
  /\ memory' = [f \in AllFrames |-> "none"] /\ content' = [f \in AllFrames |-> "junk"]
  /\ key' = 0 /\ changes' = 0 /\ memmap' = NoMap /\ volume' = {}
  /\ UNCHANGED <<rangeEnd, callVars, step, buffer>>

Boot ==
  \/ LoaderNext /\ UNCHANGED <<mapVars, bitmap, bootVars, callVars>>
  \/ EntryPoint \/ ScanDescriptor \/ SetMemoryRange \/ InitializeHeap

Serve(c) == reserved # {} /\ Step(c) /\ UNCHANGED <<mapVars, loaderVars>>

Next == Boot \/ \E c \in Callers : Serve(c)

Spec == Init /\ [][Next]_vars

(***************************************************************************)
(* As Spec, with calls one at a time: nothing in the code ensures it, and   *)
(* Spec, where a caller is preempted between a GetBit and its SetBit, hands *)
(* out frames twice.                                                        *)
(***************************************************************************)
Alone(c) == \A d \in Callers \ {c} : pc[d] = "idle"

SerialSpec == Init /\ [][Boot \/ \E c \in Callers : Alone(c) /\ Serve(c)]_vars

-----------------------------------------------------------------------------
UsedByKernel == volume \cup {f \in AllFrames : SegmentAt(f) # {}}

(***************************************************************************)
(* When the range is set, a frame in it may be handed out exactly when the  *)
(* firmware has left it: holes, the firmware's own memory, the kernel and   *)
(* its volume are never allocated, and no memory that was left is           *)
(* forgotten, but for frame 0.  The kernel and its volume lie there as they *)
(* were read.                                                               *)
(***************************************************************************)
FreeIsAvailable ==
  memoryMap # <<>> /\ rangeEnd > 0 =>
    /\ Frames \ bitmap = {f \in AllFrames : IsAvailable(memory[f])} \ {0}
    /\ UsedByKernel \cap (Frames \ bitmap) = {}
    /\ \A f \in UsedByKernel : content[f] = IF f \in volume THEN "volume" ELSE Loaded(f)
=============================================================================
