--------------------------- MODULE FrameAllocator ---------------------------
(***************************************************************************)
(* class BitmapMemoryManager of kernel/memory_manager.cpp: physical frames  *)
(* handed out by a first-fit scan of a bitmap.                              *)
(*                                                                          *)
(* The callers (page maps, the stacks and pages of applications) run in     *)
(* tasks that are preempted, and nothing in the class or around the calls   *)
(* turns interrupts off.  A step is therefore one access to the bitmap: a   *)
(* bit tested by GetBit, or a bit written by SetBit (one read-modify-write  *)
(* of a word).  The local variables of a call belong to its task.           *)
(* How the bitmap and the range come about at boot is in MemoryMap.         *)
(***************************************************************************)
EXTENDS Integers, FiniteSets

CONSTANTS Callers,     \* tasks that allocate and free
          Sizes        \* how many frames callers ask for

ASSUME FrameAllocatorAssumption ==
  /\ Sizes \subseteq Nat \ {0}
  /\ IsFiniteSet(Callers)

VARIABLES
  bitmap,  \* the frames whose bit in alloc_map_ is 1
  rangeEnd,   \* range_end_, the frame after the last; 0 until SetMemoryRange
  reserved,   \* frames that were marked at boot, the kernel's heap among them
  pc,      \* pc[c]: the loop c is in
  start,   \* start_frame_id, or start_frame
  i,       \* the loop variable
  num,     \* num_frames
  owned,   \* owned[c]: the regions returned to c and not yet freed, as <<start, num>>
  refused  \* history: the bitmap was full enough for the last refusal to be right

callVars == <<pc, start, i, num, owned, refused>>
bootVars == <<rangeEnd, reserved>>

RangeBegin == 1    \* range_begin_: frame 0 is never given out
Frames == RangeBegin..(rangeEnd - 1)

Region(s, n) == s..(s + n - 1)

FreeRegion(s, n) == Region(s, n) \subseteq Frames \ bitmap

\* No call has been made.
NoCalls ==
  /\ pc = [c \in Callers |-> "idle"]
  /\ start = [c \in Callers |-> 0]
  /\ i = [c \in Callers |-> 0]
  /\ num = [c \in Callers |-> 0]
  /\ owned = [c \in Callers |-> {}]
  /\ refused = TRUE

-----------------------------------------------------------------------------
(* Allocate.                                                                *)

Allocate(c, n) ==
  /\ pc[c] = "idle"
  /\ num' = [num EXCEPT ![c] = n]
  /\ start' = [start EXCEPT ![c] = RangeBegin]
  /\ i' = [i EXCEPT ![c] = 0]
  /\ pc' = [pc EXCEPT ![c] = "scan"]
  /\ UNCHANGED <<bitmap, owned, refused>>

At(c, where) == pc[c] = where
Frame(c)     == start[c] + i[c]

\* The call is over; what it did not return is forgotten.
Return(c) ==
  /\ pc' = [pc EXCEPT ![c] = "idle"]
  /\ start' = [start EXCEPT ![c] = 0]
  /\ i' = [i EXCEPT ![c] = 0]
  /\ num' = [num EXCEPT ![c] = 0]

Beyond(c) == Frame(c) >= rangeEnd

\* The candidate would reach the end of the range: kNoEnoughMemory.
NoEnoughMemory(c) ==
  /\ At(c, "scan") /\ i[c] < num[c]
  /\ Beyond(c)
  /\ refused' = ~\E s \in Frames : FreeRegion(s, num[c])
  /\ Return(c)
  /\ UNCHANGED <<bitmap, owned>>

\* GetBit is 0: one more free frame.
FrameIsFree(c) ==
  /\ At(c, "scan") /\ i[c] < num[c]
  /\ ~Beyond(c) /\ Frame(c) \notin bitmap
  /\ i' = [i EXCEPT ![c] = @ + 1]
  /\ UNCHANGED <<bitmap, pc, start, num, owned, refused>>

\* Mutant: the search goes on behind the whole candidate.
NextCandidate_Skips(c) == start[c] + num[c]

\* The search goes on behind the frame that was taken.
NextCandidate(c) == start[c] + i[c] + 1

\* GetBit is 1.
FrameIsTaken(c) ==
  /\ At(c, "scan") /\ i[c] < num[c]
  /\ ~Beyond(c) /\ Frame(c) \in bitmap
  /\ start' = [start EXCEPT ![c] = NextCandidate(c)]
  /\ i' = [i EXCEPT ![c] = 0]
  /\ UNCHANGED <<bitmap, pc, num, owned, refused>>

\* Mutant: one frame less than asked for is looked at.
Found_Short(c) ==
  /\ At(c, "scan") /\ i[c] + 1 >= num[c]
  /\ ~Beyond(c)
  /\ i' = [i EXCEPT ![c] = 0]
  /\ pc' = [pc EXCEPT ![c] = "mark"]
  /\ UNCHANGED <<bitmap, start, num, owned, refused>>

\* num_frames free frames were found: MarkAllocated begins.
Found(c) ==
  /\ At(c, "scan") /\ i[c] = num[c]
  /\ i' = [i EXCEPT ![c] = 0]
  /\ pc' = [pc EXCEPT ![c] = "mark"]
  /\ UNCHANGED <<bitmap, start, num, owned, refused>>

MarkAllocated(c) ==
  /\ At(c, "mark") /\ i[c] < num[c]
  /\ bitmap' = bitmap \union {Frame(c)}
  /\ i' = [i EXCEPT ![c] = @ + 1]
  /\ UNCHANGED <<pc, start, num, owned, refused>>

Allocated(c) ==
  /\ At(c, "mark") /\ i[c] = num[c]
  /\ owned' = [owned EXCEPT ![c] = @ \union {<<start[c], num[c]>>}]
  /\ Return(c)
  /\ UNCHANGED <<bitmap, refused>>

-----------------------------------------------------------------------------
(* Free, of a region that was allocated.                                    *)

Free(c, s, n) ==
  /\ pc[c] = "idle" /\ <<s, n>> \in owned[c]
  /\ owned' = [owned EXCEPT ![c] = @ \ {<<s, n>>}]
  /\ num' = [num EXCEPT ![c] = n]
  /\ start' = [start EXCEPT ![c] = s]
  /\ i' = [i EXCEPT ![c] = 0]
  /\ pc' = [pc EXCEPT ![c] = "free"]
  /\ UNCHANGED <<bitmap, refused>>

\* Mutant: the loop ends one frame early.
LastFreed_Early(c) == num[c] - 1

LastFreed(c) == num[c]

ClearBit(c) ==
  /\ At(c, "free") /\ i[c] < LastFreed(c)
  /\ bitmap' = bitmap \ {Frame(c)}
  /\ i' = [i EXCEPT ![c] = @ + 1]
  /\ UNCHANGED <<pc, start, num, owned, refused>>

Freed(c) ==
  /\ At(c, "free") /\ i[c] = LastFreed(c)
  /\ Return(c)
  /\ UNCHANGED <<bitmap, owned, refused>>

Step(c) ==
  /\ \/ \E n \in Sizes : Allocate(c, n)
     \/ NoEnoughMemory(c) \/ FrameIsFree(c) \/ FrameIsTaken(c) \/ Found(c)
     \/ MarkAllocated(c) \/ Allocated(c)
     \/ \E s \in Frames, n \in Sizes : Free(c, s, n)
     \/ ClearBit(c) \/ Freed(c)
  /\ UNCHANGED bootVars

-----------------------------------------------------------------------------
Regions == UNION {{<<c, r>> : r \in owned[c]} : c \in Callers}

FramesOf(r) == Region(r[1], r[2])

(***************************************************************************)
(* A frame belongs to one region at most: what Allocate returns was secured *)
(* for its caller alone, inside the range and outside the reserved frames.  *)
(***************************************************************************)
Exclusive ==
  /\ \A x, y \in Regions : x # y => FramesOf(x[2]) \cap FramesOf(y[2]) = {}
  /\ \A x \in Regions : FramesOf(x[2]) \subseteq Frames \ reserved

(***************************************************************************)
(* Between calls the bit of a frame is 1 exactly when the frame is in use:  *)
(* no frame is lost, and none that is in use can be handed out.             *)
(***************************************************************************)
InUse == reserved \union UNION {FramesOf(x[2]) : x \in Regions}

BitmapTrue == reserved # {} /\ (\A c \in Callers : pc[c] = "idle") => bitmap = InUse

(***************************************************************************)
(* The scan of Allocate that has come to a candidate has passed no region   *)
(* that would do (first fit), and it gives up only when there is none.      *)
(***************************************************************************)
FirstFit ==
  /\ refused
  /\ \A c \in Callers : pc[c] = "scan" =>
       /\ \A s \in Frames : s < start[c] => ~FreeRegion(s, num[c])
       /\ Region(start[c], i[c]) \cap bitmap = {}
=============================================================================
