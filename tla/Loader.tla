------------------------------- MODULE Loader -------------------------------
(***************************************************************************)
(* UefiMain of MikanLoaderPkg/Main.c: the program of the firmware that      *)
(* reads the kernel and its volume into memory and leaves the machine to    *)
(* the kernel, together with the firmware's memory map.                     *)
(*                                                                          *)
(* Every request for memory changes the map.  ExitBootServices works only   *)
(* with the key of the map as it is; the loader reads the map first of all, *)
(* for \memmap, and once more when ExitBootServices has refused.            *)
(* Memory is counted in frames (EFI pages); a frame has one type.           *)
(***************************************************************************)
EXTENDS Integers, Sequences, FiniteSets, FiniteSetsExt

CONSTANTS
  FrameCount,      \* the frames of the machine, and kFrameCount
  MaxDescriptors,  \* bound: descriptors of the firmware's first map
  MapBuffer,       \* the descriptors that fit into memmap_buf
  Segments,        \* the program headers of kernel.elf: type, vaddr, filesz, memsz in frames
  KernelFile,      \* the frames that kernel.elf takes as a file
  Volumes,         \* how long fat_disk, or the block device, may be
  MaxVolume,       \* the most that is read of a block device (32 MiB)
  MaxChanges       \* bound: how often the firmware takes memory for itself

ASSUME LoaderAssumption ==
  /\ FrameCount \in Nat \ {0} /\ MaxDescriptors \in Nat \ {0} /\ MapBuffer \in Nat
  /\ KernelFile \in Nat \ {0} /\ Volumes \subseteq Nat \ {0} /\ MaxVolume \in Nat \ {0}
  /\ MaxChanges \in Nat
  /\ Segments \in Seq([type : STRING, vaddr : Nat \ {0}, filesz : Nat, memsz : Nat])
  /\ \A n \in 1..Len(Segments) : Segments[n].filesz <= Segments[n].memsz

\* "loader" stands for EfiLoaderData, "boot" for the types of the boot services, "reserved"
\* for everything that belongs to the firmware for good; "none" is no memory at all.
Types == {"none", "reserved", "boot", "conventional", "loader"}

IsAvailable(type) == type \in {"boot", "conventional"}

AllFrames == 0..(FrameCount - 1)

VARIABLES
  step,     \* what UefiMain asks the firmware for next; "kernel" when it has left
  memory,   \* memory[f]: the type the firmware has for frame f
  key,      \* the key of the map: it counts the changes
  changes,  \* bound: changes that the firmware has made for itself
  memmap,   \* the map the loader has read, and its map_key
  buffer,   \* the frames of kernel_buffer
  volume,   \* the frames of volume_image
  content   \* content[f]: what the loader has written

loaderVars == <<step, memory, key, changes, memmap, buffer, volume, content>>

\* The first frames of the descriptors.
Beginnings(mem) == {f \in AllFrames : mem[f] # "none" /\ (f = 0 \/ mem[f] # mem[f - 1])}

\* The firmware's map: frames of one type make a descriptor; it is sorted.
Descriptor(mem, f) ==
  [start |-> f, type |-> mem[f],
   end |-> CHOOSE e \in (f + 1)..FrameCount :
             /\ \A g \in f..(e - 1) : mem[g] = mem[f]
             /\ e = FrameCount \/ mem[e] # mem[f]]

MapOf(mem) ==
  LET fs     == Beginnings(mem)
      Nth(n) == CHOOSE f \in fs : Cardinality({g \in fs : g <= f}) = n
  IN  [n \in 1..Cardinality(fs) |-> Descriptor(mem, Nth(n))]

NoMap == [map |-> <<>>, key |-> -1]

LoaderInit ==
  /\ step = "map"
  /\ memory \in {m \in [AllFrames -> Types \ {"loader"}] : Cardinality(Beginnings(m)) \in 1..MaxDescriptors}
  /\ key = 0 /\ changes = 0
  /\ memmap = NoMap
  /\ buffer = {} /\ volume = {}
  /\ content = [f \in AllFrames |-> "junk"]

-----------------------------------------------------------------------------
(* The services of the firmware.                                            *)

Conventional == {f \in AllFrames : memory[f] = "conventional"}

Become(frames, type) ==
  /\ memory' = [f \in AllFrames |-> IF f \in frames THEN type ELSE memory[f]]
  /\ key' = key + 1

\* AllocatePool: frames that lie together, wherever the firmware likes.
AllocatePool(n, frames) ==
  /\ \E f \in Conventional : frames = f..(f + n - 1) /\ frames \subseteq Conventional
  /\ Become(frames, "loader")

Running == step \notin {"kernel", "halt"}

\* The firmware takes memory for itself, for a protocol that is opened, in a timer, as long as
\* there are boot services.
FirmwareAllocates ==
  /\ Running /\ step # "entry" /\ changes < MaxChanges
  /\ changes' = changes + 1
  /\ \E f \in Conventional : Become({f}, "boot")
  /\ UNCHANGED <<step, memmap, buffer, volume, content>>

\* A service fails: the loader says so and halts.
Fails ==
  /\ Running
  /\ step' = "halt"
  /\ UNCHANGED <<memory, key, changes, memmap, buffer, volume, content>>

-----------------------------------------------------------------------------
(* UefiMain.                                                                *)

\* GetMemoryMap: the buffer must be long enough.
GetMemoryMap ==
  /\ Len(MapOf(memory)) <= MapBuffer
  /\ memmap' = [map |-> MapOf(memory), key |-> key]

FirstMap ==
  /\ step = "map" /\ step' = "root"
  /\ GetMemoryMap
  /\ UNCHANGED <<memory, key, changes, buffer, volume, content>>

Goes(from, to) ==
  /\ step = from /\ step' = to
  /\ UNCHANGED <<memory, key, changes, memmap, buffer, volume, content>>

OpenRootDir == Goes("root", "memmap")

\* \memmap is opened and the map is saved; when it cannot be opened, nothing is saved.
SaveMemoryMap == Goes("memmap", "saved")
NoMemmapFile  == Goes("memmap", "gop")
CloseMemmap   == Goes("saved", "gop")

OpenGOP == Goes("gop", "file")

\* ReadFile of kernel.elf.
ReadKernel ==
  /\ step = "file" /\ step' = "pages"
  /\ \E f \in AllFrames : buffer' = f..(f + KernelFile - 1)
  /\ AllocatePool(KernelFile, buffer')
  /\ UNCHANGED <<changes, memmap, volume, content>>

Loads == {Segments[n] : n \in {m \in 1..Len(Segments) : Segments[m].type = "load"}}

\* Mutant: the size in the file is taken, and what follows the file's part is forgotten.
CalcLoadAddressRange_FileSize ==
  Min({s.vaddr : s \in Loads}) .. (Max({s.vaddr + s.filesz : s \in Loads}) - 1)

\* The frames from the first to the last address of the segments to be loaded.
CalcLoadAddressRange ==
  Min({s.vaddr : s \in Loads}) .. (Max({s.vaddr + s.memsz : s \in Loads}) - 1)

\* AllocatePages at the address of the kernel.
AllocateKernel ==
  /\ step = "pages" /\ step' = "volume"
  /\ CalcLoadAddressRange \subseteq Conventional
  /\ Become(CalcLoadAddressRange, "loader")
  /\ UNCHANGED <<changes, memmap, buffer, volume, content>>

\* A buffer is allocated and the volume is read into it.
ReadVolume(from, n) ==
  /\ step = from /\ step' = "copy"
  /\ \E f \in AllFrames : volume' = f..(f + n - 1)
  /\ AllocatePool(n, volume')
  /\ content' = [f \in AllFrames |-> IF f \in volume' THEN "volume" ELSE content[f]]
  /\ UNCHANGED <<changes, memmap, buffer>>

\* ReadFile of \fat_disk.
ReadVolumeFile == \E n \in Volumes : ReadVolume("volume", n)

\* There is no such file: the first blocks of the device the loader came from.
OpenBlockIoProtocolForLoadedImage == Goes("volume", "blocks")

ReadBlocks == \E n \in Volumes : ReadVolume("blocks", Min({n, MaxVolume}))

SegmentAt(f) == {s \in Loads : s.vaddr <= f /\ f < s.vaddr + s.memsz}

\* The part that is in the file is copied, the rest is zero.
Loaded(f) == IF \E s \in SegmentAt(f) : f < s.vaddr + s.filesz THEN "program" ELSE "zero"

CopyLoadSegments ==
  /\ step = "copy" /\ step' = "free"
  /\ content' = [f \in AllFrames |-> IF SegmentAt(f) # {} THEN Loaded(f) ELSE content[f]]
  /\ UNCHANGED <<memory, key, changes, memmap, buffer, volume>>

FreePool ==
  /\ step = "free" /\ step' = "exit"
  /\ Become(buffer, "conventional")
  /\ buffer' = {}
  /\ UNCHANGED <<changes, memmap, volume, content>>

\* ExitBootServices is given an old key.
Refused == memmap.key # key

ExitBootServices(from) == ~Refused /\ Goes(from, "entry")

ReadMapAgain ==
  /\ step = "exit" /\ Refused
  /\ GetMemoryMap
  /\ step' = "again"
  /\ UNCHANGED <<memory, key, changes, buffer, volume, content>>

\* A second refusal is final (Fails).
LoaderNext ==
  \/ FirstMap \/ OpenRootDir \/ SaveMemoryMap \/ NoMemmapFile \/ CloseMemmap \/ OpenGOP
  \/ ReadKernel \/ AllocateKernel \/ ReadVolumeFile
  \/ OpenBlockIoProtocolForLoadedImage \/ ReadBlocks
  \/ CopyLoadSegments \/ FreePool
  \/ ExitBootServices("exit") \/ ReadMapAgain \/ ExitBootServices("again")
  \/ FirmwareAllocates \/ Fails
=============================================================================
