------------------------------- MODULE Paging -------------------------------
(***************************************************************************)
(* The memory of applications: kernel/paging.cpp and the loader of          *)
(* kernel/terminal.cpp (LoadApp, ExecuteFile).                              *)
(*                                                                          *)
(* A frame of physical memory holds a page map or a page.  The first run of *)
(* a program loads it into a page map that is kept in app_loads; every run  *)
(* gets a copy that shares the pages read-only, until a page fault copies   *)
(* one.  Further pages come with faults: zeros within [dpaging_begin,       *)
(* dpaging_end), the content of a file within a file mapping.               *)
(*                                                                          *)
(* Only the upper half of the address space is here: the lower half, the    *)
(* kernel's, is the same in every page map.  Allocate is a step of its own  *)
(* accord; what happens when it is preempted is the subject of              *)
(* FrameAllocator.                                                          *)
(***************************************************************************)
EXTENDS Integers, Sequences, FiniteSets, SequencesExt, TLC

CONSTANTS
  Task,          \* the terminals that run applications
  Program,       \* the executable files
  NFrames,       \* frames of physical memory
  Held,          \* how many of them the kernel may hold itself
  Levels,        \* levels of page maps
  Fanout,        \* entries of a page map
  ProgramPages,  \* pages of a loaded program
  StackPages,    \* pages of the stack, the page of the arguments not counted
  FilePages,     \* pages of a mapped file
  MaxDemand,     \* bound: pages asked for with DemandPages by one application
  MaxRuns,       \* bound: programs started
  MaxEvents      \* bound: programs refused, system calls and stores, all together

ASSUME PagingAssumption ==
  /\ NFrames \in Nat /\ Held \subseteq 0..NFrames
  /\ Levels \in Nat \ {0} /\ Fanout \in Nat \ {0}
  /\ ProgramPages \in Nat \ {0}
  /\ FilePages \in Nat \ {0} /\ StackPages \in Nat
  /\ ProgramPages + MaxDemand + StackPages + 1 <= Fanout ^ Levels

Frame     == 1..NFrames
Index     == 0..Fanout - 1
Page      == 0..Fanout ^ Levels - 1
ArgsPage  == Fanout ^ Levels - 1
StackBase == ArgsPage - StackPages

NoProgram == "none"
NoFrame   == 0

VARIABLES
  mem,       \* the content of each frame, read as a page map and as a page
  used,      \* frames that are allocated
  cr3,       \* Context().cr3 of each task
  pc,        \* "terminal", "load", "setup", "app"
  program,   \* the program that a task loads or runs
  dpEnd,     \* dpaging_end
  fileMaps,  \* file_maps
  appLoads,  \* app_loads: the page map that each loaded program is kept in
  runs,      \* programs started
  events,    \* programs refused, system calls and stores
  orphans,   \* history: frames that are the kernel's, or that failed or doubled loading left
  spoilt     \* history: programs with a shared page that the kernel has written

counters == <<runs, events>>
vars == <<mem, used, cr3, pc, program, dpEnd, fileMaps, appLoads, counters, orphans, spoilt>>

-----------------------------------------------------------------------------
(* Page maps.  The operators work on a record of the memory: mem, used, ok  *)
(* (no error so far), new (the frame allocated last), at and src (the page  *)
(* maps reached).                                                           *)

NoEntry   == [present |-> FALSE, writable |-> FALSE, frame |-> NoFrame]
Zero      == <<"zero", NoProgram, 0>>
Written   == <<"written", NoProgram, 0>>
Nothing   == <<"nothing", NoProgram, 0>>
ZeroFrame == [entries |-> [i \in Index |-> NoEntry], data |-> Zero]

Memory == [mem |-> mem, used |-> used, ok |-> TRUE,
           new |-> NoFrame, at |-> NoFrame, src |-> NoFrame]

\* Allocate takes the first free frame.
NewPageMap(m) ==
  IF ~m.ok \/ Frame \ m.used = {}
  THEN [m EXCEPT !.ok = FALSE]
  ELSE LET f == Min(Frame \ m.used)
       IN  [m EXCEPT !.mem[f] = ZeroFrame, !.used = @ \cup {f}, !.new = f]

\* Part of a linear address; levels count from 1, the page tables.
Part(addr, level) == (addr \div Fanout ^ (level - 1)) % Fanout

\* PML4 first.
Downwards == [k \in 1..Levels |-> Levels + 1 - k]

\* SetNewPageMapIfNotPresent, and the bits that SetupPageMap sets.
SetupEntry(m, level, addr, writable) ==
  LET i     == Part(addr, level)
      entry == m.mem[m.at].entries[i]
      n     == IF entry.present THEN [m EXCEPT !.new = entry.frame] ELSE NewPageMap(m)
  IN  IF m.ok /\ n.ok
      THEN [n EXCEPT !.mem[m.at].entries[i] =
                          [present |-> TRUE, writable |-> level > 1 \/ writable, frame |-> n.new],
                     !.at = n.new]
      ELSE [m EXCEPT !.ok = FALSE]

SetupPage(m, root, addr, writable) ==
  FoldLeft(LAMBDA n, level : SetupEntry(n, level, addr, writable),
           [m EXCEPT !.at = root], Downwards)

\* Page after page; the maps above them are made when they are first needed.
SetupPageMaps(m, root, addr, num, writable) ==
  FoldLeft(LAMBDA n, page : IF n.ok THEN SetupPage(n, root, page, writable) ELSE n,
           m, [k \in 1..num |-> addr + k - 1])

\* The entry of a page as the processor finds it.
Entry(m, root, addr) ==
  FoldLeft(LAMBDA e, level : IF e.present THEN m[e.frame].entries[Part(addr, level)] ELSE e,
           [present |-> TRUE, writable |-> TRUE, frame |-> root], Downwards)

Present(m, f) == {i \in Index : m[f].entries[i].present}

\* How CopyPageMaps copies an entry of a page table.
Shared(entry) == [entry EXCEPT !.writable = FALSE]

\* One step down, through the first entry that is present.
CopyFirst(m) ==
  LET i == Min(Present(m.mem, m.src))
      n == NewPageMap(m)
      e == m.mem[m.src].entries[i]
  IN  IF m.ok /\ n.ok
      THEN [n EXCEPT !.mem[m.at].entries[i] = [e EXCEPT !.frame = n.new],
                     !.at = n.new, !.src = e.frame]
      ELSE [m EXCEPT !.ok = FALSE]

CopyPageTable(m) ==
  [m EXCEPT !.mem[m.at].entries =
     [i \in Index |-> IF i \in Present(m.mem, m.src)
                      THEN Shared(m.mem[m.src].entries[i]) ELSE @[i]]]

CopyPageMaps(m, dest, src) ==
  LET copied == FoldLeft(LAMBDA n, level : CopyFirst(n),
                         [m EXCEPT !.at = dest, !.src = src], Tail(Downwards))
  IN  IF copied.ok THEN CopyPageTable(copied) ELSE copied

\* The page maps of a level below root, the root being level 0 here.
MapsBelow(m, root) ==
  LET maps[k \in 0..Levels - 1] ==
        IF k = 0 THEN {root}
        ELSE UNION {{m[f].entries[i].frame : i \in Present(m, f)} : f \in maps[k - 1]}
  IN  UNION {maps[k] : k \in 0..Levels - 1}

\* Where a page map refers to a frame: a map and an index of it.
References(m, root) == UNION {{<<f, i>> : i \in Present(m, f)} : f \in MapsBelow(m, root)}

Target(m, r) == m[r[1]].entries[r[2]]

Reachable(m, root) == {root} \cup {Target(m, r).frame : r \in References(m, root)}

\* Mutant: every page is freed, the shared ones too.
Freed_Shared(m, root) == {Target(m, r).frame : r \in References(m, root)}

\* What CleanPageMap frees.
Freed(m, root) ==
  {Target(m, r).frame : r \in {q \in References(m, root) : Target(m, q).writable}}

\* What was in a free frame is forgotten: NewPageMap clears it.
Free(m, frames) ==
  [m EXCEPT !.used = @ \ frames,
            !.mem = [f \in Frame |-> IF f \in frames THEN ZeroFrame ELSE @[f]]]

CleanPageMaps(m, root) == Free(m, Freed(m.mem, root))

FreePageMap(m, f) == Free(m, {f})

-----------------------------------------------------------------------------
Text(p, page) == <<"text", p, page>>
FileData      == [i \in 1..FilePages |-> <<"file", NoProgram, i>>]

Init ==
  /\ mem = [f \in Frame |-> ZeroFrame]
  /\ \E n \in Held : used = 1..n /\ orphans = used
  /\ cr3 = [t \in Task |-> NoFrame]
  /\ pc = [t \in Task |-> "terminal"]
  /\ program = [t \in Task |-> NoProgram]
  /\ dpEnd = [t \in Task |-> ProgramPages]
  /\ fileMaps = [t \in Task |-> <<>>]
  /\ appLoads = [p \in Program |-> NoFrame]
  /\ runs = 0 /\ events = 0
  /\ spoilt = {}

Counted == events < MaxEvents /\ events' = events + 1

Templates(loads) == {loads[p] : p \in Program} \ {NoFrame}
Kept(m, loads)   == UNION {Reachable(m, root) : root \in Templates(loads)}

(***************************************************************************)
(* A part of ExecuteFile ends with memory m, page map root and app_loads    *)
(* loads.  After an error it returns, and nobody frees the page map.        *)
(***************************************************************************)
Executes(t, p, m, root, loads, next, left) ==
  /\ mem' = m.mem /\ used' = m.used
  /\ cr3' = [cr3 EXCEPT ![t] = root]
  /\ appLoads' = loads
  /\ pc' = [pc EXCEPT ![t] = IF m.ok THEN next ELSE "terminal"]
  /\ program' = [program EXCEPT ![t] = IF m.ok THEN p ELSE NoProgram]
  /\ orphans' = orphans \cup
       (UNION {Reachable(m.mem, r) : r \in left \cup (IF m.ok THEN {} ELSE {root})}
          \ Kept(m.mem, loads))

\* ExecuteFile is called, LoadApp makes a page map and looks for the program.
LoadApp(t, p) ==
  LET n == NewPageMap(Memory)
  IN  /\ pc[t] = "terminal" /\ runs < MaxRuns
      /\ runs' = runs + 1
      /\ n.ok
      /\ IF appLoads[p] = NoFrame
         THEN Executes(t, p, n, n.new, appLoads, "load", {})
         ELSE Executes(t, p, CopyPageMaps(n, n.new, appLoads[p]), n.new, appLoads, "setup", {})
      /\ UNCHANGED <<dpEnd, fileMaps, events, spoilt>>

\* CopyLoadSegments.
CopyLoadSegments(m, root, p) ==
  LET n == SetupPageMaps(m, root, 0, ProgramPages, FALSE)
      frame(page) == Entry(n.mem, root, page).frame
  IN  IF n.ok
      THEN [n EXCEPT !.mem = [f \in Frame |->
              IF \E page \in 0..ProgramPages - 1 : frame(page) = f
              THEN [@[f] EXCEPT !.data =
                      Text(p, CHOOSE page \in 0..ProgramPages - 1 : frame(page) = f)]
              ELSE @[f]]]
      ELSE n

(***************************************************************************)
(* The rest of LoadApp when the program was not found: it has been read     *)
(* from the disk, is loaded into the page map, kept there, and copied into  *)
(* a second one.  insert does not replace what another task has inserted    *)
(* meanwhile.                                                               *)
(***************************************************************************)
LoadELF(t) ==
  LET p      == program[t]
      loaded == CopyLoadSegments(Memory, cr3[t], p)
      loads  == IF loaded.ok /\ appLoads[p] = NoFrame
                THEN [appLoads EXCEPT ![p] = cr3[t]] ELSE appLoads
      second == NewPageMap(loaded)
  IN  /\ pc[t] = "load"
      /\ Executes(t, p, CopyPageMaps(second, second.new, cr3[t]),
                  IF second.ok THEN second.new ELSE cr3[t], loads, "setup", {cr3[t]})
      /\ UNCHANGED <<dpEnd, fileMaps, counters, spoilt>>

\* The file is not an ELF file, or not one of an application.
InvalidFile(t) ==
  /\ pc[t] = "load"
  /\ Counted
  /\ Executes(t, program[t], [Memory EXCEPT !.ok = FALSE], cr3[t], appLoads, "setup", {})
  /\ UNCHANGED <<dpEnd, fileMaps, runs, spoilt>>

\* The page of the arguments, then the stack; the application starts.
SetupStack(t) ==
  LET args == SetupPageMaps(Memory, cr3[t], ArgsPage, 1, TRUE)
  IN  /\ pc[t] = "setup"
      /\ Executes(t, program[t], IF args.ok THEN SetupPageMaps(args, cr3[t], StackBase, StackPages, TRUE)
                     ELSE args,
                  cr3[t], appLoads, "app", {})
      /\ dpEnd' = [dpEnd EXCEPT ![t] = ProgramPages]
      /\ UNCHANGED <<fileMaps, counters, spoilt>>

\* MakeArgVector finds no room for the arguments.
TooManyArguments(t) ==
  LET args == SetupPageMaps(Memory, cr3[t], ArgsPage, 1, TRUE)
  IN  /\ pc[t] = "setup"
      /\ Counted
      /\ Executes(t, program[t], [args EXCEPT !.ok = FALSE], cr3[t], appLoads, "app", {})
      /\ UNCHANGED <<dpEnd, fileMaps, runs, spoilt>>

-----------------------------------------------------------------------------
(* The application runs.                                                    *)

\* CallApp returns: the memory above the kernel is freed, then the PML4.
Leaves(t, m) ==
  LET n == FreePageMap(CleanPageMaps(m, cr3[t]), cr3[t])
  IN  /\ mem' = n.mem /\ used' = n.used
      /\ cr3' = [cr3 EXCEPT ![t] = NoFrame]
      /\ pc' = [pc EXCEPT ![t] = "terminal"]
      /\ program' = [program EXCEPT ![t] = NoProgram]
      /\ fileMaps' = [fileMaps EXCEPT ![t] = <<>>]
      /\ UNCHANGED <<dpEnd, appLoads, counters, orphans, spoilt>>

ExitApp(t) == pc[t] = "app" /\ Leaves(t, Memory)

\* A fault has been handled, or the application is killed.
Handled(t, m) ==
  IF m.ok
  THEN /\ mem' = m.mem /\ used' = m.used
       /\ UNCHANGED <<cr3, pc, program, dpEnd, fileMaps, appLoads, counters, orphans, spoilt>>
  ELSE Leaves(t, m)

PageEntry(t, a) == Entry(mem, cr3[t], a)
DPages(t)       == ProgramPages .. dpEnd[t] - 1
FileMapEnd(t)   == IF fileMaps[t] = <<>> THEN StackBase ELSE Last(fileMaps[t]).begin
Mappings(t, a)  == {k \in DOMAIN fileMaps[t] :
                      fileMaps[t][k].begin <= a /\ a < fileMaps[t][k].end}

PageTable(m, t, a) ==
  FoldLeft(LAMBDA f, level : m[f].entries[Part(a, level)].frame, cr3[t], Front(Downwards))

\* Mutant: the page is not copied.
CopyOnePage_Empty(m, t, a) ==
  LET n     == NewPageMap(m)
      table == PageTable(m.mem, t, a)
  IN  IF n.ok
      THEN [n EXCEPT !.mem[table].entries[Part(a, 1)] =
                          [@ EXCEPT !.frame = n.new, !.writable = TRUE]]
      ELSE n

\* CopyOnePage, with SetPageContent.
CopyOnePage(m, t, a) ==
  LET n     == NewPageMap(m)
      table == PageTable(m.mem, t, a)
      frame == m.mem[table].entries[Part(a, 1)].frame
  IN  IF n.ok
      THEN [n EXCEPT !.mem[n.new] = m.mem[frame],
                     !.mem[table].entries[Part(a, 1)] =
                          [@ EXCEPT !.frame = n.new, !.writable = TRUE]]
      ELSE n

\* HandlePageFault, the application having written to a page it shares.
WriteFault(t, a) ==
  /\ pc[t] = "app"
  /\ PageEntry(t, a).present /\ ~PageEntry(t, a).writable
  /\ Handled(t, CopyOnePage(Memory, t, a))

\* It has touched a page of [dpaging_begin, dpaging_end) for the first time.
DemandFault(t, a) ==
  /\ pc[t] = "app"
  /\ ~PageEntry(t, a).present /\ a \in DPages(t)
  /\ Handled(t, SetupPageMaps(Memory, cr3[t], a, 1, TRUE))

\* PreparePageCache.
PreparePageCache(m, t, a, mapping) ==
  LET n == SetupPageMaps(m, cr3[t], a, 1, TRUE)
  IN  IF n.ok THEN [n EXCEPT !.mem[n.at].data = FileData[a - mapping.begin + 1]] ELSE n

\* Or a page of a file.
FileFault(t, a) ==
  /\ pc[t] = "app"
  /\ ~PageEntry(t, a).present /\ a \notin DPages(t) /\ Mappings(t, a) # {}
  /\ Handled(t, PreparePageCache(Memory, t, a, fileMaps[t][Min(Mappings(t, a))]))

\* Or a page that is nobody's: the application is killed.
InvalidFault(t) ==
  /\ pc[t] = "app"
  /\ {a \in Page : ~PageEntry(t, a).present /\ a \notin DPages(t) /\ Mappings(t, a) = {}} # {}
  /\ Handled(t, [Memory EXCEPT !.ok = FALSE])

\* The application writes; the processor has found the page writable.
Write(t, a) ==
  /\ pc[t] = "app"
  /\ PageEntry(t, a).present /\ PageEntry(t, a).writable
  /\ Counted
  /\ mem' = [mem EXCEPT ![PageEntry(t, a).frame].data = Written]
  /\ UNCHANGED <<used, cr3, pc, program, dpEnd, fileMaps, appLoads, runs, orphans, spoilt>>

(***************************************************************************)
(* A system call (ReadFile, ReadEvent) writes into a buffer of the          *)
(* application.  CR0.WP is clear: the kernel writes to a read-only page     *)
(* without a fault, and so into the page that is shared.                    *)
(***************************************************************************)
KernelWrite(t, a) ==
  /\ pc[t] = "app"
  /\ PageEntry(t, a).present
  /\ Counted
  /\ mem' = [mem EXCEPT ![PageEntry(t, a).frame].data = Written]
  /\ spoilt' = IF PageEntry(t, a).writable THEN spoilt ELSE spoilt \cup {program[t]}
  /\ UNCHANGED <<used, cr3, pc, program, dpEnd, fileMaps, appLoads, runs, orphans>>

DemandPages(t) ==
  /\ pc[t] = "app"
  /\ dpEnd[t] < ProgramPages + MaxDemand
  /\ Counted
  /\ dpEnd' = [dpEnd EXCEPT ![t] = @ + 1]
  /\ UNCHANGED <<mem, used, cr3, pc, program, fileMaps, appLoads, runs, orphans, spoilt>>

MapFile(t) ==
  /\ pc[t] = "app"
  /\ FileMapEnd(t) - FilePages >= ProgramPages + MaxDemand
  /\ Counted
  /\ fileMaps' = [fileMaps EXCEPT ![t] =
                    Append(@, [begin |-> FileMapEnd(t) - FilePages, end |-> FileMapEnd(t)])]
  /\ UNCHANGED <<mem, used, cr3, pc, program, dpEnd, appLoads, runs, orphans, spoilt>>

Next ==
  \E t \in Task :
    \/ \E p \in Program : LoadApp(t, p)
    \/ LoadELF(t) \/ InvalidFile(t) \/ SetupStack(t) \/ TooManyArguments(t)
    \/ \E a \in Page : \/ Write(t, a) \/ KernelWrite(t, a)
                      \/ WriteFault(t, a) \/ DemandFault(t, a) \/ FileFault(t, a)
    \/ InvalidFault(t) \/ DemandPages(t) \/ MapFile(t) \/ ExitApp(t)

Spec == Init /\ [][Next]_vars

-----------------------------------------------------------------------------
(***************************************************************************)
(* A frame that somebody may write to, as a page or as a page map, is       *)
(* referred to from one place only; so two page maps share nothing but      *)
(* read-only pages, and CleanPageMap, which frees what is writable, frees   *)
(* nothing that is used elsewhere.                                          *)
(***************************************************************************)
Roots == {cr3[t] : t \in {u \in Task : pc[u] # "terminal"}} \cup Templates(appLoads)

OneOwner ==
  LET refs == UNION {References(mem, root) : root \in Roots}
  IN  /\ \A r \in refs : Target(mem, r).writable =>
           /\ Target(mem, r).frame \notin Roots
           /\ \A q \in refs \ {r} : Target(mem, q).frame # Target(mem, r).frame
      /\ \A t \in Task : pc[t] # "terminal" =>
           /\ cr3[t] \notin Templates(appLoads)
           /\ \A u \in Task \ {t} : pc[u] # "terminal" => cr3[u] # cr3[t]

(***************************************************************************)
(* Every frame that a page map uses is allocated, and every frame that is   *)
(* allocated is still used by one: an application gives back all it got, by *)
(* exit or by a fault that kills it.  Only the frames of an ExecuteFile     *)
(* that returned an error, and those of a program that two terminals have   *)
(* loaded at the same time, are lost.                                       *)
(***************************************************************************)
NoFrameLost == used = UNION {Reachable(mem, root) : root \in Roots} \cup orphans

FramesOwned == OneOwner /\ NoFrameLost

(***************************************************************************)
(* Every application has a memory of its own, whatever the others do: what  *)
(* it finds in a page is its program, zeros, the file, or what it wrote     *)
(* itself.  Faults are not seen.  The exception is a program into whose     *)
(* shared pages the kernel has written.                                     *)
(***************************************************************************)
Region(t) ==
  0 .. dpEnd[t] - 1 \cup FileMapEnd(t) .. ArgsPage

Content(t, a) ==
  IF PageEntry(t, a).present THEN mem[PageEntry(t, a).frame].data
  ELSE IF a \in DPages(t) THEN Zero
  ELSE IF Mappings(t, a) = {} THEN Nothing
  ELSE FileData[a - fileMaps[t][Min(Mappings(t, a))].begin + 1]

Runs(t) == pc[t] = "app"

Spaces ==
  INSTANCE AddressSpace WITH
    Image   <- [p \in Program |-> [a \in 0 .. ProgramPages - 1 |-> Text(p, a)]
                                   @@ [a \in StackBase .. ArgsPage |-> Zero]],
    File    <- FileData,
    Value   <- {Written},
    program <- [t \in Task |-> IF Runs(t) THEN program[t] ELSE NoProgram],
    memory  <- [t \in Task |-> IF Runs(t) /\ program[t] \notin spoilt
                               THEN [a \in Region(t) |-> Content(t, a)] ELSE <<>>]

IsAddressSpace == Spaces!SpaceSpec
=============================================================================
