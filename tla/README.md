# A TLA+ verification of the MikanOS kernel

This directory holds TLA+ models of the kernel under `src/src/kernel` and of its boot loader,
the TLC configurations that check them on small instances, and proofs, checked by TLAPS, of what
matters most for every size. `PROJECT.json` is the machine-readable index: components, runs, the
source lines each definition models, hazards, findings and theorems. Paths below are relative to
`src/src/kernel`.

## The system

A single-processor kernel for x86-64. Tasks run in kernel mode (the main task, terminals, the idle
task) and, below a terminal, an application in user mode on the same task. Tasks talk by messages put
in each other's mailbox. Two interrupt handlers matter: the LAPIC timer (`timer.cpp`), which runs
timers and preempts, and the xHC (`interrupt.cpp`), which only sends the main task a message.
**There are no locks.** A task protects itself with `cli`/`sti`; `Sleep` is called with interrupts
off and the flag is part of the context.

| Part | State | Operations | Hard because |
|---|---|---|---|
| TaskManager (`task.cpp`) | run queue per level, current level, `level_changed_`, mailboxes, `finish_tasks_`, `finish_waiter_` | NewTask, SwitchTask, Sleep, Wakeup, SendMessage, ReceiveMessage, Finish, WaitFinish | raw pointers between tables; calls from handlers; rescan only on request |
| Main task, terminals (`main.cpp`, `terminal.cpp`) | program counter, mailbox, IF | message loop | lost wake-ups; pushes made with interrupts on |
| Contexts, calls, interrupts (`asmfunc.asm`, `interrupt.cpp`, `segment.cpp`, `syscall.cpp`) | registers, stacks, contexts, descriptors | SwitchContext, CallApp, ExitApp, SyscallEntry, handlers | stacks that tasks share; flags and modes must follow |
| TimerManager, the clock (`timer.cpp`, `acpi.cpp`) | tick, priority queue; PM and LAPIC timers | AddTimer, Tick, WaitMilliseconds | several timers in a tick; counters that begin again |
| Memory (`memory_manager.cpp`, `MikanLoaderPkg/Main.c`) | memory map, bitmap, range | the loader's allocations, Allocate, Free | test and set are apart; a map that is stale |
| xHC (`pci.cpp`, `usb/xhci/`) | configuration and operational registers, rings, port phases | scan, reset, OnEvent, Push, Pop | an order of registers; one port at a time; cycle bits |
| USB devices (`usb/`) | phases, setup-stage map, event waiters, memory pool | control and interrupt transfers | events that point into rings which are reused |
| Paging (`paging.cpp`) | four-level maps, file maps | Setup, Clean, Copy, page faults | sharing and copy on write |
| FAT (`fat.cpp`, `file.cpp`) | FAT, directories, offsets | FindFile, CreateFile, Read, Write, Load | chains, cluster ends, two descriptors of a file |
| Layers, mouse (`layer.cpp`, `mouse.cpp`, `window.cpp`) | stack, two buffers, active and dragged layer | Activate, UpDown, Draw, Move, Close, OnInterrupt | partial redrawing; stale ids |
| Terminals (`terminal.cpp`) | line, history, screen, `files_`, pipe buffer | InputKey, Print, ExecuteLine, Read, Write | two notions of the line; the lifetime of a pipe's ends |

How they interact: device -> transfer ring -> event ring -> interrupt handler -> message to the main
task -> `ProcessEvents` -> class driver -> observer -> message to the main task -> message to the
terminal whose window is active -> message back to the main task, which alone draws. Timers: tick ->
`SwitchTask`, or a message to the timer's task. Terminals create tasks (pipelines) and wait for them
with WaitFinish; they call applications, which come back through system calls, faults and ExitApp.

What makes each part correct, in a sentence:

- *TaskManager*: a runnable task is queued exactly once at its level, the highest level runs, nobody
  is forgotten; exit codes and waiters meet in every order.
- *Message loops*: no wake-up, event or key is lost; the idle task can be interrupted.
- *Contexts*: whoever is interrupted, switched away or called goes on where he was, with what he had.
- *Clock*: a tick is a hundredth of a second, every timer expires once, at its tick.
- *Memory*: no frame has two owners; none is lost; nothing of the firmware's is handed out.
- *xHC and USB*: the right controller is found and set up; never two devices at the default address;
  every event finds its request; every device comes to work.
- *Paging*: every application has a memory of its own; what is freed is used by nobody and vice versa.
- *FAT*: what is read is what was written; chains are whole, names unique.
- *Layers*: the screen shows the layers on each other, the active window on top.
- *Terminals*: Enter executes the line that is seen; a pipe is a byte stream and comes to its end.

The list `hazards` in PROJECT.json names each place where one of these could break, with the
properties that watch it.

## Modules and their correspondence to the code

MC modules only name instances; modules named `...Proofs` hold theorems and lemmas and no
part of the model. A definition whose name has a suffix after `_` (`Expired_Strict`) and
a comment "Mutant" is a faulty variant; PROJECT.json says which property must notice it, and no
specification uses it. A history variable says so where it is declared. Abstract specifications are
AddressSpace, AppCalls, ByteStream, CommandLine and FileSystem.

### Tasks, messages and interrupts

**RunQueues** has no state: it defines the private half of class TaskManager (`Erase`,
`RotateCurrentRunQueue`, `ChangeLevelRunning`, `Wakeup`, `Sleep`) as operators on a record, and what
the code relies on as `WellFormed`, conjunct by conjunct. TaskManager and Kernel both use it. The
downward loop of the rescan is "the highest level that has a task".

**TaskManager** adds the tasks, mailboxes and the exit-code protocol. One action is one public call
run to its end, by the current task or by a handler. `WaitFinish` sleeps in its loop, so it is two
actions; `inWait` is "inside the call". `Finish` is a whole handler: dequeue, destroy, keep the code,
wake the waiter *after* the next task was chosen. `SleepTask` may hit another task (a `noterm` command
that reads the keyboard of its terminal does that).

**Kernel** drops to the granularity at which interrupts come in. A task's `pc` walks the loops of
`main.cpp` and `terminal.cpp`; `iflag` and `savedIF` are RFLAGS.IF, saved and loaded where contexts are
switched; the xHC's IPE and EHB bits and the pending interrupt are variables. A `cli` ... call ... `sti`
is one action. Two pushes are made with interrupts on and are two actions each. The keyboard
observer's `push_back` (`keyboard.cpp:56`) is `BeginPush` and `CommitPush`: if a handler pushed between
them the deque is torn, the key is overwritten and the size covers a slot that was not written (`Stale`).
A terminal's AddTimer (`terminal.cpp:725`) is `Start` or `Rearm` with `EndAddTimer`: a tick that comes in
between pops from the heap or pushes the task timer into it, and timers may then be gone or be there twice: from then on
any tick may find any cursor's timer there, or none (`TimerExpires`). The main task sets its own under `cli` (`HandleTimeout`). The history variables `torn` and `heapTorn` record the two; `NothingLost` says of each part what
holds except where it is set.

**SystemCall** is the processor: `CallApp` and `ExitApp`, `SyscallEntry`, the switch of contexts by
Sleep and by the timer, handlers and faults, over stacks whose places hold frames. Each task has a
stack of the kernel and one of the application; RSP0 (`InitializeTSS`) and the timer's IST are shared by
all. An interrupt overwrites what lies beyond the stack pointer (`Garbage`); the GDT, the gates and the
attributes decide the mode a handler runs in. `sti` in the middle of a fault handler on the shared
RSP0 stack (`interrupt.cpp:75`) and the part of a system call that is still on the application's stack
(`asmfunc.asm:292-307`) are steps of their own. **AppCalls** is what a terminal and its application see:
`RunsAsCalled` is the refinement. The floating-point registers, fs and gs and the page tables freed at
exit are out.

### The clock

**Acpi** is `acpi.cpp` with `InitializeLAPICTimer`: the firmware's tables with their checksums, the two
polling loops of `WaitMilliseconds`, the calibration. The PM timer moves by one to `MaxPoll` between two
reads. `TickIsCentisecond` has one excuse, `MayBeMissed`: if the end of the wait lies within a read of the
place where the timer begins again, the loop may see no value between them and waits another round: the
tick is then too long. **TimerManager** is the rest of `timer.cpp` with its callers: the task timer, the cursor
that re-arms itself, applications that call CreateTimer in both modes (clock read and push are two
actions) and that leave timers behind. The heap is a set; equal timeouts pop in any order (`PopOrders`).
**Clock** composes the two: what was measured is forgotten when the ticks start.

### Memory

**Loader** is `MikanLoaderPkg/Main.c` from the memory map to the entry of the kernel: the kernel file and
the segments of `CopyLoadSegments` in frames, the volume image, the first `ExitBootServices` that the
firmware refuses because frames were allocated after the map was read, the second map. The firmware may
take memory for itself in between (`MaxChanges`), but not once the boot services have ended. The map's buffer lies on the loader's stack.
**FrameAllocator** is `Allocate`/`Free` one bitmap access at a time, with the local variables of each
caller. **MemoryMap** composes: the map that Loader leaves, `InitializeMemoryManager` one descriptor per
step, `InitializeHeap`, then the callers. `SerialSpec` runs their calls one after the other; `Spec` lets
tasks be preempted inside.

**Paging** is `paging.cpp` and the program loader of `terminal.cpp`. A frame holds a page map and a page at once
(they are the same bytes); operators thread a record of the memory through `SetupPageMaps`,
`CopyPageMaps`, `CleanPageMaps`, so that an allocation may fail at any point. `LoadApp` and `LoadELF` are
two actions, since the file is read in between and another terminal may load the same program; each kind of
page fault is an action; a system call that writes to the application's buffer ignores the read-only
bit (`KernelWrite`: CR0.WP is clear). Frames that no page map refers to any more after an error of
`ExecuteFile`, or after two terminals loaded one program, are in `orphans`; programs into whose shared
pages the kernel wrote, in `spoilt`. **AddressSpace** is the abstract specification, a memory per
running program; `IsAddressSpace` is the refinement, in which faults, copies and sharing stutter.

### USB

**TrbRing** has a ring of TRBs with both sides' cycle bits (`ring.cpp`). **PortConfig** is the phase
machine of `usb/xhci/xhci.cpp` over a command and an event ring: each `OnEvent` with the functions it calls is
one action on the event at the front. What is connected when the controller starts has raised its event before, in any order
(`Connected`). Rings have 32 places in the code (`xhci.cpp:401`), and neither side looks for room: `PortConfigAssumption` says how
much the proof needs. The controller (commands in order, change bits that raise one event
until cleared) and the user who plugs devices are external. **Pci** is the scan of the buses, the choice of
the controller and its MSI capability, as operators on a configuration space. **XhcBoot** is
`xhci::Initialize` and `Controller::Initialize` step by step: ownership from the firmware, halt, reset, and
every register that is written, with what it holds; a register written before the reset has ended is
forgotten. **UsbMemory** is the pool of `memory.cpp`. **UsbDevice** has the driver's side of a device as operators on
a record: phases 1 to 4, control and interrupt transfers with the setup-stage map and the event
waiters, class drivers, input contexts with packet sizes and intervals by the speed of the port. **Usb**
composes them; in the place of PortConfig's one step `Transfer` the controller executes the transfer rings TRB
by TRB when their doorbell is rung, and a device answers only at an endpoint that is described as it is.

### Files, windows, terminals

**Fat** is `fat.cpp`, the redirection of `terminal.cpp`, `OpenFile`, `ReadFile`, `MapFile` and `PutString`, and `cat` and `ls`: clusters,
chains, directory entries with names of 8+3, descriptors with their own place in a chain. `SetFileName` cuts a name to the
fields of an entry and `NameIsEqual` compares it as it was typed, so a name that does not fit is not found again: it is made as often as it is opened,
and may be cut to a name that exists. `misnamed` is the entries made so. The root directory may begin with a deleted entry, which CreateFile takes with the attribute and the first
cluster it had (`DeletedEntry`); if they are not those of an empty file the volume is `stale`. A mapping is fixed when MapFile is called, and `Load` looks at nothing else: a
file that was cut off since has a wrapped length, its chain is followed to the end, and behind it the kernel reads memory that is not there (`halted`).
**FileSystem** is the abstraction: `files` is bytes, `names` says which file a path leads to, `places` where a descriptor
is. It is as weak as the code: a descriptor that was overtaken by a write that cut its file off is `astray`, as is a mapping
that is longer than its file, and may get any bytes; a file whose name does not fit is in `misnamed`, and nothing is promised of a volume that is
`spoilt`, that is, stale. `IsFileSystem` is the refinement.

**Layers** composes the screen pixel by pixel on a tiny one: each operation of LayerManager redraws what the
code redraws, so that a wrong area is seen. ActiveLayer and Mouse are with it, a mouse event in one action, as the main
task is above all others. `CloseLayer` and `CloseWindow` look up with interrupts on and remove later:
two actions. A terminal opens its window in one action only if nobody comes in: the first thing it prints ends with
`sti` (`terminal.cpp:653`), so Move and Activate (`terminal.cpp:704-706`) run with interrupts on. `PlaceTerminal`, `NameTerminal`
and `ShowTerminal` are the parts of an opening that is interrupted, with the mouse and the other tasks between them;
`interrupted` says that this has happened. Activate then goes on with `active_layer_` as the mouse has left it, and if that is 0, follows the null
pointer that FindLayer gives (`layer.cpp:246`). `told` is what a terminal takes its window for after the last kWindowActive it has read. While it runs a command
(`commands`), the command reads its mailbox, or a pipeline has put the subtask into `layer_task_map` (`terminal.cpp:415`), and none of them heeds the
message: the terminal is then "unsure".

**Pipe** is `PipeDescriptor` and the part of `ExecuteLine` and `TaskTerminal` that makes, routes, closes and
ends a pipeline. A `Write` of any length is one `SendPiece` per message; `Read` is split where it waits.
Keys and pieces share the mailbox. A message to the destroyed subtask, undefined in the code, is recorded in
`stray`. **ByteStream** is the abstract specification, `IsByteStream` the refinement. **Terminal** extends Pipe with
`InputKey`, history, `Print` and `Scroll1` cell by cell, and the commands: a word takes one cell, "code" is `echo $?`, "none" a
command that does not exist. **CommandLine** is what the user thinks a line is; `IsCommandLine` is the refinement: the
line that is executed is the one that stands on the screen.

## Runs

| Run | Instance | Distinct states | Shows |
|---|---|---|---|
| `task_manager` | 4 tasks, 3 levels, a mailbox of 1, all wake levels | 37,216 | run queues well formed; no pointer to a dead task; waiter and exit code meet in any order; the highest level gets the processor; round robin reaches everyone and WaitFinish returns |
| `kernel` | main, idle, a terminal, 2 keys, 2 cursor expiries | 280,422 | no lost wake-up; no key or cursor timer lost but by the two unprotected pushes; idle is interruptible; every key takes effect |
| `timer_manager` | seven firmwares, a PM timer of 8 or 16 counts; then 2 applications, period 2, 5 ticks, 5 timers | 3,482,440 | a tick is what it should be; timers expire once and on time; the cursor keeps its rhythm |
| `system_calls` | 2 terminals, 2 applications each, 1 system call each | 148,551 | SystemCall implements AppCalls; everybody runs in the mode that is his |
| `memory` | every map of 9 frames with two runs of types, 2 callers, regions of 1 to 3 | 277,632 | only what firmware and loader left is handed out; regions exclusive, bitmap true, first fit |
| `port_config` | 3 ports, any connected at boot, 2 plug events | 424,741 | one port addressed at a time, each with its slot; until a plug is touched every device ends up configured |
| `port_config_unplug` | 3 ports, 1 plug event | - | **violated**: `WaitingPortServed` (see Findings) |
| `usb` | three machines, a keyboard and a mouse, rings of 4, 6 and 8, 2 inputs, 1 failure | 362,962 | the right controller, set up with its own tables; events find their requests; blocks of the pool apart; every device works |
| `paging` | 2 terminals, 1 program of 2 pages, 2 runs, 2 events, 2-level maps of 3 entries, 13 frames | 47,648 | Paging implements AddressSpace; every frame has one owner and none is lost, but by errors and doubled loading |
| `terminal` | a screen of 2 by 4, lines of 5, 2 lines of history; messages of 2 bytes, writes and reads of 1 and 3 | 1,250,518 | Terminal implements CommandLine, Pipe implements ByteStream; nobody writes to a reader that has read to the end; the pipeline ends |
| `fat` | 8 clusters of two bytes or two entries, 2 descriptors, 5 paths, one of them too long, 3 kinds of deleted entry; nothing is written behind the second byte | 80,536 | Fat implements FileSystem; chains whole unless a deleted entry's was inherited; one entry per name but for names that were cut |
| `layers` | a screen of 3 by 2, the kernel's window, an application's, a terminal's | 500,897 | the screen is the composition of the layers; the active window is on top and a terminal that got its messages knows it; a dragged window stays in the hand; null pointers are followed in two places only |

Each bound is a constant marked "bound" in its module. Why they are enough:

- *Tasks*: four give a waiter, its subtask, a bystander at the same level and the idle task; three levels give
  one above, at and below the current one, all that `ChangeLevelRunning` distinguishes. Two keys have an order;
  the expiries make a torn push with a message of another kind in the deque. Ids are never reused.
- *Clock*: the PM timer may stand anywhere in its round; with `MaxPoll` 2, waits that wrap, that do not and that
  end within a read of the wrap all occur, for a narrow and a wide timer. Two of the firmwares are in order; five
  have a wrong signature, revision or checksum, or no FADT, and the kernel stops. Two applications, one tick of delay
  more than a period and an absolute time in the past make several timers due in one tick and a push behind the clock.
- *Calls*: two terminals make every shared stack used by two; two applications in turn make a second one run on what the
  first left; one call per application may sleep, end or be interrupted at every instruction that matters.
- *Memory*: two runs of types leave holes at either end and in the middle; the kernel has a part that is not in the
  file; the firmware takes one frame at a time the loader does not expect. Regions of three sizes fit before, behind and nowhere.
- *Ports*: one addressed, two waiting, so that the choice of the next one is seen. *USB*: the rings wrap during
  initialization; the keyboard has an interface nobody knows and two endpoints, at low speed, the mouse a further
  interface, at high speed; one machine has two controllers, 64-bit addresses and the one of Intel behind a bridge, one
  a host bridge of two functions and no MSI, one no controller.
- *Paging*: two pages tell copying one from copying all; maps of three entries put the program and the stack into
  different page tables, and a file beside either; thirteen frames serve two runs that touch little, and run out at any other point.
- *Fat*: files of more than one cluster, directories that must grow, a file in a directory; names that are padded, and one
  that is cut to another which is used as well; a deleted entry that was empty, one of a file whose cluster is free, one of a
  long name; pages of a mapping that end within a cluster and go over into the next.
- *Layers*: windows of two rows overlap each other, the edges and the cursor; the mouse comes in at both places of an
  interrupted opening, with another window active, none, or one that is dragged or closed. *Terminal*: a screen that scrolls after
  two lines, a line that is longer than the screen is wide, a history that is full after two lines; one pipeline per behaviour.

Deadlock checking is off where a cap ends every behaviour (timers, memory, ports, USB, paging, layers,
terminal) and where the kernel stops after a fault of its own (`system_calls`).

Fairness, and why the code justifies it:

- `SwitchTask` weakly fair: the task timer re-arms itself in `Tick` and the LAPIC timer is periodic. In Kernel it is
  strongly fair, as a task turns interrupts off again and again, each time for a few instructions only; and only while the heap
  of timers is whole, since a torn one may have lost the task timer (`KeysTakeEffect` promises nothing then).
- A step of a task strongly fair: a slice is 20 ms, so a task that gets the processor again and again executes
  something; `WaitFinishReturns` likewise.
- `RaiseInterrupt` weakly, `IntHandlerXHCI` strongly fair: a pending interrupt is taken at the next instruction with IF set.
- PortConfig: the main task processes events (which Kernel shows), the controller completes commands and transfers.
  Nobody is forced to press, plug or create anything.
- Terminal: both tasks are scheduled and the first command ends; the second one reads on until the end and finishes
  after it. It is never forced to leave earlier, nor kept from it; once it has turned to its own events, nothing is promised.

What the liveness and refinement properties excuse: `EveryoneRuns` and `WaitFinishEnds` a task outranked for ever, and
levels that never stop changing (`LevelsKeepChanging`): priorities are strict and the code has no aging. `PipelineEnds` a command that reads
keys nobody types, which the pipeline has routed to the subtask (`Starved`). `IsCommandLine` a row that somebody else has printed on ("ragged").
`ScreenIsComposition` and `ActiveOnTop` excuse what follows an interruption of a terminal that opens its window (`interrupted`), since the code
promises nothing of it: the windows may lie above the cursor, and two may look active. `VolumeOK` excuses the chains of a stale volume. `IsAddressSpace`
says nothing of a program into whose shared pages the kernel wrote (`spoilt`). In Acpi and TimerManager the timeouts of a
cursor are a set: that one comes late or is lost is seen, that the same comes twice is not.
`EveryDeviceWorks` is a safety property: when nothing is under way, the port of every device is configured and what was done with it has been
told; a device whose transfer has failed is given up.

## Findings

`port_config_unplug`: only the completion of Address Device frees `addressing_port`. A device pulled out during its own
reset or address leaves every `kWaitingAddressed` port waiting for ever; and when the first waiting port has lost its
device, the `break` of `xhci.cpp:264` gives the turn to nobody. The comment at `xhci.cpp:37` says that state waits for its turn.

Behaviour of the code that no line of the repository contradicts, and that the modules have as it is:

- `Allocate` tests the bits, then sets them (`memory_manager.cpp:18`), and no caller turns interrupts off: two tasks may be given the same
  frame. FrameAllocator's `Spec` has this race; the run takes `SerialSpec` to check the rest.
- The keyboard observer's unprotected push (`keyboard.cpp:56`), the one of the mouse, and that of `add_blink_timer` (`terminal.cpp:725`), which
  may lose the task timer: no task is then preempted any more.
- A terminal activates its first window with interrupts on (`terminal.cpp:706`). A click in the middle of Activate leaves a window above
  the cursor or makes the kernel follow a null pointer (`layer.cpp:246`).
- A terminal misses the kWindowActive that comes while it runs a command or a pipeline (`terminal.cpp:415`, `797`), and blinks, or not, until the next one.
- A name longer than 8+3 is stored cut and compared uncut (`fat.cpp:192`, `118`): `> longfilename` makes a file each time. CreateFile takes deleted
  entries with their attribute and first cluster (`fat.cpp:237`). Read and Load subtract an offset from a size that may have become smaller (`fat.cpp:248`).
- `CopyPageMaps` returns after the first present entry of every upper level (`paging.cpp:223`): `apps/large/large.cpp`, with 3 MiB of
  data, is not mapped whole. The programs of Paging have one page table.
- `FileDescriptor::Write` limits a piece by `len`, not by what is left of it (`fat.cpp:314`), and writes through a descriptor
  of a directory; `ExtendCluster` has no end of the table (`fat.cpp:159`). Fat has writes of at most a cluster, to files, on a volume with space.
- `ls` without an argument reads through a null pointer (`terminal.cpp:444`); `ConvertUTF8To32` gives 0 bytes for a
  byte that begins nothing, and `Print` then loops for ever ("stuck"); redirection is parsed before the pipe, so `a > f | b` creates
  a file of that name; a redirection that fails leaves the last exit code as it was.
- The drag of a window that is closed meanwhile follows a null pointer (`mouse.cpp:162`); a window that moves between look-up and removal
  leaves its picture behind (`ghosts`); `Draw` of a layer that is not on the stack copies an uninitialised rectangle; `OpenWindow` activates
  before its task is entered in `layer_task_map` (`syscall.cpp:80`), so the first activation is told to nobody.
- `ConfigureMSI`'s error is ignored: a controller with MSI-X alone is started and never heard. Rings are never checked for room, and null
  blocks of the pool not looked at. Control pipes of full-speed devices are always given packets of 8.
- An application takes the blink timers of its terminal out of the mailbox, and leaves its own behind (`syscall.cpp:269`).

## Proofs

Each theorem holds for every value of the constants that the named assumptions allow. The argument is the same everywhere: an
inductive invariant (`IInv`, `BootInv`, `CallInv`, `AcpiInv`) of named conjuncts, a lemma for the initial states, a lemma per
action, and the property as a consequence. What follows is what had to be added to each property, and why.

Induction over numbers is stated as a lemma about sets of numbers (`SetInduction`), since an operator cannot be a parameter of a
lemma here; least and greatest members follow from it. Each module that needs them has these few lemmas of its own.

**RunQueuesProofs** has the lemmas about the operators of RunQueues, for every number of tasks and levels: how
`Erase`, `Append`, `Tail` change who is in a queue, and that rotation, `Sleep`, `Wakeup` and `Retire` keep
`WellFormed`. Assumptions: `RunQueuesAssumption` (at least two tasks and one level above the lowest; the default level is a level).

**TaskManagerProofs** proves `TypeOK`, `RunQueuesOK`, `NoDanglingTask`, `WaiterNotLost`, `ExitCodeKept` and the action
property `SwitchesToHighest`. Of the invariants only `RunQueuesOK` is inductive. `IInv` adds

- `Alive`: who is runnable exists (otherwise Wakeup could queue a dead task);
- `Parents`: a subtask has one parent, younger ids are unused, whoever is inside WaitFinish has a subtask;
- `Registered`: an entry of `finish_waiter_` names a living subtask and exactly the parent that waits for it. This is what makes
  Finish wake the right task, and nobody dead;
- `Unborn`: ids above `latest_id_` have left no trace, so a new id brings no old exit code along.

The lemmas of actions that only touch the scheduler share `SchedulingStep` and `WakingStep`. `TaskManagerAssumption` is used for
"no exit code is `NoCode`" and "wake levels are levels". `SwitchesToHighest` needs `WellFormed` before and after the step: a
task above the current level that is not queued, or a rescan that was not requested, would break it.

**KernelProofs** proves the type invariant, `NoLostWakeup`, `IdleInterruptible` and `NothingLost`.

- `Discipline` is the protocol of `cli`, test, `Sleep`, `sti`: IF, in the processor for the current task and in the saved
  context of every other, is off exactly in the critical part of the loop (`FlagsFollow`); nobody is preempted between
  its test and its Sleep (`NotPreempted`), so what it found still holds (`FoundNone`), and who is asleep has nothing to
  read (`Asleep`). The idle task stays where it halts (`IdleHalts`), since nobody sends it a message.
- `Kept` is `torn`, or `KeysInv` and `TimersInv`, the latter as long as the heap is not torn. A key has passed through the event ring, the observer's push, the mailbox and the hands of the
  main task, and those of a terminal, before it is shown; `Before` orders two keys that the same task has, and `KeysInv` says that
  every key pressed is on this way, with one task, and in the order of pressing: within a task, between the ring and the tasks, between a terminal and
  what the main task has still to forward. `TimersInv` says that the cursor timer of a task is armed, or is a message, or is
  in hand, and only one of these, or that the task is on its way to arm it (`Unarmed`).
- The scheduler after boot is a recursive function of the number of terminals. `WokenDefined` shows by `SetInduction` that it exists,
  and `AfterBootFacts` that it is well formed.

**MemoryMapProofs** proves `FreeIsAvailable` for the whole of Spec, and `Exclusive`, `BitmapTrue` and `FirstFit` for `SerialSpec`
(with calls that interleave they are false, see Findings).

- `BootInv`: the loader's map says of every frame what the firmware says of it, unless the firmware took the frame since
  (`MapKnown`); the kernel's file, its segments and the volume lie apart in memory of the loader's (`Apart`) and hold what was read
  (`Written`); descriptors come in the order of their frames (`InOrder`), so that what `InitializeMemoryManager` has marked,
  gaps between descriptors included, is what is not available below the descriptor it looks at (`Scanned`). The map is made by rank, the n-th
  beginning of a run being its n-th descriptor (`MapDescribes`).
- `CallInv`: one caller is inside at a time (`OneCall`), and the bitmap is the frames in use but for what this caller has
  marked or cleared so far (`Scans`, `Marks`, `Frees`), in a region that nobody else has (`Secured`).

Assumptions: sizes are positive, and a segment is not longer in the file than in memory, as in every ELF file.

**ProgramProofs** is about what programs rely on. For SystemCall it proves `InItsMode` and the refinement `RunsAsCalled`: SystemCall
implements AppCalls. For Terminal, which contains Pipe, it proves `StrayOnlyIfLeftEarly` and the refinement `IsByteStream`: Pipe implements
ByteStream, whatever the sizes of messages, writes and reads.

- `Left(t)` says which frames task `t` has left on its two stacks, by what it is doing: the place at the bottom of its own stack is
  where ExitApp returns, the one above is the application's frame while a call is served there, and so on. `Runs(t)` says
  what its registers are, in the processor, in its saved context or in the frame that a handler has pushed for it (`Proc(t)`); `IdleRuns` the
  same of the idle task. Garbage is written beyond the stack pointer, on the stack that the gate names, and so never on what
  `Left` speaks of; this is where the IST of the timer is needed.
- A switch of contexts and an interrupt change no task's `Proc` (`Unnoticed`, `Kept`), and so keep the invariant and stutter in AppCalls. Each
  of the others is proved to be the action of AppCalls it is named after, or unseen.
- `PipeInv`: the writer's message of length 0 is in the mailbox only when its Write loop is over and it waits for the subtask, and nothing
  of the pipe lies behind it (`Ordered`); so `closed_` means that nothing more comes and `data_` is empty, a Read that has returned 0 came after
  the end, and whoever is missed by `Send` had left before it (`Ending`). Keys are in the same mailbox and carry no bytes.
- What is on the way is `buffer \o Held(mailbox)`, the messages' bytes behind each other. Sending appends (`FlattenAppend`), receiving takes from
  the front (`FlattenHead`), skipping a key takes nothing; what a Read hands over and what it keeps make up the piece (`GetFront`). `FlattenSeq` is a
  recursive function; `JoinExists` and `JoinsAgree` show with `SetInduction`, an induction over the set of lengths, that it
  exists and that sequences with a common front have a common beginning.
- Everything else that a terminal does is a stutter of its pipe (`TerminalIsPipe`). `PipeAssumption` is all that is assumed: sizes are positive.

**ClockProofs** proves `ExpiresOnceOnTime`, `CursorKeepsRhythm` and `TickIsCentisecond`.

- `IInv`: serial numbers tell timers apart (`Serials`); no timer that is due waits, except those pushed since with a time that had passed (`Times`);
  there is one task timer, made at the last switch and a period ahead of it (`Switching`); other timers of the main task are its cursor's (`Owners`);
  a message comes from a timer of its task that has expired, and those of one tick are in the order of their times (`Mailboxes`,
  `InOrder`). With `Owners`, `CursorKeepsRhythm` is inductive. `Popped` is about `Tick`: every order in which the heap may
  give what is due is a sequence of exactly these.
- `AcpiInv`: the loops are `e` ticks of the PM timer after the first read, the present is at most `MaxPoll` further (`Loops`),
  and what the timer shows then is known for two rounds (`Shows`). The attempt to prove it showed what is needed of
  the hardware, `AcpiAssumption`: a read is short against what is left of a round after a wait, and against half a round
  (`MaxPoll <= Narrow - WaitTicks`, `2 * MaxPoll <= Narrow`). 0.1 s is 357,954 of 2^24 ticks, so this allows
  reads of seconds. `FirmwareAssumption`: a table that is sound tells the true width of the timer.

**XhcProofs** proves `AddressedInTurn` for PortConfig, and that neither ring is ever overrun; for Usb, whose driver is the same, it proves
`PoolOK`, and of `RunsAsSetUp` all but the last conjunct (`RunsOnItsTables`) without, and the whole with, the hypothesis `[]FindsTheController`.

- A ring: the cycle bits say for each place whether it lies between the reader and the writer (`Sound`), and so what is waiting
  (`Ahead`, `Waiting`, `Once`). `PushPuts`, `PopTakes` and their kind are the same for both rings, link TRB or segment end.
- Jobs are the commands not completed and the completions not processed. A port has at most one, of the kind its phase is
  about (`Agreed`, `Apart`); only one port is in the phases between reset and address (`OneAddressing`); a port past Enable Slot has one slot, no
  slot two ports (`SlotsOK`); until the first reset there is at most one event per port (`QuietOK`).
- The driver never looks for room. There are at most `NumPorts` jobs and `SpareForFew` (a pigeonhole argument) gives room for one more
  in a command ring of more places than that; the controller looks for room in the event ring (`Room`), except at boot, where
  the reset of the first port posts its event while those of all the ports may be waiting. TLC finds the overrun for an event ring of
  `NumPorts + 1`; hence `EventRing > NumPorts + 1` in `PortConfigAssumption`. The code has 32 places, and `Controller::MaxPorts`
  may be up to 255: that the hardware has few ports is assumed, not checked, by the driver.
- The pool: every block lies in front of `alloc_ptr` (`PoolSound`), wherever the pool begins. `AllocMem` keeps this for each size, alignment
  and boundary the driver uses (`PlaceFacts`: what it skips for a boundary is aligned as well, since boundaries are multiples of the
  alignments). `AllocAll` goes through a list; `AllocExists` and `AllocRuns` show by `SetInduction` that it is
  one `AllocMem` after the other. What is asked for is a list of such blocks whatever is plugged in, since a device keeps the endpoints
  of the interface that was chosen (`DeviceSound`), and numbers of endpoints are numbers (`UsbAssumption`).
- `BootInv`: until the registers are written they are as a reset leaves them, and from then on no reset is under way; nothing is
  allocated before the contexts, so their addresses are known (`Begun`), and the tables of the rings come last. Later blocks take nothing
  away (`StillLed`), and the scratchpads' entry 0 of the DCBAA is that of no slot. A scratchpad buffer may find no room
  without the kernel noticing, but their array does find it (`ScratchpadsFit`): their number is at most 1023, two fields of five bits
  (`BootAssumption`).
- `ReachInv`: what FindXhc does with the controller's address and MSI capability (`Configured`). That the controller is one of the
  functions that answer is `FindsTheController`, which only TLC checks, since the scan recurses over the bridges.

**LayersProofs** proves `ScreenIsComposition`, `ActiveOnTop`, `DragKeepsGrip` and `LostInTwoPlaces`, for every size of the screen, every set
of windows, all places where they open and all that the mouse may report. Assumptions: positions and displacements are pairs of integers and the screen is
not empty (`Geometry`); layers have ids of their own (`Distinct`).

- `IInv`: the stack has every living layer once, the background at its bottom and the cursor at its top (`Stacked`); who is alive is known
  from what was opened and closed (`Lifetimes`); the active window lies below the cursor and looks active, and no other does
  (`ActiveShown`); no terminal is wrong about it (`Informed`); nobody is in the middle of Activate (`Quiet`); a dragged window has the cursor in its title
  bar (`Gripped`), which survives the edges of the screen because the difference of *clamped* positions is what is dragged by.
  It ends where a terminal is interrupted; `Invariance` is `IInv \/ interrupted`.
- `LInv` is what remains then, and is proved without any excuse (`LooseInvariance`): the stack is a list of layers that were opened, of each
  at most one (`Loose`), wherever they lie; `Lifetimes` and `Gripped` as before. `DragKeepsGrip` follows from it.
- `Shown`: **both** buffers show at every pixel the topmost layer there (`Composed`). The back buffer must be in it, since
  `Draw` copies it: a picture that is stale there comes to the screen later, with the copy of a larger area. Only what the property excuses
  is excused, and in both buffers: the ink of a terminal's cursor at the one place where it blinks (`InkAt`; the pixel that is being drawn is redrawn whole
  by every other operation), the mouse before it was first moved, and the pictures of closed windows that had been moved between look-up and removal.
- `DrawAt`, `DrawLayerAt` say of the two drawing operations what a pixel shows after them: inside the area that is drawn, its top; outside, what it
  showed. An operation that changes the stack, a position or a look is then correct if the top of every pixel outside
  the area has not changed (`SameTop`, `OnlyDiffers`): `MoveComposed`, `ActivatedComposed`, `RemovedComposed`, `InkComposed`. What `Paint` leaves
  at a pixel is the last layer painted there, the greatest number of a finite set (`PaintAt`).

**Only model-checked**: all liveness (`EveryoneRuns`, `WaitFinishEnds`, `KeysTakeEffect`, `EveryDeviceConfigured`, `PipelineEnds`), since the prover has
neither fairness nor ENABLED; `FindsTheController`, `RequestsMatch` and `EveryDeviceWorks` of Usb; Paging, Fat and Terminal's line with the refinements of
AddressSpace, FileSystem and CommandLine. Pci, Paging, Fat and Terminal recurse or fold over
their data (page maps, chains, bytes, cells), and what a recursive definition computes for every input cannot be proved
here: the library's induction takes an operator as parameter, which none of the provers can instantiate. `SetInduction` replaces
it where the statement is about one number, as in `WokenDefined`, or about the lengths of a sequence, as in `JoinExists` and `AllocExists`. The prover does not know `@@` and `:>`, so
records are joined with `Members` in UsbDevice, and `WriteMSICapability` of Pci uses EXCEPT.

## What is left

In the order of importance:

1. Proofs: `RequestsMatch` of Usb, `IsCommandLine` of Terminal.
2. The blink timers of a terminal that runs applications; the heap of TimerManager as an array, of which Kernel has what a torn one may lose.
3. Pipelines of three commands and `noterm`, whose terminals have no window (`window_` is null there, `layer_id_` never set).

## Not modelled

- Data: the shapes of characters, colours, the console and the log; modifier keys and mouse buttons are carried with the keys and
  movements; the contents of messages to windows other than activation; the drawing calls of applications.
- Hardware detail: `msr.hpp` (numbers), the kernel's identity map, floating-point registers, fs and gs, addresses above 4 GiB
  in the MSI registers (left as the firmware had them), bits of controller registers the driver only keeps.
- Environment that is assumed: descriptors of USB devices are complete (`DescriptorDynamicCast` of a null pointer otherwise); a
  keyboard with too many keys down reports ErrorRollOver, which the driver takes for a key, and no such report is in Usb; the
  semaphore of the xHC's ownership is clear at first. `cat` is modelled for files that are named by their path only.
- The memory of the C++ heap and of stacks as bytes (`Finish` frees the stack it runs on, `task.cpp:229`; `sbrk` has no lock), torn pushes to
  `running_` and `tasks_` (`mouse.cpp:76`, `main.cpp:216`).
- Names longer than 12 characters, for which `FindFile` has no room (`path_elem`); deleted entries in directories other than the root; what a
  stale volume does to files.
- Two tasks inside one operation of the vectors of LayerManager: an interrupted terminal is interrupted between operations. The close button of an
  application that has ended without closing its window, which asks the terminal's task to close.
- Plugging while the USB devices are initialized: Usb has what is there at boot, PortConfig the plugs. The two together exceed what TLC can
  enumerate.
- Newlib's glue, `stb_image.h` and the applications are outside the kernel.
