----------------------------- MODULE SystemCall -----------------------------
(***************************************************************************)
(* How the processor goes between terminals, applications and the kernel    *)
(* (asmfunc.asm, interrupt.cpp, segment.cpp, syscall.cpp): CallApp and      *)
(* ExitApp, SyscallEntry, the switch of contexts by Sleep and by the timer, *)
(* interrupts and faults, with the stacks and the segments each of them     *)
(* uses and the flag IF.                                                    *)
(*                                                                          *)
(* A task has a stack of the kernel and, while an application runs in it, a *)
(* stack of the application.  Two stacks are shared by all tasks: the one   *)
(* the TSS names for interrupts of applications (RSP0) and the one of the   *)
(* timer (IST).  A place of a stack holds a frame: what somebody pushed and *)
(* wants to pop.  An interrupt overwrites what is beyond the stack pointer. *)
(***************************************************************************)
EXTENDS Integers, Sequences

CONSTANTS Shells,   \* the tasks that call applications
          Codes,    \* the codes applications end with
          MaxCalls, \* bound: system calls of one application
          MaxApps   \* bound: applications a terminal calls

ASSUME SystemCallAssumption ==
  /\ Shells \subseteq Nat \ {0} /\ Codes \subseteq Nat
  /\ MaxCalls \in Nat /\ MaxApps \in Nat

Idle  == 0
Tasks == {Idle} \cup Shells

VARIABLES
  cur,     \* the task that has the processor
  cpu,     \* the processor
  ctx,     \* Task::context_
  osptr,   \* Task::os_stack_ptr_: a stack and a depth
  mem,     \* mem[s][d]: the frame at depth d of stack s
  asleep,  \* the tasks that sleep
  halted,  \* a fault of the kernel itself has stopped it
  asked,   \* history: the code an application has asked to end with
  codes    \* what CallApp has returned

vars == <<cur, cpu, ctx, osptr, mem, asleep, halted, asked, codes>>

OSStack(t)   == <<"os", t>>
UserStack(t) == <<"user", t>>
Rsp0 == <<"rsp0", 0>>   \* TSS, set by InitializeTSS
Ist  == <<"ist", 0>>

Stacks == {Rsp0, Ist} \cup {OSStack(t) : t \in Tasks} \cup {UserStack(t) : t \in Tasks}

-----------------------------------------------------------------------------
(* Segments.  A selector is 8 times the index of a descriptor, plus the     *)
(* privilege level that asks for it.                                        *)

\* What a descriptor says: a segment of the system (the TSS) or not, 64-bit code or not, its level.
SegmentDescriptor(system, type, long_mode, dpl) ==
  [system |-> system, type |-> type, long_mode |-> long_mode, dpl |-> dpl]

CodeSegment(dpl)   == SegmentDescriptor(FALSE, "ExecuteRead", TRUE, dpl)
DataSegment(dpl)   == [CodeSegment(dpl) EXCEPT !.type = "ReadWrite", !.long_mode = FALSE]
SystemSegment(dpl) == [CodeSegment(dpl) EXCEPT !.type = "TSSAvailable", !.long_mode = FALSE,
                                               !.system = TRUE]

gdt == <<CodeSegment(0), DataSegment(0), DataSegment(3), CodeSegment(3), SystemSegment(0)>>

KernelCS == 8
KernelSS == 16

Ring(c) == c.cs % 4

\* The attribute of a gate; an interrupt gate switches interrupts off.
MakeIDTAttr(type, interrupt_stack_table) ==
  [type |-> type, interrupt_stack_table |-> interrupt_stack_table]

\* An entry of the IDT: the code segment its handler runs in.
IDTEntry(attr, segment_selector) == [attr |-> attr, segment_selector |-> segment_selector]

\* InitializeInterrupt: the xHC, the timer, the faults.
idt ==
  [xhci       |-> IDTEntry(MakeIDTAttr("InterruptGate", 0), KernelCS),
   lapicTimer |-> IDTEntry(MakeIDTAttr("InterruptGate", 1), KernelCS),
   fault      |-> IDTEntry(MakeIDTAttr("InterruptGate", 0), KernelCS)]

\* InitializeTSS: the stack for whoever comes from an application, and those of the table.
tss == [rsp |-> <<Rsp0>>, ist |-> <<Ist>>]

\* Where the processor pushes: on a stack of the TSS, or where it was, in the kernel.
InterruptStack(gate, c) ==
  IF gate.attr.interrupt_stack_table # 0 THEN <<tss.ist[gate.attr.interrupt_stack_table], 0>>
  ELSE IF Ring(c) = 3 THEN <<tss.rsp[1], 0>>
  ELSE <<c.stack, c.depth>>

\* What the instructions load, from the register STAR: bases 8, and 16 with level 3.
Star == [syscall |-> 8, sysret |-> 16 + 3]

-----------------------------------------------------------------------------
(***************************************************************************)
(* The processor: where it is (pc), its segments, its stack pointer (stack  *)
(* and depth), IF, whose page map CR3 names (0 for the kernel's), and its   *)
(* other registers: regs is what a terminal or an application counts in     *)
(* them, arg and code are what the kernel passes on in RAX/RDI and EDX/ESI. *)
(* A context is the same record.                                            *)
(***************************************************************************)
TaskContext(pc, cs, ss, stack) ==
  [pc |-> pc, cs |-> cs, ss |-> ss, stack |-> stack, depth |-> 0,
   iflag |-> TRUE, cr3 |-> 0, regs |-> 0, arg |-> <<stack, 0>>, code |-> 0]

InitContext(t) ==
  TaskContext(IF t = Idle THEN "idle" ELSE "shell", KernelCS, KernelSS, OSStack(t))

\* What is found where nobody has pushed, or where an interrupt has pushed since.
Garbage == [InitContext(Idle) EXCEPT !.pc = "lost", !.regs = -1]

Init ==
  /\ cur = Idle
  /\ ctx = [t \in Tasks |-> InitContext(t)]
  /\ cpu = InitContext(Idle)
  /\ osptr = [t \in Tasks |-> <<OSStack(t), 0>>]
  /\ mem = [s \in Stacks |-> [d \in 1..3 |-> Garbage]]
  /\ asleep = {}
  /\ halted = FALSE
  /\ asked = [t \in Shells |-> 0]
  /\ codes = [t \in Shells |-> <<>>]

At(pc) == ~halted /\ cpu.pc = pc

\* A frame is pushed on a stack that has d already; the one at the top of the stack.
Pushed(s, d, frame) == mem' = [mem EXCEPT ![s][d + 1] = frame]
Popped              == mem[cpu.stack][cpu.depth]

\* The stack pointer is set.
OnStack(c, pointer) == [c EXCEPT !.stack = pointer[1], !.depth = pointer[2]]

-----------------------------------------------------------------------------
(* Applications begin and end.                                              *)

\* CallApp, with the page map LoadApp has made: the callee-saved registers are pushed.
CallApp ==
  /\ At("shell") /\ cpu.regs < MaxApps
  /\ Pushed(cpu.stack, cpu.depth, cpu)
  /\ osptr' = [osptr EXCEPT ![cur] = <<cpu.stack, cpu.depth + 1>>]
  /\ cpu' = [cpu EXCEPT !.pc = "app", !.cs = 32 + 3, !.ss = 24 + 3, !.regs = 0, !.cr3 = cur,
                        !.stack = UserStack(cur), !.depth = 0]
  /\ UNCHANGED <<cur, ctx, asleep, halted, asked, codes>>

\* ExitApp: the stack of the terminal, its registers, and the code for it; FreePML4.
ExitApp ==
  /\ At("exit")
  /\ LET frame == mem[cpu.arg[1]][cpu.arg[2]]
     IN  cpu' = [frame EXCEPT !.cs = cpu.cs, !.ss = cpu.ss, !.iflag = cpu.iflag, !.regs = @ + 1]
  /\ codes' = [codes EXCEPT ![cur] = Append(@, cpu.code)]
  /\ asked' = [asked EXCEPT ![cur] = 0]
  /\ UNCHANGED <<cur, ctx, osptr, mem, asleep, halted>>

-----------------------------------------------------------------------------
(* System calls.                                                            *)

\* The syscall instruction and the first pushes of SyscallEntry, on the stack of the application.
SyscallEntry ==
  /\ At("app") /\ cpu.regs < MaxCalls
  /\ Pushed(cpu.stack, cpu.depth, cpu)
  /\ cpu' = [cpu EXCEPT !.pc = "entry", !.cs = Star.syscall, !.ss = Star.syscall + 8, !.depth = @ + 1]
  /\ UNCHANGED <<cur, ctx, osptr, asleep, halted, asked, codes>>

\* Mutant: one stack pointer for all tasks, that of the last CallApp.
OSStackPointer_Shared == osptr[CHOOSE t \in Shells : \A u \in Shells : osptr[u][2] <= osptr[t][2]]

\* GetCurrentTaskOSStackPointer, between cli and sti.
OSStackPointer == osptr[cur]

GetCurrentTaskOSStackPointer ==
  /\ At("entry")
  /\ cpu' = [cpu EXCEPT !.pc = "entered", !.arg = OSStackPointer]
  /\ UNCHANGED <<cur, ctx, osptr, mem, asleep, halted, asked, codes>>

\* The stack of the task, and the function of the table.
CallFunction ==
  /\ At("entered")
  /\ Pushed(cpu.arg[1], cpu.arg[2], cpu)
  /\ cpu' = [OnStack(cpu, cpu.arg) EXCEPT !.pc = "call", !.depth = @ + 1]
  /\ UNCHANGED <<cur, ctx, osptr, asleep, halted, asked, codes>>

\* The function returns; SyscallEntry goes back to the stack of the application.
Return ==
  /\ At("call")
  /\ cpu' = [Popped EXCEPT !.pc = IF @ = "entered" THEN "return" ELSE "lost"]
  /\ UNCHANGED <<cur, ctx, osptr, mem, asleep, halted, asked, codes>>

\* The pops and the sysret instruction.
SysRet ==
  /\ At("return")
  /\ cpu' = [Popped EXCEPT !.cs = Star.sysret + 16, !.ss = Star.sysret + 8, !.regs = @ + 1]
  /\ UNCHANGED <<cur, ctx, osptr, mem, asleep, halted, asked, codes>>

\* syscall::Exit, and the way out of SyscallEntry to ExitApp.
Exit ==
  /\ At("call")
  /\ \E c \in Codes :
       /\ asked' = [asked EXCEPT ![cur] = c]
       /\ cpu' = [Popped EXCEPT !.pc = "exit", !.arg = OSStackPointer, !.code = c]
  /\ UNCHANGED <<cur, ctx, osptr, mem, asleep, halted, codes>>

-----------------------------------------------------------------------------
(* Tasks are switched.                                                      *)

Ready == Tasks \ asleep

\* Mutant: the page map of the task is not loaded.
RestoreContext_SameMap(t) == cur' = t /\ cpu' = [ctx[t] EXCEPT !.cr3 = cpu.cr3]

RestoreContext(t) == cur' = t /\ cpu' = ctx[t]

\* A system call that waits (ReadEvent): interrupts off, Sleep, SwitchContext.
Sleep ==
  /\ At("call")
  /\ asleep' = asleep \cup {cur}
  /\ ctx' = [ctx EXCEPT ![cur] = [cpu EXCEPT !.pc = "woken", !.iflag = FALSE]]
  /\ \E t \in Ready \ {cur} : RestoreContext(t)
  /\ UNCHANGED <<osptr, mem, halted, asked, codes>>

\* Sleep has returned: sti.
Woken ==
  /\ At("woken")
  /\ cpu' = [cpu EXCEPT !.pc = "call", !.iflag = TRUE]
  /\ UNCHANGED <<cur, ctx, osptr, mem, asleep, halted, asked, codes>>

\* Some task of the kernel, for which Idle stands here, sends a message.
Wakeup ==
  /\ At("idle")
  /\ \E t \in asleep : asleep' = asleep \ {t}
  /\ UNCHANGED <<cur, cpu, ctx, osptr, mem, halted, asked, codes>>

\* IntHandlerLAPICTimer, on its own stack; SwitchTask copies the context it has built there.
IntHandlerLAPICTimer ==
  /\ ~halted /\ cpu.iflag
  /\ \E t \in Ready \ {cur} :
       /\ ctx' = [ctx EXCEPT ![cur] = cpu]
       /\ RestoreContext(t)
  /\ LET at == InterruptStack(idt.lapicTimer, cpu) IN Pushed(at[1], at[2], Garbage)
  /\ UNCHANGED <<osptr, asleep, halted, asked, codes>>

-----------------------------------------------------------------------------
(* Other interrupts and faults.                                             *)

\* IntHandlerXHCI, and a page fault of the kernel that HandlePageFault repairs.
Passes ==
  /\ ~halted /\ cpu.iflag
  /\ LET at == InterruptStack(idt.xhci, cpu) IN Pushed(at[1], at[2], Garbage)
  /\ UNCHANGED <<cur, cpu, ctx, osptr, asleep, halted, asked, codes>>

\* A fault of the application.
Fault ==
  /\ At("app")
  /\ LET at == InterruptStack(idt.fault, cpu)
     IN  /\ Pushed(at[1], at[2], cpu)
         /\ cpu' = [cpu EXCEPT !.pc = "fault", !.cs = idt.fault.segment_selector, !.ss = 0,
                               !.iflag = idt.fault.attr.type # "InterruptGate",
                               !.stack = at[1], !.depth = at[2] + 1]
  /\ UNCHANGED <<cur, ctx, osptr, asleep, halted, asked, codes>>

\* HandlePageFault could repair it.
Repaired ==
  /\ At("fault")
  /\ cpu' = Popped
  /\ UNCHANGED <<cur, ctx, osptr, mem, asleep, halted, asked, codes>>

\* KillApp: from here on, until ExitApp has changed the stack, others may use RSP0.
KillApp ==
  /\ At("fault")
  /\ asked' = [asked EXCEPT ![cur] = 128 + 11]
  /\ cpu' = [cpu EXCEPT !.pc = "exit", !.iflag = TRUE, !.arg = OSStackPointer, !.code = 128 + 11]
  /\ UNCHANGED <<cur, ctx, osptr, mem, asleep, halted, codes>>

\* A fault of the kernel, in a call that was given a bad pointer: everything stops.
KernelFault ==
  /\ At("call")
  /\ halted' = TRUE
  /\ cpu' = [cpu EXCEPT !.iflag = FALSE]
  /\ UNCHANGED <<cur, ctx, osptr, mem, asleep, asked, codes>>

Next ==
  \/ CallApp \/ ExitApp
  \/ SyscallEntry \/ GetCurrentTaskOSStackPointer \/ CallFunction \/ Return \/ SysRet \/ Exit
  \/ Sleep \/ Woken \/ Wakeup \/ IntHandlerLAPICTimer
  \/ Passes \/ Fault \/ Repaired \/ KillApp \/ KernelFault

Spec == Init /\ [][Next]_vars

-----------------------------------------------------------------------------
\* A task as the processor has it, or as it was saved.
Proc(t) == IF t = cur THEN cpu ELSE ctx[t]

(***************************************************************************)
(* Whoever runs, runs in its mode: an application with the segments of      *)
(* level 3, on its own stack, in its own memory and with interrupts on,     *)
(* the kernel with those of level 0.  Interrupts are off only in the        *)
(* handler of a fault and after a Sleep, for as long as it takes.           *)
(***************************************************************************)
InItsMode ==
  \A t \in Tasks :
    LET c    == Proc(t)
        ring == IF c.pc = "app" THEN 3 ELSE 0
    IN  /\ gdt[c.cs \div 8] = CodeSegment(ring) /\ Ring(c) = ring
        /\ \/ c.ss = 0 /\ ring = 0
           \/ gdt[c.ss \div 8] = DataSegment(ring) /\ c.ss % 4 = ring
        /\ c.pc = "app" => c.stack = UserStack(t)
        /\ c.stack = UserStack(t) => c.cr3 = t
        /\ c.iflag <=> (c.pc \notin {"fault", "woken"} /\ ~(halted /\ t = cur))

\* How far a task is, for those who do not see the kernel.
Stage(t) ==
  CASE Proc(t).pc = "shell" -> "shell"
    [] Proc(t).pc \in {"app", "fault"} -> "app"
    [] Proc(t).pc \in {"entry", "entered", "call", "woken", "return"} -> "call"
    [] Proc(t).pc = "exit" -> "ending"
    [] OTHER -> "lost"

\* What a terminal and an application will find in their registers.
ShellRegs(t) == IF Stage(t) = "shell" THEN Proc(t).regs ELSE mem[OSStack(t)][1].regs

AppRegs(t) ==
  CASE Proc(t).pc = "app" -> Proc(t).regs
    [] Proc(t).pc = "fault" -> mem[Rsp0][1].regs
    [] Stage(t) = "call" -> mem[UserStack(t)][1].regs
    [] OTHER -> 0

(***************************************************************************)
(* Interrupts, faults, switches and the other tasks are not to be seen:     *)
(* every terminal and every application goes on where it was, with what it  *)
(* had, and the code an application ends with reaches its own terminal.     *)
(***************************************************************************)
Calls == INSTANCE AppCalls WITH
  stage <- [t \in Shells |-> Stage(t)], shell <- [t \in Shells |-> ShellRegs(t)],
  app <- [t \in Shells |-> AppRegs(t)]

RunsAsCalled == Calls!CallsSpec
=============================================================================
