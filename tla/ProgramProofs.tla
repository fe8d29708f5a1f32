--------------------------- MODULE ProgramProofs ---------------------------
(***************************************************************************)
(* What programs rely on, for every number of terminals, programs and calls *)
(* and for every size of messages, writes and reads.                        *)
(*                                                                          *)
(* SystemCall: every task runs in its mode, and what terminals and          *)
(* applications see is AppCalls.  The invariant says what each task has     *)
(* left on its stacks and why no one else has overwritten it.               *)
(*                                                                          *)
(* Terminal: the pipe between two programs is a ByteStream, and the writer  *)
(* does not touch a reader that has read to the end.  The invariant says    *)
(* what may still be in the mailbox when the end was said.                  *)
(***************************************************************************)
EXTENDS SystemCall, Terminal, SequenceTheorems, WellFoundedInduction, TLAPS

-----------------------------------------------------------------------------
(* The inductive invariant.                                                 *)

Pointers == Stacks \X Nat

InCall     == {"entry", "entered", "call", "woken", "return"}
OnOSStack  == {"call", "woken"}
Places     == {"shell", "app", "fault", "exit"} \cup InCall

Frame == [pc : Places \cup {"idle", "lost"}, cs : Nat, ss : Nat, stack : Stacks, depth : Nat, iflag : BOOLEAN,
          cr3 : Nat, regs : Int, arg : Pointers, code : Nat]

TypeOK ==
  /\ cur \in Tasks
  /\ cpu \in Frame
  /\ ctx \in [Tasks -> Frame]
  /\ osptr \in [Tasks -> Pointers]
  /\ mem \in [Stacks -> [1..3 -> Frame]]
  /\ asleep \in SUBSET Tasks
  /\ halted \in BOOLEAN
  /\ asked \in [Shells -> Nat]
  /\ codes \in [Shells -> Seq(Nat)]

InKernel(c) == c.cs = 8 /\ c.ss \in {0, 16}

\* An application that is running or was interrupted; what is pushed by CallApp and by
\* CallFunction.
AppFrame(t, f) ==
  /\ f.pc = "app" /\ f.cs = 35 /\ f.ss = 27
  /\ f.stack = UserStack(t) /\ f.depth = 0 /\ f.iflag = TRUE /\ f.cr3 = t

ShellFrame(t, f) ==
  /\ f.pc = "shell" /\ InKernel(f)
  /\ f.stack = OSStack(t) /\ f.depth = 0 /\ f.iflag = TRUE /\ f.cr3 = 0

OnUserStack(t, f) ==
  /\ f.cs = 8 /\ f.ss = 16
  /\ f.stack = UserStack(t) /\ f.depth = 1 /\ f.iflag = TRUE /\ f.cr3 = t

EnteredFrame(t, f) == f.pc = "entered" /\ OnUserStack(t, f)

\* What a terminal has left on its stacks before its application goes on.
Left(t) ==
  LET c == Proc(t)
  IN  /\ c.pc # "shell" => osptr[t] = <<OSStack(t), 1>> /\ ShellFrame(t, mem[OSStack(t)][1])
      /\ c.pc \in InCall => AppFrame(t, mem[UserStack(t)][1])
      /\ c.pc \in OnOSStack => EnteredFrame(t, mem[OSStack(t)][2])
      /\ c.pc = "fault" => t = cur /\ AppFrame(t, mem[Rsp0][1])

\* Where the processor is in it.
Runs(t) ==
  LET c == Proc(t)
  IN  /\ c.pc \in Places
      /\ c.pc = "shell" => ShellFrame(t, c)
      /\ c.pc = "app" => AppFrame(t, c)
      /\ c.pc = "fault" => /\ c.cs = 8 /\ c.ss = 0 /\ c.cr3 = t
                           /\ c.stack = Rsp0 /\ c.depth = 1 /\ c.iflag = FALSE
      /\ c.pc \in InCall \ OnOSStack => OnUserStack(t, c)
      /\ c.pc = "entered" => c.arg = <<OSStack(t), 1>>
      /\ c.pc \in OnOSStack => /\ c.cs = 8 /\ c.ss = 16 /\ c.cr3 = t
                               /\ c.stack = OSStack(t) /\ c.depth = 2
                               /\ c.iflag = (c.pc = "call" /\ ~(halted /\ t = cur))
      /\ c.pc = "exit" => /\ InKernel(c) /\ c.cr3 = t /\ c.iflag = TRUE
                          /\ c.stack \in {UserStack(t), Rsp0} /\ c.depth = 1
                          /\ c.arg = <<OSStack(t), 1>> /\ c.code = asked[t]

IdleRuns ==
  LET c == Proc(Idle)
  IN  /\ c.pc = "idle" /\ InKernel(c)
      /\ c.stack = OSStack(Idle) /\ c.depth = 0 /\ c.iflag = TRUE /\ c.cr3 = 0

IInv ==
  /\ TypeOK
  /\ halted => cpu.pc = "call"
  /\ IdleRuns
  /\ \A t \in Shells : Left(t) /\ Runs(t)

-----------------------------------------------------------------------------
(* Names of stacks, segments, gates and pushes.                             *)

LEMMA StackNames ==
  /\ Idle \in Tasks /\ Idle \notin Shells /\ Shells \subseteq Tasks /\ Tasks \subseteq Nat
  /\ Rsp0 \in Stacks /\ Ist \in Stacks /\ Rsp0 # Ist
  /\ \A t \in Tasks : /\ OSStack(t) \in Stacks /\ OSStack(t) \notin {Rsp0, Ist}
                      /\ UserStack(t) \in Stacks /\ UserStack(t) \notin {Rsp0, Ist}
  /\ \A t, u \in Tasks : /\ OSStack(t) # UserStack(u)
                         /\ OSStack(t) = OSStack(u) => t = u
                         /\ UserStack(t) = UserStack(u) => t = u
BY SystemCallAssumption DEF SystemCallAssumption, Tasks, Idle, Stacks, Rsp0, Ist, OSStack, UserStack

LEMMA Selectors ==
  /\ gdt[8 \div 8] = CodeSegment(0) /\ gdt[16 \div 8] = DataSegment(0)
  /\ gdt[35 \div 8] = CodeSegment(3) /\ gdt[27 \div 8] = DataSegment(3)
  /\ 8 % 4 = 0 /\ 16 % 4 = 0 /\ 35 % 4 = 3 /\ 27 % 4 = 3
<1>1. 8 \div 8 = 1 /\ 16 \div 8 = 2 /\ 35 \div 8 = 4 /\ 27 \div 8 = 3
  OBVIOUS
<1>2. 8 % 4 = 0 /\ 16 % 4 = 0 /\ 35 % 4 = 3 /\ 27 % 4 = 3
  OBVIOUS
<1>3. /\ gdt[1] = CodeSegment(0) /\ gdt[2] = DataSegment(0)
      /\ gdt[3] = DataSegment(3) /\ gdt[4] = CodeSegment(3)
  BY DEF gdt
<1> QED
  BY <1>1, <1>2, <1>3

\* The timer has its stack; other handlers begin on RSP0 when they come from an application.
LEMMA InterruptStacks ==
  ASSUME NEW c
  PROVE  /\ InterruptStack(idt.lapicTimer, c) = <<Ist, 0>>
         /\ InterruptStack(idt.xhci, c) = IF Ring(c) = 3 THEN <<Rsp0, 0>> ELSE <<c.stack, c.depth>>
         /\ InterruptStack(idt.fault, c) = IF Ring(c) = 3 THEN <<Rsp0, 0>> ELSE <<c.stack, c.depth>>
BY DEF InterruptStack, idt, tss, IDTEntry, MakeIDTAttr

LEMMA PushedIs ==
  ASSUME TypeOK, NEW s \in Stacks, NEW d \in Nat, NEW f \in Frame, Pushed(s, d, f)
  PROVE  /\ mem' \in [Stacks -> [1..3 -> Frame]]
         /\ \A r \in Stacks \ {s} : mem'[r] = mem[r]
         /\ \A e \in 1..3 : mem'[s][e] = IF e = d + 1 THEN f ELSE mem[s][e]
BY DEF TypeOK, Pushed

LEMMA InitFrames ==
  /\ \A t \in Tasks : InitContext(t) \in Frame
  /\ Garbage \in Frame
<1>1. \A t \in Tasks : OSStack(t) \in Stacks
  BY StackNames
<1>2. \A t \in Tasks : InitContext(t) \in Frame
  BY <1>1 DEF InitContext, TaskContext, Frame, Pointers, Places, InCall, KernelCS, KernelSS
<1>3. Garbage \in Frame
  <2>1. InitContext(Idle) \in Frame /\ -1 \in Int
    BY <1>2, StackNames
  <2> DEFINE f == InitContext(Idle)
             n == -1
  <2> HIDE DEF f, n
  <2>2. [f EXCEPT !.pc = "lost", !.regs = n] \in Frame
    BY <2>1 DEF Frame, f, n
  <2> QED
    BY <2>2 DEF Garbage, f, n
<1> QED
  BY <1>2, <1>3

LEMMA ProcType == ASSUME TypeOK, NEW t \in Tasks PROVE Proc(t) \in Frame
BY DEF TypeOK, Proc

-----------------------------------------------------------------------------
LEMMA InitOK == Init => IInv
<1> SUFFICES ASSUME Init PROVE IInv
  OBVIOUS
<1>1. TypeOK
  <2>1. ctx \in [Tasks -> Frame] /\ cpu \in Frame /\ mem \in [Stacks -> [1..3 -> Frame]]
    BY InitFrames, StackNames DEF Init
  <2>2. osptr \in [Tasks -> Pointers]
    BY StackNames DEF Init, Pointers
  <2>3. codes \in [Shells -> Seq(Nat)] /\ asked \in [Shells -> Nat]
    BY DEF Init
  <2> QED
    BY <2>1, <2>2, <2>3, StackNames DEF Init, TypeOK
<1>2. \A t \in Tasks : Proc(t) = InitContext(t)
  BY StackNames DEF Init, Proc
<1>3. IdleRuns
  BY <1>2, StackNames DEF IdleRuns, InitContext, TaskContext, InKernel, KernelCS, KernelSS
<1>4. ASSUME NEW t \in Shells PROVE Left(t) /\ Runs(t)
  <2>1. /\ Proc(t).pc = "shell" /\ Proc(t).cs = 8 /\ Proc(t).ss = 16 /\ Proc(t).cr3 = 0
        /\ Proc(t).stack = OSStack(t) /\ Proc(t).depth = 0 /\ Proc(t).iflag = TRUE
    BY <1>2, StackNames DEF InitContext, TaskContext, KernelCS, KernelSS
  <2> QED
    BY <2>1 DEF Left, Runs, ShellFrame, InKernel, InCall, OnOSStack, Places
<1> QED
  BY <1>1, <1>3, <1>4 DEF IInv, Init

\* A task that is not disturbed.
LEMMA KeepsTask ==
  ASSUME IInv, NEW t \in Shells, Proc(t)' = Proc(t), Proc(t).pc # "fault",
         osptr'[t] = osptr[t], asked'[t] = asked[t],
         mem'[OSStack(t)] = mem[OSStack(t)], mem'[UserStack(t)] = mem[UserStack(t)],
         ~halted, ~(halted' /\ t = cur')
  PROVE  Left(t)' /\ Runs(t)'
<1>1. Left(t) /\ Runs(t)
  BY DEF IInv
<1>2. Left(t)'
  BY <1>1 DEF Left
<1>3. Runs(t)'
  BY <1>1 DEF Runs
<1> QED
  BY <1>2, <1>3

\* A step of the task that has the processor, and keeps it.
LEMMA OwnStep ==
  ASSUME IInv, ~halted, cur \in Shells, UNCHANGED <<cur, ctx>>,
         \A t \in Shells \ {cur} :
           /\ osptr'[t] = osptr[t] /\ asked'[t] = asked[t]
           /\ mem'[OSStack(t)] = mem[OSStack(t)] /\ mem'[UserStack(t)] = mem[UserStack(t)],
         TypeOK', Left(cur)', Runs(cur)', halted' => cpu'.pc = "call"
  PROVE  IInv'
<1>1. \A t \in Tasks \ {cur} : Proc(t)' = Proc(t)
  BY DEF Proc
<1>2. IdleRuns'
  BY <1>1, StackNames DEF IInv, IdleRuns
<1>3. ASSUME NEW t \in Shells \ {cur} PROVE Left(t)' /\ Runs(t)'
  <2>1. Proc(t).pc # "fault"
    BY DEF IInv, Left
  <2>2. Proc(t)' = Proc(t)
    BY <1>1, StackNames
  <2> QED
    BY <2>1, <2>2, KeepsTask
<1> QED
  BY <1>2, <1>3 DEF IInv

LEMMA ModeFollows == IInv => InItsMode
<1> SUFFICES ASSUME IInv, NEW t \in Tasks
             PROVE LET c    == Proc(t)
                       ring == IF c.pc = "app" THEN 3 ELSE 0
                   IN  /\ gdt[c.cs \div 8] = CodeSegment(ring) /\ Ring(c) = ring
                       /\ \/ c.ss = 0 /\ ring = 0
                          \/ gdt[c.ss \div 8] = DataSegment(ring) /\ c.ss % 4 = ring
                       /\ c.pc = "app" => c.stack = UserStack(t)
                       /\ c.stack = UserStack(t) => c.cr3 = t
                       /\ c.iflag <=> (c.pc \notin {"fault", "woken"} /\ ~(halted /\ t = cur))
  BY DEF InItsMode
<1> DEFINE c == Proc(t)
<1>1. c.iflag \in BOOLEAN /\ (halted /\ t = cur => c.pc = "call")
  BY ProcType DEF IInv, Frame, Proc
<1>2. CASE t = Idle
  <2>1. /\ c.pc = "idle" /\ InKernel(c) /\ c.stack = OSStack(t) /\ c.iflag = TRUE
    BY <1>2 DEF IInv, IdleRuns
  <2>2. c.stack # UserStack(t)
    BY <2>1, StackNames
  <2> HIDE DEF c
  <2> QED
    BY <1>1, <2>1, <2>2, Selectors DEF InKernel, Ring, c
<1>3. CASE t \in Shells
  <2>1. Runs(t)
    BY <1>3 DEF IInv
  <2>2. OSStack(t) # UserStack(t) /\ Rsp0 # UserStack(t)
    BY StackNames
  <2>3. CASE c.pc = "app"
    <3>1. AppFrame(t, c)
      BY <2>1, <2>3 DEF Runs
    <3> HIDE DEF c
    <3> QED
      BY <1>1, <2>3, <3>1, Selectors DEF AppFrame, Ring, c
  <2>4. CASE c.pc = "shell"
    <3>1. ShellFrame(t, c)
      BY <2>1, <2>4 DEF Runs
    <3> HIDE DEF c
    <3> QED
      BY <1>1, <2>2, <2>4, <3>1, Selectors DEF ShellFrame, InKernel, Ring, c
  <2>5. CASE c.pc = "fault"
    <3>1. /\ c.cs = 8 /\ c.ss = 0 /\ c.cr3 = t /\ c.stack = Rsp0 /\ c.iflag = FALSE
      BY <2>1, <2>5 DEF Runs
    <3> HIDE DEF c
    <3> QED
      BY <1>1, <2>2, <2>5, <3>1, Selectors DEF Ring, c
  <2>6. CASE c.pc \in {"entry", "entered", "return"}
    <3>1. OnUserStack(t, c)
      BY <2>1, <2>6 DEF Runs, InCall, OnOSStack
    <3> HIDE DEF c
    <3> QED
      BY <1>1, <2>2, <2>6, <3>1, Selectors DEF OnUserStack, Ring, c
  <2>7. CASE c.pc \in OnOSStack
    <3>1. /\ c.cs = 8 /\ c.ss = 16 /\ c.cr3 = t /\ c.stack = OSStack(t)
          /\ c.iflag = (c.pc = "call" /\ ~(halted /\ t = cur))
      BY <2>1, <2>7 DEF Runs
    <3> HIDE DEF c
    <3>2. c.pc = "call" \/ c.pc = "woken"
      BY <2>7 DEF OnOSStack
    <3>3. c.iflag <=> (c.pc \notin {"fault", "woken"} /\ ~(halted /\ t = cur))
      BY <3>1, <3>2
    <3> QED
      BY <2>2, <3>1, <3>2, <3>3, Selectors DEF Ring, c
  <2>8. CASE c.pc = "exit"
    <3>1. InKernel(c) /\ c.cr3 = t /\ c.iflag = TRUE
      BY <2>1, <2>8 DEF Runs
    <3> HIDE DEF c
    <3> QED
      BY <1>1, <2>8, <3>1, Selectors DEF InKernel, Ring, c
  <2>9. c.pc \in Places
    BY <2>1 DEF Runs
  <2> HIDE DEF c
  <2> QED
    BY <2>3, <2>4, <2>5, <2>6, <2>7, <2>8, <2>9 DEF Places, InCall, OnOSStack
<1> QED
  BY <1>2, <1>3 DEF Tasks

-----------------------------------------------------------------------------
(* Steps of a terminal and its application.                                 *)

LEMMA Mine ==
  ASSUME IInv, cpu.pc # "idle"
  PROVE  /\ TypeOK /\ cur \in Shells /\ cur \in Tasks /\ cur \in Nat
         /\ Proc(cur) = cpu /\ cpu \in Frame /\ Left(cur) /\ Runs(cur)
         /\ cpu.stack \in Stacks /\ cpu.depth \in Nat /\ cpu.regs \in Int
         /\ OSStack(cur) \in Stacks /\ UserStack(cur) \in Stacks /\ Rsp0 \in Stacks /\ Ist \in Stacks
         /\ OSStack(cur) # UserStack(cur) /\ OSStack(cur) \notin {Rsp0, Ist} /\ UserStack(cur) \notin {Rsp0, Ist}
         /\ \A t \in Shells \ {cur} : /\ OSStack(t) \notin {OSStack(cur), UserStack(cur), Rsp0, Ist}
                                     /\ UserStack(t) \notin {OSStack(cur), UserStack(cur), Rsp0, Ist}
                                     /\ OSStack(t) \in Stacks /\ UserStack(t) \in Stacks
<1>1. cur \in Tasks /\ TypeOK /\ cpu \in Frame
  BY DEF IInv, TypeOK
<1>2. cur # Idle
  BY DEF IInv, IdleRuns, Proc
<1>3. cur \in Shells
  BY <1>1, <1>2 DEF Tasks
<1>4. Proc(cur) = cpu
  BY DEF Proc
<1>5. Left(cur) /\ Runs(cur)
  BY <1>3 DEF IInv
<1>6. cpu.stack \in Stacks /\ cpu.depth \in Nat /\ cpu.regs \in Int
  BY <1>1 DEF Frame
<1> QED
  BY <1>1, <1>3, <1>4, <1>5, <1>6, StackNames

LEMMA CallAppStep ==
  ASSUME IInv, CallApp
  PROVE  IInv'
<1>0. ~halted /\ cpu.pc = "shell"
  BY DEF CallApp, At
<1>1. ShellFrame(cur, cpu)
  BY <1>0, Mine DEF Runs
<1>2. /\ Pushed(OSStack(cur), 0, cpu) /\ osptr' = [osptr EXCEPT ![cur] = <<OSStack(cur), 1>>]
      /\ cpu' = [cpu EXCEPT !.pc = "app", !.cs = 35, !.ss = 27, !.regs = 0, !.cr3 = cur,
                            !.stack = UserStack(cur), !.depth = 0]
      /\ UNCHANGED <<cur, ctx, asleep, halted, asked, codes>>
  BY <1>1 DEF CallApp, ShellFrame
<1>3. /\ mem' \in [Stacks -> [1..3 -> Frame]] /\ mem'[OSStack(cur)][1] = cpu
      /\ \A r \in Stacks \ {OSStack(cur)} : mem'[r] = mem[r]
  <2>1. TypeOK /\ OSStack(cur) \in Stacks /\ cpu \in Frame /\ 0 + 1 = 1 /\ 1 \in 1..3
    BY <1>0, Mine
  <2> QED
    BY <1>2, <2>1, PushedIs
<1>4. cpu' \in Frame
  <2> DEFINE f == [cpu EXCEPT !.pc = "app", !.cs = 35, !.ss = 27]
  <2>1. cpu \in Frame /\ UserStack(cur) \in Stacks /\ cur \in Nat
    BY <1>0, Mine
  <2>2. f \in Frame
    BY <2>1 DEF Frame, Places
  <2> DEFINE g == [f EXCEPT !.cr3 = cur, !.stack = UserStack(cur), !.depth = 0]
  <2>3. g \in Frame
    <3> HIDE DEF f
    <3> QED
      BY <2>1, <2>2 DEF Frame
  <2>4. cpu' = [g EXCEPT !.regs = 0]
    BY <1>2, <2>1 DEF Frame
  <2> HIDE DEF g
  <2> QED
    BY <2>3, <2>4 DEF Frame
<1>5. TypeOK'
  BY <1>0, <1>2, <1>3, <1>4, Mine DEF TypeOK, Pointers
<1>6. AppFrame(cur, cpu')
  BY <1>0, <1>1, <1>2, Mine DEF AppFrame, ShellFrame, Frame
<1>7. Proc(cur)' = cpu' /\ cpu'.pc = "app" /\ cur' = cur
  BY <1>2, <1>6 DEF Proc, AppFrame
<1>8. Left(cur)'
  <2>1. osptr'[cur] = <<OSStack(cur), 1>>
    BY <1>0, <1>2, Mine DEF TypeOK
  <2> QED
    BY <1>1, <1>3, <1>7, <2>1 DEF Left, InCall, OnOSStack
<1>9. Runs(cur)'
  BY <1>6, <1>7 DEF Runs, InCall, OnOSStack, Places
<1>10. \A t \in Shells \ {cur} :
         /\ osptr'[t] = osptr[t] /\ asked'[t] = asked[t]
         /\ mem'[OSStack(t)] = mem[OSStack(t)] /\ mem'[UserStack(t)] = mem[UserStack(t)]
  BY <1>0, <1>2, <1>3, Mine, StackNames DEF TypeOK
<1> QED
  BY <1>0, <1>2, <1>5, <1>8, <1>9, <1>10, Mine, OwnStep

LEMMA ExitAppStep ==
  ASSUME IInv, ExitApp
  PROVE  IInv'
<1>0. ~halted /\ cpu.pc = "exit"
  BY DEF ExitApp, At
<1> DEFINE frame == mem[OSStack(cur)][1]
<1>1. /\ InKernel(cpu) /\ cpu.iflag = TRUE /\ cpu.arg = <<OSStack(cur), 1>>
      /\ ShellFrame(cur, frame)
  BY <1>0, Mine DEF Runs, Left
<1>2. /\ cpu' = [frame EXCEPT !.cs = cpu.cs, !.ss = cpu.ss, !.iflag = cpu.iflag, !.regs = frame.regs + 1]
      /\ codes' = [codes EXCEPT ![cur] = Append(codes[cur], cpu.code)]
      /\ asked' = [asked EXCEPT ![cur] = 0]
      /\ UNCHANGED <<cur, ctx, osptr, mem, asleep, halted>>
  BY <1>1 DEF ExitApp
<1>3. frame \in Frame /\ cpu \in Frame
  BY <1>0, Mine DEF TypeOK
<1> HIDE DEF frame
<1>4. cpu' \in Frame
  <2> DEFINE n == frame.regs + 1
  <2>1. n \in Int /\ cpu.cs \in Nat /\ cpu.ss \in Nat /\ cpu.iflag \in BOOLEAN
    BY <1>3 DEF Frame
  <2>2. cpu' = [frame EXCEPT !.cs = cpu.cs, !.ss = cpu.ss, !.iflag = cpu.iflag, !.regs = n]
    BY <1>2
  <2> HIDE DEF n
  <2> QED
    BY <1>3, <2>1, <2>2 DEF Frame
<1>5. TypeOK'
  <2>1. codes' \in [Shells -> Seq(Nat)]
    <3>1. cpu.code \in Nat
      BY <1>3 DEF Frame
    <3> QED
      BY <1>0, <1>2, <3>1, Mine DEF TypeOK
  <2> QED
    BY <1>0, <1>2, <1>4, <2>1, Mine DEF TypeOK
<1>6. ShellFrame(cur, cpu')
  BY <1>1, <1>2, <1>3 DEF ShellFrame, Frame, InKernel
<1>7. Proc(cur)' = cpu' /\ cpu'.pc = "shell" /\ cur' = cur
  BY <1>2, <1>6 DEF Proc, ShellFrame
<1>8. Left(cur)'
  BY <1>7 DEF Left, InCall, OnOSStack
<1>9. Runs(cur)'
  BY <1>6, <1>7 DEF Runs, InCall, OnOSStack, Places
<1>10. \A t \in Shells \ {cur} :
         /\ osptr'[t] = osptr[t] /\ asked'[t] = asked[t]
         /\ mem'[OSStack(t)] = mem[OSStack(t)] /\ mem'[UserStack(t)] = mem[UserStack(t)]
  BY <1>0, <1>2, Mine DEF TypeOK
<1> QED
  BY <1>0, <1>2, <1>5, <1>8, <1>9, <1>10, Mine, OwnStep

LEMMA SyscallEntryStep ==
  ASSUME IInv, SyscallEntry
  PROVE  IInv'
<1>0. ~halted /\ cpu.pc = "app"
  BY DEF SyscallEntry, At
<1>1. AppFrame(cur, cpu) /\ osptr[cur] = <<OSStack(cur), 1>> /\ ShellFrame(cur, mem[OSStack(cur)][1])
  BY <1>0, Mine DEF Runs, Left
<1>2. /\ Pushed(UserStack(cur), 0, cpu)
      /\ cpu' = [cpu EXCEPT !.pc = "entry", !.cs = 8, !.ss = 16, !.depth = 1]
      /\ UNCHANGED <<cur, ctx, osptr, asleep, halted, asked, codes>>
  BY <1>1 DEF SyscallEntry, AppFrame, Star
<1>3. /\ mem' \in [Stacks -> [1..3 -> Frame]] /\ mem'[UserStack(cur)][1] = cpu
      /\ \A r \in Stacks \ {UserStack(cur)} : mem'[r] = mem[r]
  <2>1. TypeOK /\ UserStack(cur) \in Stacks /\ cpu \in Frame /\ 0 + 1 = 1 /\ 1 \in 1..3
    BY <1>0, Mine
  <2> QED
    BY <1>2, <2>1, PushedIs
<1>4. cpu' \in Frame
  <2>1. cpu \in Frame
    BY <1>0, Mine
  <2> QED
    BY <1>2, <2>1 DEF Frame, Places, InCall
<1>5. TypeOK'
  BY <1>0, <1>2, <1>3, <1>4, Mine DEF TypeOK
<1>6. OnUserStack(cur, cpu') /\ cpu'.pc = "entry"
  BY <1>0, <1>1, <1>2, Mine DEF AppFrame, OnUserStack, Frame
<1>7. Proc(cur)' = cpu' /\ cur' = cur
  BY <1>2 DEF Proc
<1>8. Left(cur)'
  <2>1. mem'[OSStack(cur)] = mem[OSStack(cur)]
    BY <1>0, <1>3, Mine
  <2> QED
    BY <1>1, <1>2, <1>3, <1>6, <1>7, <2>1 DEF Left, InCall, OnOSStack
<1>9. Runs(cur)'
  BY <1>6, <1>7 DEF Runs, InCall, OnOSStack, Places
<1>10. \A t \in Shells \ {cur} :
         /\ osptr'[t] = osptr[t] /\ asked'[t] = asked[t]
         /\ mem'[OSStack(t)] = mem[OSStack(t)] /\ mem'[UserStack(t)] = mem[UserStack(t)]
  BY <1>0, <1>2, <1>3, Mine, StackNames
<1> QED
  BY <1>0, <1>2, <1>5, <1>8, <1>9, <1>10, Mine, OwnStep

LEMMA GetStackPointerStep ==
  ASSUME IInv, GetCurrentTaskOSStackPointer
  PROVE  IInv'
<1>0. ~halted /\ cpu.pc = "entry"
  BY DEF GetCurrentTaskOSStackPointer, At
<1>1. /\ OnUserStack(cur, cpu) /\ osptr[cur] = <<OSStack(cur), 1>>
      /\ ShellFrame(cur, mem[OSStack(cur)][1]) /\ AppFrame(cur, mem[UserStack(cur)][1])
  BY <1>0, Mine DEF Runs, Left, InCall, OnOSStack
<1>2. /\ cpu' = [cpu EXCEPT !.pc = "entered", !.arg = <<OSStack(cur), 1>>]
      /\ UNCHANGED <<cur, ctx, osptr, mem, asleep, halted, asked, codes>>
  BY <1>1 DEF GetCurrentTaskOSStackPointer, OSStackPointer
<1>4. cpu' \in Frame
  BY <1>0, <1>2, Mine DEF Frame, Places, InCall, Pointers
<1>5. TypeOK'
  BY <1>0, <1>2, <1>4, Mine DEF TypeOK
<1>6. OnUserStack(cur, cpu') /\ cpu'.pc = "entered" /\ cpu'.arg = <<OSStack(cur), 1>>
  BY <1>0, <1>1, <1>2, Mine DEF OnUserStack, Frame
<1>7. Proc(cur)' = cpu' /\ cur' = cur
  BY <1>2 DEF Proc
<1>8. Left(cur)'
  BY <1>1, <1>2, <1>6, <1>7 DEF Left, InCall, OnOSStack
<1>9. Runs(cur)'
  BY <1>6, <1>7 DEF Runs, InCall, OnOSStack, Places
<1> QED
  BY <1>0, <1>2, <1>5, <1>8, <1>9, Mine, OwnStep

LEMMA CallFunctionStep ==
  ASSUME IInv, CallFunction
  PROVE  IInv'
<1>0. ~halted /\ cpu.pc = "entered"
  BY DEF CallFunction, At
<1>1. /\ OnUserStack(cur, cpu) /\ osptr[cur] = <<OSStack(cur), 1>> /\ cpu.arg = <<OSStack(cur), 1>>
      /\ ShellFrame(cur, mem[OSStack(cur)][1]) /\ AppFrame(cur, mem[UserStack(cur)][1])
  BY <1>0, Mine DEF Runs, Left, InCall, OnOSStack
<1>2. /\ Pushed(OSStack(cur), 1, cpu)
      /\ cpu' = [cpu EXCEPT !.stack = OSStack(cur), !.pc = "call", !.depth = 2]
      /\ UNCHANGED <<cur, ctx, osptr, asleep, halted, asked, codes>>
  <2> DEFINE f == [cpu EXCEPT !.stack = OSStack(cur), !.depth = 1]
  <2>1. f.depth = 1
    BY <1>0, Mine DEF Frame
  <2>2. cpu' = [f EXCEPT !.pc = "call", !.depth = f.depth + 1]
    BY <1>1 DEF CallFunction, OnStack
  <2>3. cpu' = [f EXCEPT !.pc = "call", !.depth = 2]
    <3> HIDE DEF f
    <3> QED
      BY <2>1, <2>2
  <2>4. cpu' = [cpu EXCEPT !.stack = OSStack(cur), !.pc = "call", !.depth = 2]
    BY <2>3, <1>0, Mine DEF Frame
  <2> QED
    BY <1>1, <2>4 DEF CallFunction
<1>3. /\ mem' \in [Stacks -> [1..3 -> Frame]] /\ mem'[OSStack(cur)][2] = cpu
      /\ mem'[OSStack(cur)][1] = mem[OSStack(cur)][1]
      /\ \A r \in Stacks \ {OSStack(cur)} : mem'[r] = mem[r]
  <2>1. TypeOK /\ OSStack(cur) \in Stacks /\ cpu \in Frame /\ 1 + 1 = 2 /\ 1 \in 1..3 /\ 2 \in 1..3
    BY <1>0, Mine
  <2> QED
    BY <1>2, <2>1, PushedIs
<1>4. /\ cpu' \in Frame /\ cpu'.pc = "call" /\ cpu'.stack = OSStack(cur) /\ cpu'.depth = 2
      /\ cpu'.cs = cpu.cs /\ cpu'.ss = cpu.ss /\ cpu'.iflag = cpu.iflag /\ cpu'.cr3 = cpu.cr3
  BY <1>0, <1>2, Mine DEF Frame, Places, InCall
<1>5. TypeOK'
  BY <1>0, <1>2, <1>3, <1>4, Mine DEF TypeOK
<1>6. EnteredFrame(cur, cpu)
  BY <1>0, <1>1 DEF EnteredFrame
<1>7. Proc(cur)' = cpu' /\ cur' = cur
  BY <1>2 DEF Proc
<1>8. Left(cur)'
  <2>1. mem'[UserStack(cur)] = mem[UserStack(cur)]
    BY <1>0, <1>3, Mine
  <2> QED
    BY <1>1, <1>2, <1>3, <1>4, <1>6, <1>7, <2>1 DEF Left, InCall, OnOSStack
<1>9. Runs(cur)'
  BY <1>0, <1>1, <1>2, <1>4, <1>7 DEF Runs, InCall, OnOSStack, Places, OnUserStack
<1>10. \A t \in Shells \ {cur} :
         /\ osptr'[t] = osptr[t] /\ asked'[t] = asked[t]
         /\ mem'[OSStack(t)] = mem[OSStack(t)] /\ mem'[UserStack(t)] = mem[UserStack(t)]
  BY <1>0, <1>2, <1>3, Mine, StackNames
<1> QED
  BY <1>0, <1>2, <1>5, <1>8, <1>9, <1>10, Mine, OwnStep

\* SyscallEntry with a function that was called: what it finds on its stacks.
LEMMA InFunction ==
  ASSUME IInv, ~halted, cpu.pc \in OnOSStack
  PROVE  /\ osptr[cur] = <<OSStack(cur), 1>> /\ cpu.pc # "idle" /\ Popped = mem[OSStack(cur)][2]
         /\ ShellFrame(cur, mem[OSStack(cur)][1]) /\ AppFrame(cur, mem[UserStack(cur)][1])
         /\ EnteredFrame(cur, Popped) /\ Popped \in Frame
         /\ cpu.cs = 8 /\ cpu.ss = 16 /\ cpu.cr3 = cur /\ cpu.stack = OSStack(cur) /\ cpu.depth = 2
         /\ cpu.iflag = (cpu.pc = "call")
<1>1. cpu.pc # "idle" /\ cpu.pc \in InCall /\ cpu.pc # "shell"
  BY DEF OnOSStack, InCall
<1>2. /\ osptr[cur] = <<OSStack(cur), 1>>
      /\ ShellFrame(cur, mem[OSStack(cur)][1]) /\ AppFrame(cur, mem[UserStack(cur)][1])
      /\ EnteredFrame(cur, mem[OSStack(cur)][2])
  BY <1>1, Mine DEF Left
<1>3. /\ cpu.cs = 8 /\ cpu.ss = 16 /\ cpu.cr3 = cur /\ cpu.stack = OSStack(cur) /\ cpu.depth = 2
      /\ cpu.iflag = (cpu.pc = "call")
  BY <1>1, Mine DEF Runs
<1>4. Popped = mem[OSStack(cur)][2]
  BY <1>3 DEF Popped
<1>5. Popped \in Frame
  BY <1>1, <1>4, Mine DEF TypeOK
<1> QED
  BY <1>1, <1>2, <1>3, <1>4, <1>5

LEMMA ReturnStep ==
  ASSUME IInv, Return
  PROVE  IInv'
<1>0. ~halted /\ cpu.pc = "call" /\ cpu.pc \in OnOSStack
  BY DEF Return, At, OnOSStack
<1> DEFINE f == Popped
<1>1. /\ osptr[cur] = <<OSStack(cur), 1>> /\ cpu.pc # "idle"
      /\ ShellFrame(cur, mem[OSStack(cur)][1]) /\ AppFrame(cur, mem[UserStack(cur)][1])
      /\ EnteredFrame(cur, f) /\ f \in Frame
  BY <1>0, InFunction
<1>2. /\ cpu' = [f EXCEPT !.pc = "return"]
      /\ UNCHANGED <<cur, ctx, osptr, mem, asleep, halted, asked, codes>>
  BY <1>1 DEF Return, EnteredFrame
<1> HIDE DEF f
<1>3. cpu' \in Frame
  BY <1>1, <1>2 DEF Frame, Places, InCall
<1>4. TypeOK'
  BY <1>1, <1>2, <1>3, Mine DEF TypeOK
<1>5. OnUserStack(cur, cpu') /\ cpu'.pc = "return"
  BY <1>1, <1>2 DEF EnteredFrame, OnUserStack, Frame
<1>6. Proc(cur)' = cpu' /\ cur' = cur
  BY <1>2 DEF Proc
<1>7. Left(cur)'
  BY <1>1, <1>2, <1>5, <1>6 DEF Left, InCall, OnOSStack
<1>8. Runs(cur)'
  BY <1>5, <1>6 DEF Runs, InCall, OnOSStack, Places
<1> QED
  BY <1>0, <1>1, <1>2, <1>4, <1>7, <1>8, Mine, OwnStep

LEMMA SysRetStep ==
  ASSUME IInv, SysRet
  PROVE  IInv'
<1>0. ~halted /\ cpu.pc = "return"
  BY DEF SysRet, At
<1> DEFINE f == mem[UserStack(cur)][1]
<1>1. /\ OnUserStack(cur, cpu) /\ osptr[cur] = <<OSStack(cur), 1>>
      /\ ShellFrame(cur, mem[OSStack(cur)][1]) /\ AppFrame(cur, f)
  BY <1>0, Mine DEF Runs, Left, InCall, OnOSStack
<1>2. f \in Frame
  BY <1>0, Mine DEF TypeOK
<1>3. /\ cpu' = [f EXCEPT !.cs = 35, !.ss = 27, !.regs = f.regs + 1]
      /\ UNCHANGED <<cur, ctx, osptr, mem, asleep, halted, asked, codes>>
  BY <1>1 DEF SysRet, Popped, Star, OnUserStack
<1> DEFINE n == f.regs + 1
<1>4. n \in Int /\ cpu' = [f EXCEPT !.cs = 35, !.ss = 27, !.regs = n]
  BY <1>2, <1>3 DEF Frame
<1> HIDE DEF f, n
<1>5. cpu' \in Frame
  BY <1>2, <1>4 DEF Frame
<1>6. TypeOK'
  BY <1>0, <1>3, <1>5, Mine DEF TypeOK
<1>7. AppFrame(cur, cpu') /\ cpu'.pc = "app"
  BY <1>1, <1>2, <1>4 DEF AppFrame, Frame
<1>8. Proc(cur)' = cpu' /\ cur' = cur
  BY <1>3 DEF Proc
<1>9. Left(cur)'
  BY <1>1, <1>3, <1>7, <1>8 DEF Left, InCall, OnOSStack
<1>10. Runs(cur)'
  BY <1>7, <1>8 DEF Runs, InCall, OnOSStack, Places
<1> QED
  BY <1>0, <1>3, <1>6, <1>9, <1>10, Mine, OwnStep

LEMMA ExitStep ==
  ASSUME IInv, Exit
  PROVE  IInv'
<1>0. ~halted /\ cpu.pc = "call" /\ cpu.pc \in OnOSStack
  BY DEF Exit, At, OnOSStack
<1> DEFINE f == Popped
<1>1. /\ osptr[cur] = <<OSStack(cur), 1>> /\ cpu.pc # "idle"
      /\ ShellFrame(cur, mem[OSStack(cur)][1]) /\ EnteredFrame(cur, f) /\ f \in Frame
  BY <1>0, InFunction
<1>2. PICK c \in Codes :
        /\ asked' = [asked EXCEPT ![cur] = c]
        /\ cpu' = [f EXCEPT !.pc = "exit", !.arg = <<OSStack(cur), 1>>, !.code = c]
  BY <1>1 DEF Exit, OSStackPointer
<1>3. UNCHANGED <<cur, ctx, osptr, mem, asleep, halted, codes>> /\ c \in Nat
  BY SystemCallAssumption DEF Exit, SystemCallAssumption
<1> HIDE DEF f
<1>4. cpu' \in Frame
  <2>1. <<OSStack(cur), 1>> \in Pointers
    BY <1>1, Mine DEF Pointers
  <2> QED
    BY <1>1, <1>2, <1>3, <2>1 DEF Frame, Places
<1>5. TypeOK'
  BY <1>1, <1>2, <1>3, <1>4, Mine DEF TypeOK
<1>6. /\ cpu'.pc = "exit" /\ cpu'.arg = <<OSStack(cur), 1>> /\ cpu'.code = c /\ asked'[cur] = c
      /\ OnUserStack(cur, cpu')
  BY <1>1, <1>2, Mine DEF EnteredFrame, OnUserStack, Frame, TypeOK
<1>7. Proc(cur)' = cpu' /\ cur' = cur
  BY <1>3 DEF Proc
<1>8. Left(cur)'
  BY <1>1, <1>3, <1>6, <1>7 DEF Left, InCall, OnOSStack
<1>9. Runs(cur)'
  BY <1>6, <1>7 DEF Runs, InCall, OnOSStack, Places, OnUserStack, InKernel
<1>10. \A t \in Shells \ {cur} :
         /\ osptr'[t] = osptr[t] /\ asked'[t] = asked[t]
         /\ mem'[OSStack(t)] = mem[OSStack(t)] /\ mem'[UserStack(t)] = mem[UserStack(t)]
  BY <1>1, <1>2, <1>3, Mine DEF TypeOK
<1> QED
  BY <1>0, <1>1, <1>3, <1>5, <1>8, <1>9, <1>10, Mine, OwnStep

LEMMA WokenStep ==
  ASSUME IInv, Woken
  PROVE  IInv'
<1>0. ~halted /\ cpu.pc = "woken" /\ cpu.pc \in OnOSStack
  BY DEF Woken, At, OnOSStack
<1>1. /\ osptr[cur] = <<OSStack(cur), 1>> /\ cpu.pc # "idle"
      /\ ShellFrame(cur, mem[OSStack(cur)][1]) /\ AppFrame(cur, mem[UserStack(cur)][1])
      /\ EnteredFrame(cur, mem[OSStack(cur)][2])
      /\ cpu.cs = 8 /\ cpu.ss = 16 /\ cpu.cr3 = cur /\ cpu.stack = OSStack(cur) /\ cpu.depth = 2
  BY <1>0, InFunction
<1>2. /\ cpu' = [cpu EXCEPT !.pc = "call", !.iflag = TRUE]
      /\ UNCHANGED <<cur, ctx, osptr, mem, asleep, halted, asked, codes>>
  BY DEF Woken
<1>3. cpu' \in Frame
  BY <1>1, <1>2, Mine DEF Frame, Places, InCall
<1>4. TypeOK'
  BY <1>1, <1>2, <1>3, Mine DEF TypeOK
<1>5. /\ cpu'.pc = "call" /\ cpu'.iflag = TRUE
      /\ cpu'.cs = 8 /\ cpu'.ss = 16 /\ cpu'.cr3 = cur /\ cpu'.stack = OSStack(cur) /\ cpu'.depth = 2
  BY <1>1, <1>2, Mine DEF Frame
<1>6. Proc(cur)' = cpu' /\ cur' = cur
  BY <1>2 DEF Proc
<1>7. Left(cur)'
  BY <1>1, <1>2, <1>5, <1>6 DEF Left, InCall, OnOSStack
<1>8. Runs(cur)'
  BY <1>0, <1>2, <1>5, <1>6 DEF Runs, InCall, OnOSStack, Places
<1> QED
  BY <1>0, <1>1, <1>2, <1>4, <1>7, <1>8, Mine, OwnStep

LEMMA FaultStep ==
  ASSUME IInv, Fault
  PROVE  IInv'
<1>0. ~halted /\ cpu.pc = "app"
  BY DEF Fault, At
<1>1. AppFrame(cur, cpu) /\ osptr[cur] = <<OSStack(cur), 1>> /\ ShellFrame(cur, mem[OSStack(cur)][1])
  BY <1>0, Mine DEF Runs, Left
<1>2. InterruptStack(idt.fault, cpu) = <<Rsp0, 0>>
  <2>1. Ring(cpu) = 3
    BY <1>1, Selectors DEF Ring, AppFrame
  <2> QED
    BY <2>1, InterruptStacks
<1>3. /\ Pushed(Rsp0, 0, cpu)
      /\ cpu' = [cpu EXCEPT !.pc = "fault", !.cs = 8, !.ss = 0, !.iflag = FALSE, !.stack = Rsp0, !.depth = 1]
      /\ UNCHANGED <<cur, ctx, osptr, asleep, halted, asked, codes>>
  <2>1. idt.fault.segment_selector = 8 /\ (idt.fault.attr.type # "InterruptGate") = FALSE
    BY DEF idt, IDTEntry, MakeIDTAttr, KernelCS
  <2> DEFINE at == InterruptStack(idt.fault, cpu)
             off == idt.fault.attr.type # "InterruptGate"
             cs == idt.fault.segment_selector
  <2>2. /\ Pushed(at[1], at[2], cpu)
        /\ cpu' = [cpu EXCEPT !.pc = "fault", !.cs = cs, !.ss = 0, !.iflag = off,
                              !.stack = at[1], !.depth = at[2] + 1]
        /\ UNCHANGED <<cur, ctx, osptr, asleep, halted, asked, codes>>
    BY DEF Fault
  <2>3. at[1] = Rsp0 /\ at[2] = 0 /\ at[2] + 1 = 1 /\ cs = 8 /\ off = FALSE
    BY <1>2, <2>1
  <2> HIDE DEF at, off, cs
  <2> QED
    BY <2>2, <2>3
<1>4. /\ mem' \in [Stacks -> [1..3 -> Frame]] /\ mem'[Rsp0][1] = cpu
      /\ \A r \in Stacks \ {Rsp0} : mem'[r] = mem[r]
  <2>1. TypeOK /\ Rsp0 \in Stacks /\ cpu \in Frame /\ 0 + 1 = 1 /\ 1 \in 1..3
    BY <1>0, Mine
  <2> QED
    BY <1>3, <2>1, PushedIs
<1>5. cpu' \in Frame
  <2> DEFINE f == [cpu EXCEPT !.pc = "fault", !.cs = 8, !.ss = 0]
  <2>1. cpu \in Frame /\ Rsp0 \in Stacks
    BY <1>0, Mine
  <2>2. f \in Frame
    BY <2>1 DEF Frame, Places
  <2>3. cpu' = [f EXCEPT !.iflag = FALSE, !.stack = Rsp0, !.depth = 1]
    BY <1>3, <2>1 DEF Frame
  <2> HIDE DEF f
  <2> QED
    BY <2>1, <2>2, <2>3 DEF Frame
<1>6. TypeOK'
  BY <1>0, <1>3, <1>4, <1>5, Mine DEF TypeOK
<1>7. /\ cpu'.pc = "fault" /\ cpu'.cs = 8 /\ cpu'.ss = 0 /\ cpu'.cr3 = cur /\ cpu'.stack = Rsp0
      /\ cpu'.depth = 1 /\ cpu'.iflag = FALSE
  BY <1>0, <1>1, <1>3, Mine DEF AppFrame, Frame
<1>8. Proc(cur)' = cpu' /\ cur' = cur
  BY <1>3 DEF Proc
<1>9. Left(cur)'
  <2>1. mem'[OSStack(cur)] = mem[OSStack(cur)]
    BY <1>0, <1>4, Mine
  <2> QED
    BY <1>1, <1>3, <1>4, <1>7, <1>8, <2>1 DEF Left, InCall, OnOSStack
<1>10. Runs(cur)'
  BY <1>7, <1>8 DEF Runs, InCall, OnOSStack, Places
<1>11. \A t \in Shells \ {cur} :
         /\ osptr'[t] = osptr[t] /\ asked'[t] = asked[t]
         /\ mem'[OSStack(t)] = mem[OSStack(t)] /\ mem'[UserStack(t)] = mem[UserStack(t)]
  BY <1>0, <1>3, <1>4, Mine
<1> QED
  BY <1>0, <1>3, <1>6, <1>9, <1>10, <1>11, Mine, OwnStep

LEMMA RepairedStep ==
  ASSUME IInv, Repaired
  PROVE  IInv'
<1>0. ~halted /\ cpu.pc = "fault"
  BY DEF Repaired, At
<1>1. /\ osptr[cur] = <<OSStack(cur), 1>> /\ ShellFrame(cur, mem[OSStack(cur)][1])
      /\ AppFrame(cur, mem[Rsp0][1]) /\ cpu.stack = Rsp0 /\ cpu.depth = 1
  BY <1>0, Mine DEF Runs, Left
<1>2. cpu' = mem[Rsp0][1] /\ UNCHANGED <<cur, ctx, osptr, mem, asleep, halted, asked, codes>>
  BY <1>1 DEF Repaired, Popped
<1>3. TypeOK'
  BY <1>0, <1>2, Mine DEF TypeOK
<1>4. Proc(cur)' = cpu' /\ cur' = cur /\ AppFrame(cur, cpu') /\ cpu'.pc = "app"
  BY <1>1, <1>2 DEF Proc, AppFrame
<1>5. Left(cur)'
  BY <1>1, <1>2, <1>4 DEF Left, InCall, OnOSStack
<1>6. Runs(cur)'
  BY <1>4 DEF Runs, InCall, OnOSStack, Places
<1> QED
  BY <1>0, <1>2, <1>3, <1>5, <1>6, Mine, OwnStep

LEMMA KillAppStep ==
  ASSUME IInv, KillApp
  PROVE  IInv'
<1>0. ~halted /\ cpu.pc = "fault"
  BY DEF KillApp, At
<1>1. /\ osptr[cur] = <<OSStack(cur), 1>> /\ ShellFrame(cur, mem[OSStack(cur)][1])
      /\ cpu.cs = 8 /\ cpu.ss = 0 /\ cpu.cr3 = cur /\ cpu.stack = Rsp0 /\ cpu.depth = 1
  BY <1>0, Mine DEF Runs, Left
<1>2. /\ asked' = [asked EXCEPT ![cur] = 139]
      /\ cpu' = [cpu EXCEPT !.pc = "exit", !.iflag = TRUE, !.arg = <<OSStack(cur), 1>>, !.code = 139]
      /\ UNCHANGED <<cur, ctx, osptr, mem, asleep, halted, codes>>
  BY <1>1 DEF KillApp, OSStackPointer
<1>3. cpu' \in Frame
  <2>1. <<OSStack(cur), 1>> \in Pointers /\ cpu \in Frame
    BY <1>0, Mine DEF Pointers
  <2>2. "exit" \in Places /\ 139 \in Nat
    BY DEF Places
  <2> QED
    BY ZenonT(40), <1>2, <2>1, <2>2 DEF Frame
<1>4. TypeOK'
  BY <1>0, <1>2, <1>3, Mine DEF TypeOK
<1>5. /\ cpu'.pc = "exit" /\ cpu'.iflag = TRUE /\ cpu'.arg = <<OSStack(cur), 1>> /\ cpu'.code = 139
      /\ cpu'.cs = 8 /\ cpu'.ss = 0 /\ cpu'.cr3 = cur /\ cpu'.stack = Rsp0 /\ cpu'.depth = 1
      /\ asked'[cur] = 139
  BY <1>0, <1>1, <1>2, Mine DEF Frame, TypeOK
<1>6. Proc(cur)' = cpu' /\ cur' = cur
  BY <1>2 DEF Proc
<1>7. Left(cur)'
  BY <1>1, <1>2, <1>5, <1>6 DEF Left, InCall, OnOSStack
<1>8. Runs(cur)'
  BY <1>5, <1>6 DEF Runs, InCall, OnOSStack, Places, InKernel
<1>9. \A t \in Shells \ {cur} :
         /\ osptr'[t] = osptr[t] /\ asked'[t] = asked[t]
         /\ mem'[OSStack(t)] = mem[OSStack(t)] /\ mem'[UserStack(t)] = mem[UserStack(t)]
  BY <1>0, <1>2, Mine DEF TypeOK
<1> QED
  BY <1>0, <1>2, <1>4, <1>7, <1>8, <1>9, Mine, OwnStep

LEMMA KernelFaultStep ==
  ASSUME IInv, KernelFault
  PROVE  IInv'
<1>0. ~halted /\ cpu.pc = "call" /\ cpu.pc \in OnOSStack
  BY DEF KernelFault, At, OnOSStack
<1>1. /\ osptr[cur] = <<OSStack(cur), 1>> /\ cpu.pc # "idle"
      /\ ShellFrame(cur, mem[OSStack(cur)][1]) /\ AppFrame(cur, mem[UserStack(cur)][1])
      /\ EnteredFrame(cur, mem[OSStack(cur)][2])
      /\ cpu.cs = 8 /\ cpu.ss = 16 /\ cpu.cr3 = cur /\ cpu.stack = OSStack(cur) /\ cpu.depth = 2
  BY <1>0, InFunction
<1>2. /\ cpu' = [cpu EXCEPT !.iflag = FALSE] /\ halted' = TRUE
      /\ UNCHANGED <<cur, ctx, osptr, mem, asleep, asked, codes>>
  BY DEF KernelFault
<1>3. cpu' \in Frame
  BY <1>1, <1>2, Mine DEF Frame
<1>4. TypeOK'
  BY <1>1, <1>2, <1>3, Mine DEF TypeOK
<1>5. /\ cpu'.pc = "call" /\ cpu'.iflag = FALSE
      /\ cpu'.cs = 8 /\ cpu'.ss = 16 /\ cpu'.cr3 = cur /\ cpu'.stack = OSStack(cur) /\ cpu'.depth = 2
  BY <1>0, <1>1, <1>2, Mine DEF Frame
<1>6. Proc(cur)' = cpu' /\ cur' = cur
  BY <1>2 DEF Proc
<1>7. Left(cur)'
  BY <1>1, <1>2, <1>5, <1>6 DEF Left, InCall, OnOSStack
<1>8. Runs(cur)'
  BY <1>2, <1>5, <1>6 DEF Runs, InCall, OnOSStack, Places
<1> QED
  BY <1>0, <1>1, <1>2, <1>4, <1>5, <1>7, <1>8, Mine, OwnStep

-----------------------------------------------------------------------------
(* Interrupts and switches.                                                 *)

LEMMA NoFault ==
  ASSUME IInv, cpu.pc # "fault", NEW t \in Shells
  PROVE  Proc(t).pc # "fault"
BY DEF IInv, Left, Proc

\* What task t will need of its stacks is still there.
Kept(t) ==
  /\ Proc(t).pc # "shell" => mem'[OSStack(t)][1] = mem[OSStack(t)][1]
  /\ Proc(t).pc \in InCall => mem'[UserStack(t)][1] = mem[UserStack(t)][1]
  /\ Proc(t).pc \in OnOSStack => mem'[OSStack(t)][2] = mem[OSStack(t)][2]

\* A step that only the handler of an interrupt notices.
Unnoticed ==
  /\ ~halted /\ UNCHANGED <<osptr, halted, asked, codes>>
  /\ \A t \in Tasks : Proc(t)' = Proc(t)
  /\ \A t \in Shells : Kept(t) /\ Proc(t).pc # "fault"

LEMMA UnnoticedStep ==
  ASSUME IInv, TypeOK', Unnoticed
  PROVE  IInv'
<1>1. IdleRuns'
  BY StackNames DEF IInv, IdleRuns, Unnoticed
<1>2. ASSUME NEW t \in Shells PROVE Left(t)' /\ Runs(t)'
  <2>1. /\ Left(t) /\ Runs(t) /\ Kept(t) /\ Proc(t)' = Proc(t) /\ Proc(t).pc # "fault"
        /\ osptr' = osptr /\ asked' = asked /\ ~halted /\ ~halted'
    BY StackNames DEF IInv, Unnoticed
  <2>2. Left(t)'
    BY <2>1 DEF Left, Kept
  <2>3. Runs(t)'
    BY <2>1 DEF Runs
  <2> QED
    BY <2>2, <2>3
<1> QED
  BY <1>1, <1>2 DEF IInv, Unnoticed

LEMMA WakeupUnnoticed ==
  ASSUME IInv, Wakeup
  PROVE  TypeOK' /\ Unnoticed
<1>1. ~halted /\ cpu.pc = "idle" /\ UNCHANGED <<cur, cpu, ctx, osptr, mem, halted, asked, codes>>
  BY DEF Wakeup, At
<1>2. TypeOK'
  <2>1. asleep' \in SUBSET Tasks
    BY DEF IInv, TypeOK, Wakeup
  <2> QED
    BY <1>1, <2>1 DEF IInv, TypeOK
<1>3. \A t \in Tasks : Proc(t)' = Proc(t)
  BY <1>1 DEF Proc
<1> QED
  BY <1>1, <1>2, <1>3, NoFault DEF Unnoticed, Kept

\* With interrupts on nobody is in the handler of a fault.
LEMMA InterruptsOn ==
  ASSUME IInv, ~halted, cpu.iflag
  PROVE  cpu.pc \notin {"fault", "woken"}
<1>1. CASE cpu.pc = "fault"
  <2>1. cpu.iflag = FALSE
    BY <1>1, Mine DEF Runs
  <2> QED
    BY <2>1
<1>2. CASE cpu.pc = "woken"
  <2>1. cpu.iflag = (cpu.pc = "call")
    BY <1>2, InFunction DEF OnOSStack
  <2> QED
    BY <1>2, <2>1
<1> QED
  BY <1>1, <1>2

LEMMA TimerUnnoticed ==
  ASSUME IInv, IntHandlerLAPICTimer
  PROVE  TypeOK' /\ Unnoticed
<1>1. ~halted /\ cpu.iflag /\ UNCHANGED <<osptr, asleep, halted, asked, codes>>
  BY DEF IntHandlerLAPICTimer
<1>2. PICK t \in Tasks \ {cur} : ctx' = [ctx EXCEPT ![cur] = cpu] /\ cur' = t /\ cpu' = ctx[t]
  BY DEF IntHandlerLAPICTimer, Ready, RestoreContext
<1>3. Pushed(Ist, 0, Garbage)
  <2>1. InterruptStack(idt.lapicTimer, cpu) = <<Ist, 0>>
    BY InterruptStacks
  <2> DEFINE at == InterruptStack(idt.lapicTimer, cpu)
  <2>2. Pushed(at[1], at[2], Garbage)
    BY DEF IntHandlerLAPICTimer
  <2>3. at[1] = Ist /\ at[2] = 0
    BY <2>1
  <2> HIDE DEF at
  <2> QED
    BY <2>2, <2>3
<1>4. TypeOK /\ cur \in Tasks
  BY DEF IInv, TypeOK
<1>5. mem' \in [Stacks -> [1..3 -> Frame]] /\ \A r \in Stacks \ {Ist} : mem'[r] = mem[r]
  <2>1. Ist \in Stacks /\ Garbage \in Frame /\ 0 \in Nat
    BY StackNames, InitFrames
  <2> QED
    BY <1>3, <1>4, <2>1, PushedIs
<1>6. TypeOK'
  BY <1>1, <1>2, <1>4, <1>5 DEF TypeOK
<1>7. ASSUME NEW u \in Tasks PROVE Proc(u)' = Proc(u)
  <2>1. ctx'[u] = IF u = cur THEN cpu ELSE ctx[u]
    BY <1>2, <1>4 DEF TypeOK
  <2>2. cur' = t /\ cpu' = ctx[t] /\ t # cur
    BY <1>2
  <2> QED
    BY <2>1, <2>2 DEF Proc
<1>8. ASSUME NEW u \in Shells PROVE Kept(u) /\ Proc(u).pc # "fault"
  <2>1. mem'[OSStack(u)] = mem[OSStack(u)] /\ mem'[UserStack(u)] = mem[UserStack(u)]
    BY <1>5, StackNames
  <2> QED
    BY <2>1, <1>1, InterruptsOn, NoFault DEF Kept
<1> QED
  BY <1>1, <1>6, <1>7, <1>8 DEF Unnoticed

LEMMA PassesUnnoticed ==
  ASSUME IInv, Passes
  PROVE  TypeOK' /\ Unnoticed
<1>1. ~halted /\ cpu.iflag /\ UNCHANGED <<cur, cpu, ctx, osptr, asleep, halted, asked, codes>>
  BY DEF Passes
<1>2. TypeOK /\ cur \in Tasks /\ cpu \in Frame
  BY DEF IInv, TypeOK
<1>3. PICK s \in Stacks, d \in Nat :
        /\ Pushed(s, d, Garbage)
        /\ Ring(cpu) = 3 => s = Rsp0 /\ d = 0
        /\ Ring(cpu) # 3 => s = cpu.stack /\ d = cpu.depth
  <2> DEFINE at == InterruptStack(idt.xhci, cpu)
  <2>1. Pushed(at[1], at[2], Garbage)
    BY DEF Passes
  <2>2. at = IF Ring(cpu) = 3 THEN <<Rsp0, 0>> ELSE <<cpu.stack, cpu.depth>>
    BY InterruptStacks
  <2> HIDE DEF at
  <2>3. cpu.stack \in Stacks /\ cpu.depth \in Nat /\ Rsp0 \in Stacks
    BY <1>2, StackNames DEF Frame
  <2>4. CASE Ring(cpu) = 3
    <3>1. Pushed(Rsp0, 0, Garbage)
      BY <2>1, <2>2, <2>4
    <3> QED
      BY <2>3, <2>4, <3>1
  <2>5. CASE Ring(cpu) # 3
    <3>1. Pushed(cpu.stack, cpu.depth, Garbage)
      BY <2>1, <2>2, <2>5
    <3> QED
      BY <2>3, <2>5, <3>1
  <2> QED
    BY <2>4, <2>5
<1>4. /\ mem' \in [Stacks -> [1..3 -> Frame]] /\ \A r \in Stacks \ {s} : mem'[r] = mem[r]
      /\ \A e \in 1..3 : e # d + 1 => mem'[s][e] = mem[s][e]
  <2>1. Garbage \in Frame
    BY InitFrames
  <2> QED
    BY <1>2, <1>3, <2>1, PushedIs
<1>5. TypeOK'
  BY <1>1, <1>2, <1>4 DEF TypeOK
<1>6. \A t \in Tasks : Proc(t)' = Proc(t)
  BY <1>1 DEF Proc
<1>7. cpu.pc \notin {"fault", "woken"}
  BY <1>1, InterruptsOn
<1>8. ASSUME NEW t \in Shells PROVE Proc(t).pc # "fault"
  BY <1>7, NoFault
\* On whose stack it pushes, and how far down.
<1>9. \/ s = Rsp0 \/ (cur = Idle /\ s = OSStack(Idle))
      \/ (cur \in Shells /\ cpu.pc = "shell" /\ s = OSStack(cur))
      \/ (cur \in Shells /\ cpu.pc # "shell" /\ s = UserStack(cur) /\ d = 1)
      \/ (cur \in Shells /\ cpu.pc = "call" /\ s = OSStack(cur) /\ d = 2)
  <2>1. CASE cur = Idle
    <3>1. InKernel(cpu) /\ cpu.stack = OSStack(Idle)
      BY <2>1 DEF IInv, IdleRuns, Proc
    <3>2. Ring(cpu) # 3
      BY <3>1, Selectors DEF InKernel, Ring
    <3> QED
      BY <2>1, <3>1, <3>2, <1>3
  <2>2. CASE cur \in Shells
    <3>1. Runs(cur) /\ Proc(cur) = cpu
      BY <2>2 DEF IInv, Proc
    <3>2. CASE cpu.pc = "app"
      <4>1. cpu.cs = 35
        BY <3>1, <3>2 DEF Runs, AppFrame
      <4>2. Ring(cpu) = 3
        BY <4>1, Selectors DEF Ring
      <4> QED
        BY <4>2, <1>3
    <3>3. CASE cpu.pc = "shell"
      <4>1. cpu.cs = 8 /\ cpu.stack = OSStack(cur)
        BY <3>1, <3>3 DEF Runs, ShellFrame, InKernel
      <4>2. Ring(cpu) # 3
        BY <4>1, Selectors DEF Ring
      <4> QED
        BY <2>2, <3>3, <4>1, <4>2, <1>3
    <3>4. CASE cpu.pc \in InCall \ OnOSStack
      <4>1. cpu.cs = 8 /\ cpu.stack = UserStack(cur) /\ cpu.depth = 1 /\ cpu.pc # "shell"
        BY <3>1, <3>4 DEF Runs, OnUserStack, InCall
      <4>2. Ring(cpu) # 3
        BY <4>1, Selectors DEF Ring
      <4> QED
        BY <2>2, <4>1, <4>2, <1>3
    <3>5. CASE cpu.pc = "call"
      <4>1. cpu.cs = 8 /\ cpu.stack = OSStack(cur) /\ cpu.depth = 2
        BY <3>1, <3>5 DEF Runs, OnOSStack
      <4>2. Ring(cpu) # 3
        BY <4>1, Selectors DEF Ring
      <4> QED
        BY <2>2, <3>5, <4>1, <4>2, <1>3
    <3>6. CASE cpu.pc = "exit"
      <4>1. cpu.cs = 8 /\ cpu.stack \in {UserStack(cur), Rsp0} /\ cpu.depth = 1
        BY <3>1, <3>6 DEF Runs, InKernel
      <4>2. Ring(cpu) # 3
        BY <4>1, Selectors DEF Ring
      <4> QED
        BY <2>2, <3>6, <4>1, <4>2, <1>3
    <3> QED
      BY <3>1, <3>2, <3>3, <3>4, <3>5, <3>6, <1>7 DEF Runs, Places, InCall, OnOSStack
  <2> QED
    BY <2>1, <2>2, <1>2 DEF Tasks
<1>10. ASSUME NEW t \in Shells PROVE Kept(t)
  <2>0. /\ t \in Tasks /\ OSStack(t) \in Stacks /\ UserStack(t) \in Stacks
        /\ OSStack(t) # Rsp0 /\ UserStack(t) # Rsp0 /\ t # Idle
        /\ OSStack(t) # OSStack(Idle) /\ UserStack(t) # OSStack(Idle)
        /\ OSStack(t) # UserStack(cur) /\ UserStack(t) # OSStack(cur)
        /\ t # cur => OSStack(t) # OSStack(cur) /\ UserStack(t) # UserStack(cur)
    BY <1>2, StackNames
  <2>1. CASE s \notin {OSStack(t), UserStack(t)}
    BY <2>0, <2>1, <1>4 DEF Kept
  <2>2. CASE s \in {OSStack(t), UserStack(t)}
    <3>1. t = cur /\ Proc(t) = cpu
      BY <2>0, <2>2, <1>9 DEF Proc
    <3>2. CASE cpu.pc = "shell" /\ s = OSStack(cur)
      BY <2>0, <3>1, <3>2, <1>4 DEF Kept, InCall, OnOSStack
    <3>3. CASE s = UserStack(cur) /\ d = 1
      <4>1. mem'[UserStack(t)][1] = mem[UserStack(t)][1] /\ mem'[OSStack(t)] = mem[OSStack(t)]
        BY <2>0, <3>1, <3>3, <1>4
      <4> QED
        BY <4>1 DEF Kept
    <3>4. CASE cpu.pc = "call" /\ s = OSStack(cur) /\ d = 2
      <4>1. /\ mem'[OSStack(t)][1] = mem[OSStack(t)][1] /\ mem'[OSStack(t)][2] = mem[OSStack(t)][2]
            /\ mem'[UserStack(t)] = mem[UserStack(t)]
        BY <2>0, <3>1, <3>4, <1>4
      <4> QED
        BY <4>1 DEF Kept
    <3> QED
      BY <2>0, <2>2, <3>1, <3>2, <3>3, <3>4, <1>9
  <2> QED
    BY <2>1, <2>2
<1> QED
  BY <1>1, <1>5, <1>6, <1>8, <1>10 DEF Unnoticed

LEMMA SleepStep ==
  ASSUME IInv, Sleep
  PROVE  IInv'
<1>0. ~halted /\ cpu.pc = "call" /\ cpu.pc \in OnOSStack
  BY DEF Sleep, At, OnOSStack
<1> DEFINE f == [cpu EXCEPT !.pc = "woken", !.iflag = FALSE]
<1>1. /\ osptr[cur] = <<OSStack(cur), 1>> /\ cpu.pc # "idle"
      /\ ShellFrame(cur, mem[OSStack(cur)][1]) /\ AppFrame(cur, mem[UserStack(cur)][1])
      /\ EnteredFrame(cur, mem[OSStack(cur)][2])
      /\ cpu.cs = 8 /\ cpu.ss = 16 /\ cpu.cr3 = cur /\ cpu.stack = OSStack(cur) /\ cpu.depth = 2
  BY <1>0, InFunction
<1>2. PICK t \in Tasks \ {cur} : cur' = t /\ cpu' = ctx[t]
  BY DEF Sleep, Ready, RestoreContext
<1>3. /\ ctx' = [ctx EXCEPT ![cur] = f] /\ asleep' = asleep \cup {cur}
      /\ UNCHANGED <<osptr, mem, halted, asked, codes>>
  BY DEF Sleep
<1>4. TypeOK /\ cur \in Tasks /\ cur \in Shells /\ cpu \in Frame
  BY <1>1, Mine
<1>5. /\ f \in Frame /\ f.pc = "woken" /\ f.iflag = FALSE
      /\ f.cs = 8 /\ f.ss = 16 /\ f.cr3 = cur /\ f.stack = OSStack(cur) /\ f.depth = 2
  BY <1>1, <1>4 DEF Frame, Places, InCall
<1> HIDE DEF f
<1>6. TypeOK'
  BY <1>2, <1>3, <1>4, <1>5 DEF TypeOK
<1>7. ASSUME NEW u \in Tasks PROVE Proc(u)' = IF u = cur THEN f ELSE Proc(u)
  <2>1. ctx'[u] = IF u = cur THEN f ELSE ctx[u]
    BY <1>3, <1>4 DEF TypeOK
  <2>2. cur' = t /\ cpu' = ctx[t] /\ t # cur
    BY <1>2
  <2> QED
    BY <2>1, <2>2 DEF Proc
<1>8. IdleRuns'
  <2>1. Idle # cur
    BY <1>4, StackNames
  <2>2. Proc(Idle)' = Proc(Idle)
    BY <1>7, <2>1, StackNames
  <2> QED
    BY <2>2 DEF IInv, IdleRuns
<1>9. ASSUME NEW u \in Shells \ {cur} PROVE Left(u)' /\ Runs(u)'
  <2>1. Proc(u).pc # "fault"
    BY <1>0, NoFault
  <2>2. Proc(u)' = Proc(u)
    BY <1>7, StackNames
  <2> QED
    BY <1>0, <1>3, <2>1, <2>2, KeepsTask
<1>10. PICK me \in Shells : me = cur
  BY <1>4
<1>11. /\ Proc(me)' = f /\ f.pc = "woken" /\ f.iflag = FALSE
       /\ f.cs = 8 /\ f.ss = 16 /\ f.cr3 = me /\ f.stack = OSStack(me) /\ f.depth = 2
       /\ ~halted'
  BY <1>0, <1>3, <1>5, <1>7, <1>10, StackNames
<1>12. Left(me)'
  BY <1>1, <1>3, <1>10, <1>11 DEF Left, InCall, OnOSStack
<1>13. Runs(me)'
  BY <1>11 DEF Runs, InCall, OnOSStack, Places
<1>14. \A u \in Shells : Left(u)' /\ Runs(u)'
  BY <1>9, <1>10, <1>12, <1>13
<1> QED
  BY <1>6, <1>8, <1>11, <1>14 DEF IInv

-----------------------------------------------------------------------------
(* Every step.                                                              *)

LEMMA Step == IInv /\ [Next]_vars => IInv'
<1> SUFFICES ASSUME IInv, [Next]_vars PROVE IInv'
  OBVIOUS
<1>1. CASE CallApp
  BY <1>1, CallAppStep
<1>2. CASE ExitApp
  BY <1>2, ExitAppStep
<1>3. CASE SyscallEntry
  BY <1>3, SyscallEntryStep
<1>4. CASE GetCurrentTaskOSStackPointer
  BY <1>4, GetStackPointerStep
<1>5. CASE CallFunction
  BY <1>5, CallFunctionStep
<1>6. CASE Return
  BY <1>6, ReturnStep
<1>7. CASE SysRet
  BY <1>7, SysRetStep
<1>8. CASE Exit
  BY <1>8, ExitStep
<1>9. CASE Sleep
  BY <1>9, SleepStep
<1>10. CASE Woken
  BY <1>10, WokenStep
<1>11. CASE Wakeup \/ IntHandlerLAPICTimer \/ Passes
  BY <1>11, WakeupUnnoticed, TimerUnnoticed, PassesUnnoticed, UnnoticedStep
<1>12. CASE Fault
  BY <1>12, FaultStep
<1>13. CASE Repaired
  BY <1>13, RepairedStep
<1>14. CASE KillApp
  BY <1>14, KillAppStep
<1>15. CASE KernelFault
  BY <1>15, KernelFaultStep
<1>16. CASE UNCHANGED vars
  BY <1>16 DEF vars, IInv, TypeOK, IdleRuns, Left, Runs, Proc
<1> QED
  BY <1>1, <1>2, <1>3, <1>4, <1>5, <1>6, <1>7, <1>8, <1>9, <1>10, <1>11, <1>12, <1>13, <1>14,
     <1>15, <1>16 DEF Next

LEMMA Invariance == Spec => []IInv
<1>1. Init => IInv
  BY InitOK
<1>2. IInv /\ [Next]_vars => IInv'
  BY Step
<1> QED
  BY <1>1, <1>2, PTL DEF Spec

\* Whoever runs has the segments, the stack, the page map and the flag IF of its mode: whatever
\* SyscallEntry, the handlers of interrupts and the switches of contexts load and restore.
THEOREM RunsInItsMode == Spec => []InItsMode
<1>1. Spec => []IInv
  BY Invariance
<1>2. IInv => InItsMode
  BY ModeFollows
<1> QED
  BY <1>1, <1>2, PTL

-----------------------------------------------------------------------------
(* What terminals and applications see.                                     *)

SeenStage == [t \in Shells |-> Stage(t)]
SeenShell == [t \in Shells |-> ShellRegs(t)]
SeenApp   == [t \in Shells |-> AppRegs(t)]

Sees(t) == <<Stage(t), ShellRegs(t), AppRegs(t)>>

LEMMA SeesAs ==
  ASSUME NEW t
  PROVE  /\ Proc(t).pc = "shell" => Sees(t) = <<"shell", Proc(t).regs, 0>>
         /\ Proc(t).pc = "app" => Sees(t) = <<"app", mem[OSStack(t)][1].regs, Proc(t).regs>>
         /\ Proc(t).pc = "fault" => Sees(t) = <<"app", mem[OSStack(t)][1].regs, mem[Rsp0][1].regs>>
         /\ Proc(t).pc \in InCall =>
              Sees(t) = <<"call", mem[OSStack(t)][1].regs, mem[UserStack(t)][1].regs>>
         /\ Proc(t).pc = "exit" => Sees(t) = <<"ending", mem[OSStack(t)][1].regs, 0>>
BY DEF Sees, Stage, ShellRegs, AppRegs, InCall

LEMMA SeesAsNext ==
  ASSUME NEW t
  PROVE  /\ Proc(t)'.pc = "shell" => Sees(t)' = <<"shell", Proc(t)'.regs, 0>>
         /\ Proc(t)'.pc = "app" => Sees(t)' = <<"app", mem'[OSStack(t)][1].regs, Proc(t)'.regs>>
         /\ Proc(t)'.pc = "fault" => Sees(t)' = <<"app", mem'[OSStack(t)][1].regs, mem'[Rsp0][1].regs>>
         /\ Proc(t)'.pc \in InCall =>
              Sees(t)' = <<"call", mem'[OSStack(t)][1].regs, mem'[UserStack(t)][1].regs>>
         /\ Proc(t)'.pc = "exit" => Sees(t)' = <<"ending", mem'[OSStack(t)][1].regs, 0>>
BY DEF Sees, Stage, ShellRegs, AppRegs, InCall

LEMMA SeesNothing ==
  ASSUME IInv, NEW t \in Shells, Proc(t)' = Proc(t), Kept(t), Proc(t).pc # "fault"
  PROVE  Sees(t)' = Sees(t)
<1>1. Proc(t).pc \in Places
  BY DEF IInv, Runs
<1> QED
  BY <1>1, SeesAs, SeesAsNext DEF Kept, Places, InCall

\* One task, at most, sees something.
LEMMA SeenBy ==
  ASSUME NEW me \in Shells, \A u \in Shells \ {me} : Sees(u)' = Sees(u),
         NEW s, NEW a, NEW b, Sees(me)' = <<s, a, b>>
  PROVE  /\ SeenStage' = [SeenStage EXCEPT ![me] = s]
         /\ SeenShell' = [SeenShell EXCEPT ![me] = a]
         /\ SeenApp' = [SeenApp EXCEPT ![me] = b]
<1>1. /\ Stage(me)' = s /\ ShellRegs(me)' = a /\ AppRegs(me)' = b
      /\ \A u \in Shells \ {me} : /\ Stage(u)' = Stage(u) /\ ShellRegs(u)' = ShellRegs(u)
                                  /\ AppRegs(u)' = AppRegs(u)
  BY DEF Sees
<1> QED
  BY <1>1 DEF SeenStage, SeenShell, SeenApp

LEMMA SeenIn ==
  ASSUME NEW me \in Shells, NEW s, NEW a, NEW b, Sees(me) = <<s, a, b>>
  PROVE  /\ SeenStage[me] = s /\ SeenStage = [SeenStage EXCEPT ![me] = s]
         /\ SeenShell[me] = a /\ SeenShell = [SeenShell EXCEPT ![me] = a]
         /\ SeenApp[me] = b /\ SeenApp = [SeenApp EXCEPT ![me] = b]
BY DEF Sees, SeenStage, SeenShell, SeenApp

LEMMA SeenByNone ==
  ASSUME \A u \in Shells : Sees(u)' = Sees(u), UNCHANGED <<asked, codes>>
  PROVE  UNCHANGED Calls!callVars
<1>1. \A u \in Shells : /\ Stage(u)' = Stage(u) /\ ShellRegs(u)' = ShellRegs(u)
                        /\ AppRegs(u)' = AppRegs(u)
  BY DEF Sees
<1> QED
  BY <1>1 DEF Calls!callVars

\* The task that has the processor, and keeps it.
LEMMA OwnSees ==
  ASSUME IInv, ~halted, UNCHANGED <<cur, ctx>>, NEW me \in Shells, me = cur,
         \A s \in Stacks : mem'[s] = mem[s] \/ s \in {OSStack(me), UserStack(me), Rsp0}
  PROVE  /\ Proc(me) = cpu /\ Proc(me)' = cpu'
         /\ \A u \in Shells \ {me} : Sees(u)' = Sees(u)
<1>1. Proc(me) = cpu /\ Proc(me)' = cpu'
  BY DEF Proc
<1>2. ASSUME NEW u \in Shells \ {me} PROVE Sees(u)' = Sees(u)
  <2>1. Proc(u)' = Proc(u)
    BY DEF Proc
  <2>2. Proc(u).pc # "fault"
    BY DEF IInv, Left
  <2>3. mem'[OSStack(u)] = mem[OSStack(u)] /\ mem'[UserStack(u)] = mem[UserStack(u)]
    <3>1. /\ u \in Tasks /\ me \in Tasks /\ u # me
          /\ OSStack(u) \in Stacks /\ OSStack(u) # Rsp0 /\ UserStack(u) \in Stacks /\ UserStack(u) # Rsp0
      BY StackNames
    <3>2. OSStack(u) \notin {OSStack(me), UserStack(me)} /\ UserStack(u) \notin {OSStack(me), UserStack(me)}
      BY <3>1, StackNames
    <3> QED
      BY <3>1, <3>2
  <2> QED
    BY <2>1, <2>2, <2>3, SeesNothing DEF Kept
<1> QED
  BY <1>1, <1>2

\* What its task has on its stacks when the processor is at a point of the kernel or of an application.
LEMMA Here ==
  ASSUME IInv, ~halted, NEW me \in Shells, me = cur
  PROVE  /\ cpu \in Frame /\ cpu.regs \in Int /\ TypeOK
         /\ OSStack(me) \in Stacks /\ UserStack(me) \in Stacks /\ Rsp0 \in Stacks
         /\ OSStack(me) # UserStack(me) /\ OSStack(me) # Rsp0 /\ UserStack(me) # Rsp0
         /\ Left(me) /\ Runs(me) /\ Proc(me) = cpu
<1>1. cpu.pc # "idle"
  BY DEF IInv, Runs, Proc, Places, InCall
<1> QED
  BY <1>1, Mine

LEMMA CallAppBegins ==
  ASSUME IInv, CallApp, NEW me \in Shells, me = cur
  PROVE  Calls!Begin(me)
<1>1. ~halted /\ cpu.pc = "shell" /\ cpu.stack = OSStack(me) /\ cpu.depth = 0
  BY Here DEF CallApp, At, Runs, ShellFrame
<1>2. cpu'.pc = "app" /\ cpu'.regs = 0 /\ UNCHANGED <<cur, ctx, asked, codes>>
  BY <1>1, Here DEF CallApp, Frame
<1>3. mem'[OSStack(me)][1] = cpu /\ \A s \in Stacks : mem'[s] = mem[s] \/ s = OSStack(me)
  <2>1. Pushed(OSStack(me), 0, cpu) /\ 0 + 1 = 1 /\ 1 \in 1..3
    BY <1>1 DEF CallApp
  <2> QED
    BY <2>1, <1>1, Here, PushedIs
<1>4. /\ Proc(me) = cpu /\ Proc(me)' = cpu'
      /\ \A u \in Shells \ {me} : Sees(u)' = Sees(u)
  BY <1>1, <1>2, <1>3, OwnSees
<1>5. Sees(me) = <<"shell", cpu.regs, 0>> /\ Sees(me)' = <<"app", cpu.regs, 0>>
  BY <1>1, <1>2, <1>3, <1>4, SeesAs, SeesAsNext
<1>6. /\ SeenStage[me] = "shell" /\ SeenStage' = [SeenStage EXCEPT ![me] = "app"]
      /\ SeenShell' = SeenShell /\ SeenApp' = SeenApp
  BY <1>4, <1>5, SeenBy, SeenIn
<1> QED
  BY <1>2, <1>6 DEF Calls!Begin, Calls!Goes, SeenStage, SeenShell, SeenApp

LEMMA ExitAppGoesOn ==
  ASSUME IInv, ExitApp, NEW me \in Shells, me = cur
  PROVE  Calls!GoesOn(me)
<1> DEFINE frame == mem[OSStack(me)][1]
<1>1. /\ ~halted /\ cpu.pc = "exit" /\ cpu.arg = <<OSStack(me), 1>> /\ cpu.code = asked[me]
      /\ ShellFrame(me, frame)
  BY Here DEF ExitApp, At, Runs, Left
<1>2. /\ cpu'.pc = "shell" /\ cpu'.regs = frame.regs + 1 /\ UNCHANGED <<cur, ctx, mem>>
      /\ codes' = [codes EXCEPT ![me] = Append(codes[me], asked[me])]
      /\ asked' = [asked EXCEPT ![me] = 0]
  <2>1. frame \in Frame
    BY <1>1, Here DEF TypeOK
  <2>2. cpu' = [frame EXCEPT !.cs = cpu.cs, !.ss = cpu.ss, !.iflag = cpu.iflag, !.regs = frame.regs + 1]
    BY <1>1 DEF ExitApp
  <2> HIDE DEF frame
  <2>3. cpu'.pc = "shell" /\ cpu'.regs = frame.regs + 1
    BY <1>1, <2>1, <2>2 DEF Frame, ShellFrame
  <2> QED
    BY <1>1, <2>3 DEF ExitApp
<1>4. /\ Proc(me) = cpu /\ Proc(me)' = cpu'
      /\ \A u \in Shells \ {me} : Sees(u)' = Sees(u)
  BY <1>1, <1>2, OwnSees
<1>5. Sees(me) = <<"ending", frame.regs, 0>> /\ Sees(me)' = <<"shell", frame.regs + 1, 0>>
  BY <1>1, <1>2, <1>4, SeesAs, SeesAsNext
<1> HIDE DEF frame
<1>6. /\ SeenStage[me] = "ending" /\ SeenStage' = [SeenStage EXCEPT ![me] = "shell"]
      /\ SeenShell[me] = frame.regs /\ SeenShell' = [SeenShell EXCEPT ![me] = frame.regs + 1]
      /\ SeenApp' = SeenApp
  BY <1>4, <1>5, SeenBy, SeenIn
<1>7. SeenShell' = [SeenShell EXCEPT ![me] = SeenShell[me] + 1]
  BY <1>6
<1> QED
  BY <1>2, <1>6, <1>7 DEF Calls!GoesOn, Calls!Goes, SeenStage, SeenShell, SeenApp

LEMMA SyscallEntryCalls ==
  ASSUME IInv, SyscallEntry, NEW me \in Shells, me = cur
  PROVE  Calls!Call(me)
<1>1. ~halted /\ cpu.pc = "app" /\ cpu.stack = UserStack(me) /\ cpu.depth = 0
  BY Here DEF SyscallEntry, At, Runs, AppFrame
<1>2. cpu'.pc = "entry" /\ UNCHANGED <<cur, ctx, asked, codes>>
  BY <1>1, Here DEF SyscallEntry, Frame
<1>3. mem'[UserStack(me)][1] = cpu /\ \A s \in Stacks : mem'[s] = mem[s] \/ s = UserStack(me)
  <2>1. Pushed(UserStack(me), 0, cpu) /\ 0 + 1 = 1 /\ 1 \in 1..3
    BY <1>1 DEF SyscallEntry
  <2> QED
    BY <2>1, <1>1, Here, PushedIs
<1>4. /\ Proc(me) = cpu /\ Proc(me)' = cpu' /\ mem'[OSStack(me)] = mem[OSStack(me)]
      /\ \A u \in Shells \ {me} : Sees(u)' = Sees(u)
  BY <1>1, <1>2, <1>3, Here, OwnSees
<1>5. Sees(me) = <<"app", mem[OSStack(me)][1].regs, cpu.regs>>
      /\ Sees(me)' = <<"call", mem[OSStack(me)][1].regs, cpu.regs>>
  BY <1>1, <1>2, <1>3, <1>4, SeesAs, SeesAsNext DEF InCall
<1>6. /\ SeenStage[me] = "app" /\ SeenStage' = [SeenStage EXCEPT ![me] = "call"]
      /\ SeenShell' = SeenShell /\ SeenApp' = SeenApp
  BY <1>4, <1>5, SeenBy, SeenIn
<1> QED
  BY <1>2, <1>6 DEF Calls!Call, Calls!Goes, SeenStage, SeenShell, SeenApp

LEMMA SysRetReturns ==
  ASSUME IInv, SysRet, NEW me \in Shells, me = cur
  PROVE  Calls!Return(me)
<1> DEFINE f == mem[UserStack(me)][1]
<1>1. ~halted /\ cpu.pc = "return" /\ cpu.stack = UserStack(me) /\ cpu.depth = 1 /\ AppFrame(me, f)
  <2>1. ~halted /\ cpu.pc = "return" /\ cpu.pc \in InCall \ OnOSStack
    BY DEF SysRet, At, InCall, OnOSStack
  <2>2. OnUserStack(me, cpu) /\ AppFrame(me, f)
    BY <2>1, Here DEF Runs, Left
  <2> QED
    BY <2>1, <2>2 DEF OnUserStack
<1>2. cpu'.pc = "app" /\ cpu'.regs = f.regs + 1 /\ UNCHANGED <<cur, ctx, mem, asked, codes>>
  <2>1. f \in Frame
    BY <1>1, Here DEF TypeOK
  <2> DEFINE n == f.regs + 1
             a == Star.sysret + 16
             b == Star.sysret + 8
  <2>2. cpu' = [f EXCEPT !.cs = a, !.ss = b, !.regs = n]
    BY <1>1 DEF SysRet, Popped
  <2> HIDE DEF f, n, a, b
  <2>3. cpu'.pc = "app" /\ cpu'.regs = n
    BY <1>1, <2>1, <2>2 DEF Frame, AppFrame
  <2> QED
    BY <2>3 DEF SysRet, n
<1>4. /\ Proc(me) = cpu /\ Proc(me)' = cpu'
      /\ \A u \in Shells \ {me} : Sees(u)' = Sees(u)
  BY <1>1, <1>2, OwnSees
<1>5. Sees(me) = <<"call", mem[OSStack(me)][1].regs, f.regs>>
      /\ Sees(me)' = <<"app", mem[OSStack(me)][1].regs, f.regs + 1>>
  BY <1>1, <1>2, <1>4, SeesAs, SeesAsNext DEF InCall
<1> HIDE DEF f
<1>6. /\ SeenStage[me] = "call" /\ SeenStage' = [SeenStage EXCEPT ![me] = "app"]
      /\ SeenShell' = SeenShell
      /\ SeenApp[me] = f.regs /\ SeenApp' = [SeenApp EXCEPT ![me] = f.regs + 1]
  BY <1>4, <1>5, SeenBy, SeenIn
<1>7. SeenApp' = [SeenApp EXCEPT ![me] = SeenApp[me] + 1]
  BY <1>6
<1> QED
  BY <1>2, <1>6, <1>7 DEF Calls!Return, Calls!Goes, SeenStage, SeenShell, SeenApp

LEMMA ExitEnds ==
  ASSUME IInv, Exit, NEW me \in Shells, me = cur
  PROVE  \E c \in Codes : Calls!Ends(me, "call", c)
<1>1. ~halted /\ cpu.pc = "call" /\ cpu.pc \in OnOSStack /\ Popped \in Frame
  BY InFunction DEF Exit, At, OnOSStack
<1>2. PICK c \in Codes : /\ asked' = [asked EXCEPT ![me] = c]
                         /\ cpu' = [Popped EXCEPT !.pc = "exit", !.arg = OSStackPointer, !.code = c]
  BY DEF Exit
<1>3. cpu'.pc = "exit" /\ UNCHANGED <<cur, ctx, mem, codes>>
  BY <1>1, <1>2 DEF Exit, Frame
<1>4. /\ Proc(me) = cpu /\ Proc(me)' = cpu'
      /\ \A u \in Shells \ {me} : Sees(u)' = Sees(u)
  BY <1>1, <1>3, OwnSees
<1>5. Sees(me) = <<"call", mem[OSStack(me)][1].regs, mem[UserStack(me)][1].regs>>
      /\ Sees(me)' = <<"ending", mem[OSStack(me)][1].regs, 0>>
  BY <1>1, <1>3, <1>4, SeesAs, SeesAsNext DEF InCall
<1>6. /\ SeenStage[me] = "call" /\ SeenStage' = [SeenStage EXCEPT ![me] = "ending"]
      /\ SeenShell' = SeenShell /\ SeenApp' = [SeenApp EXCEPT ![me] = 0]
  BY <1>4, <1>5, SeenBy, SeenIn
<1>7. Calls!Ends(me, "call", c)
  BY <1>2, <1>3, <1>6 DEF Calls!Ends, Calls!Goes, SeenStage, SeenShell, SeenApp
<1> QED
  BY <1>7

LEMMA KillAppEnds ==
  ASSUME IInv, KillApp, NEW me \in Shells, me = cur
  PROVE  Calls!Ends(me, "app", Calls!Killed)
<1>1. ~halted /\ cpu.pc = "fault"
  BY DEF KillApp, At
<1>2. /\ cpu'.pc = "exit" /\ UNCHANGED <<cur, ctx, mem, codes>>
      /\ asked' = [asked EXCEPT ![me] = Calls!Killed]
  BY <1>1, Here DEF KillApp, Frame, Calls!Killed
<1>4. /\ Proc(me) = cpu /\ Proc(me)' = cpu'
      /\ \A u \in Shells \ {me} : Sees(u)' = Sees(u)
  BY <1>1, <1>2, OwnSees
<1>5. Sees(me) = <<"app", mem[OSStack(me)][1].regs, mem[Rsp0][1].regs>>
      /\ Sees(me)' = <<"ending", mem[OSStack(me)][1].regs, 0>>
  BY <1>1, <1>2, <1>4, SeesAs, SeesAsNext
<1>6. /\ SeenStage[me] = "app" /\ SeenStage' = [SeenStage EXCEPT ![me] = "ending"]
      /\ SeenShell' = SeenShell /\ SeenApp' = [SeenApp EXCEPT ![me] = 0]
  BY <1>4, <1>5, SeenBy, SeenIn
<1> QED
  BY <1>2, <1>6 DEF Calls!Ends, Calls!Goes, SeenStage, SeenShell, SeenApp

\* Within a system call: nothing is pushed, or what CallFunction pushes.
LEMMA CallUnseen ==
  ASSUME IInv, NEW me \in Shells, me = cur,
         GetCurrentTaskOSStackPointer \/ CallFunction \/ Return \/ Woken \/ KernelFault
  PROVE  UNCHANGED Calls!callVars
<1>1. ~halted /\ cpu.pc \in InCall /\ UNCHANGED <<cur, ctx, asked, codes>>
  BY DEF GetCurrentTaskOSStackPointer, CallFunction, Return, Woken, KernelFault, At, InCall
<1>2. cpu'.pc \in InCall
  <2>1. CASE GetCurrentTaskOSStackPointer
    BY <1>1, <2>1, Here DEF GetCurrentTaskOSStackPointer, Frame, InCall
  <2>2. CASE CallFunction
    <3> DEFINE f == OnStack(cpu, cpu.arg)
    <3>1. f = [cpu EXCEPT !.stack = cpu.arg[1], !.depth = cpu.arg[2]] /\ cpu \in Frame
      BY <1>1, Here DEF OnStack
    <3>2. cpu' = [f EXCEPT !.pc = "call", !.depth = f.depth + 1]
      BY <2>2 DEF CallFunction
    <3> HIDE DEF f
    <3> QED
      BY <3>1, <3>2 DEF Frame, InCall
  <2>3. CASE Return
    <3>1. EnteredFrame(me, Popped) /\ Popped \in Frame
      BY <1>1, <2>3, InFunction DEF Return, At, OnOSStack
    <3> QED
      BY <2>3, <3>1 DEF Return, EnteredFrame, Frame, InCall
  <2>4. CASE Woken
    BY <1>1, <2>4, Here DEF Woken, Frame, InCall
  <2>5. CASE KernelFault
    BY <1>1, <2>5, Here DEF KernelFault, At, Frame, InCall
  <2> QED
    BY <2>1, <2>2, <2>3, <2>4, <2>5
<1>3. /\ mem'[OSStack(me)][1] = mem[OSStack(me)][1]
      /\ \A s \in Stacks : mem'[s] = mem[s] \/ s = OSStack(me)
  <2>1. CASE CallFunction
    <3>1. Pushed(OSStack(me), 1, cpu) /\ 1 + 1 = 2 /\ 1 \in 1..3
      <4>1. cpu.pc = "entered"
        BY <2>1 DEF CallFunction, At
      <4>2. cpu.arg = <<OSStack(me), 1>>
        BY <1>1, <4>1, Here DEF Runs
      <4> QED
        BY <2>1, <4>2 DEF CallFunction
    <3> QED
      BY <3>1, <1>1, Here, PushedIs
  <2>2. CASE mem' = mem
    BY <2>2
  <2> QED
    BY <2>1, <2>2 DEF GetCurrentTaskOSStackPointer, Return, Woken, KernelFault
<1>4. /\ Proc(me) = cpu /\ Proc(me)' = cpu' /\ mem'[UserStack(me)] = mem[UserStack(me)]
      /\ \A u \in Shells \ {me} : Sees(u)' = Sees(u)
  BY <1>1, <1>3, Here, OwnSees
<1>5. Sees(me)' = Sees(me)
  BY <1>1, <1>2, <1>3, <1>4, SeesAs, SeesAsNext
<1>6. \A u \in Shells : Sees(u)' = Sees(u)
  BY <1>4, <1>5
<1> QED
  BY <1>1, <1>6, SeenByNone

LEMMA SleepUnseen ==
  ASSUME IInv, Sleep, NEW me \in Shells, me = cur
  PROVE  UNCHANGED Calls!callVars
<1>1. ~halted /\ cpu.pc = "call" /\ UNCHANGED <<mem, asked, codes>>
  BY DEF Sleep, At
<1>2. PICK t \in Tasks \ {me} : cur' = t /\ cpu' = ctx[t]
  BY DEF Sleep, Ready, RestoreContext
<1> DEFINE f == [cpu EXCEPT !.pc = "woken", !.iflag = FALSE]
<1>3. f.pc = "woken" /\ ctx' = [ctx EXCEPT ![me] = f]
  BY <1>1, Here DEF Sleep, Frame
<1> HIDE DEF f
<1>4. \A u \in Tasks : ctx'[u] = IF u = me THEN f ELSE ctx[u]
  BY <1>3 DEF IInv, TypeOK
<1>5. Proc(me)' = f /\ Proc(me) = cpu /\ \A u \in Shells \ {me} : Proc(u)' = Proc(u)
  BY <1>2, <1>4, StackNames DEF Proc
<1>6. Sees(me)' = Sees(me)
  BY <1>1, <1>3, <1>5, SeesAs, SeesAsNext DEF InCall
<1>7. ASSUME NEW u \in Shells \ {me} PROVE Sees(u)' = Sees(u)
  BY <1>1, <1>5, NoFault, SeesNothing DEF Kept
<1> QED
  BY <1>1, <1>6, <1>7, SeenByNone

LEMMA FaultUnseen ==
  ASSUME IInv, Fault, NEW me \in Shells, me = cur
  PROVE  UNCHANGED Calls!callVars
<1>1. ~halted /\ cpu.pc = "app" /\ AppFrame(me, cpu) /\ UNCHANGED <<cur, ctx, asked, codes>>
  BY Here DEF Fault, At, Runs
<1> DEFINE at == InterruptStack(idt.fault, cpu)
<1>2. at = <<Rsp0, 0>>
  <2>1. Ring(cpu) = 3
    BY <1>1, Selectors DEF Ring, AppFrame
  <2> QED
    BY <2>1, InterruptStacks
<1>3. Pushed(at[1], at[2], cpu) /\ cpu'.pc = "fault"
  BY <1>1, Here DEF Fault, Frame
<1>4. Pushed(Rsp0, 0, cpu)
  <2>1. at[1] = Rsp0 /\ at[2] = 0
    BY <1>2
  <2> HIDE DEF at
  <2> QED
    BY <1>3, <2>1
<1>5. mem'[Rsp0][1] = cpu /\ \A s \in Stacks : mem'[s] = mem[s] \/ s = Rsp0
  <2>1. 0 + 1 = 1 /\ 1 \in 1..3
    OBVIOUS
  <2> QED
    BY <2>1, <1>1, <1>4, Here, PushedIs
<1>6. /\ Proc(me) = cpu /\ Proc(me)' = cpu' /\ mem'[OSStack(me)] = mem[OSStack(me)]
      /\ \A u \in Shells \ {me} : Sees(u)' = Sees(u)
  BY <1>1, <1>5, Here, OwnSees
<1>7. Sees(me)' = Sees(me)
  BY <1>1, <1>3, <1>5, <1>6, SeesAs, SeesAsNext
<1>8. \A u \in Shells : Sees(u)' = Sees(u)
  BY <1>6, <1>7
<1> QED
  BY <1>1, <1>8, SeenByNone

LEMMA RepairedUnseen ==
  ASSUME IInv, Repaired, NEW me \in Shells, me = cur
  PROVE  UNCHANGED Calls!callVars
<1>1. /\ ~halted /\ cpu.pc = "fault" /\ UNCHANGED <<cur, ctx, mem, asked, codes>>
      /\ cpu.stack = Rsp0 /\ cpu.depth = 1 /\ AppFrame(me, mem[Rsp0][1])
  BY Here DEF Repaired, At, Runs, Left
<1>2. cpu' = mem[Rsp0][1] /\ cpu'.pc = "app"
  BY <1>1 DEF Repaired, Popped, AppFrame
<1>3. /\ Proc(me) = cpu /\ Proc(me)' = cpu'
      /\ \A u \in Shells \ {me} : Sees(u)' = Sees(u)
  BY <1>1, OwnSees
<1>4. Sees(me)' = Sees(me)
  BY <1>1, <1>2, <1>3, SeesAs, SeesAsNext
<1>5. \A u \in Shells : Sees(u)' = Sees(u)
  BY <1>3, <1>4
<1> QED
  BY <1>1, <1>5, SeenByNone

LEMMA UnnoticedUnseen ==
  ASSUME IInv, Unnoticed
  PROVE  UNCHANGED Calls!callVars
<1>1. ASSUME NEW u \in Shells PROVE Sees(u)' = Sees(u)
  BY SeesNothing, StackNames DEF Unnoticed
<1> QED
  BY <1>1, SeenByNone DEF Unnoticed

LEMMA CallsStep == IInv /\ [Next]_vars => [Calls!CallsNext]_(Calls!callVars)
<1> SUFFICES ASSUME IInv, [Next]_vars PROVE [Calls!CallsNext]_(Calls!callVars)
  OBVIOUS
<1>1. CASE Wakeup \/ IntHandlerLAPICTimer \/ Passes
  BY <1>1, WakeupUnnoticed, TimerUnnoticed, PassesUnnoticed, UnnoticedUnseen
<1>2. CASE UNCHANGED vars
  <2>1. \A u \in Shells : Sees(u)' = Sees(u)
    BY <1>2 DEF vars, Sees, Stage, ShellRegs, AppRegs, Proc
  <2> QED
    BY <1>2, <2>1, SeenByNone DEF vars
<1>3. CASE \/ CallApp \/ ExitApp \/ SyscallEntry \/ GetCurrentTaskOSStackPointer \/ CallFunction
           \/ Return \/ SysRet \/ Exit \/ Sleep \/ Woken \/ Fault \/ Repaired \/ KillApp \/ KernelFault
  <2>1. cpu.pc # "idle"
    BY <1>3 DEF CallApp, ExitApp, SyscallEntry, GetCurrentTaskOSStackPointer, CallFunction, Return,
                SysRet, Exit, Sleep, Woken, Fault, Repaired, KillApp, KernelFault, At
  <2>2. PICK me \in Shells : me = cur
    BY <2>1, Mine
  <2>3. CASE CallApp
    BY <2>2, <2>3, CallAppBegins DEF Calls!CallsNext
  <2>4. CASE ExitApp
    BY <2>2, <2>4, ExitAppGoesOn DEF Calls!CallsNext
  <2>5. CASE SyscallEntry
    BY <2>2, <2>5, SyscallEntryCalls DEF Calls!CallsNext
  <2>6. CASE SysRet
    BY <2>2, <2>6, SysRetReturns DEF Calls!CallsNext
  <2>7. CASE Exit
    BY <2>2, <2>7, ExitEnds DEF Calls!CallsNext
  <2>8. CASE KillApp
    BY <2>2, <2>8, KillAppEnds DEF Calls!CallsNext
  <2>9. CASE GetCurrentTaskOSStackPointer \/ CallFunction \/ Return \/ Woken \/ KernelFault
    BY <2>2, <2>9, CallUnseen
  <2>10. CASE Sleep
    BY <2>2, <2>10, SleepUnseen
  <2>11. CASE Fault
    BY <2>2, <2>11, FaultUnseen
  <2>12. CASE Repaired
    BY <2>2, <2>12, RepairedUnseen
  <2> QED
    BY <1>3, <2>3, <2>4, <2>5, <2>6, <2>7, <2>8, <2>9, <2>10, <2>11, <2>12
<1> QED
  BY <1>1, <1>2, <1>3 DEF Next

LEMMA CallsInitOK == Init => Calls!CallsInit
<1> SUFFICES ASSUME Init PROVE Calls!CallsInit
  OBVIOUS
<1>1. ASSUME NEW t \in Shells PROVE Stage(t) = "shell" /\ ShellRegs(t) = 0 /\ AppRegs(t) = 0
  <2>1. Proc(t).pc = "shell" /\ Proc(t).regs = 0
    BY StackNames DEF Init, Proc, InitContext, TaskContext
  <2>2. Sees(t) = <<"shell", 0, 0>>
    BY <2>1, SeesAs
  <2> QED
    BY <2>2 DEF Sees
<1> QED
  BY <1>1 DEF Init, Calls!CallsInit

\* Interrupts, faults that are repaired, waits and switches of contexts are not seen: SyscallEntry,
\* SwitchContext, CallApp and ExitApp together are AppCalls, in which every terminal and every
\* application goes on where it was, and gets the code of its own application.
THEOREM ImplementsCalls == Spec => RunsAsCalled
<1>1. Init => Calls!CallsInit
  BY CallsInitOK
<1>2. IInv /\ [Next]_vars => [Calls!CallsNext]_(Calls!callVars)
  BY CallsStep
<1> QED
  BY <1>1, <1>2, Invariance, PTL DEF Spec, RunsAsCalled, Calls!CallsSpec

-----------------------------------------------------------------------------
(* Induction.                                                               *)

\* A set of natural numbers has a least member.
LEMMA LeastMember ==
  ASSUME NEW S, S \subseteq Nat, S # {}
  PROVE  \E m \in S : \A x \in S : m <= x
<1> DEFINE R == OpToRel(<, Nat)
<1>1. IsWellFoundedOn(R, Nat)
  BY NatLessThanWellFounded
<1>2. PICK m \in S : \A x \in S : ~(<<x, m>> \in R)
  <2> HIDE DEF R
  <2> QED
    BY <1>1, WFMin
<1>3. \A x \in S : ~(x < m)
  BY <1>2 DEF OpToRel
<1> QED
  BY <1>3

\* Induction with the set of numbers it is about, in place of a predicate.
LEMMA SetInduction ==
  ASSUME NEW T, T \subseteq Nat, 0 \in T, \A n \in T : n + 1 \in T
  PROVE  T = Nat
<1> DEFINE U == Nat \ T
<1> SUFFICES ASSUME U # {} PROVE FALSE
  OBVIOUS
<1>1. PICK m \in U : \A x \in U : m <= x
  <2>1. U \subseteq Nat
    OBVIOUS
  <2> HIDE DEF U
  <2> QED
    BY <2>1, LeastMember
<1>2. m \in Nat \ {0} /\ m - 1 \in Nat /\ ~(m <= m - 1)
  OBVIOUS
<1>3. m - 1 \in T
  BY <1>1, <1>2
<1>4. (m - 1) + 1 \in T /\ (m - 1) + 1 = m
  BY <1>2, <1>3
<1> QED
  BY <1>4

-----------------------------------------------------------------------------
(* Sequences that are put behind each other.                                *)

\* The recursion of FlattenSeq: f[i] is the first i sequences of s in one.
Joins(f, s) == f = [i \in 1..Len(s) |-> IF i = 1 THEN s[i] ELSE f[i - 1] \o s[i]]

LEMMA FlattenIs ==
  ASSUME NEW s, Len(s) # 0
  PROVE  FlattenSeq(s) = (CHOOSE f : Joins(f, s))[Len(s)]
BY DEF FlattenSeq, Joins

\* Every sequence can be joined: one more is put behind what is joined already.
LEMMA JoinExists ==
  ASSUME NEW S, NEW s \in Seq(Seq(S))
  PROVE  \E f : Joins(f, s)
<1> DEFINE Upto(f, n) == f = [i \in 1..n |-> IF i = 1 THEN s[i] ELSE f[i - 1] \o s[i]]
           T == {n \in Nat : \E f : Upto(f, n)}
<1>1. 0 \in T
  <2>1. Upto([i \in 1..0 |-> <<>>], 0)
    OBVIOUS
  <2> QED
    BY <2>1
<1>2. ASSUME NEW n \in T PROVE n + 1 \in T
  <2>1. PICK f : Upto(f, n)
    OBVIOUS
  <2> DEFINE g == [i \in 1..(n + 1) |-> IF i = n + 1 THEN (IF i = 1 THEN s[i] ELSE f[i - 1] \o s[i]) ELSE f[i]]
             h == [i \in 1..(n + 1) |-> IF i = 1 THEN s[i] ELSE g[i - 1] \o s[i]]
  <2>2. ASSUME NEW i \in 1..(n + 1) PROVE g[i] = h[i]
    <3>1. CASE i = n + 1
      <4>1. i # 1 => i - 1 \in 1..(n + 1) /\ i - 1 # n + 1
        BY <3>1
      <4>2. i # 1 => g[i - 1] = f[i - 1]
        BY <4>1
      <4> QED
        BY <3>1, <4>2
    <3>2. CASE i # n + 1
      <4>1. i \in 1..n /\ g[i] = f[i]
        BY <3>2
      <4>2. i # 1 => i - 1 \in 1..(n + 1) /\ i - 1 # n + 1
        BY <4>1
      <4>3. i # 1 => g[i - 1] = f[i - 1]
        BY <4>2
      <4>4. f[i] = IF i = 1 THEN s[i] ELSE f[i - 1] \o s[i]
        BY <2>1, <4>1
      <4> QED
        BY <4>1, <4>3, <4>4
    <3> QED
      BY <3>1, <3>2
  <2>3. g = h
    BY <2>2
  <2>4. Upto(g, n + 1)
    BY <2>3
  <2> HIDE DEF g, Upto
  <2> QED
    BY <2>4
<1>3. T = Nat
  <2> HIDE DEF Upto
  <2> QED
    BY <1>1, <1>2, SetInduction
<1>4. Len(s) \in Nat
  BY LenProperties
<1>5. Len(s) \in T
  <2> HIDE DEF T
  <2> QED
    BY <1>3, <1>4
<1> QED
  BY <1>5 DEF Joins

LEMMA JoinEquation ==
  ASSUME NEW s, NEW f, Joins(f, s), NEW i \in 1..Len(s)
  PROVE  f[i] = IF i = 1 THEN s[i] ELSE f[i - 1] \o s[i]
<1> DEFINE Rest == [k \in 1..Len(s) |-> IF k = 1 THEN s[k] ELSE f[k - 1] \o s[k]]
<1>1. f = Rest
  BY DEF Joins
<1>2. Rest[i] = IF i = 1 THEN s[i] ELSE f[i - 1] \o s[i]
  OBVIOUS
<1> HIDE DEF Rest
<1> QED
  BY <1>1, <1>2

LEMMA JoinFirst ==
  ASSUME NEW s, NEW f, Joins(f, s), 1 \in 1..Len(s)
  PROVE  f[1] = s[1]
BY JoinEquation

LEMMA JoinNext ==
  ASSUME NEW s, NEW f, Joins(f, s), NEW i \in 1..Len(s), i # 1
  PROVE  f[i] = f[i - 1] \o s[i]
BY JoinEquation

LEMMA JoinType ==
  ASSUME NEW S, NEW s \in Seq(Seq(S)), NEW f, Joins(f, s), NEW j \in 1..Len(s)
  PROVE  f[j] \in Seq(S)
<1>0. Len(s) \in Nat /\ \A i \in 1..Len(s) : s[i] \in Seq(S)
  OBVIOUS
<1> DEFINE T == {n \in Nat : n + 1 <= Len(s) => f[n + 1] \in Seq(S)}
<1>2. 0 \in T
  <2> SUFFICES ASSUME 0 + 1 <= Len(s) PROVE f[0 + 1] \in Seq(S)
    OBVIOUS
  <2>1. 1 \in 1..Len(s)
    BY <1>0
  <2>2. f[1] = s[1]
    BY <2>1, JoinFirst
  <2> QED
    BY <1>0, <2>1, <2>2
<1>3. ASSUME NEW n \in T PROVE n + 1 \in T
  <2> SUFFICES ASSUME (n + 1) + 1 <= Len(s) PROVE f[(n + 1) + 1] \in Seq(S)
    OBVIOUS
  <2>0. PICK i : i = (n + 1) + 1
    OBVIOUS
  <2>1. f[i - 1] \in Seq(S) /\ i \in 1..Len(s) /\ i # 1
    BY <1>0, <2>0
  <2>2. f[i] = f[i - 1] \o s[i]
    BY <2>1, JoinNext
  <2> QED
    BY <1>0, <2>0, <2>1, <2>2, ConcatProperties
<1>4. T = Nat
  BY <1>2, <1>3, SetInduction
<1>5. j - 1 \in T
  <2>1. j - 1 \in Nat
    BY <1>0
  <2> HIDE DEF T
  <2> QED
    BY <1>4, <2>1
<1>6. (j - 1) + 1 = j /\ j <= Len(s)
  BY <1>0
<1> QED
  BY <1>5, <1>6

\* Flattening is joining all.
LEMMA FlattenJoins ==
  ASSUME NEW S, NEW s \in Seq(Seq(S)), s # <<>>
  PROVE  \E f : Joins(f, s) /\ FlattenSeq(s) = f[Len(s)]
<1> DEFINE f == CHOOSE f : Joins(f, s)
<1>1. Joins(f, s)
  BY JoinExists
<1>2. FlattenSeq(s) = f[Len(s)]
  <2>1. Len(s) # 0
    BY EmptySeq
  <2> QED
    BY <2>1, FlattenIs
<1> HIDE DEF f
<1> QED
  BY <1>1, <1>2

LEMMA FlattenEmpty ==
  ASSUME NEW s, s = <<>>
  PROVE  FlattenSeq(s) = <<>>
BY DEF FlattenSeq

LEMMA FlattenType ==
  ASSUME NEW S, NEW s \in Seq(Seq(S))
  PROVE  FlattenSeq(s) \in Seq(S)
<1>1. CASE s = <<>>
  <2>1. FlattenSeq(s) = <<>> /\ <<>> \in Seq(S)
    BY <1>1, FlattenEmpty
  <2> QED
    BY <2>1
<1>2. CASE s # <<>>
  <2>1. PICK f : Joins(f, s) /\ FlattenSeq(s) = f[Len(s)]
    BY <1>2, FlattenJoins
  <2>2. Len(s) \in 1..Len(s)
    BY <1>2, EmptySeq
  <2> QED
    BY <2>1, <2>2, JoinType
<1> QED
  BY <1>1, <1>2

\* Two ways to join what begins alike agree.
LEMMA JoinsAgree ==
  ASSUME NEW S, NEW s \in Seq(Seq(S)), NEW t \in Seq(Seq(S)), Len(s) <= Len(t),
         \A i \in 1..Len(s) : t[i] = s[i],
         NEW f, Joins(f, s), NEW g, Joins(g, t), NEW k \in 1..Len(s)
  PROVE  g[k] = f[k]
<1>0. Len(s) \in Nat /\ Len(t) \in Nat
  OBVIOUS
<1> DEFINE T == {n \in Nat : n + 1 <= Len(s) => g[n + 1] = f[n + 1]}
<1>1. 0 \in T
  <2> SUFFICES ASSUME 0 + 1 <= Len(s) PROVE g[0 + 1] = f[0 + 1]
    OBVIOUS
  <2>1. 1 \in 1..Len(s) /\ 1 \in 1..Len(t)
    BY <1>0
  <2>2. f[1] = s[1]
    BY <2>1, JoinFirst
  <2>3. g[1] = t[1]
    BY <2>1, JoinFirst
  <2> QED
    BY <2>1, <2>2, <2>3
<1>2. ASSUME NEW n \in T PROVE n + 1 \in T
  <2> SUFFICES ASSUME (n + 1) + 1 <= Len(s) PROVE g[(n + 1) + 1] = f[(n + 1) + 1]
    OBVIOUS
  <2>1. PICK i : i = (n + 1) + 1
    OBVIOUS
  <2>2. i \in 1..Len(s) /\ i \in 1..Len(t) /\ i # 1 /\ i - 1 = n + 1 /\ g[n + 1] = f[n + 1]
    BY <1>0, <2>1
  <2>3. f[i] = f[i - 1] \o s[i]
    BY <2>2, JoinNext
  <2>4. g[i] = g[i - 1] \o t[i]
    BY <2>2, JoinNext
  <2> QED
    BY <2>1, <2>2, <2>3, <2>4
<1>3. T = Nat
  BY <1>1, <1>2, SetInduction
<1>4. k - 1 \in Nat /\ (k - 1) + 1 = k /\ k <= Len(s)
  BY <1>0
<1>5. k - 1 \in T
  <2> HIDE DEF T
  <2> QED
    BY <1>3, <1>4
<1> QED
  BY <1>4, <1>5

LEMMA FlattenAppend ==
  ASSUME NEW S, NEW s \in Seq(Seq(S)), NEW e \in Seq(S)
  PROVE  FlattenSeq(Append(s, e)) = FlattenSeq(s) \o e
<1>1. PICK t : t = Append(s, e)
  OBVIOUS
<1>2. /\ t \in Seq(Seq(S)) /\ t # <<>> /\ Len(t) = Len(s) + 1 /\ t[Len(t)] = e
      /\ \A i \in 1..Len(s) : t[i] = s[i]
  BY <1>1, AppendProperties
<1>3. Len(s) \in Nat
  OBVIOUS
<1>4. PICK g : Joins(g, t) /\ FlattenSeq(t) = g[Len(t)]
  BY <1>2, FlattenJoins
<1>5. CASE s = <<>>
  <2>1. Len(t) = 1
    BY <1>2, <1>5
  <2>2. g[1] = t[1]
    BY <1>4, <2>1, JoinFirst
  <2> QED
    BY <1>1, <1>2, <1>4, <1>5, <2>1, <2>2, FlattenEmpty, ConcatEmptySeq
<1>6. CASE s # <<>>
  <2>1. PICK f : Joins(f, s) /\ FlattenSeq(s) = f[Len(s)]
    BY <1>6, FlattenJoins
  <2>2. Len(s) \in 1..Len(s) /\ Len(s) <= Len(t) /\ Len(t) \in 1..Len(t) /\ Len(t) # 1 /\ Len(t) - 1 = Len(s)
    BY <1>2, <1>3, <1>6, EmptySeq
  <2>3. g[Len(s)] = f[Len(s)]
    BY SMTT(30), <1>2, <1>4, <2>1, <2>2, JoinsAgree
  <2>4. g[Len(t)] = g[Len(t) - 1] \o t[Len(t)]
    BY <1>4, <2>2, JoinNext
  <2> QED
    BY <1>1, <1>2, <1>4, <2>1, <2>2, <2>3, <2>4
<1> QED
  BY <1>5, <1>6

LEMMA FlattenHead ==
  ASSUME NEW S, NEW s \in Seq(Seq(S)), s # <<>>
  PROVE  FlattenSeq(s) = Head(s) \o FlattenSeq(Tail(s))
<1>0. PICK e : e = Head(s)
  OBVIOUS
<1>1. PICK t : t = Tail(s)
  OBVIOUS
<1>2. /\ t \in Seq(Seq(S)) /\ Len(t) = Len(s) - 1 /\ e \in Seq(S) /\ e = s[1]
      /\ \A i \in 1..Len(t) : t[i] = s[i + 1]
  BY <1>0, <1>1, HeadTailProperties
<1>3. Len(s) \in Nat /\ Len(t) \in Nat /\ Len(s) # 0 /\ Len(s) \in 1..Len(s)
  BY <1>2, EmptySeq
<1>4. PICK f : Joins(f, s) /\ FlattenSeq(s) = f[Len(s)]
  BY FlattenJoins
<1>5. CASE t = <<>>
  <2>1. Len(s) = 1
    BY <1>2, <1>3, <1>5
  <2>2. f[1] = s[1]
    BY <1>4, <2>1, JoinFirst
  <2>3. FlattenSeq(t) = <<>> /\ e \o <<>> = e
    BY <1>2, <1>5, FlattenEmpty, ConcatEmptySeq
  <2> QED
    BY <1>0, <1>1, <1>2, <1>4, <2>1, <2>2, <2>3
<1>6. CASE t # <<>>
  <2>1. PICK h : Joins(h, t) /\ FlattenSeq(t) = h[Len(t)]
    BY <1>2, <1>6, FlattenJoins
  <2>0. Len(t) \in 1..Len(t)
    BY <1>2, <1>6, EmptySeq
  <2> DEFINE T == {n \in Nat : n + 1 <= Len(t) => f[(n + 1) + 1] = e \o h[n + 1]}
  <2>2. 0 \in T
    <3>0. (0 + 1) + 1 = 2 /\ 0 + 1 = 1 /\ 0 \in Nat
      OBVIOUS
    <3>3. 2 \in 1..Len(s) /\ 1 \in 1..Len(t) /\ 1 \in 1..Len(s)
      BY <1>2, <1>3, <2>0
    <3>1. h[1] = t[1]
      BY <2>1, <3>3, JoinFirst
    <3>2. f[1] = s[1]
      BY <1>4, <3>3, JoinFirst
    <3>4. f[2] = f[1] \o s[2]
      <4>1. PICK i : i = 2
        OBVIOUS
      <4>2. i \in 1..Len(s) /\ i # 1 /\ i - 1 = 1
        BY <3>3, <4>1
      <4>3. f[i] = f[i - 1] \o s[i]
        BY <1>4, <4>2, JoinNext
      <4> QED
        BY <4>1, <4>2, <4>3
    <3>5. t[1] = s[2]
      BY <1>2, <3>3
    <3>6. f[2] = e \o h[1]
      BY <1>2, <3>1, <3>2, <3>4, <3>5
    <3> QED
      BY <3>0, <3>6
  <2>3. ASSUME NEW n \in T PROVE n + 1 \in T
    <3> SUFFICES ASSUME (n + 1) + 1 <= Len(t) PROVE f[((n + 1) + 1) + 1] = e \o h[(n + 1) + 1]
      <4>1. n + 1 \in Nat
        OBVIOUS
      <4> QED
        BY <4>1
    <3>1. PICK i : i = (n + 1) + 1
      OBVIOUS
    <3>0. Len(t) \in Nat /\ Len(s) = Len(t) + 1 /\ n \in Nat
      BY <1>2, <1>3
    <3> HIDE DEF T
    <3>2. /\ i \in 1..Len(t) /\ i # 1 /\ i - 1 = n + 1 /\ i - 1 \in 1..Len(t) /\ n + 1 <= Len(t)
          /\ i + 1 \in 1..Len(s) /\ i + 1 # 1 /\ (i + 1) - 1 = i
      BY <3>0, <3>1
    <3>8. f[i] = e \o h[i - 1]
      <4>1. f[(n + 1) + 1] = e \o h[n + 1]
        BY <3>2 DEF T
      <4> QED
        BY <3>1, <3>2, <4>1
    <3>3. h[i] = h[i - 1] \o t[i]
      BY <2>1, <3>2, JoinNext
    <3>4. f[i + 1] = f[i] \o s[i + 1]
      BY <1>4, <3>2, JoinNext
    <3>5. h[i - 1] \in Seq(S)
      BY <1>2, <2>1, <3>2, JoinType
    <3>6. t[i] \in Seq(S) /\ t[i] = s[i + 1]
      BY SMTT(30), <1>2, <3>2
    <3>7. (e \o h[i - 1]) \o t[i] = e \o (h[i - 1] \o t[i])
      <4>1. e \in Seq(S)
        BY <1>2
      <4>2. PICK u, v : u = h[i - 1] /\ v = t[i]
        OBVIOUS
      <4>3. u \in Seq(S) /\ v \in Seq(S)
        BY <3>5, <3>6, <4>2
      <4>4. (e \o u) \o v = e \o (u \o v)
        BY SMTT(30), <4>1, <4>3, ConcatAssociative
      <4> QED
        BY <4>2, <4>4
    <3> QED
      BY <3>1, <3>3, <3>4, <3>6, <3>7, <3>8
  <2>4. T = Nat
    BY <2>2, <2>3, SetInduction
  <2>5. Len(t) - 1 \in Nat /\ (Len(t) - 1) + 1 = Len(t) /\ Len(t) + 1 = Len(s)
    BY <1>2, <1>3, <2>0
  <2>6. Len(t) - 1 \in T
    <3> HIDE DEF T
    <3> QED
      BY <2>4, <2>5
  <2>7. f[Len(s)] = e \o h[Len(t)]
    <3>1. (Len(t) - 1) + 1 <= Len(t)
      BY <2>0, <2>5
    <3>2. f[((Len(t) - 1) + 1) + 1] = e \o h[(Len(t) - 1) + 1]
      BY <2>6, <3>1
    <3> QED
      BY <2>5, <3>2
  <2> QED
    BY <1>0, <1>1, <1>4, <2>1, <2>7
<1> QED
  BY <1>5, <1>6

\* Nothing but empty sequences makes an empty one.
LEMMA FlattenNothing ==
  ASSUME NEW S, NEW s \in Seq(Seq(S)), \A i \in 1..Len(s) : s[i] = <<>>
  PROVE  FlattenSeq(s) = <<>>
<1>1. CASE s = <<>>
  BY <1>1, FlattenEmpty
<1>2. CASE s # <<>>
  <2>1. PICK f : Joins(f, s) /\ FlattenSeq(s) = f[Len(s)]
    BY <1>2, FlattenJoins
  <2>0. Len(s) \in 1..Len(s) /\ Len(s) \in Nat
    BY <1>2, EmptySeq
  <2> DEFINE T == {n \in Nat : n + 1 <= Len(s) => f[n + 1] = <<>>}
  <2>2. 0 \in T
    <3>1. 1 \in 1..Len(s)
      BY <2>0
    <3>2. f[1] = s[1] /\ s[1] = <<>>
      BY <2>1, <3>1, JoinFirst
    <3> QED
      BY <3>2
  <2>3. ASSUME NEW n \in T PROVE n + 1 \in T
    <3> SUFFICES ASSUME (n + 1) + 1 <= Len(s) PROVE f[(n + 1) + 1] = <<>>
      OBVIOUS
    <3>1. PICK i : i = (n + 1) + 1
      OBVIOUS
    <3>2. i \in 1..Len(s) /\ i # 1 /\ i - 1 = n + 1 /\ f[i - 1] = <<>> /\ s[i] = <<>>
      BY <2>0, <3>1
    <3>3. f[i] = f[i - 1] \o s[i]
      BY <2>1, <3>2, JoinNext
    <3> QED
      BY <3>1, <3>2, <3>3
  <2>4. T = Nat
    BY <2>2, <2>3, SetInduction
  <2>5. Len(s) - 1 \in Nat /\ (Len(s) - 1) + 1 = Len(s)
    BY <2>0
  <2>6. Len(s) - 1 \in T
    <3> HIDE DEF T
    <3> QED
      BY <2>4, <2>5
  <2> QED
    BY <2>0, <2>1, <2>5, <2>6
<1> QED
  BY <1>1, <1>2

-----------------------------------------------------------------------------
(* The pipe among what the terminal does.                                   *)

\* Enter begins a pipeline.
Begins ==
  /\ wpc = "none" /\ wpc' = "start"
  /\ UNCHANGED <<left, written, mailbox, readerVars, routed, keys, stray>>

PipeStep == Begins \/ Writer \/ Reader \/ Finish \/ PressKey

\* Whatever the terminal does is a step of the pipe or leaves it alone.
LEMMA TerminalIsPipe == [TerminalNext]_allVars => [PipeStep]_pipelineVars
<1> SUFFICES ASSUME [TerminalNext]_allVars PROVE [PipeStep]_pipelineVars
  OBVIOUS
<1>1. CASE HandleKey
  <2>1. UNCHANGED pipeVars /\ InputKey(Head(queue))
    BY <1>1 DEF HandleKey
  <2>2. UNCHANGED writerVars \/ (wpc = "none" /\ wpc' = "start" /\ UNCHANGED <<left, written>>)
    <3> PICK d : \/ InputEnter(d)
                 \/ UNCHANGED writerVars
      BY <2>1 DEF InputKey
    <3>1. CASE InputEnter(d)
      <4>1. PICK line, e : Execute(line, e)
        BY <3>1 DEF InputEnter
      <4> QED
        BY <4>1 DEF Execute
    <3> QED
      BY <3>1
  <2> QED
    BY <2>1, <2>2 DEF pipeVars, Begins, PipeStep, pipelineVars, writerVars
<1>2. CASE \/ BlinkCursor \/ WriteToTerminal \/ ReadKey \/ KeyIsRead \/ CommandEnds \/ KeyToTerminal
           \/ UNCHANGED allVars
  <2>1. UNCHANGED <<writerVars, pipeVars>>
    BY <1>2 DEF BlinkCursor, WriteToTerminal, ReadKey, KeyIsRead, CommandEnds, KeyToTerminal, allVars,
                pipelineVars, pipeVars
  <2> QED
    BY <2>1 DEF pipeVars, pipelineVars
<1>3. CASE KeyToSubtask \/ InPipe(~reads /\ Writer) \/ InPipe(Reader) \/ InPipe(Finish)
  BY <1>3 DEF KeyToSubtask, InPipe, PipeStep
<1> QED
  BY <1>1, <1>2, <1>3 DEF TerminalNext

-----------------------------------------------------------------------------
(* The invariant of the pipe.                                               *)

Messages == [type : {"pipe", "key"}, data : Seq(Nat)]

PipeType ==
  /\ wpc \in {"none", "start", "command", "wait", "done"}
  /\ left \in Nat /\ written \in Nat /\ want \in Nat
  /\ mailbox \in Seq(Messages) /\ buffer \in Seq(Nat) /\ got \in Seq(Nat)
  /\ closed \in BOOLEAN /\ ended \in BOOLEAN /\ events \in BOOLEAN /\ alive \in BOOLEAN /\ stray \in BOOLEAN

\* The writer has said that it is at its end.
Said == wpc \in {"wait", "done"}

NoPieces(mb) == \A i \in DOMAIN mb : ~ IsPipe(mb[i])

\* What is not the pipe's carries no bytes; the end comes when it was said, and nothing of the pipe behind it.
Ordered(mb, said) ==
  /\ \A i \in DOMAIN mb : ~ IsPipe(mb[i]) => mb[i].data = <<>>
  /\ \A i \in DOMAIN mb : IsEnd(mb[i]) => said /\ \A j \in DOMAIN mb : i < j => ~ IsPipe(mb[j])

Ending ==
  /\ left > 0 => wpc = "command"
  /\ closed => Said /\ buffer = <<>> /\ want = 0 /\ NoPieces(mailbox)
  /\ ended => closed
  /\ want > 0 => buffer = <<>> /\ ~ events
  /\ stray => ~ alive /\ ~ ended

PipeInv == PipeType /\ Ordered(mailbox, Said) /\ Ending

LEMMA MailAppend ==
  ASSUME NEW mb \in Seq(Messages), NEW m \in Messages, NEW n, n = Append(mb, m)
  PROVE  /\ n \in Seq(Messages) /\ DOMAIN mb = 1..Len(mb) /\ DOMAIN n = 1..Len(n) /\ Len(mb) \in Nat
         /\ Len(n) = Len(mb) + 1 /\ n[Len(n)] = m
         /\ \A i \in DOMAIN mb : i \in DOMAIN n /\ n[i] = mb[i]
         /\ \A i \in DOMAIN n : i # Len(n) => i \in DOMAIN mb /\ n[i] = mb[i]
BY AppendProperties

LEMMA MailTail ==
  ASSUME NEW mb \in Seq(Messages), mb # <<>>, NEW n, n = Tail(mb)
  PROVE  /\ n \in Seq(Messages) /\ Head(mb) \in Messages /\ 1 \in DOMAIN mb /\ mb[1] = Head(mb)
         /\ DOMAIN n \subseteq Nat /\ DOMAIN mb \subseteq Nat
         /\ \A i \in DOMAIN n : i + 1 \in DOMAIN mb /\ n[i] = mb[i + 1]
         /\ \A i \in DOMAIN mb : i # 1 => i - 1 \in DOMAIN n /\ n[i - 1] = mb[i]
BY HeadTailProperties

\* A message of the pipe is sent before the end is said, one of a key whenever it likes.
LEMMA OrderedAppend ==
  ASSUME NEW mb \in Seq(Messages), NEW m \in Messages, NEW said \in BOOLEAN, NEW then \in BOOLEAN,
         Ordered(mb, said), said => then, IsPipe(m) => ~ said, ~ IsPipe(m) => m.data = <<>>, IsEnd(m) => then
  PROVE  Ordered(Append(mb, m), then)
<1>1. PICK n : n = Append(mb, m)
  OBVIOUS
<1>2. ASSUME NEW i \in DOMAIN n, ~ IsPipe(n[i]) PROVE n[i].data = <<>>
  BY <1>1, <1>2, MailAppend DEF Ordered
<1>3. ASSUME NEW i \in DOMAIN n, IsEnd(n[i])
      PROVE  then /\ \A j \in DOMAIN n : i < j => ~ IsPipe(n[j])
  <2>1. CASE i = Len(n)
    BY <1>1, <1>3, <2>1, MailAppend
  <2>2. CASE i # Len(n)
    <3>1. i \in DOMAIN mb /\ IsEnd(mb[i])
      BY <1>1, <1>3, <2>2, MailAppend
    <3>2. said /\ \A j \in DOMAIN mb : i < j => ~ IsPipe(mb[j])
      BY <3>1 DEF Ordered
    <3>3. ASSUME NEW j \in DOMAIN n, i < j PROVE ~ IsPipe(n[j])
      <4>1. CASE j = Len(n)
        BY <1>1, <3>2, <4>1, MailAppend
      <4>2. CASE j # Len(n)
        BY <1>1, <3>2, <3>3, <4>2, MailAppend
      <4> QED
        BY <4>1, <4>2
    <3> QED
      BY <3>2, <3>3
  <2> QED
    BY <2>1, <2>2
<1> QED
  BY <1>1, <1>2, <1>3 DEF Ordered

LEMMA OrderedTail ==
  ASSUME NEW mb \in Seq(Messages), mb # <<>>, NEW said \in BOOLEAN, Ordered(mb, said)
  PROVE  /\ Ordered(Tail(mb), said)
         /\ NoPieces(mb) => NoPieces(Tail(mb))
         /\ IsEnd(Head(mb)) => NoPieces(Tail(mb)) /\ said
<1>1. PICK n : n = Tail(mb)
  OBVIOUS
<1>2. /\ n \in Seq(Messages) /\ Head(mb) \in Messages /\ 1 \in DOMAIN mb /\ mb[1] = Head(mb)
      /\ DOMAIN n \subseteq Nat /\ DOMAIN mb \subseteq Nat
      /\ \A i \in DOMAIN n : i + 1 \in DOMAIN mb /\ n[i] = mb[i + 1]
  BY <1>1, MailTail
<1>5. DOMAIN n = 1..Len(n)
  BY <1>2
<1>3. Ordered(n, said)
  <2>1. ASSUME NEW i \in DOMAIN n, ~ IsPipe(n[i]) PROVE n[i].data = <<>>
    BY <1>2, <2>1 DEF Ordered
  <2>2. ASSUME NEW i \in DOMAIN n, IsEnd(n[i]) PROVE said /\ \A j \in DOMAIN n : i < j => ~ IsPipe(n[j])
    <3>1. i + 1 \in DOMAIN mb /\ IsEnd(mb[i + 1])
      BY <1>2, <2>2
    <3>2. said /\ \A j \in DOMAIN mb : i + 1 < j => ~ IsPipe(mb[j])
      BY <3>1 DEF Ordered
    <3>3. ASSUME NEW j \in DOMAIN n, i < j PROVE ~ IsPipe(n[j])
      <4>1. i + 1 < j + 1
        BY <1>2, <3>3
      <4> QED
        BY <1>2, <3>2, <4>1
    <3> QED
      BY <3>2, <3>3
  <2> QED
    BY <2>1, <2>2 DEF Ordered
<1>4. ASSUME NoPieces(mb) PROVE NoPieces(n)
  BY <1>2, <1>4 DEF NoPieces
<1>6. ASSUME IsEnd(Head(mb)) PROVE NoPieces(n) /\ said
  <2>1. said /\ \A j \in DOMAIN mb : 1 < j => ~ IsPipe(mb[j])
    BY <1>2, <1>6 DEF Ordered
  <2>2. \A i \in DOMAIN n : 1 < i + 1
    BY <1>5
  <2> QED
    BY <1>2, <2>1, <2>2 DEF NoPieces
<1> QED
  BY <1>1, <1>3, <1>4, <1>6

LEMMA KeyIsMessage == Key \in Messages /\ ~ IsPipe(Key) /\ ~ IsEnd(Key) /\ Key.data = <<>>
BY DEF Key, Messages, IsPipe, IsEnd

LEMMA PieceIsMessage ==
  ASSUME NEW b \in Seq(Nat)
  PROVE  /\ PipeMessage(b) \in Messages /\ IsPipe(PipeMessage(b)) /\ PipeMessage(b).data = b
         /\ IsEnd(PipeMessage(b)) => b = <<>>
BY DEF PipeMessage, Messages, IsPipe, IsEnd

LEMMA PieceFacts ==
  ASSUME PipeType, left > 0
  PROVE  /\ PieceLength \in 1..DataSize /\ PieceLength <= left /\ PieceLength \in Nat
         /\ Bytes(written, PieceLength) \in Seq(Nat) /\ Bytes(written, PieceLength) # <<>>
<1>1. PieceLength \in 1..DataSize /\ PieceLength <= left /\ PieceLength \in Nat
  BY PipeAssumption DEF PipeType, PieceLength
<1>2. PICK n : n = PieceLength
  OBVIOUS
<1>3. Bytes(written, n) \in Seq(Nat) /\ Len(Bytes(written, n)) = n
  BY <1>1, <1>2 DEF Bytes, PipeType
<1> QED
  BY <1>1, <1>2, <1>3

LEMMA InitPipeInv == PipeInit => PipeInv
<1> SUFFICES ASSUME PipeInit PROVE PipeInv
  OBVIOUS
<1>1. mailbox = <<>> /\ DOMAIN mailbox = {} /\ mailbox \in Seq(Messages)
  BY DEF PipeInit
<1>2. buffer \in Seq(Nat) /\ got \in Seq(Nat)
  BY DEF PipeInit
<1>3. PipeType
  BY <1>1, <1>2 DEF PipeInit, PipeType
<1>4. Ordered(mailbox, Said) /\ NoPieces(mailbox)
  BY <1>1 DEF Ordered, NoPieces
<1>5. Ending
  BY <1>4 DEF PipeInit, Ending
<1> QED
  BY <1>3, <1>4, <1>5 DEF PipeInv

\* The writer.
LEMMA WriterInv ==
  ASSUME PipeInv, Begins \/ Writer
  PROVE  PipeInv'
<1>0. /\ PipeType /\ Ordered(mailbox, Said) /\ Ending /\ Said \in BOOLEAN /\ Said' \in BOOLEAN
  BY DEF PipeInv, Said
<1>1. CASE Begins \/ Route \/ WaitFinish \/ \E n \in WriteSizes : Write(n)
  <2>1. /\ UNCHANGED <<written, mailbox, readerVars, stray>> /\ Said' = Said
        /\ wpc' \in {"none", "start", "command", "wait", "done"}
        /\ left' \in Nat /\ (left' > 0 => wpc' = "command")
    BY <1>0, <1>1, PipeAssumption DEF Begins, Route, WaitFinish, Write, Said, PipeType, Ending
  <2>2. PipeType'
    BY <1>0, <2>1 DEF PipeType, readerVars
  <2>3. Ordered(mailbox, Said)'
    BY <1>0, <2>1 DEF Ordered, IsPipe, IsEnd
  <2>4. Ending'
    BY <1>0, <2>1 DEF Ending, readerVars, NoPieces, IsPipe
  <2> QED
    BY <2>2, <2>3, <2>4 DEF PipeInv
<1>2. CASE SendPiece
  <2>1. PICK m : m = PipeMessage(Bytes(written, PieceLength))
    OBVIOUS
  <2>2. m \in Messages /\ IsPipe(m) /\ ~ IsEnd(m) /\ left > 0
    BY <1>0, <1>2, <2>1, PieceFacts, PieceIsMessage DEF SendPiece
  <2>3. wpc = "command" /\ ~ Said /\ ~ closed /\ ~ ended
    BY <1>0, <2>2 DEF Ending, Said
  <2>4. /\ mailbox' = IF alive THEN Append(mailbox, m) ELSE mailbox
        /\ stray' = (stray \/ ~ alive)
        /\ written' = written + PieceLength /\ left' = left - PieceLength
        /\ UNCHANGED <<wpc, readerVars>>
    BY <1>2, <2>1 DEF SendPiece, Send
  <2>5. mailbox' \in Seq(Messages) /\ Ordered(mailbox', FALSE)
    <3>1. CASE alive
      BY <1>0, <2>2, <2>3, <2>4, <3>1, MailAppend, OrderedAppend DEF PipeType
    <3>2. CASE ~ alive
      BY <1>0, <2>3, <2>4, <3>2 DEF PipeType, Ordered
    <3> QED
      BY <3>1, <3>2
  <2>6. Ordered(mailbox, Said)'
    BY <2>5 DEF Ordered, IsPipe, IsEnd
  <2>7. PipeType'
    BY <1>0, <2>2, <2>4, <2>5, PieceFacts DEF PipeType, readerVars
  <2>8. Ending'
    BY <1>0, <2>2, <2>3, <2>4 DEF Ending, readerVars, PipeType
  <2> QED
    BY <2>6, <2>7, <2>8 DEF PipeInv
<1>3. CASE FinishWrite
  <2>1. PICK m : m = PipeMessage(<<>>)
    OBVIOUS
  <2>2. m \in Messages /\ IsPipe(m)
    <3>1. <<>> \in Seq(Nat)
      OBVIOUS
    <3> QED
      BY <2>1, <3>1, PieceIsMessage
  <2>3. wpc = "command" /\ ~ Said /\ ~ closed /\ ~ ended /\ left = 0
    BY <1>0, <1>3 DEF Ending, Said, FinishWrite
  <2>4. /\ mailbox' = IF alive THEN Append(mailbox, m) ELSE mailbox
        /\ stray' = (stray \/ ~ alive) /\ wpc' = "wait" /\ Said'
        /\ UNCHANGED <<left, written, readerVars>>
    BY <1>3, <2>1 DEF FinishWrite, Send, Said
  <2>5. mailbox' \in Seq(Messages) /\ Ordered(mailbox', TRUE)
    <3>1. CASE alive
      BY <1>0, <2>2, <2>3, <2>4, <3>1, MailAppend, OrderedAppend DEF PipeType
    <3>2. CASE ~ alive
      BY <1>0, <2>3, <2>4, <3>2 DEF PipeType, Ordered
    <3> QED
      BY <3>1, <3>2
  <2>6. Ordered(mailbox, Said)'
    BY <2>4, <2>5 DEF Ordered, IsPipe, IsEnd
  <2>7. PipeType'
    BY <1>0, <2>4, <2>5 DEF PipeType, readerVars
  <2>8. Ending'
    BY <1>0, <2>3, <2>4 DEF Ending, readerVars, PipeType
  <2> QED
    BY <2>6, <2>7, <2>8 DEF PipeInv
<1> QED
  BY <1>1, <1>2, <1>3 DEF Writer

\* What a Read returns and keeps are bytes.
LEMMA HandOverType ==
  ASSUME NEW b \in Seq(Nat), NEW len \in Nat, got \in Seq(Nat), HandOver(b, len)
  PROVE  got' \in Seq(Nat) /\ buffer' \in Seq(Nat)
<1>1. PICK n : n = Copied(b, len)
  OBVIOUS
<1>2. n \in 0..Len(b)
  BY <1>1 DEF Copied
<1>3. SubSeq(b, 1, n) \in Seq(Nat) /\ SubSeq(b, n + 1, Len(b)) \in Seq(Nat)
  BY <1>2
<1>4. got' = got \o SubSeq(b, 1, n) /\ buffer' = SubSeq(b, n + 1, Len(b))
  BY <1>1 DEF HandOver, Remaining
<1>5. got \o SubSeq(b, 1, n) \in Seq(Nat)
  BY <1>3, ConcatProperties
<1> QED
  BY <1>3, <1>4, <1>5

\* The reader, without what it takes out of the mailbox.
LEMMA ReaderInv ==
  ASSUME PipeInv, (\E len \in ReadSizes : ReadBuffer(len) \/ ReadWaits(len)) \/ ReadClosed
  PROVE  PipeInv'
<1>0. PipeType /\ Ordered(mailbox, Said) /\ Ending /\ ReadSizes \subseteq Nat
  BY PipeAssumption DEF PipeInv
<1>1. UNCHANGED <<writerVars, mailbox, closed, events, alive, stray>> /\ Said' = Said /\ ~ events
  BY DEF ReadBuffer, ReadWaits, ReadClosed, writerVars, Said, Reads
<1>2. Ordered(mailbox, Said)'
  BY <1>0, <1>1 DEF Ordered, IsPipe, IsEnd
<1>3. CASE \E len \in ReadSizes : ReadBuffer(len)
  <2>1. PICK len \in ReadSizes : ReadBuffer(len)
    BY <1>3
  <2>2. buffer # <<>> /\ HandOver(buffer, len) /\ UNCHANGED <<want, ended>>
    BY <2>1 DEF ReadBuffer
  <2>3. got' \in Seq(Nat) /\ buffer' \in Seq(Nat)
    BY <1>0, <2>2, HandOverType DEF PipeType
  <2>4. PipeType'
    BY <1>0, <1>1, <2>2, <2>3 DEF PipeType, writerVars
  <2>5. Ending'
    BY <1>0, <1>1, <2>2 DEF Ending, writerVars, NoPieces, IsPipe, PipeType
  <2> QED
    BY <1>2, <2>4, <2>5 DEF PipeInv
<1>4. CASE \E len \in ReadSizes : ReadWaits(len)
  <2>1. PICK len \in ReadSizes : ReadWaits(len)
    BY <1>4
  <2>2. buffer = <<>> /\ ~ closed /\ want' = len /\ len \in Nat /\ UNCHANGED <<buffer, got, ended>>
    BY <1>0, <2>1 DEF ReadWaits
  <2>4. PipeType'
    BY <1>0, <1>1, <2>2 DEF PipeType, writerVars
  <2>5. Ending'
    BY <1>0, <1>1, <2>2 DEF Ending, writerVars, PipeType
  <2> QED
    BY <1>2, <2>4, <2>5 DEF PipeInv
<1>5. CASE ReadClosed
  <2>1. closed /\ ended' = TRUE /\ UNCHANGED <<want, got, buffer>> /\ alive
    BY <1>5 DEF ReadClosed, Reads
  <2>4. PipeType'
    BY <1>0, <1>1, <2>1 DEF PipeType, writerVars
  <2>5. Ending'
    BY <1>0, <1>1, <2>1 DEF Ending, writerVars, NoPieces, IsPipe, PipeType
  <2> QED
    BY <1>2, <2>4, <2>5 DEF PipeInv
<1> QED
  BY <1>3, <1>4, <1>5

\* A message is taken out of the mailbox.
LEMMA ReceiverInv ==
  ASSUME PipeInv, Skip \/ ReceiveEnd \/ ReceivePiece \/ ReadEvent
  PROVE  PipeInv'
<1>0. PipeType /\ Ordered(mailbox, Said) /\ Ending /\ Said \in BOOLEAN
  BY DEF PipeInv, Said
<1>1. /\ UNCHANGED <<writerVars, alive, stray>> /\ Said' = Said /\ mailbox' = Tail(mailbox)
      /\ mailbox # <<>> /\ alive
  BY DEF Skip, ReceiveEnd, ReceivePiece, ReadEvent, writerVars, Said, Receives, readerVars
<1>2. mailbox \in Seq(Messages) /\ mailbox' \in Seq(Messages) /\ Head(mailbox) \in Messages
  BY <1>0, <1>1, MailTail DEF PipeType
<1>3. /\ Ordered(mailbox', Said)
      /\ NoPieces(mailbox) => NoPieces(mailbox')
      /\ IsEnd(Head(mailbox)) => NoPieces(mailbox') /\ Said
  BY <1>0, <1>1, <1>2, OrderedTail
<1>4. Ordered(mailbox, Said)'
  BY <1>1, <1>3 DEF Ordered, IsPipe, IsEnd
<1>5. NoPieces(mailbox)' <=> NoPieces(mailbox')
  BY DEF NoPieces, IsPipe
<1>6. CASE Skip
  <2>1. UNCHANGED readerVars
    BY <1>6 DEF Skip
  <2>2. PipeType'
    BY <1>0, <1>1, <1>2, <2>1 DEF PipeType, writerVars, readerVars
  <2>3. Ending'
    BY <1>0, <1>1, <1>3, <1>5, <2>1 DEF Ending, writerVars, readerVars
  <2> QED
    BY <1>4, <2>2, <2>3 DEF PipeInv
<1>7. CASE ReceiveEnd
  <2>1. /\ want > 0 /\ IsEnd(Head(mailbox)) /\ closed' = TRUE /\ ended' = TRUE /\ want' = 0
        /\ UNCHANGED <<buffer, got, events>>
    BY <1>7 DEF ReceiveEnd, Receives
  <2>2. PipeType'
    BY <1>0, <1>1, <1>2, <2>1 DEF PipeType, writerVars
  <2>3. Ending'
    BY <1>0, <1>1, <1>3, <1>5, <2>1 DEF Ending, writerVars
  <2> QED
    BY <1>4, <2>2, <2>3 DEF PipeInv
<1>8. CASE ReceivePiece
  <2>1. /\ want > 0 /\ HandOver(Head(mailbox).data, want) /\ want' = 0
        /\ UNCHANGED <<closed, ended, events>> /\ Head(mailbox).data \in Seq(Nat)
    BY <1>2, <1>8 DEF ReceivePiece, Receives, Messages
  <2>2. got' \in Seq(Nat) /\ buffer' \in Seq(Nat) /\ ~ closed
    <3>1. want \in Nat /\ got \in Seq(Nat) /\ ~ closed
      BY <1>0, <2>1 DEF PipeType, Ending
    <3> QED
      BY <2>1, <3>1, HandOverType
  <2>3. PipeType'
    BY <1>0, <1>1, <1>2, <2>1, <2>2 DEF PipeType, writerVars
  <2>4. Ending'
    BY <1>0, <1>1, <2>1, <2>2 DEF Ending, writerVars
  <2> QED
    BY <1>4, <2>3, <2>4 DEF PipeInv
<1>9. CASE ReadEvent
  <2>1. want = 0 /\ events' = (events \/ ~ ended) /\ UNCHANGED <<buffer, closed, want, got, ended>>
    BY <1>9 DEF ReadEvent
  <2>2. PipeType'
    BY <1>0, <1>1, <1>2, <2>1 DEF PipeType, writerVars
  <2>3. Ending'
    BY <1>0, <1>1, <1>3, <1>5, <2>1 DEF Ending, writerVars
  <2> QED
    BY <1>4, <2>2, <2>3 DEF PipeInv
<1> QED
  BY <1>6, <1>7, <1>8, <1>9

LEMMA FinishInv ==
  ASSUME PipeInv, Finish \/ PressKey
  PROVE  PipeInv'
<1>0. PipeType /\ Ordered(mailbox, Said) /\ Ending /\ Said \in BOOLEAN
  BY DEF PipeInv, Said
<1>1. CASE Finish
  <2>1. /\ UNCHANGED <<writerVars, buffer, closed, want, got, ended, events, stray>> /\ Said' = Said
        /\ alive' = FALSE /\ mailbox' = <<>> /\ alive /\ want = 0
    BY <1>1 DEF Finish, writerVars, Said
  <2>2. PipeType'
    <3>1. mailbox' \in Seq(Messages)
      BY <2>1
    <3> QED
      BY <1>0, <2>1, <3>1 DEF PipeType, writerVars
  <2>3. Ordered(mailbox, Said)' /\ NoPieces(mailbox)'
    BY <2>1 DEF Ordered, NoPieces
  <2>4. Ending'
    BY <1>0, <2>1, <2>3 DEF Ending, writerVars
  <2> QED
    BY <2>2, <2>3, <2>4 DEF PipeInv
<1>2. CASE PressKey
  <2>1. /\ UNCHANGED <<writerVars, readerVars, stray>> /\ Said' = Said
        /\ mailbox' = IF alive THEN Append(mailbox, Key) ELSE mailbox
    BY <1>2 DEF PressKey, writerVars, Said
  <2>2. /\ mailbox' \in Seq(Messages) /\ Ordered(mailbox', Said)
        /\ NoPieces(mailbox) => NoPieces(mailbox')
    <3>0. mailbox \in Seq(Messages)
      BY <1>0 DEF PipeType
    <3>1. CASE alive
      <4>1. Ordered(Append(mailbox, Key), Said)
        BY <1>0, <3>0, KeyIsMessage, OrderedAppend
      <4>2. NoPieces(mailbox) => NoPieces(Append(mailbox, Key))
        BY <3>0, KeyIsMessage, MailAppend DEF NoPieces
      <4> QED
        BY <2>1, <3>0, <3>1, <4>1, <4>2, KeyIsMessage
    <3>2. CASE ~ alive
      BY <1>0, <2>1, <3>0, <3>2
    <3> QED
      BY <3>1, <3>2
  <2>3. Ordered(mailbox, Said)'
    BY <2>1, <2>2 DEF Ordered, IsPipe, IsEnd
  <2>4. PipeType'
    BY <1>0, <2>1, <2>2 DEF PipeType, writerVars, readerVars
  <2>5. NoPieces(mailbox)' <=> NoPieces(mailbox')
    BY DEF NoPieces, IsPipe
  <2>6. Ending'
    BY <1>0, <2>1, <2>2, <2>5 DEF Ending, writerVars, readerVars
  <2> QED
    BY <2>3, <2>4, <2>6 DEF PipeInv
<1> QED
  BY <1>1, <1>2

LEMMA StepPipeInv == PipeInv /\ [TerminalNext]_allVars => PipeInv'
<1> SUFFICES ASSUME PipeInv, [PipeStep]_pipelineVars PROVE PipeInv'
  BY TerminalIsPipe
<1>1. CASE PipeStep
  BY <1>1, WriterInv, ReaderInv, ReceiverInv, FinishInv DEF PipeStep, Reader
<1>2. CASE UNCHANGED pipelineVars
  <2>1. UNCHANGED <<wpc, left, written, buffer, closed, want, got, ended, events, alive, mailbox, stray>>
    BY <1>2 DEF pipelineVars, writerVars, readerVars
  <2> QED
    BY <2>1 DEF PipeInv, PipeType, Ordered, Ending, Said, NoPieces, IsPipe, IsEnd
<1> QED
  BY <1>1, <1>2


-----------------------------------------------------------------------------
(* The pipe as a byte stream.                                               *)

\* The bytes of the messages in mailbox mb.
Bodies(mb) == [i \in DOMAIN mb |-> mb[i].data]
Held(mb) == FlattenSeq(Bodies(mb))

LEMMA BodiesType ==
  ASSUME NEW mb \in Seq(Messages)
  PROVE  Bodies(mb) \in Seq(Seq(Nat)) /\ Len(Bodies(mb)) = Len(mb) /\ DOMAIN mb = 1..Len(mb) /\ Len(mb) \in Nat
<1>1. DOMAIN mb = 1..Len(mb) /\ Len(mb) \in Nat /\ \A i \in 1..Len(mb) : mb[i] \in Messages
  OBVIOUS
<1>2. \A i \in 1..Len(mb) : mb[i].data \in Seq(Nat)
  BY <1>1 DEF Messages
<1>3. Bodies(mb) = [i \in 1..Len(mb) |-> mb[i].data]
  BY <1>1 DEF Bodies
<1> QED
  BY <1>1, <1>2, <1>3

LEMMA HeldType ==
  ASSUME NEW mb \in Seq(Messages)
  PROVE  Held(mb) \in Seq(Nat)
BY BodiesType, FlattenType DEF Held

LEMMA HeldAppend ==
  ASSUME NEW mb \in Seq(Messages), NEW m \in Messages
  PROVE  Held(Append(mb, m)) = Held(mb) \o m.data
<1>1. PICK n : n = Append(mb, m)
  OBVIOUS
<1>2. PICK b, c, d : b = Bodies(mb) /\ c = Bodies(n) /\ d = m.data
  OBVIOUS
<1>3. /\ n \in Seq(Messages) /\ DOMAIN mb = 1..Len(mb) /\ DOMAIN n = 1..Len(n) /\ Len(mb) \in Nat
      /\ Len(n) = Len(mb) + 1 /\ n[Len(n)] = m
      /\ \A i \in DOMAIN n : i # Len(n) => i \in DOMAIN mb /\ n[i] = mb[i]
  BY <1>1, MailAppend
<1>4. b \in Seq(Seq(Nat)) /\ c \in Seq(Seq(Nat)) /\ d \in Seq(Nat) /\ Len(b) = Len(mb) /\ Len(c) = Len(n)
  BY <1>2, <1>3, BodiesType DEF Messages
<1>5. PICK a : a = Append(b, d)
  OBVIOUS
<1>6. /\ a \in Seq(Seq(Nat)) /\ Len(a) = Len(b) + 1 /\ a[Len(b) + 1] = d
      /\ \A i \in 1..Len(b) : a[i] = b[i]
  BY <1>4, <1>5, AppendProperties
<1>7. ASSUME NEW i \in 1..Len(c) PROVE c[i] = a[i]
  <2>1. c[i] = n[i].data /\ i \in DOMAIN n
    BY <1>2, <1>3, <1>4 DEF Bodies
  <2>2. CASE i = Len(n)
    BY <1>2, <1>3, <1>4, <1>6, <2>1, <2>2
  <2>3. CASE i # Len(n)
    <3>1. i \in DOMAIN mb /\ n[i] = mb[i] /\ b[i] = mb[i].data
      BY <1>2, <1>3, <2>1, <2>3 DEF Bodies
    <3> QED
      BY <1>3, <1>4, <1>6, <2>1, <3>1
  <2> QED
    BY <2>2, <2>3
<1>8. c = a
  BY <1>3, <1>4, <1>6, <1>7, SeqEqual
<1>9. FlattenSeq(a) = FlattenSeq(b) \o d
  BY <1>4, <1>5, FlattenAppend
<1> QED
  BY <1>1, <1>2, <1>8, <1>9 DEF Held

LEMMA HeldHead ==
  ASSUME NEW mb \in Seq(Messages), mb # <<>>
  PROVE  Held(mb) = Head(mb).data \o Held(Tail(mb))
<1>1. PICK n : n = Tail(mb)
  OBVIOUS
<1>2. PICK b, c : b = Bodies(mb) /\ c = Bodies(n)
  OBVIOUS
<1>3. /\ n \in Seq(Messages) /\ 1 \in DOMAIN mb /\ mb[1] = Head(mb)
      /\ \A i \in DOMAIN n : i + 1 \in DOMAIN mb /\ n[i] = mb[i + 1]
  BY <1>1, MailTail
<1>4. /\ b \in Seq(Seq(Nat)) /\ c \in Seq(Seq(Nat)) /\ Len(b) = Len(mb) /\ Len(c) = Len(n)
      /\ DOMAIN n = 1..Len(n) /\ DOMAIN mb = 1..Len(mb) /\ Len(mb) \in Nat
  BY <1>2, <1>3, BodiesType
<1>5. b # <<>> /\ Len(n) = Len(mb) - 1
  BY <1>1, <1>3, <1>4, HeadTailProperties
<1>6. Head(b) = Head(mb).data
  BY <1>2, <1>3, <1>4, <1>5 DEF Bodies
<1>7. PICK a : a = Tail(b)
  OBVIOUS
<1>8. a \in Seq(Seq(Nat)) /\ Len(a) = Len(b) - 1 /\ \A i \in 1..Len(a) : a[i] = b[i + 1]
  BY <1>4, <1>5, <1>7, HeadTailProperties
<1>9. ASSUME NEW i \in 1..Len(c) PROVE c[i] = a[i]
  <2>1. i \in DOMAIN n /\ i + 1 \in DOMAIN mb /\ n[i] = mb[i + 1]
    BY <1>3, <1>4
  <2>2. c[i] = n[i].data /\ b[i + 1] = mb[i + 1].data
    BY <1>2, <2>1 DEF Bodies
  <2> QED
    BY <1>4, <1>5, <1>8, <2>1, <2>2
<1>10. c = a
  BY <1>4, <1>5, <1>8, <1>9, SeqEqual
<1>11. FlattenSeq(b) = Head(b) \o FlattenSeq(a)
  BY <1>4, <1>5, <1>7, FlattenHead
<1> QED
  BY <1>1, <1>2, <1>6, <1>10, <1>11 DEF Held

LEMMA HeldNothing ==
  ASSUME NEW mb \in Seq(Messages), \A i \in DOMAIN mb : mb[i].data = <<>>
  PROVE  Held(mb) = <<>>
<1>1. PICK b : b = Bodies(mb)
  OBVIOUS
<1>2. b \in Seq(Seq(Nat)) /\ Len(b) = Len(mb) /\ DOMAIN mb = 1..Len(mb)
  BY <1>1, BodiesType
<1>3. \A i \in 1..Len(b) : b[i] = <<>>
  BY <1>1, <1>2 DEF Bodies
<1>4. FlattenSeq(b) = <<>>
  BY <1>2, <1>3, FlattenNothing
<1> QED
  BY <1>1, <1>4 DEF Held

\* What the abstract pipe sees.
Open      == wpc \in {"none", "start", "command"}
Listening == alive /\ ~ events
Underway  == IF alive /\ ~ events THEN Transit ELSE <<>>

SeenPut(n) ==
  /\ Open
  /\ written' = written + n
  /\ Underway' = IF Listening THEN Underway \o Stream!Numbered(written, n) ELSE <<>>
  /\ got' = got /\ Open' = Open /\ Listening' = Listening /\ ended' = ended

SeenGet(n) ==
  /\ Listening
  /\ got' = got \o SubSeq(Underway, 1, n)
  /\ Underway' = SubSeq(Underway, n + 1, Len(Underway))
  /\ written' = written /\ Open' = Open /\ Listening' = Listening /\ ended' = ended

SeenSame == /\ written' = written /\ Underway' = Underway /\ got' = got
            /\ Listening' = Listening /\ ended' = ended

LEMMA SeenStream ==
  ASSUME \/ \E n \in 1..DataSize : SeenPut(n)
         \/ \E n \in 1..Len(Underway) : SeenGet(n)
         \/ SeenSame /\ Open' = Open
         \/ SeenSame /\ Open' = FALSE
         \/ /\ Listening /\ ~ Open /\ Underway = <<>> /\ ended' = TRUE
            /\ written' = written /\ Underway' = Underway /\ got' = got /\ Open' = Open /\ Listening' = Listening
         \/ /\ Listening' = FALSE /\ Underway' = <<>>
            /\ written' = written /\ got' = got /\ Open' = Open /\ ended' = ended
  PROVE  [Stream!StreamNext]_(Stream!streamVars)
<1>1. CASE \E n \in 1..DataSize : SeenPut(n)
  BY <1>1 DEF SeenPut, Open, Listening, Underway, Stream!StreamNext, Stream!Put
<1>2. CASE \E n \in 1..Len(Underway) : SeenGet(n)
  BY <1>2 DEF SeenGet, Open, Listening, Underway, Stream!StreamNext, Stream!Get
<1>3. CASE SeenSame /\ Open' = Open
  BY <1>3 DEF SeenSame, Open, Listening, Underway, Stream!streamVars
<1>4. CASE SeenSame /\ Open' = FALSE
  BY <1>4 DEF SeenSame, Open, Listening, Underway, Stream!StreamNext, Stream!Close
<1>5. CASE /\ Listening /\ ~ Open /\ Underway = <<>> /\ ended' = TRUE
           /\ written' = written /\ Underway' = Underway /\ got' = got /\ Open' = Open /\ Listening' = Listening
  BY <1>5 DEF Open, Listening, Underway, Stream!StreamNext, Stream!End
<1>6. CASE /\ Listening' = FALSE /\ Underway' = <<>>
           /\ written' = written /\ got' = got /\ Open' = Open /\ ended' = ended
  BY <1>6 DEF Open, Listening, Underway, Stream!StreamNext, Stream!Leave
<1> QED
  BY <1>1, <1>2, <1>3, <1>4, <1>5, <1>6

LEMMA TransitIs == Transit = buffer \o Held(mailbox)
BY DEF Transit, Held, Bodies

LEMMA TransitThen == Transit' = buffer' \o Held(mailbox')
BY DEF Transit, Held, Bodies

\* What is behind the bytes that are read stays behind those that are left.
LEMMA GetFront ==
  ASSUME NEW b \in Seq(Nat), NEW r \in Seq(Nat), NEW n \in 1..Len(b), NEW s, s = b \o r
  PROVE  /\ n \in 1..Len(s) /\ SubSeq(s, 1, n) = SubSeq(b, 1, n)
         /\ SubSeq(s, n + 1, Len(s)) = SubSeq(b, n + 1, Len(b)) \o r
<1>1. s \in Seq(Nat) /\ Len(s) = Len(b) + Len(r) /\ Len(b) \in Nat /\ Len(r) \in Nat
      /\ \A i \in 1..Len(s) : s[i] = IF i <= Len(b) THEN b[i] ELSE r[i - Len(b)]
  BY ConcatProperties
<1>2. SubSeq(s, 1, n) = SubSeq(b, 1, n)
  BY <1>1
<1>3. PICK x : x = SubSeq(b, n + 1, Len(b))
  OBVIOUS
<1>4. /\ x \in Seq(Nat) /\ Len(x) = Len(b) - n /\ \A i \in 1..Len(x) : x[i] = b[n + i]
  BY <1>1, <1>3
<1>5. PICK y : y = x \o r
  OBVIOUS
<1>6. /\ y \in Seq(Nat) /\ Len(y) = Len(x) + Len(r)
      /\ \A i \in 1..Len(y) : y[i] = IF i <= Len(x) THEN x[i] ELSE r[i - Len(x)]
  <2>1. x \in Seq(Nat)
    BY <1>4
  <2>2. y \in Seq(Nat)
    BY <1>5, <2>1, ConcatProperties
  <2>3. Len(y) = Len(x) + Len(r)
    BY <1>5, <2>1, ConcatProperties
  <2>4. \A i \in 1..Len(y) : y[i] = IF i <= Len(x) THEN x[i] ELSE r[i - Len(x)]
    BY <1>5, <2>1, <2>3, ConcatProperties
  <2> QED
    BY <2>2, <2>3, <2>4
<1>7. PICK z : z = SubSeq(s, n + 1, Len(s))
  OBVIOUS
<1>8. z \in Seq(Nat) /\ Len(z) = Len(s) - n /\ \A i \in 1..Len(z) : z[i] = s[n + i]
  <2>1. s \in Seq(Nat) /\ Len(s) \in Nat /\ n \in Nat /\ n <= Len(s)
    BY <1>1
  <2>2. PICK k, l : k = n + 1 /\ l = Len(s)
    OBVIOUS
  <2>3. k \in Int /\ l \in Int /\ \A i \in k..l : s[i] \in Nat
    BY <2>1, <2>2
  <2>4. z = SubSeq(s, k, l)
    BY <1>7, <2>2
  <2>5. z \in Seq(Nat)
    BY <2>3, <2>4, SubSeqProperties
  <2>6. Len(z) = IF k <= l THEN l - k + 1 ELSE 0
    BY <2>3, <2>4, SubSeqProperties
  <2>7. \A i \in 1..(l - k + 1) : z[i] = s[k + i - 1]
    <3>1. k - 1 \in Nat /\ l <= Len(s) /\ k <= l + 1 /\ s \in Seq(Nat)
      BY <2>1, <2>2
    <3> QED
      BY <2>3, <2>4, <3>1
  <2>8. Len(z) = Len(s) - n
    BY <2>1, <2>2, <2>6
  <2>9. \A i \in 1..Len(z) : i \in 1..(l - k + 1) /\ k + i - 1 = n + i
    BY <2>1, <2>2, <2>8
  <2> QED
    BY <2>5, <2>7, <2>8, <2>9
<1>9. ASSUME NEW i \in 1..Len(z) PROVE z[i] = y[i]
  <2>1. n + i \in 1..Len(s) /\ i \in 1..Len(y) /\ (n + i) - Len(b) = i - Len(x)
    BY <1>1, <1>4, <1>6, <1>8
  <2>2. CASE i <= Len(x)
    BY <1>1, <1>4, <1>6, <1>8, <2>1, <2>2
  <2>3. CASE ~ (i <= Len(x))
    BY <1>1, <1>4, <1>6, <1>8, <2>1, <2>3
  <2> QED
    BY <2>2, <2>3
<1>10. z = y
  <2>1. Len(z) = Len(y) /\ z \in Seq(Nat) /\ y \in Seq(Nat)
    BY <1>1, <1>4, <1>6, <1>8
  <2> QED
    BY <1>9, <2>1, SeqEqual
<1>11. n \in 1..Len(s)
  BY <1>1
<1> QED
  BY <1>2, <1>3, <1>5, <1>7, <1>10, <1>11

LEMMA CopiedSome ==
  ASSUME NEW b \in Seq(Nat), b # <<>>, NEW len \in Nat \ {0}
  PROVE  Copied(b, len) \in 1..Len(b)
BY EmptySeq DEF Copied

\* The writer puts bytes in and closes.
LEMMA WriterSeen ==
  ASSUME PipeInv, Begins \/ Writer
  PROVE  [Stream!StreamNext]_(Stream!streamVars)
<1>0. PipeType /\ Ordered(mailbox, Said) /\ Ending /\ mailbox \in Seq(Messages) /\ buffer \in Seq(Nat)
  BY DEF PipeInv, PipeType
<1>1. CASE Begins \/ Route \/ WaitFinish \/ \E n \in WriteSizes : Write(n)
  <2>1. /\ UNCHANGED <<written, mailbox, buffer, got, ended, events, alive>> /\ Open' = Open
    BY <1>1 DEF Begins, Route, WaitFinish, Write, Open, readerVars
  <2>2. SeenSame
    BY <2>1 DEF SeenSame, Underway, Listening, Transit
  <2> QED
    BY <2>1, <2>2, SeenStream
<1>2. CASE SendPiece
  <2>1. PICK n : n = PieceLength
    OBVIOUS
  <2>2. PICK m : m = PipeMessage(Bytes(written, n))
    OBVIOUS
  <2>3. m \in Messages /\ m.data = Bytes(written, n) /\ n \in 1..DataSize /\ left > 0 /\ Bytes(written, n) \in Seq(Nat)
    BY <1>0, <1>2, <2>1, <2>2, PieceFacts, PieceIsMessage DEF SendPiece
  <2>4. /\ mailbox' = IF alive THEN Append(mailbox, m) ELSE mailbox
        /\ written' = written + n /\ UNCHANGED <<wpc, buffer, got, ended, events, alive>>
    BY <1>2, <2>1, <2>2 DEF SendPiece, Send, readerVars
  <2>5. Open /\ Open' = Open /\ Listening' = Listening
    BY <1>0, <2>3, <2>4 DEF Open, Listening, Ending
  <2>6. Bytes(written, n) = Stream!Numbered(written, n)
    BY DEF Bytes, Stream!Numbered
  <2>7. ASSUME Listening PROVE Underway' = Underway \o Bytes(written, n)
    <3>1. Held(mailbox') = Held(mailbox) \o Bytes(written, n)
      BY <1>0, <2>3, <2>4, <2>7, HeldAppend DEF Listening
    <3>2. Held(mailbox) \in Seq(Nat)
      BY <1>0, HeldType
    <3>3. PICK h, w : h = Held(mailbox) /\ w = Bytes(written, n)
      OBVIOUS
    <3>4. h \in Seq(Nat) /\ w \in Seq(Nat)
      BY <2>3, <3>2, <3>3
    <3>5. (buffer \o h) \o w = buffer \o (h \o w)
      BY <1>0, <3>4, ConcatAssociative
    <3>6. Underway = buffer \o h /\ Underway' = buffer \o (h \o w)
      BY <2>4, <2>5, <2>7, <3>1, <3>3, TransitIs, TransitThen DEF Underway, Listening
    <3> QED
      BY <3>3, <3>5, <3>6
  <2>8. ~ Listening => Underway' = <<>>
    BY <2>4 DEF Underway, Listening
  <2>9. SeenPut(n)
    BY <2>4, <2>5, <2>6, <2>7, <2>8 DEF SeenPut
  <2> QED
    BY <2>3, <2>9, SeenStream
<1>3. CASE FinishWrite
  <2>1. PICK m : m = PipeMessage(<<>>)
    OBVIOUS
  <2>2. m \in Messages /\ m.data = <<>>
    <3>1. <<>> \in Seq(Nat)
      OBVIOUS
    <3> QED
      BY <2>1, <3>1, PieceIsMessage
  <2>3. /\ mailbox' = IF alive THEN Append(mailbox, m) ELSE mailbox
        /\ UNCHANGED <<written, buffer, got, ended, events, alive>> /\ Open' = FALSE
    BY <1>3, <2>1 DEF FinishWrite, Send, readerVars, Open
  <2>4. Held(mailbox') = Held(mailbox)
    <3>1. CASE alive
      <4>1. Held(mailbox') = Held(mailbox) \o <<>> /\ Held(mailbox) \in Seq(Nat)
        BY <1>0, <2>2, <2>3, <3>1, HeldAppend, HeldType
      <4> QED
        BY <4>1, ConcatEmptySeq
    <3> QED
      BY <2>3, <3>1
  <2>5. Transit' = Transit
    BY <2>3, <2>4, TransitIs, TransitThen
  <2>6. SeenSame
    BY <2>3, <2>5 DEF SeenSame, Underway, Listening
  <2> QED
    BY <2>3, <2>6, SeenStream
<1> QED
  BY <1>1, <1>2, <1>3 DEF Writer

\* Nothing is on the way when the pipe is closed, or the end is the next message.
LEMMA NothingComes ==
  ASSUME PipeInv, closed \/ (want > 0 /\ mailbox # <<>> /\ IsEnd(Head(mailbox)))
  PROVE  buffer = <<>> /\ Held(mailbox) = <<>> /\ ~ Open
<1>0. PipeType /\ Ordered(mailbox, Said) /\ Ending /\ mailbox \in Seq(Messages)
  BY DEF PipeInv, PipeType
<1>1. buffer = <<>> /\ Said
  <2>1. CASE closed
    BY <1>0, <2>1 DEF Ending
  <2>2. CASE ~ closed
    <3>1. 1 \in DOMAIN mailbox /\ IsEnd(mailbox[1])
      BY <1>0, <2>2, MailTail
    <3> QED
      BY <1>0, <2>2, <3>1 DEF Ending, Ordered
  <2> QED
    BY <2>1, <2>2
<1>2. ASSUME NEW i \in DOMAIN mailbox PROVE mailbox[i].data = <<>>
  <2>1. CASE ~ IsPipe(mailbox[i])
    BY <1>0, <2>1 DEF Ordered
  <2>2. CASE IsPipe(mailbox[i])
    <3>1. ~ closed
      BY <1>0, <2>2 DEF Ending, NoPieces
    <3>2. 1 \in DOMAIN mailbox /\ mailbox[1] = Head(mailbox) /\ DOMAIN mailbox \subseteq Nat /\ IsEnd(mailbox[1])
      BY <1>0, <3>1, MailTail
    <3>3. i = 1
      <4>1. ~ (1 < i)
        BY <1>0, <2>2, <3>2 DEF Ordered
      <4>2. DOMAIN mailbox = 1..Len(mailbox)
        BY <1>0
      <4> QED
        BY <4>1, <4>2
    <3> QED
      BY <3>2, <3>3 DEF IsEnd
  <2> QED
    BY <2>1, <2>2
<1>3. Held(mailbox) = <<>>
  BY <1>0, <1>2, HeldNothing
<1>4. ~ Open
  BY <1>1 DEF Open, Said
<1> QED
  BY <1>1, <1>3, <1>4

\* A Read gets bytes, waits or is told the end.
LEMMA ReaderSeen ==
  ASSUME PipeInv, (\E len \in ReadSizes : ReadBuffer(len) \/ ReadWaits(len)) \/ ReadClosed
  PROVE  [Stream!StreamNext]_(Stream!streamVars)
<1>0. /\ PipeType /\ Ordered(mailbox, Said) /\ Ending /\ mailbox \in Seq(Messages) /\ buffer \in Seq(Nat)
      /\ got \in Seq(Nat) /\ Held(mailbox) \in Seq(Nat)
  BY HeldType DEF PipeInv, PipeType
<1>1. /\ UNCHANGED <<written, mailbox, closed, events, alive>> /\ Open' = Open /\ Listening /\ Listening' = Listening
  BY DEF ReadBuffer, ReadWaits, ReadClosed, writerVars, Open, Reads, Listening
<1>2. Underway = buffer \o Held(mailbox) /\ Underway' = buffer' \o Held(mailbox)
  BY <1>1, TransitIs, TransitThen DEF Underway, Listening
<1>3. CASE \E len \in ReadSizes : ReadBuffer(len)
  <2>1. PICK len \in ReadSizes : ReadBuffer(len)
    BY <1>3
  <2>2. buffer # <<>> /\ len \in Nat \ {0} /\ HandOver(buffer, len) /\ ended' = ended
    BY <2>1, PipeAssumption DEF ReadBuffer
  <2>3. PICK n : n = Copied(buffer, len)
    OBVIOUS
  <2>4. n \in 1..Len(buffer)
    BY <1>0, <2>2, <2>3, CopiedSome
  <2>5. got' = got \o SubSeq(buffer, 1, n) /\ buffer' = SubSeq(buffer, n + 1, Len(buffer))
    BY <2>2, <2>3 DEF HandOver, Remaining
  <2>6. /\ n \in 1..Len(Underway) /\ SubSeq(Underway, 1, n) = SubSeq(buffer, 1, n)
        /\ SubSeq(Underway, n + 1, Len(Underway)) = SubSeq(buffer, n + 1, Len(buffer)) \o Held(mailbox)
    <3>1. PICK u, h : u = Underway /\ h = Held(mailbox)
      OBVIOUS
    <3>2. u = buffer \o h /\ h \in Seq(Nat)
      BY <1>0, <1>2, <3>1
    <3>3. n \in 1..Len(u)
      BY <1>0, <2>4, <3>2, GetFront
    <3>4. SubSeq(u, 1, n) = SubSeq(buffer, 1, n)
      BY <1>0, <2>4, <3>2, GetFront
    <3>5. SubSeq(u, n + 1, Len(u)) = SubSeq(buffer, n + 1, Len(buffer)) \o h
      <4>1. buffer \in Seq(Nat)
        BY <1>0
      <4> QED
        BY <2>4, <3>2, <4>1, GetFront
    <3> QED
      BY <3>1, <3>3, <3>4, <3>5
  <2>7. SeenGet(n)
    BY <1>1, <1>2, <2>2, <2>5, <2>6 DEF SeenGet
  <2> QED
    BY <2>6, <2>7, SeenStream
<1>4. CASE \E len \in ReadSizes : ReadWaits(len)
  <2>1. UNCHANGED <<buffer, got, ended>>
    BY <1>4 DEF ReadWaits
  <2>2. SeenSame
    BY <1>1, <1>2, <2>1 DEF SeenSame
  <2> QED
    BY <1>1, <2>2, SeenStream
<1>5. CASE ReadClosed
  <2>1. closed /\ ended' = TRUE /\ UNCHANGED <<buffer, got>>
    BY <1>5 DEF ReadClosed
  <2>2. Underway = <<>> /\ ~ Open
    BY <1>2, <2>1, NothingComes
  <2>3. Underway' = Underway
    BY <1>2, <2>1
  <2> QED
    BY <1>1, <2>1, <2>2, <2>3, SeenStream
<1> QED
  BY <1>3, <1>4, <1>5

\* A message is taken: the front of what is on the way, a key, or the end.
LEMMA ReceiverSeen ==
  ASSUME PipeInv, Skip \/ ReceiveEnd \/ ReceivePiece \/ ReadEvent
  PROVE  [Stream!StreamNext]_(Stream!streamVars)
<1>0. /\ PipeType /\ Ordered(mailbox, Said) /\ Ending /\ mailbox \in Seq(Messages) /\ buffer \in Seq(Nat)
      /\ got \in Seq(Nat)
  BY DEF PipeInv, PipeType
<1>1. /\ UNCHANGED <<written, alive>> /\ Open' = Open /\ mailbox' = Tail(mailbox)
      /\ mailbox # <<>> /\ alive
  BY DEF Skip, ReceiveEnd, ReceivePiece, ReadEvent, writerVars, Open, Receives, readerVars
<1>2. PICK d, r : d = Head(mailbox).data /\ r = Held(mailbox')
  OBVIOUS
<1>3. Head(mailbox) \in Messages /\ mailbox' \in Seq(Messages) /\ 1 \in DOMAIN mailbox /\ mailbox[1] = Head(mailbox)
  BY <1>0, <1>1, MailTail
<1>4. d \in Seq(Nat) /\ r \in Seq(Nat)
  BY <1>2, <1>3, HeldType DEF Messages
<1>5. Held(mailbox) = d \o r
  BY <1>0, <1>1, <1>2, HeldHead
<1>6. d = <<>> => Held(mailbox) = r
  BY <1>4, <1>5, ConcatEmptySeq
<1>7. Transit = buffer \o Held(mailbox) /\ Transit' = buffer' \o r
  BY <1>2, TransitIs, TransitThen
<1>8. CASE Skip
  <2>1. UNCHANGED <<buffer, got, ended, events>> /\ ~ IsPipe(mailbox[1])
    BY <1>3, <1>8 DEF Skip, readerVars
  <2>2. d = <<>>
    BY <1>0, <1>2, <1>3, <2>1 DEF Ordered
  <2>3. SeenSame
    BY <1>1, <1>6, <1>7, <2>1, <2>2 DEF SeenSame, Underway, Listening
  <2> QED
    BY <1>1, <2>3, SeenStream
<1>9. CASE ReceiveEnd
  <2>1. want > 0 /\ IsEnd(Head(mailbox)) /\ ended' = TRUE /\ UNCHANGED <<buffer, got, events>>
    BY <1>9 DEF ReceiveEnd, Receives
  <2>2. buffer = <<>> /\ Held(mailbox) = <<>> /\ ~ Open
    BY <1>1, <2>1, NothingComes
  <2>3. d = <<>> /\ ~ events
    BY <1>0, <1>2, <2>1 DEF IsEnd, Ending
  <2>4. Listening /\ Listening' = Listening /\ Underway = <<>> /\ Underway' = Underway
    BY <1>1, <1>6, <1>7, <2>1, <2>2, <2>3 DEF Listening, Underway
  <2> QED
    BY <1>1, <2>1, <2>2, <2>4, SeenStream
<1>10. CASE ReceivePiece
  <2>1. /\ want > 0 /\ HandOver(d, want) /\ UNCHANGED <<ended, events>>
        /\ IsPipe(Head(mailbox)) /\ ~ IsEnd(Head(mailbox))
    BY <1>2, <1>10 DEF ReceivePiece, Receives
  <2>2. d # <<>> /\ buffer = <<>> /\ ~ events /\ want \in Nat \ {0}
    BY <1>0, <1>2, <2>1 DEF IsEnd, Ending, PipeType
  <2>3. PICK n : n = Copied(d, want)
    OBVIOUS
  <2>4. n \in 1..Len(d)
    BY <1>4, <2>2, <2>3, CopiedSome
  <2>5. got' = got \o SubSeq(d, 1, n) /\ buffer' = SubSeq(d, n + 1, Len(d))
    BY <2>1, <2>3 DEF HandOver, Remaining
  <2>6. Underway = d \o r
    <3>1. d \o r \in Seq(Nat)
      BY <1>4, ConcatProperties
    <3>2. Transit = Held(mailbox)
      BY <1>5, <1>7, <2>2, <3>1, ConcatEmptySeq
    <3> QED
      BY <1>1, <1>5, <2>2, <3>2 DEF Underway
  <2>7. /\ n \in 1..Len(Underway) /\ SubSeq(Underway, 1, n) = SubSeq(d, 1, n)
        /\ SubSeq(Underway, n + 1, Len(Underway)) = SubSeq(d, n + 1, Len(d)) \o r
    BY ZenonT(40), <1>4, <2>4, <2>6, GetFront
  <2>8. Listening /\ Listening' = Listening /\ Underway' = Transit'
    BY <1>1, <2>1, <2>2 DEF Listening, Underway
  <2>9. SeenGet(n)
    BY <1>1, <1>7, <2>1, <2>5, <2>7, <2>8 DEF SeenGet
  <2> QED
    BY <2>7, <2>9, SeenStream
<1>11. CASE ReadEvent
  <2>1. events' = (events \/ ~ ended) /\ UNCHANGED <<buffer, closed, got, ended>>
    BY <1>11 DEF ReadEvent
  <2>2. CASE ended /\ ~ events
    <3>1. buffer = <<>> /\ closed /\ NoPieces(mailbox)
      BY <1>0, <2>2 DEF Ending
    <3>2. d = <<>>
      BY <1>0, <1>2, <1>3, <3>1 DEF Ordered, NoPieces
    <3>3. SeenSame
      BY <1>1, <1>6, <1>7, <2>1, <2>2, <3>2 DEF SeenSame, Underway, Listening
    <3> QED
      BY <1>1, <3>3, SeenStream
  <2>3. CASE ~ (ended /\ ~ events)
    <3>1. events' = TRUE
      BY <1>0, <2>1, <2>3 DEF PipeType
    <3>2. Listening' = FALSE /\ Underway' = <<>>
      BY <3>1 DEF Listening, Underway
    <3> QED
      BY <1>1, <2>1, <3>2, SeenStream
  <2> QED
    BY <2>2, <2>3
<1> QED
  BY <1>8, <1>9, <1>10, <1>11

LEMMA FinishSeen ==
  ASSUME PipeInv, Finish \/ PressKey
  PROVE  [Stream!StreamNext]_(Stream!streamVars)
<1>0. PipeType /\ mailbox \in Seq(Messages)
  BY DEF PipeInv, PipeType
<1>1. CASE Finish
  <2>1. UNCHANGED <<written, got, ended>> /\ Open' = Open /\ alive' = FALSE
    BY <1>1 DEF Finish, writerVars, Open
  <2>2. Listening' = FALSE /\ Underway' = <<>>
    BY <2>1 DEF Listening, Underway
  <2> QED
    BY <2>1, <2>2, SeenStream
<1>2. CASE PressKey
  <2>1. /\ UNCHANGED <<written, buffer, got, ended, events, alive>> /\ Open' = Open
        /\ mailbox' = IF alive THEN Append(mailbox, Key) ELSE mailbox
    BY <1>2 DEF PressKey, writerVars, readerVars, Open
  <2>2. Held(mailbox') = Held(mailbox)
    <3>1. CASE alive
      <4>1. Held(mailbox') = Held(mailbox) \o <<>> /\ Held(mailbox) \in Seq(Nat)
        BY <1>0, <2>1, <3>1, KeyIsMessage, HeldAppend, HeldType
      <4> QED
        BY <4>1, ConcatEmptySeq
    <3> QED
      BY <2>1, <3>1
  <2>3. SeenSame
    BY <2>1, <2>2, TransitIs, TransitThen DEF SeenSame, Underway, Listening
  <2> QED
    BY <2>1, <2>3, SeenStream
<1> QED
  BY <1>1, <1>2

LEMMA StepStream == PipeInv /\ [TerminalNext]_allVars => [Stream!StreamNext]_(Stream!streamVars)
<1> SUFFICES ASSUME PipeInv, [PipeStep]_pipelineVars PROVE [Stream!StreamNext]_(Stream!streamVars)
  BY TerminalIsPipe
<1>1. CASE PipeStep
  BY <1>1, WriterSeen, ReaderSeen, ReceiverSeen, FinishSeen DEF PipeStep, Reader
<1>2. CASE UNCHANGED pipelineVars
  <2>1. UNCHANGED <<wpc, written, buffer, got, ended, events, alive, mailbox>>
    BY <1>2 DEF pipelineVars, writerVars, readerVars
  <2>2. SeenSame /\ Open' = Open
    BY <2>1 DEF SeenSame, Open, Underway, Listening, Transit
  <2> QED
    BY <2>2, SeenStream
<1> QED
  BY <1>1, <1>2

LEMMA InitStream == PipeInit => Stream!StreamInit
<1> SUFFICES ASSUME PipeInit PROVE Stream!StreamInit
  OBVIOUS
<1>1. mailbox = <<>> /\ mailbox \in Seq(Messages) /\ buffer = <<>> /\ DOMAIN mailbox = {}
  BY DEF PipeInit
<1>2. Held(mailbox) = <<>>
  BY <1>1, HeldNothing
<1>3. Transit = <<>>
  BY <1>1, <1>2, TransitIs
<1> QED
  BY <1>3 DEF PipeInit, Stream!StreamInit

-----------------------------------------------------------------------------
(* The theorems.                                                            *)

(***************************************************************************)
(* Whatever the commands write and read at once, and whatever is typed      *)
(* meanwhile: nothing of the pipe comes behind the end, no key carries      *)
(* bytes, and bytes are kept in data_ only while the pipe is open           *)
(* (PipeDescriptor::Read, Write, FinishWrite).                              *)
(***************************************************************************)
THEOREM PipeInvariance == TerminalSpec => []PipeInv
<1>1. TerminalInit => PipeInv
  BY InitPipeInv DEF TerminalInit
<1> QED
  BY <1>1, StepPipeInv, PTL DEF TerminalSpec

(***************************************************************************)
(* A command that has read to the end may finish at once: the terminal      *)
(* sends the destroyed subtask nothing more (ExecuteLine, Task::Finish).    *)
(***************************************************************************)
THEOREM OnlyEarlyLeaversAreMissed == TerminalSpec => []StrayOnlyIfLeftEarly
<1>1. PipeInv => StrayOnlyIfLeftEarly
  BY DEF PipeInv, Ending, StrayOnlyIfLeftEarly
<1> QED
  BY <1>1, PipeInvariance, PTL

(***************************************************************************)
(* A pipe is a byte stream: messages of DataSize bytes, keys among them and *)
(* the bytes that Read keeps make what is read what was written, each byte  *)
(* once, in order and to the end (PipeDescriptor).                          *)
(***************************************************************************)
THEOREM PipesAreStreams == TerminalSpec => IsByteStream
<1>1. TerminalInit => Stream!StreamInit
  BY InitStream DEF TerminalInit
<1> QED
  BY <1>1, StepStream, PipeInvariance, PTL DEF TerminalSpec, IsByteStream, Stream!StreamSpec
=============================================================================
