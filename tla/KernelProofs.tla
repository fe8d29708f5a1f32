---------------------------- MODULE KernelProofs ----------------------------
(***************************************************************************)
(* Kernel for every number of tasks, levels, keys and timers: no wake-up is *)
(* lost, the idle task can be interrupted, and no key or cursor timer is    *)
(* lost.  None of these is inductive.  The first two hold because IF is off *)
(* exactly in the critical part of the message loop, for the tasks that are *)
(* switched out too, and because a task between its mailbox test and its    *)
(* Sleep is the current one.  The third holds because the keys on their way *)
(* are in order, in every place they pass and from each place to the next   *)
(* (Kept), until a push to the deque is torn by an interrupt.               *)
(***************************************************************************)
EXTENDS Kernel, RunQueuesProofs, FiniteSetTheorems, TLAPS

-----------------------------------------------------------------------------
(* Sets of natural numbers.                                                *)

\* A set of natural numbers has a least member.
LEMMA LeastMember ==
  ASSUME NEW S, S \subseteq Nat, S # {}
  PROVE  \E m \in S : \A x \in S : m <= x
<1> DEFINE R == OpToRel(<, Nat)
<1>1. IsWellFoundedOn(R, Nat)
  BY NatLessThanWellFounded
<1>2. PICK m \in S : \A x \in S : ~(<<x, m>> \in R)
  <2> HIDE DEF R
  <2> QED
    BY <1>1, WFMin
<1>3. \A x \in S : ~(x < m)
  BY <1>2 DEF OpToRel
<1> QED
  BY <1>3

\* Induction with the set of numbers it is about, in place of a predicate.
LEMMA SetInduction ==
  ASSUME NEW T, T \subseteq Nat, 0 \in T, \A n \in T : n + 1 \in T
  PROVE  T = Nat
<1> DEFINE U == Nat \ T
<1> SUFFICES ASSUME U # {} PROVE FALSE
  OBVIOUS
<1>1. PICK m \in U : \A x \in U : m <= x
  <2>1. U \subseteq Nat
    OBVIOUS
  <2> HIDE DEF U
  <2> QED
    BY <2>1, LeastMember
<1>2. m \in Nat \ {0} /\ m - 1 \in Nat /\ ~(m <= m - 1)
  OBVIOUS
<1>3. m - 1 \in T
  BY <1>1, <1>2
<1>4. (m - 1) + 1 \in T /\ (m - 1) + 1 = m
  BY <1>2, <1>3
<1> QED
  BY <1>4

-----------------------------------------------------------------------------
(* The scheduler when the terminals have been woken, one after the other.   *)

Woken[t \in Idle..MaxTasks] ==
  IF t = Idle THEN InitScheduler ELSE Wakeup(Woken[t - 1], t, Same)

\* The recursion has a solution: a longer one is made from a shorter one.
LEMMA WokenDefined ==
  Woken = [t \in Idle..MaxTasks |->
             IF t = Idle THEN InitScheduler ELSE Wakeup(Woken[t - 1], t, Same)]
<1> DEFINE Solves(f, n) == f = [t \in Idle..(Idle + n) |->
               IF t = Idle THEN InitScheduler ELSE Wakeup(f[t - 1], t, Same)]
           T == {n \in Nat : \E f : Solves(f, n)}
<1>1. 0 \in T
  <2>1. Solves([t \in Idle..(Idle + 0) |-> InitScheduler], 0)
    BY DEF Idle
  <2> QED
    BY <2>1
<1>2. ASSUME NEW n \in T PROVE n + 1 \in T
  <2>1. PICK f : Solves(f, n)
    OBVIOUS
  <2> DEFINE g == [t \in Idle..(Idle + (n + 1)) |->
                     IF t = Idle + (n + 1) THEN Wakeup(f[t - 1], t, Same) ELSE f[t]]
             h == [t \in Idle..(Idle + (n + 1)) |->
                     IF t = Idle THEN InitScheduler ELSE Wakeup(g[t - 1], t, Same)]
  <2>2. ASSUME NEW t \in Idle..(Idle + (n + 1)) PROVE g[t] = h[t]
    <3>1. CASE t = Idle + (n + 1)
      BY <3>1 DEF Idle
    <3>2. CASE t # Idle + (n + 1)
      <4>1. t \in Idle..(Idle + n) /\ g[t] = f[t]
        BY <3>2 DEF Idle
      <4>2. t # Idle => t - 1 \in Idle..(Idle + (n + 1)) /\ t - 1 # Idle + (n + 1)
        BY <4>1 DEF Idle
      <4>3. t # Idle => g[t - 1] = f[t - 1]
        BY <4>2
      <4>4. f[t] = IF t = Idle THEN InitScheduler ELSE Wakeup(f[t - 1], t, Same)
        BY <2>1, <4>1
      <4> QED
        BY <4>1, <4>3, <4>4
    <3> QED
      BY <3>1, <3>2
  <2>3. g = h
    BY <2>2
  <2>4. Solves(g, n + 1)
    BY <2>3
  <2> HIDE DEF g, Solves
  <2> QED
    BY <2>4
<1>3. T = Nat
  <2> HIDE DEF Solves
  <2> QED
    BY <1>1, <1>2, SetInduction
<1>4. MaxTasks - Idle \in T /\ Idle + (MaxTasks - Idle) = MaxTasks
  <2>1. MaxTasks - Idle \in Nat /\ Idle + (MaxTasks - Idle) = MaxTasks
    BY RunQueuesAssumption DEF Idle
  <2> HIDE DEF T
  <2> QED
    BY <1>3, <2>1
<1>5. \E f : f = [t \in Idle..MaxTasks |->
                    IF t = Idle THEN InitScheduler ELSE Wakeup(f[t - 1], t, Same)]
  BY <1>4
<1> QED
  BY <1>5 DEF Woken

\* After the boot the run queues are well formed and every task is runnable.
LEMMA AfterBootFacts ==
  WellFormed(AfterBoot) /\ \A u \in TaskIds : AfterBoot.running[u]
<1> DEFINE Good(t) == /\ WellFormed(Woken[t])
                      /\ \A u \in TaskIds : u <= t => Woken[t].running[u]
           T == {n \in Nat : Idle + n <= MaxTasks => Good(Idle + n)}
<1>0. MaxTasks \in Nat /\ Idle <= MaxTasks /\ TaskIds = 1..MaxTasks /\ Idle = 2
  BY RunQueuesAssumption DEF TaskIds, Idle
<1>1. 0 \in T
  <2>1. Woken[Idle] = InitScheduler
    BY <1>0, WokenDefined
  <2>2. \A u \in TaskIds : u <= Idle => InitScheduler.running[u]
    <3>1. \A u \in TaskIds : u <= Idle => u \in {Main, Idle}
      BY <1>0 DEF Main
    <3>2. InitScheduler.running = [t \in TaskIds |-> t \in {Main, Idle}]
      BY DEF InitScheduler
    <3> QED
      BY <3>1, <3>2
  <2> QED
    BY <1>0, <2>1, <2>2, InitWellFormed
<1>2. ASSUME NEW n \in T PROVE n + 1 \in T
  <2> SUFFICES ASSUME Idle + (n + 1) <= MaxTasks PROVE Good(Idle + (n + 1))
    OBVIOUS
  <2> DEFINE t == Idle + (n + 1)
             s == Woken[Idle + n]
  <2>1. Good(Idle + n) /\ t \in TaskIds /\ t - 1 = Idle + n /\ t \in Idle..MaxTasks /\ t # Idle
    BY <1>0
  <2>2. Woken[t] = Wakeup(s, t, Same)
    BY <2>1, WokenDefined
  <2>3. WellFormed(s) /\ \A u \in TaskIds : u <= Idle + n => s.running[u]
    BY <2>1
  <2> HIDE DEF s, t
  <2>4. WellFormed(Wakeup(s, t, Same)) /\ Wakeup(s, t, Same).running = [s.running EXCEPT ![t] = TRUE]
    BY <2>1, <2>3, WakeupWellFormed, WakeupRunning
  <2>5. s.running \in [TaskIds -> BOOLEAN]
    BY <2>3, WellFormedFacts
  <2>6. ASSUME NEW u \in TaskIds, u <= t PROVE Woken[t].running[u]
    <3>1. u = t \/ u <= Idle + n
      BY <1>0, <2>1, <2>6 DEF t
    <3> QED
      BY <2>2, <2>3, <2>4, <2>5, <3>1
  <2> QED
    BY <2>2, <2>4, <2>6 DEF t
<1>3. T = Nat
  <2> HIDE DEF Good
  <2> QED
    BY <1>1, <1>2, SetInduction
<1>4. Good(MaxTasks)
  <2>1. MaxTasks - Idle \in T /\ Idle + (MaxTasks - Idle) = MaxTasks
    <3>1. MaxTasks - Idle \in Nat /\ Idle + (MaxTasks - Idle) = MaxTasks
      BY <1>0
    <3> HIDE DEF T
    <3> QED
      BY <1>3, <3>1
  <2> HIDE DEF Good
  <2> QED
    BY <1>0, <2>1
<1>5. AfterBoot = Woken[MaxTasks]
  BY DEF AfterBoot, Woken
<1> QED
  BY <1>0, <1>4, <1>5

-----------------------------------------------------------------------------
(* The inductive invariant.                                                 *)

Points == {"start", "starting", "poll", "test", "sleep", "woken", "handle", "arming", "blink", "draw",
           "drain", "pushing", "popping"}

\* Where a task runs with interrupts off: from its cli to the sti after Sleep.
Off == {"test", "sleep", "woken"}

KernelTypeOK ==
  /\ sched \in Scheduler
  /\ iflag \in BOOLEAN /\ savedIF \in [TaskIds -> BOOLEAN]
  /\ pc \in [TaskIds -> Points]
  /\ msgs \in [TaskIds -> Seq(Message)] /\ inHand \in [TaskIds -> Message]
  /\ armed \in [TaskIds -> Nat] /\ expiries \in 0..MaxExpiries
  /\ heapTorn \in BOOLEAN
  /\ pressed \in 0..MaxKeys /\ ring \in Seq(Keys) /\ requested \in BOOLEAN
  /\ ipe \in BOOLEAN /\ ehb \in BOOLEAN /\ irq \in BOOLEAN
  /\ pushAt \in Nat /\ torn \in BOOLEAN /\ shown \in [TaskIds -> Seq(Keys)]

\* The idle task only halts.
IdleHalts == pc[Idle] = "poll"

\* The main task draws itself.
MainAsksNobody == pc[Main] \notin {"blink", "draw", "arming"}

\* The observer runs for an event that is still in the ring.
EventAtHand == pc[Main] \in {"pushing", "popping"} => ring # <<>>

\* IF of every task, whether it has the processor or waits for it.
FlagOf(t) == IF t = Current THEN iflag ELSE savedIF[t]

FlagsFollow == \A t \in TaskIds : FlagOf(t) <=> pc[t] \notin Off

\* Nobody gets in between the mailbox test and Sleep.
NotPreempted == \A t \in TaskIds : pc[t] \in {"test", "sleep"} => t = Current

FoundNone == \A t \in TaskIds : pc[t] = "sleep" => msgs[t] = <<>>

Asleep == \A t \in TaskIds : ~sched.running[t] => pc[t] = "woken" /\ msgs[t] = <<>>

Discipline ==
  /\ WellFormed(sched)
  /\ IdleHalts
  /\ FlagsFollow
  /\ NotPreempted
  /\ FoundNone
  /\ Asleep

IInv == KernelTypeOK /\ EventAtHand /\ MainAsksNobody /\ Discipline

LEMMA Basics ==
  ASSUME IInv
  PROVE  /\ KernelTypeOK /\ WellFormed(sched) /\ sched \in Scheduler
         /\ Current \in TaskIds /\ sched.running[Current]
         /\ sched.running \in [TaskIds -> BOOLEAN]
         /\ Idle \in TaskIds /\ Main \in TaskIds /\ Main # Idle
         /\ \A t \in Terminals : t \in TaskIds /\ t # Idle
<1>1. WellFormed(sched) /\ KernelTypeOK
  BY DEF IInv, Discipline
<1>2. /\ sched \in Scheduler /\ CurrentTask(sched) \in TaskIds
      /\ sched.running[CurrentTask(sched)] /\ sched.running \in [TaskIds -> BOOLEAN]
  BY <1>1, WellFormedFacts
<1>3. Idle \in TaskIds /\ Main \in TaskIds /\ Main # Idle
  BY RunQueuesAssumption DEF TaskIds, Idle, Main
<1> QED
  BY <1>1, <1>2, <1>3 DEF Current, Terminals

LEMMA Messages ==
  /\ XHCI \in Message /\ Timeout \in Message /\ LayerFinish \in Message /\ Junk \in Message
  /\ \A k \in Keys : KeyPush(k) \in Message
  /\ \A t \in Terminals : Layer(t) \in Message
BY DEF Message

\* SendMessage: the receiver is awake, everybody else is left alone.
LEMMA SendEffect ==
  ASSUME IInv, NEW t \in TaskIds, NEW m \in Message, Send(t, m)
  PROVE  /\ WellFormed(sched') /\ Current' = Current
         /\ sched'.running = [sched.running EXCEPT ![t] = TRUE]
         /\ msgs' = [msgs EXCEPT ![t] = Append(@, m)]
         /\ msgs' \in [TaskIds -> Seq(Message)]
<1>1. WellFormed(sched) /\ KernelTypeOK /\ Same \in Levels \union {Same}
  BY Basics
<1>2. sched' = Wakeup(sched, t, Same) /\ msgs' = [msgs EXCEPT ![t] = Append(@, m)]
  BY DEF Send
<1>3. /\ WellFormed(sched')
      /\ CurrentTask(sched') = CurrentTask(sched)
      /\ sched'.running = [sched.running EXCEPT ![t] = TRUE]
  BY <1>1, <1>2, WakeupWellFormed, WakeupKeepsCurrent, WakeupRunning
<1>4. msgs' \in [TaskIds -> Seq(Message)]
  BY <1>1, <1>2, AppendProperties DEF KernelTypeOK
<1> QED
  BY <1>2, <1>3, <1>4 DEF Current

(***************************************************************************)
(* A step made with interrupts on, by the current task or by a handler that *)
(* borrows its stack: the current task goes from one point of its loop to   *)
(* another where they are on, and tasks are only woken.                     *)
(***************************************************************************)
LEMMA InterruptsOn ==
  ASSUME IInv, iflag, WellFormed(sched'), Current' = Current,
         \A t \in TaskIds : sched.running[t] => sched'.running[t],
         UNCHANGED <<iflag, savedIF>>,
         \A t \in TaskIds : pc'[t] = pc[t] \/ (t = Current /\ t # Idle /\ pc'[t] \notin Off),
         \A t \in TaskIds : ~sched'.running[t] => msgs'[t] = msgs[t]
  PROVE  Discipline'
<1>1. /\ Current \in TaskIds /\ sched.running[Current] /\ Idle \in TaskIds
      /\ sched.running \in [TaskIds -> BOOLEAN]
  BY Basics
<1>2. pc[Current] \notin Off
  BY <1>1 DEF IInv, Discipline, FlagsFollow, FlagOf
<1>3. IdleHalts'
  BY <1>1 DEF IInv, Discipline, IdleHalts
<1>4. FlagsFollow'
  BY <1>1, <1>2 DEF IInv, Discipline, FlagsFollow, FlagOf
<1>5. NotPreempted' /\ FoundNone'
  BY <1>1, <1>2 DEF IInv, Discipline, NotPreempted, FoundNone, Off
<1>6. Asleep'
  BY <1>1, <1>2 DEF IInv, Discipline, Asleep, Off
<1> QED
  BY <1>3, <1>4, <1>5, <1>6 DEF Discipline

\* A step of a task that is outside the critical part leaves it with interrupts on.
LEMMA AtOn ==
  ASSUME IInv, NEW t \in TaskIds, NEW w \in Points \ Off, At(t, w)
  PROVE  iflag /\ t = Current /\ pc[t] = w /\ t \in TaskIds
BY DEF IInv, Discipline, FlagsFollow, FlagOf, At

\* A task that handles a message is not the idle task.
LEMMA NotIdle ==
  ASSUME IInv, NEW t \in TaskIds, pc[t] # "poll"
  PROVE  t # Idle
BY DEF IInv, Discipline, IdleHalts

\* The steps of the message loop that send nothing.
LEMMA QuietStep ==
  ASSUME IInv, NEW t \in TaskIds, NEW w \in Points \ (Off \union {"pushing", "popping"}),
         iflag, t = Current, t # Idle, t = Main => w \notin {"blink", "draw", "arming"},
         pc' = [pc EXCEPT ![t] = w], inHand' \in [TaskIds -> Message],
         armed' \in [TaskIds -> Nat], shown' \in [TaskIds -> Seq(Keys)],
         UNCHANGED <<cpuVars, msgs, heapTorn, expiries, pushAt, torn, hwVars>>
  PROVE  IInv'
<1>1. KernelTypeOK /\ WellFormed(sched) /\ Main \in TaskIds
  BY Basics
<1>2. /\ UNCHANGED <<sched, iflag, savedIF, msgs, heapTorn, expiries, pushAt, torn>>
      /\ UNCHANGED <<requested, ring, ipe, ehb, irq, pressed>>
  BY DEF cpuVars, hwVars
<1>3. KernelTypeOK'
  BY <1>1, <1>2 DEF KernelTypeOK
<1>4. EventAtHand' /\ MainAsksNobody'
  BY <1>1, <1>2 DEF IInv, EventAtHand, MainAsksNobody, KernelTypeOK
<1>5. Current' = Current
  BY <1>2 DEF Current
<1>6. \A v \in TaskIds : pc'[v] = pc[v] \/ (v = Current /\ v # Idle /\ pc'[v] \notin Off)
  <2>1. pc \in [TaskIds -> Points]
    BY <1>1 DEF KernelTypeOK
  <2> QED
    BY <2>1
<1>7. WellFormed(sched') /\ \A v \in TaskIds : sched.running[v] => sched'.running[v]
  BY <1>1, <1>2
<1>8. Discipline'
  BY <1>2, <1>5, <1>6, <1>7, InterruptsOn
<1> QED
  BY <1>3, <1>4, <1>8 DEF IInv

\* The steps that send one message, by a task or by an interrupt handler.
LEMMA SendingStep ==
  ASSUME IInv, iflag, NEW u \in TaskIds, NEW m \in Message, Send(u, m),
         pc' \in [TaskIds -> Points],
         \A t \in TaskIds : pc'[t] = pc[t] \/ (t = Current /\ t # Idle /\ pc'[t] = "poll"),
         inHand' \in [TaskIds -> Message], armed' \in [TaskIds -> Nat],
         expiries' \in 0..MaxExpiries, irq' \in BOOLEAN,
         heapTorn' \in BOOLEAN,
         UNCHANGED <<iflag, savedIF>>, UNCHANGED <<pushAt, torn, shown, requested, ring, ipe, ehb, pressed>>
  PROVE  IInv'
<1>1. KernelTypeOK /\ Main \in TaskIds /\ sched.running \in [TaskIds -> BOOLEAN]
  BY Basics
<1>2. /\ WellFormed(sched') /\ Current' = Current
      /\ sched'.running = [sched.running EXCEPT ![u] = TRUE]
      /\ msgs' = [msgs EXCEPT ![u] = Append(@, m)]
      /\ msgs' \in [TaskIds -> Seq(Message)]
  BY SendEffect
<1>3. sched' \in Scheduler
  BY <1>2 DEF WellFormed
<1>4. KernelTypeOK'
  BY <1>1, <1>2, <1>3 DEF KernelTypeOK
<1>5. EventAtHand' /\ MainAsksNobody'
  BY <1>1 DEF IInv, EventAtHand, MainAsksNobody
<1>6. \A t \in TaskIds : ~sched'.running[t] => msgs'[t] = msgs[t]
  BY <1>1, <1>2 DEF KernelTypeOK
<1>7. Discipline'
  BY <1>1, <1>2, <1>6, InterruptsOn DEF Off
<1> QED
  BY <1>4, <1>5, <1>7 DEF IInv

-----------------------------------------------------------------------------
(* Every action keeps the invariant.                                        *)

LEMMA InitIInv == Init => IInv
<1> SUFFICES ASSUME Init PROVE IInv
  OBVIOUS
<1>1. WellFormed(sched) /\ sched \in Scheduler /\ \A t \in TaskIds : sched.running[t]
  BY AfterBootFacts DEF Init, WellFormed
<1>2. Idle \in TaskIds /\ Main \in TaskIds /\ Idle \notin Terminals
  BY RunQueuesAssumption DEF TaskIds, Idle, Main, Terminals
<1>3. KernelTypeOK
  <2>1. /\ pc \in [TaskIds -> Points] /\ armed \in [TaskIds -> Nat]
        /\ savedIF \in [TaskIds -> BOOLEAN] /\ iflag \in BOOLEAN
    BY DEF Init, Points
  <2>2. /\ msgs \in [TaskIds -> Seq(Message)] /\ inHand \in [TaskIds -> Message]
        /\ shown \in [TaskIds -> Seq(Keys)] /\ ring \in Seq(Keys)
    BY Messages DEF Init
  <2>3. expiries \in 0..MaxExpiries /\ pressed \in 0..MaxKeys /\ pushAt \in Nat
    BY KernelAssumption DEF Init
  <2>4. /\ requested \in BOOLEAN /\ ipe \in BOOLEAN /\ ehb \in BOOLEAN /\ irq \in BOOLEAN
        /\ torn \in BOOLEAN /\ heapTorn \in BOOLEAN
    BY DEF Init
  <2> QED
    BY <1>1, <2>1, <2>2, <2>3, <2>4 DEF KernelTypeOK
<1>4. EventAtHand /\ MainAsksNobody
  BY <1>2 DEF Init, EventAtHand, MainAsksNobody
<1>5. \A t \in TaskIds : pc[t] \in {"start", "poll"} /\ FlagOf(t)
  BY DEF Init, FlagOf
<1>6. IdleHalts
  BY <1>2 DEF Init, IdleHalts
<1>7. FlagsFollow /\ NotPreempted /\ FoundNone /\ Asleep
  BY <1>1, <1>5 DEF FlagsFollow, NotPreempted, FoundNone, Asleep, Off
<1> QED
  BY <1>1, <1>3, <1>4, <1>6, <1>7 DEF IInv, Discipline

LEMMA StartStep == ASSUME IInv, NEW t \in TaskIds, Start(t) PROVE IInv'
<1>1. iflag /\ t = Current /\ pc[t] = "start" /\ t # Idle
  BY AtOn, NotIdle DEF Start, Points, Off
<1>2. KernelTypeOK
  BY Basics
<1>3. /\ armed' \in [TaskIds -> Nat] /\ inHand' \in [TaskIds -> Message]
      /\ shown' \in [TaskIds -> Seq(Keys)]
      /\ UNCHANGED <<cpuVars, msgs, heapTorn, expiries, pushAt, torn, hwVars>>
  BY <1>2 DEF Start, KernelTypeOK, loopVars
<1> QED
  BY <1>1, <1>3, QuietStep DEF Start, Goto, Points, Off

\* AddTimer keeps the number of every task's timers a number.
LEMMA ArmTyped ==
  ASSUME armed \in [TaskIds -> Nat], NEW t \in TaskIds, Arm(t)
  PROVE  armed' \in [TaskIds -> Nat]
<1>1. armed[t] + 1 \in Nat
  OBVIOUS
<1> QED
  BY <1>1 DEF Arm

LEMMA EndAddTimerStep == ASSUME IInv, NEW t \in TaskIds, EndAddTimer(t) PROVE IInv'
<1> DEFINE w == IF pc[t] = "starting" THEN "poll" ELSE "blink"
<1>1. iflag /\ t = Current /\ pc[t] \in Adding /\ t # Idle
  <2>1. pc[t] \in Points \ Off /\ At(t, pc[t])
    BY DEF EndAddTimer, Adding, Points, Off, At
  <2> QED
    BY <2>1, AtOn, NotIdle DEF EndAddTimer, Adding
<1>2. w \in Points \ (Off \union {"pushing", "popping"}) /\ (t = Main => w \notin {"blink", "draw", "arming"})
  BY <1>1 DEF Points, Off, Adding, IInv, MainAsksNobody
<1>3. armed \in [TaskIds -> Nat]
  BY DEF IInv, KernelTypeOK
<1>4. armed' \in [TaskIds -> Nat]
  BY <1>3, ArmTyped DEF EndAddTimer
<1>5. /\ inHand' \in [TaskIds -> Message] /\ shown' \in [TaskIds -> Seq(Keys)]
      /\ pc' = [pc EXCEPT ![t] = w]
      /\ UNCHANGED <<cpuVars, msgs, heapTorn, expiries, pushAt, torn, hwVars>>
  BY <1>3 DEF EndAddTimer, Goto, IInv, KernelTypeOK
<1> HIDE DEF w
<1> QED
  BY <1>1, <1>2, <1>4, <1>5, QuietStep

\* HandledTo and Goto leave every task at a point of its loop.
LEMMA HandledTyped ==
  ASSUME IInv, NEW t \in TaskIds, NEW w \in Points, HandledTo(t, w)
  PROVE  /\ pc' = [pc EXCEPT ![t] = w] /\ pc' \in [TaskIds -> Points]
         /\ inHand' \in [TaskIds -> Message]
         /\ \A v \in TaskIds : pc'[v] = pc[v] \/ (v = t /\ pc'[v] = w)
<1>1. pc \in [TaskIds -> Points] /\ inHand \in [TaskIds -> Message] /\ Junk \in Message
  BY Basics, Messages DEF KernelTypeOK
<1>2. pc' = [pc EXCEPT ![t] = w] /\ inHand' = [inHand EXCEPT ![t] = Junk]
  BY DEF HandledTo, Goto
<1> QED
  BY <1>1, <1>2

\* Whoever handles a message is a task with interrupts on, and not the idle task.
LEMMA HandlingOn ==
  ASSUME IInv, NEW t \in TaskIds, At(t, "handle")
  PROVE  iflag /\ t = Current /\ pc[t] = "handle" /\ t # Idle
BY AtOn, NotIdle DEF Points, Off

LEMMA HandleTimeoutStep == ASSUME IInv, HandleTimeout PROVE IInv'
<1>1. iflag /\ Main = Current /\ Main # Idle /\ Main \in TaskIds
  BY Basics, HandlingOn DEF HandleTimeout, Handling
<1>2. "poll" \in Points \ (Off \union {"pushing", "popping"})
  BY DEF Points, Off
<1>3. pc' = [pc EXCEPT ![Main] = "poll"] /\ inHand' \in [TaskIds -> Message]
  BY <1>1, <1>2, HandledTyped DEF HandleTimeout
<1>4. armed' \in [TaskIds -> Nat] /\ shown' \in [TaskIds -> Seq(Keys)]
  <2>1. armed \in [TaskIds -> Nat] /\ shown \in [TaskIds -> Seq(Keys)]
    BY DEF IInv, KernelTypeOK
  <2>2. Arm(Main) /\ shown' = shown
    BY DEF HandleTimeout
  <2>3. armed' \in [TaskIds -> Nat]
    BY <1>1, <2>1, <2>2, ArmTyped
  <2> QED
    BY <2>1, <2>2, <2>3
<1>5. UNCHANGED <<cpuVars, msgs, heapTorn, expiries, pushAt, torn, hwVars>>
  BY DEF HandleTimeout
<1> QED
  BY <1>1, <1>2, <1>3, <1>4, <1>5, QuietStep

\* A case of one of the message switches that sends nothing and arms nothing.
LEMMA HandledStep ==
  ASSUME IInv, NEW t \in TaskIds, NEW w \in {"poll", "draw", "drain", "arming"},
         At(t, "handle"), HandledTo(t, w), t = Main => w \notin {"draw", "arming"}, shown' \in [TaskIds -> Seq(Keys)],
         UNCHANGED <<cpuVars, msgs, armed, heapTorn, expiries, pushAt, torn, hwVars>>
  PROVE  IInv'
<1>1. iflag /\ t = Current /\ t # Idle
  BY HandlingOn
<1>2. w \in Points \ (Off \union {"pushing", "popping"})
  BY DEF Points, Off
<1>3. pc' = [pc EXCEPT ![t] = w] /\ inHand' \in [TaskIds -> Message]
  BY <1>2, HandledTyped
<1>4. armed' \in [TaskIds -> Nat]
  BY Basics DEF KernelTypeOK
<1> QED
  BY <1>1, <1>2, <1>3, <1>4, QuietStep

LEMMA RearmStep == ASSUME IInv, NEW t \in TaskIds, Rearm(t) PROVE IInv'
<1>1. shown' \in [TaskIds -> Seq(Keys)] /\ t # Main
  BY Basics DEF Rearm, KernelTypeOK, Terminals
<1> QED
  BY <1>1, HandledStep DEF Rearm, Handling

LEMMA IgnoreStep == ASSUME IInv, NEW t \in TaskIds, Ignore(t) PROVE IInv'
BY HandledStep, Basics DEF Ignore, KernelTypeOK

LEMMA InputKeyStep ==
  ASSUME IInv, NEW t \in TaskIds, NEW k \in Keys, InputKey(t, k) PROVE IInv'
<1>1. shown' \in [TaskIds -> Seq(Keys)]
  BY Basics, AppendProperties DEF InputKey, KernelTypeOK
<1>2. t # Main
  BY DEF InputKey, Terminals
<1> QED
  BY <1>1, <1>2, HandledStep DEF InputKey, Handling

LEMMA KeepKeyStep == ASSUME IInv, NEW k \in Keys, KeepKey(k) PROVE IInv'
<1>1. shown' \in [TaskIds -> Seq(Keys)] /\ Main \in TaskIds
  BY Basics, AppendProperties DEF KeepKey, KernelTypeOK
<1> QED
  BY <1>1, HandledStep DEF KeepKey, Handling

LEMMA HandleXHCIStep == ASSUME IInv, HandleXHCI PROVE IInv'
BY HandledStep, Basics DEF HandleXHCI, Handling, KernelTypeOK

\* A check between two cases: only the point in the loop changes.
LEMMA GotoStep ==
  ASSUME IInv, NEW t \in TaskIds, NEW v \in {"blink", "drain"}, At(t, v), Goto(t, "poll"),
         UNCHANGED <<cpuVars, loopVars, hwVars>>
  PROVE  IInv'
<1>1. iflag /\ t = Current /\ t # Idle
  BY AtOn, NotIdle DEF Points, Off
<1>2. /\ inHand' \in [TaskIds -> Message] /\ armed' \in [TaskIds -> Nat]
      /\ shown' \in [TaskIds -> Seq(Keys)]
      /\ UNCHANGED <<cpuVars, msgs, heapTorn, expiries, pushAt, torn, hwVars>>
  BY Basics DEF KernelTypeOK, loopVars
<1> QED
  BY <1>1, <1>2, QuietStep DEF Goto, Points, Off

LEMMA AskToDrawStep == ASSUME IInv, NEW t \in TaskIds, AskToDraw(t) PROVE IInv'
<1>1. iflag /\ t = Current /\ t # Idle
  BY AtOn, NotIdle DEF AskToDraw, Points, Off
<1>0. t \in Terminals
  BY <1>1, AtOn, NotIdle DEF AskToDraw, At, IInv, MainAsksNobody, Terminals
<1>2. /\ KernelTypeOK /\ Main \in TaskIds /\ Layer(t) \in Message
      /\ Send(Main, Layer(t)) /\ pc' = [pc EXCEPT ![t] = "poll"]
  BY <1>0, Basics, Messages DEF AskToDraw, Goto
<1>3. /\ pc' \in [TaskIds -> Points] /\ inHand' \in [TaskIds -> Message]
      /\ armed' \in [TaskIds -> Nat] /\ expiries' \in 0..MaxExpiries /\ irq' \in BOOLEAN
      /\ heapTorn' \in BOOLEAN
      /\ UNCHANGED <<iflag, savedIF>> /\ UNCHANGED <<pushAt, torn, shown, requested, ring, ipe, ehb, pressed>>
  BY <1>2 DEF AskToDraw, IInv, KernelTypeOK, Points, hwVars
<1>4. \A v \in TaskIds : pc'[v] = pc[v] \/ (v = Current /\ v # Idle /\ pc'[v] = "poll")
  BY <1>1, <1>2 DEF KernelTypeOK
<1> QED
  BY <1>1, <1>2, <1>3, <1>4, SendingStep

\* The main task answers or forwards what it has in hand.
LEMMA MainSends ==
  ASSUME IInv, NEW u \in TaskIds, NEW m \in Message,
         At(Main, "handle"), Send(u, m), HandledTo(Main, "poll"),
         UNCHANGED <<iflag, savedIF, armed, heapTorn, expiries, pushAt, torn, shown, hwVars>>
  PROVE  IInv'
<1>1. iflag /\ Main = Current /\ Main # Idle /\ Main \in TaskIds
  BY HandlingOn, Basics
<1>2. /\ pc' \in [TaskIds -> Points] /\ inHand' \in [TaskIds -> Message]
      /\ \A v \in TaskIds : pc'[v] = pc[v] \/ (v = Current /\ v # Idle /\ pc'[v] = "poll")
  BY <1>1, HandledTyped DEF Points
<1>3. /\ armed' \in [TaskIds -> Nat] /\ expiries' \in 0..MaxExpiries /\ irq' \in BOOLEAN
      /\ heapTorn' \in BOOLEAN
      /\ UNCHANGED <<iflag, savedIF>> /\ UNCHANGED <<pushAt, torn, shown, requested, ring, ipe, ehb, pressed>>
  BY Basics DEF IInv, KernelTypeOK, hwVars
<1> QED
  BY <1>1, <1>2, <1>3, SendingStep

LEMMA ForwardKeyStep ==
  ASSUME IInv, NEW k \in Keys, NEW t \in Terminals, ForwardKey(k, t) PROVE IInv'
BY MainSends, Messages, Basics DEF ForwardKey, Handling

LEMMA HandleLayerStep == ASSUME IInv, NEW t \in Terminals, HandleLayer(t) PROVE IInv'
BY MainSends, Messages, Basics DEF HandleLayer, Handling

LEMMA IntHandlerXHCIStep == ASSUME IInv, IntHandlerXHCI PROVE IInv'
<1>1. iflag /\ Main \in TaskIds /\ XHCI \in Message /\ Send(Main, XHCI) /\ KernelTypeOK
  BY Basics, Messages DEF IntHandlerXHCI
<1>2. /\ pc' \in [TaskIds -> Points] /\ inHand' \in [TaskIds -> Message]
      /\ \A v \in TaskIds : pc'[v] = pc[v] \/ (v = Current /\ v # Idle /\ pc'[v] = "poll")
      /\ armed' \in [TaskIds -> Nat] /\ expiries' \in 0..MaxExpiries /\ irq' \in BOOLEAN
      /\ heapTorn' \in BOOLEAN
      /\ UNCHANGED <<iflag, savedIF>> /\ UNCHANGED <<pushAt, torn, shown, requested, ring, ipe, ehb, pressed>>
  BY <1>1 DEF IntHandlerXHCI, IInv, KernelTypeOK
<1> QED
  BY <1>1, <1>2, SendingStep

LEMMA TimerExpiresStep == ASSUME IInv, NEW t \in TaskIds, TimerExpires(t) PROVE IInv'
<1>1. iflag /\ Timeout \in Message /\ Send(t, Timeout) /\ KernelTypeOK
  BY Basics, Messages DEF TimerExpires
<1>2. armed' \in [TaskIds -> Nat] /\ expiries' \in 0..MaxExpiries
  <2>1. armed \in [TaskIds -> Nat] /\ expiries \in 0..MaxExpiries
    BY <1>1 DEF KernelTypeOK
  <2>2. expiries' \in 0..MaxExpiries
    BY <2>1, KernelAssumption DEF TimerExpires
  <2>3. CASE heapTorn'
    BY <2>2, <2>3 DEF TimerExpires, Tick
  <2>4. CASE ~heapTorn'
    <3>1. armed' = [armed EXCEPT ![t] = @ - 1] /\ armed[t] > 0
      BY <2>4 DEF TimerExpires, Tick
    <3>2. armed[t] - 1 \in Nat
      BY <2>1, <3>1
    <3> QED
      BY <2>1, <2>2, <3>1, <3>2
  <2> QED
    BY <2>3, <2>4
<1>4. heapTorn' \in BOOLEAN
  BY <1>1 DEF TimerExpires, Tick, KernelTypeOK
<1>3. /\ pc' \in [TaskIds -> Points] /\ inHand' \in [TaskIds -> Message]
      /\ \A v \in TaskIds : pc'[v] = pc[v] \/ (v = Current /\ v # Idle /\ pc'[v] = "poll")
      /\ irq' \in BOOLEAN
      /\ UNCHANGED <<iflag, savedIF>> /\ UNCHANGED <<pushAt, torn, shown, requested, ring, ipe, ehb, pressed>>
  BY <1>1 DEF TimerExpires, KernelTypeOK, hwVars
<1> QED
  BY <1>1, <1>2, <1>3, <1>4, SendingStep

\* What the ring holds at its front is a key.
LEMMA FrontIsKey ==
  ASSUME IInv, pc[Main] \in {"pushing", "popping"}
  PROVE  ring # <<>> /\ ring \in Seq(Keys) /\ KeyPush(Head(ring)) \in Message
         /\ Tail(ring) \in Seq(Keys)
<1>1. ring # <<>> /\ ring \in Seq(Keys)
  BY Basics DEF IInv, EventAtHand, KernelTypeOK
<1>2. Head(ring) \in Keys /\ Tail(ring) \in Seq(Keys)
  BY <1>1
<1> QED
  BY <1>1, <1>2, Messages

LEMMA BeginPushStep == ASSUME IInv, BeginPush PROVE IInv'
<1>1. KernelTypeOK /\ WellFormed(sched) /\ Main \in TaskIds
  BY Basics
<1>2. iflag /\ Main = Current /\ Main # Idle
  BY <1>1, AtOn, NotIdle DEF BeginPush, Points, Off
<1>3. /\ pc' = [pc EXCEPT ![Main] = "pushing"] /\ pc \in [TaskIds -> Points]
      /\ pushAt' \in Nat /\ ring # <<>>
      /\ UNCHANGED <<sched, iflag, savedIF, msgs, inHand, armed, heapTorn, expiries, torn, shown>>
      /\ UNCHANGED <<requested, ring, ipe, ehb, irq, pressed>>
  BY <1>1 DEF BeginPush, Goto, KernelTypeOK, cpuVars, hwVars
<1>4. KernelTypeOK'
  BY <1>1, <1>3 DEF KernelTypeOK, Points
<1>5. EventAtHand' /\ MainAsksNobody'
  BY <1>1, <1>3 DEF IInv, EventAtHand, MainAsksNobody
<1>6. \A v \in TaskIds : pc'[v] = pc[v] \/ (v = Current /\ v # Idle /\ pc'[v] \notin Off)
  BY <1>2, <1>3 DEF Off
<1>7. Discipline'
  BY <1>1, <1>2, <1>3, <1>6, InterruptsOn DEF Current
<1> QED
  BY <1>4, <1>5, <1>7 DEF IInv

LEMMA CommitPushStep == ASSUME IInv, CommitPush PROVE IInv'
<1>1. /\ KernelTypeOK /\ WellFormed(sched) /\ Main \in TaskIds
      /\ sched.running \in [TaskIds -> BOOLEAN] /\ Same \in Levels \union {Same}
  BY Basics
<1>2. iflag /\ Main = Current /\ Main # Idle /\ pc[Main] = "pushing"
  BY <1>1, AtOn, NotIdle DEF CommitPush, Points, Off
<1>3. \E m \in Message : msgs' = [msgs EXCEPT ![Main] = Append(@, m)]
  <2>1. KeyPush(Head(ring)) \in Message
    BY <1>2, FrontIsKey
  <2>2. Stale \subseteq Message
    BY <1>1, KernelAssumption DEF Stale, Message, Keys, KernelTypeOK
  <2> QED
    BY <2>1, <2>2 DEF CommitPush
<1>4. msgs' \in [TaskIds -> Seq(Message)] /\ \A v \in TaskIds : v # Main => msgs'[v] = msgs[v]
  BY <1>1, <1>3, AppendProperties DEF KernelTypeOK
<1>5. /\ WellFormed(sched') /\ CurrentTask(sched') = CurrentTask(sched)
      /\ sched'.running = [sched.running EXCEPT ![Main] = TRUE]
  BY <1>1, WakeupWellFormed, WakeupKeepsCurrent, WakeupRunning DEF CommitPush
<1>6. /\ pc' = [pc EXCEPT ![Main] = "popping"] /\ pc \in [TaskIds -> Points]
      /\ pushAt' = 0 /\ torn' \in BOOLEAN /\ requested' \in BOOLEAN
      /\ UNCHANGED <<iflag, savedIF, inHand, armed, heapTorn, expiries, shown, ring, ipe, ehb, irq, pressed>>
  BY <1>1 DEF CommitPush, Goto, KernelTypeOK
<1>7. KernelTypeOK'
  BY <1>1, <1>4, <1>5, <1>6 DEF KernelTypeOK, Points, WellFormed
<1>8. EventAtHand' /\ MainAsksNobody'
  BY <1>1, <1>2, <1>6 DEF IInv, EventAtHand, MainAsksNobody
<1>9. \A v \in TaskIds : pc'[v] = pc[v] \/ (v = Current /\ v # Idle /\ pc'[v] \notin Off)
  BY <1>2, <1>6 DEF Off
<1>10. \A v \in TaskIds : /\ sched.running[v] => sched'.running[v]
                          /\ ~sched'.running[v] => msgs'[v] = msgs[v]
  BY <1>1, <1>4, <1>5
<1>11. Discipline'
  BY <1>2, <1>5, <1>6, <1>9, <1>10, InterruptsOn DEF Current
<1> QED
  BY <1>7, <1>8, <1>11 DEF IInv

LEMMA PopStep == ASSUME IInv, Pop PROVE IInv'
<1>1. KernelTypeOK /\ WellFormed(sched) /\ Main \in TaskIds
  BY Basics
<1>2. iflag /\ Main = Current /\ Main # Idle /\ pc[Main] = "popping"
  BY <1>1, AtOn, NotIdle DEF Pop, Points, Off
<1>3. ring' \in Seq(Keys)
  BY <1>2, FrontIsKey DEF Pop
<1>4. /\ pc' = [pc EXCEPT ![Main] = "drain"] /\ pc \in [TaskIds -> Points]
      /\ ehb' \in BOOLEAN /\ ipe' \in BOOLEAN
      /\ UNCHANGED <<sched, iflag, savedIF, msgs, inHand, armed, heapTorn, expiries, pushAt, torn, shown>>
      /\ UNCHANGED <<requested, irq, pressed>>
  BY <1>1 DEF Pop, Goto, KernelTypeOK, cpuVars, loopVars
<1>5. KernelTypeOK'
  BY <1>1, <1>3, <1>4 DEF KernelTypeOK, Points
<1>6. EventAtHand' /\ MainAsksNobody'
  BY <1>1, <1>4 DEF IInv, EventAtHand, MainAsksNobody
<1>7. \A v \in TaskIds : pc'[v] = pc[v] \/ (v = Current /\ v # Idle /\ pc'[v] \notin Off)
  BY <1>2, <1>4 DEF Off
<1>8. Discipline'
  BY <1>1, <1>2, <1>4, <1>7, InterruptsOn DEF Current
<1> QED
  BY <1>5, <1>6, <1>8 DEF IInv

\* The devices change neither tasks nor mailboxes.
LEMMA DevicesStep == ASSUME IInv, Devices PROVE IInv'
<1>1. KernelTypeOK
  BY Basics
<1>2. /\ UNCHANGED <<sched, iflag, savedIF, pc>>
      /\ UNCHANGED <<msgs, inHand, armed, heapTorn, expiries, pushAt, torn, shown>>
  BY DEF Devices, PressKey, RaiseInterrupt, cpuVars, loopVars
<1>3. /\ pressed' \in 0..MaxKeys /\ ring' \in Seq(Keys) /\ requested' \in BOOLEAN
      /\ ipe' \in BOOLEAN /\ ehb' \in BOOLEAN /\ irq' \in BOOLEAN
      /\ ring # <<>> => ring' # <<>>
  <2>1. CASE PressKey
    <3>1. pressed + 1 \in Keys /\ pressed + 1 \in 0..MaxKeys
      BY <2>1, <1>1, KernelAssumption DEF PressKey, KernelTypeOK, Keys
    <3>2. Append(ring, pressed + 1) \in Seq(Keys) /\ Append(ring, pressed + 1) # <<>>
      <4>1. ring \in Seq(Keys)
        BY <1>1 DEF KernelTypeOK
      <4> QED
        BY <3>1, <4>1, AppendProperties
    <3> QED
      BY <2>1, <3>1, <3>2, <1>1 DEF PressKey, KernelTypeOK
  <2>2. CASE RaiseInterrupt
    BY <2>2, <1>1 DEF RaiseInterrupt, KernelTypeOK
  <2> QED
    BY <2>1, <2>2 DEF Devices
<1>4. KernelTypeOK'
  BY <1>1, <1>2, <1>3 DEF KernelTypeOK
<1>5. EventAtHand' /\ MainAsksNobody'
  BY <1>2, <1>3 DEF IInv, EventAtHand, MainAsksNobody
<1>6. Discipline'
  BY <1>2 DEF IInv, Discipline, IdleHalts, FlagsFollow, FlagOf, NotPreempted, FoundNone,
              Asleep, Current
<1> QED
  BY <1>4, <1>5, <1>6 DEF IInv

(***************************************************************************)
(* The critical part of the loop.  The current task moves in it, or leaves  *)
(* it, and IF with it; nobody else moves.                                   *)
(***************************************************************************)
LEMMA CriticalStep ==
  ASSUME IInv, NEW t \in TaskIds, t = Current, t # Idle,
         NEW w \in {"poll", "test", "sleep", "handle"}, pc' = [pc EXCEPT ![t] = w],
         iflag' = (w \notin Off), w = "sleep" => msgs'[t] = <<>>,
         \A u \in TaskIds : ~sched.running[u] => msgs'[u] = msgs[u],
         msgs' \in [TaskIds -> Seq(Message)], inHand' \in [TaskIds -> Message],
         UNCHANGED <<sched, savedIF, armed, heapTorn, expiries, pushAt, torn, shown, hwVars>>
  PROVE  IInv'
<1>1. /\ KernelTypeOK /\ WellFormed(sched) /\ Main \in TaskIds /\ Idle \in TaskIds
      /\ sched.running[Current] /\ pc \in [TaskIds -> Points] /\ w \in Points
  BY Basics DEF KernelTypeOK, Points
<1>2. UNCHANGED <<requested, ring, ipe, ehb, irq, pressed>>
  BY DEF hwVars
<1>3. \A u \in TaskIds : pc'[u] = IF u = t THEN w ELSE pc[u]
  BY <1>1
<1>4. KernelTypeOK'
  BY <1>1, <1>2 DEF KernelTypeOK
<1>5. EventAtHand' /\ MainAsksNobody'
  BY <1>1, <1>2, <1>3 DEF IInv, EventAtHand, MainAsksNobody
<1>6. Current' = Current
  BY DEF Current
<1>7. IdleHalts'
  BY <1>1, <1>3 DEF IInv, Discipline, IdleHalts
<1>8. FlagsFollow'
  <2>1. \A u \in TaskIds : u # t => FlagOf(u)' = FlagOf(u)
    BY <1>6 DEF FlagOf
  <2>2. FlagOf(t)' = (w \notin Off)
    BY <1>6 DEF FlagOf
  <2>3. \A u \in TaskIds : FlagOf(u) <=> pc[u] \notin Off
    BY DEF IInv, Discipline, FlagsFollow
  <2> QED
    BY <1>3, <2>1, <2>2, <2>3 DEF FlagsFollow
<1>9. NotPreempted' /\ FoundNone'
  BY <1>3, <1>6 DEF IInv, Discipline, NotPreempted, FoundNone
<1>10. Asleep'
  BY <1>1, <1>3 DEF IInv, Discipline, Asleep
<1>11. WellFormed(sched')
  BY <1>1
<1> QED
  BY <1>4, <1>5, <1>7, <1>8, <1>9, <1>10, <1>11 DEF IInv, Discipline

LEMMA CliStep == ASSUME IInv, NEW t \in TaskIds, Cli(t) PROVE IInv'
<1>1. /\ msgs' = msgs /\ msgs' \in [TaskIds -> Seq(Message)] /\ inHand' \in [TaskIds -> Message]
      /\ UNCHANGED <<sched, savedIF, armed, heapTorn, expiries, pushAt, torn, shown, hwVars>>
  BY Basics DEF Cli, loopVars, KernelTypeOK
<1>2. /\ t = Current /\ t # Idle /\ iflag' = ("test" \notin Off)
      /\ pc' = [pc EXCEPT ![t] = "test"]
  BY DEF Cli, At, Goto, Off
<1> QED
  BY <1>1, <1>2, CriticalStep

LEMMA ReceiveStep == ASSUME IInv, NEW t \in TaskIds, Receive(t) PROVE IInv'
<1>1. KernelTypeOK /\ sched.running[Current] /\ t = Current /\ pc[t] = "test" /\ msgs[t] # <<>>
  BY Basics DEF Receive, At
<1>2. /\ msgs' = [msgs EXCEPT ![t] = Tail(msgs[t])] /\ inHand' = [inHand EXCEPT ![t] = Head(msgs[t])]
      /\ msgs[t] \in Seq(Message) /\ msgs \in [TaskIds -> Seq(Message)]
      /\ inHand \in [TaskIds -> Message]
  BY <1>1 DEF Receive, Rest, KernelTypeOK
<1>3. /\ msgs' \in [TaskIds -> Seq(Message)] /\ inHand' \in [TaskIds -> Message]
      /\ \A u \in TaskIds : u # t => msgs'[u] = msgs[u]
  BY <1>1, <1>2, HeadTailProperties
<1>4. /\ t # Idle /\ iflag' = ("handle" \notin Off) /\ pc' = [pc EXCEPT ![t] = "handle"]
      /\ UNCHANGED <<sched, savedIF, armed, heapTorn, expiries, pushAt, torn, shown, hwVars>>
  BY <1>1, NotIdle DEF Receive, Goto, Off
<1> QED
  BY <1>1, <1>3, <1>4, CriticalStep

LEMMA FindNothingStep == ASSUME IInv, NEW t \in TaskIds, FindNothing(t) PROVE IInv'
<1>1. KernelTypeOK /\ t = Current /\ pc[t] = "test" /\ ~iflag /\ t # Idle
  BY Basics, NotIdle DEF FindNothing, At, IInv, Discipline, FlagsFollow, FlagOf, Off
<1>2. /\ msgs' = msgs /\ msgs[t] = <<>> /\ inHand' = inHand /\ iflag' = iflag
      /\ UNCHANGED <<sched, savedIF, armed, heapTorn, expiries, pushAt, torn, shown, hwVars>>
      /\ pc' = [pc EXCEPT ![t] = "sleep"]
  BY DEF FindNothing, Goto, loopVars, cpuVars
<1>3. /\ msgs' \in [TaskIds -> Seq(Message)] /\ inHand' \in [TaskIds -> Message]
      /\ iflag' = ("sleep" \notin Off)
  BY <1>1, <1>2 DEF KernelTypeOK, Off
<1> QED
  BY <1>1, <1>2, <1>3, CriticalStep

LEMMA ResumeStep == ASSUME IInv, NEW t \in TaskIds, Resume(t) PROVE IInv'
<1>1. KernelTypeOK /\ t = Current /\ pc[t] = "woken" /\ t # Idle
  BY Basics, NotIdle DEF Resume, At
<1>2. /\ msgs' = msgs /\ msgs' \in [TaskIds -> Seq(Message)] /\ inHand' \in [TaskIds -> Message]
      /\ UNCHANGED <<sched, savedIF, armed, heapTorn, expiries, pushAt, torn, shown, hwVars>>
      /\ iflag' = ("poll" \notin Off) /\ pc' = [pc EXCEPT ![t] = "poll"]
  BY <1>1 DEF Resume, Goto, loopVars, KernelTypeOK, Off
<1> QED
  BY <1>1, <1>2, CriticalStep

\* A switch of tasks exchanges IF and saved contexts: every task keeps its own flag.
LEMMA SwitchKeepsFlags ==
  ASSUME IInv, NEW s, WellFormed(s), SwitchTo(s)
  PROVE  /\ WellFormed(sched') /\ sched' \in Scheduler
         /\ \A t \in TaskIds : FlagOf(t)' = FlagOf(t)
         /\ iflag' \in BOOLEAN /\ savedIF' \in [TaskIds -> BOOLEAN]
<1>1. /\ iflag \in BOOLEAN /\ savedIF \in [TaskIds -> BOOLEAN] /\ Current \in TaskIds
      /\ CurrentTask(s) \in TaskIds /\ s \in Scheduler
  BY Basics, WellFormedFacts DEF KernelTypeOK
<1>2. sched' = s /\ Current' = CurrentTask(s)
  BY DEF SwitchTo, Current
<1>3. CASE CurrentTask(s) = Current
  BY <1>1, <1>2, <1>3 DEF SwitchTo, FlagOf
<1>4. CASE CurrentTask(s) # Current
  <2>1. savedIF' = [savedIF EXCEPT ![Current] = iflag] /\ iflag' = savedIF[CurrentTask(s)]
    BY <1>4 DEF SwitchTo, LoadedIF
  <2>2. ASSUME NEW t \in TaskIds PROVE FlagOf(t)' = FlagOf(t)
    BY <1>1, <1>2, <1>4, <2>1 DEF FlagOf
  <2>3. iflag' \in BOOLEAN /\ savedIF' \in [TaskIds -> BOOLEAN]
    BY <1>1, <2>1
  <2> QED
    BY <1>1, <1>2, <2>2, <2>3
<1> QED
  BY <1>3, <1>4

LEMMA SleepSelfStep == ASSUME IInv, NEW t \in TaskIds, SleepSelf(t) PROVE IInv'
<1>1. /\ KernelTypeOK /\ WellFormed(sched) /\ t = Current /\ pc[t] = "sleep" /\ t # Idle
      /\ Main \in TaskIds /\ Idle \in TaskIds /\ sched.running \in [TaskIds -> BOOLEAN]
      /\ msgs[t] = <<>>
  BY Basics, NotIdle DEF SleepSelf, At, IInv, Discipline, FoundNone
<1>2. WellFormed(Sleep(sched, t)) /\ Sleep(sched, t).running = [sched.running EXCEPT ![t] = FALSE]
  BY <1>1, SleepWellFormed, SleepRunning
<1>3. /\ sched' = Sleep(sched, t) /\ SwitchTo(Sleep(sched, t))
      /\ pc' = [pc EXCEPT ![t] = "woken"] /\ pc \in [TaskIds -> Points]
      /\ UNCHANGED <<msgs, inHand, armed, heapTorn, expiries, pushAt, torn, shown>>
      /\ UNCHANGED <<requested, ring, ipe, ehb, irq, pressed>>
  BY <1>1 DEF SleepSelf, SwitchTo, Goto, loopVars, hwVars, KernelTypeOK
<1>4. /\ WellFormed(sched') /\ sched' \in Scheduler
      /\ \A u \in TaskIds : FlagOf(u)' = FlagOf(u)
      /\ iflag' \in BOOLEAN /\ savedIF' \in [TaskIds -> BOOLEAN]
  BY <1>2, <1>3, SwitchKeepsFlags
<1>5. \A u \in TaskIds : pc'[u] = IF u = t THEN "woken" ELSE pc[u]
  BY <1>3
<1>6. KernelTypeOK'
  BY <1>1, <1>3, <1>4 DEF KernelTypeOK, Points
<1>7. EventAtHand' /\ MainAsksNobody'
  BY <1>1, <1>3, <1>5 DEF IInv, EventAtHand, MainAsksNobody
<1>8. IdleHalts' /\ FoundNone'
  BY <1>1, <1>3, <1>5 DEF IInv, Discipline, IdleHalts, FoundNone
<1>9. FlagsFollow'
  BY <1>1, <1>4, <1>5 DEF IInv, Discipline, FlagsFollow, Off
<1>10. NotPreempted'
  <2>1. ASSUME NEW u \in TaskIds, pc'[u] \in {"test", "sleep"} PROVE FALSE
    BY <1>1, <1>5, <2>1 DEF IInv, Discipline, NotPreempted
  <2> QED
    BY <2>1 DEF NotPreempted
<1>11. Asleep'
  BY <1>1, <1>2, <1>3, <1>5 DEF IInv, Discipline, Asleep
<1> QED
  BY <1>4, <1>6, <1>7, <1>8, <1>9, <1>10, <1>11 DEF IInv, Discipline

LEMMA SwitchTaskStep == ASSUME IInv, SwitchTask PROVE IInv'
<1> DEFINE s == RotateCurrentRunQueue(sched, FALSE)
<1>1. /\ KernelTypeOK /\ WellFormed(sched) /\ sched \in Scheduler /\ Current \in TaskIds /\ iflag
  BY Basics DEF SwitchTask
<1>2. WellFormed(s) /\ s.running = sched.running
  BY <1>1, RotateAwake, RotateRunning
<1>3. /\ sched' = s /\ SwitchTo(s) /\ UNCHANGED pc
      /\ UNCHANGED <<msgs, inHand, expiries, pushAt, torn, shown>>
      /\ heapTorn' \in BOOLEAN /\ armed' \in [TaskIds -> Nat]
      /\ UNCHANGED <<requested, ring, ipe, ehb, irq, pressed>>
  BY <1>1 DEF SwitchTask, SwitchTo, Tick, KernelTypeOK, hwVars
<1> HIDE DEF s
<1>4. /\ WellFormed(sched') /\ sched' \in Scheduler
      /\ \A u \in TaskIds : FlagOf(u)' = FlagOf(u)
      /\ iflag' \in BOOLEAN /\ savedIF' \in [TaskIds -> BOOLEAN]
  BY <1>2, <1>3, SwitchKeepsFlags
<1>5. KernelTypeOK'
  BY <1>1, <1>3, <1>4 DEF KernelTypeOK
<1>6. EventAtHand' /\ MainAsksNobody'
  BY <1>3 DEF IInv, EventAtHand, MainAsksNobody
<1>7. \A u \in TaskIds : pc[u] \notin {"test", "sleep"}
  BY <1>1 DEF IInv, Discipline, FlagsFollow, FlagOf, NotPreempted, Off
<1>8. IdleHalts' /\ FoundNone' /\ NotPreempted'
  BY <1>3, <1>7 DEF IInv, Discipline, IdleHalts, FoundNone, NotPreempted
<1>9. FlagsFollow'
  BY <1>3, <1>4 DEF IInv, Discipline, FlagsFollow
<1>10. Asleep'
  BY <1>2, <1>3 DEF IInv, Discipline, Asleep
<1> QED
  BY <1>4, <1>5, <1>6, <1>8, <1>9, <1>10 DEF IInv, Discipline

LEMMA MessageLoopStep == ASSUME IInv, NEW t \in TaskIds, MessageLoop(t) PROVE IInv'
<1>1. ASSUME Start(t) \/ Rearm(t) \/ EndAddTimer(t) \/ AskToDraw(t) \/ Ignore(t) PROVE IInv'
  BY <1>1, StartStep, RearmStep, EndAddTimerStep, AskToDrawStep, IgnoreStep
<1>2. ASSUME Cli(t) \/ Receive(t) \/ FindNothing(t) \/ SleepSelf(t) \/ Resume(t) PROVE IInv'
  BY <1>2, CliStep, ReceiveStep, FindNothingStep, SleepSelfStep, ResumeStep
<1>3. ASSUME SkipBlink(t) PROVE IInv'
  BY <1>3, GotoStep DEF SkipBlink
<1>4. ASSUME NEW k \in Keys, InputKey(t, k) PROVE IInv'
  BY <1>4, InputKeyStep
<1> QED
  BY <1>1, <1>2, <1>3, <1>4 DEF MessageLoop

LEMMA MainOnlyStep == ASSUME IInv, MainOnly PROVE IInv'
<1>1. ASSUME HandleTimeout \/ HandleXHCI \/ BeginPush \/ CommitPush \/ Pop PROVE IInv'
  BY <1>1, HandleTimeoutStep, HandleXHCIStep, BeginPushStep, CommitPushStep, PopStep
<1>2. ASSUME Drained PROVE IInv'
  BY <1>2, GotoStep, Basics DEF Drained
<1>3. ASSUME NEW k \in Keys, KeepKey(k) PROVE IInv'
  BY <1>3, KeepKeyStep
<1>4. ASSUME NEW k \in Keys, NEW t \in Terminals, ForwardKey(k, t) PROVE IInv'
  BY <1>4, ForwardKeyStep
<1>5. ASSUME NEW t \in Terminals, HandleLayer(t) PROVE IInv'
  BY <1>5, HandleLayerStep
<1> QED
  BY <1>1, <1>2, <1>3, <1>4, <1>5 DEF MainOnly

LEMMA StepIInv == IInv /\ [Next]_vars => IInv'
<1> SUFFICES ASSUME IInv, [Next]_vars PROVE IInv'
  OBVIOUS
<1>1. CASE Devices
  BY <1>1, DevicesStep
<1>2. CASE Interrupts
  BY <1>2, IntHandlerXHCIStep, TimerExpiresStep, SwitchTaskStep DEF Interrupts
<1>3. ASSUME NEW t \in TaskIds, Step(t) PROVE IInv'
  BY <1>3, MessageLoopStep, MainOnlyStep DEF Step
<1>4. CASE UNCHANGED vars
  <2>1. /\ UNCHANGED <<sched, iflag, savedIF, pc, msgs, inHand, armed, heapTorn, expiries, pushAt, torn, shown>>
        /\ UNCHANGED <<requested, ring, ipe, ehb, irq, pressed>>
    BY <1>4 DEF vars, cpuVars, loopVars, hwVars
  <2> QED
    BY <2>1 DEF IInv, KernelTypeOK, EventAtHand, MainAsksNobody, Discipline, IdleHalts,
                FlagsFollow, FlagOf, NotPreempted, FoundNone, Asleep, Current
<1> QED
  BY <1>1, <1>2, <1>3, <1>4 DEF Next

LEMMA SpecIInv == Spec => []IInv
BY InitIInv, StepIInv, PTL DEF Spec

-----------------------------------------------------------------------------
(***************************************************************************)
(* Keys and cursor timers.  A key is in the event ring, or some task has it *)
(* in its mailbox, in its hand or on its screen; it is ahead of another one *)
(* when it will be shown before it.  The invariant says that the keys are   *)
(* ahead of each other in the order in which they were pressed, wherever    *)
(* they are: in a task, between the ring and a task, between a task and     *)
(* what the main task still has to forward.                                 *)
(***************************************************************************)
Ahead(q, x, y) == \E i, j \in DOMAIN q : i < j /\ q[i] = x /\ q[j] = y

InRing(k) == \E i \in DOMAIN ring : ring[i] = k /\ ~(i = 1 /\ pc[Main] = "popping")

Mailed(t, k) == Holds(msgs[t], KeyPush(k))

Has(t, k) == Holds(shown[t], k) \/ HandlingKey(t, k) \/ Mailed(t, k)

\* The main task has still to keep it or to forward it.
Waits(k) == HandlingKey(Main, k) \/ Mailed(Main, k)

Before(t, a, b) ==
  \/ Ahead(shown[t], a, b)
  \/ Holds(shown[t], a) /\ (HandlingKey(t, b) \/ Mailed(t, b))
  \/ HandlingKey(t, a) /\ Mailed(t, b)
  \/ Ahead(msgs[t], KeyPush(a), KeyPush(b))

KeysInv ==
  /\ \A i \in DOMAIN ring : ring[i] <= pressed
  /\ \A i, j \in DOMAIN ring : i < j => ring[i] < ring[j]
  /\ \A k \in Keys : k <= pressed => InRing(k) \/ \E t \in TaskIds : Has(t, k)
  /\ \A t \in TaskIds, k \in Keys : Has(t, k) => k <= pressed
  /\ \A t, u \in TaskIds, k \in Keys : Has(t, k) /\ Has(u, k) => t = u
  /\ \A t \in TaskIds, k, r \in Keys : Has(t, k) /\ InRing(r) => k < r
  /\ \A u \in TaskIds \ {Main}, k, r \in Keys : Has(u, k) /\ Waits(r) => k < r
  /\ \A t \in TaskIds, a, b \in Keys : Before(t, a, b) => a < b

\* The cursor timer of t is in its mailbox, in its hand, or else in the timer manager.
Expired(t) == Holds(msgs[t], Timeout)
InHand(t)  == pc[t] = "handle" /\ inHand[t] = Timeout

TimerOf(t) ==
  /\ armed[t] \in {0, 1}
  /\ armed[t] = 1 => ~Expired(t) /\ ~InHand(t)
  /\ Expired(t) => ~InHand(t)
  /\ ~Ahead(msgs[t], Timeout, Timeout)
  /\ (pc[t] \in Unarmed) <=> ~(armed[t] = 1 \/ Expired(t) \/ InHand(t))

TimersInv == heapTorn \/ \A t \in TaskIds \ {Idle} : TimerOf(t)

Kept == torn \/ (KeysInv /\ TimersInv)

-----------------------------------------------------------------------------
(* What posting and receiving do to the order of a queue.                   *)

LEMMA AppendOrder ==
  ASSUME NEW S, NEW q \in Seq(S), NEW z \in S
  PROVE  /\ \A x : Holds(Append(q, z), x) <=> Holds(q, x) \/ x = z
         /\ \A x, y : Ahead(Append(q, z), x, y) <=> Ahead(q, x, y) \/ (Holds(q, x) /\ y = z)
<1>1. /\ Len(Append(q, z)) = Len(q) + 1 /\ Append(q, z) \in Seq(S)
      /\ \A i \in 1..Len(q) : Append(q, z)[i] = q[i]
      /\ Append(q, z)[Len(q) + 1] = z
  BY AppendProperties
<1>2. DOMAIN q = 1..Len(q) /\ Len(q) \in Nat /\ DOMAIN Append(q, z) = 1..(Len(q) + 1)
  BY <1>1, LenProperties
<1> DEFINE r == Append(q, z)
<1> HIDE DEF r
<1>3. \A x : Holds(r, x) <=> Holds(q, x) \/ x = z
  BY <1>1, <1>2 DEF Holds, r
<1>4. ASSUME NEW x, NEW y, Ahead(r, x, y)
      PROVE  Ahead(q, x, y) \/ (Holds(q, x) /\ y = z)
  <2>1. PICK i \in 1..(Len(q) + 1), j \in 1..(Len(q) + 1) : i < j /\ r[i] = x /\ r[j] = y
    BY <1>4, <1>2 DEF Ahead, r
  <2>2. i \in DOMAIN q /\ q[i] = x
    BY <2>1, <1>1, <1>2 DEF r
  <2>3. CASE j = Len(q) + 1
    BY <2>1, <2>2, <2>3, <1>1 DEF Holds, r
  <2>4. CASE j # Len(q) + 1
    BY <2>1, <2>2, <2>4, <1>1, <1>2 DEF Ahead, r
  <2> QED
    BY <2>3, <2>4
<1>5. ASSUME NEW x, NEW y, Ahead(q, x, y)
      PROVE  Ahead(r, x, y)
  BY <1>1, <1>2, <1>5 DEF Ahead, r
<1>6. ASSUME NEW x, NEW y, Holds(q, x), y = z
      PROVE  Ahead(r, x, y)
  <2>1. PICK i \in 1..Len(q) : q[i] = x
    BY <1>6, <1>2 DEF Holds
  <2>2. i < Len(q) + 1 /\ r[i] = x /\ r[Len(q) + 1] = y /\ i \in DOMAIN r /\ Len(q) + 1 \in DOMAIN r
    BY <2>1, <1>1, <1>2, <1>6 DEF r
  <2> QED
    BY <2>2 DEF Ahead
<1> QED
  BY <1>3, <1>4, <1>5, <1>6 DEF r

LEMMA TailOrder ==
  ASSUME NEW S, NEW q \in Seq(S), q # <<>>
  PROVE  /\ Head(q) \in S /\ Tail(q) \in Seq(S)
         /\ \A x : Holds(q, x) <=> x = Head(q) \/ Holds(Tail(q), x)
         /\ \A x, y : Ahead(q, x, y) <=> Ahead(Tail(q), x, y) \/ (x = Head(q) /\ Holds(Tail(q), y))
<1> DEFINE r == Tail(q)
           n == Len(q) - 1
<1>1. /\ Head(q) = q[1] /\ Head(q) \in S
      /\ r \in Seq(S) /\ Len(r) = n
      /\ \A i \in 1..n : r[i] = q[i + 1]
  BY HeadTailProperties
<1>2. DOMAIN q = 1..(n + 1) /\ n \in Nat /\ DOMAIN r = 1..n
  BY <1>1, EmptySeq, LenProperties
<1> HIDE DEF r, n
<1>3. ASSUME NEW i \in 1..(n + 1)
      PROVE  \/ i = 1 /\ q[i] = Head(q)
             \/ i - 1 \in 1..n /\ r[i - 1] = q[i] /\ i # 1
  BY <1>1, <1>2
<1>4. ASSUME NEW x
      PROVE  Holds(q, x) <=> x = Head(q) \/ Holds(r, x)
  <2>1. ASSUME Holds(q, x) PROVE x = Head(q) \/ Holds(r, x)
    BY <2>1, <1>2, <1>3 DEF Holds
  <2>2. ASSUME x = Head(q) PROVE Holds(q, x)
    BY <2>2, <1>1, <1>2 DEF Holds
  <2>3. ASSUME Holds(r, x) PROVE Holds(q, x)
    <3>1. PICK i \in 1..n : r[i] = x
      BY <2>3, <1>2 DEF Holds
    <3>2. i + 1 \in DOMAIN q /\ q[i + 1] = x
      BY <1>1, <1>2, <3>1
    <3> QED
      BY <3>2 DEF Holds
  <2> QED
    BY <2>1, <2>2, <2>3
<1>5. ASSUME NEW x, NEW y, Ahead(q, x, y)
      PROVE  Ahead(r, x, y) \/ (x = Head(q) /\ Holds(r, y))
  <2>1. PICK i \in 1..(n + 1), j \in 1..(n + 1) : i < j /\ q[i] = x /\ q[j] = y
    BY <1>5, <1>2 DEF Ahead
  <2>2. j - 1 \in DOMAIN r /\ r[j - 1] = y
    BY <2>1, <1>2, <1>3
  <2>3. CASE i = 1
    BY <2>1, <2>2, <2>3, <1>1 DEF Holds
  <2>4. CASE i # 1
    <3>1. i - 1 \in DOMAIN r /\ r[i - 1] = x /\ i - 1 < j - 1
      BY <2>1, <2>4, <1>2, <1>3
    <3> QED
      BY <3>1, <2>2 DEF Ahead
  <2> QED
    BY <2>3, <2>4
<1>6. ASSUME NEW x, NEW y, Ahead(r, x, y)
      PROVE  Ahead(q, x, y)
  <2>1. PICK i \in 1..n, j \in 1..n : i < j /\ r[i] = x /\ r[j] = y
    BY <1>6, <1>2 DEF Ahead
  <2>2. /\ i + 1 \in DOMAIN q /\ j + 1 \in DOMAIN q /\ i + 1 < j + 1
        /\ q[i + 1] = x /\ q[j + 1] = y
    BY <2>1, <1>1, <1>2
  <2> QED
    BY <2>2 DEF Ahead
<1>7. ASSUME NEW x, NEW y, x = Head(q), Holds(r, y)
      PROVE  Ahead(q, x, y)
  <2>1. PICK j \in 1..n : r[j] = y
    BY <1>7, <1>2 DEF Holds
  <2>2. 1 \in DOMAIN q /\ j + 1 \in DOMAIN q /\ 1 < j + 1 /\ q[1] = x /\ q[j + 1] = y
    BY <2>1, <1>1, <1>2, <1>7
  <2> QED
    BY <2>2 DEF Ahead
<1> QED
  BY <1>1, <1>4, <1>5, <1>6, <1>7 DEF r

-----------------------------------------------------------------------------
(* What the steps do to the messages that the invariant counts.             *)

Watched == {Timeout} \union {KeyPush(k) : k \in Keys}

LEMMA KeysDiffer ==
  /\ \A a, b : KeyPush(a) = KeyPush(b) <=> a = b
  /\ \A k : KeyPush(k) # Timeout /\ KeyPush(k) # Junk
  /\ Timeout # Junk
  /\ \A m \in {XHCI, LayerFinish, Junk} \union {Layer(t) : t \in TaskIds} : m \notin Watched
<1>1. /\ \A a, b : KeyPush(a) = KeyPush(b) <=> a = b
      /\ \A k : KeyPush(k).type = "key"
  BY DEF KeyPush, Msg
<1>2. /\ Timeout.type = "timer" /\ Junk.type = "junk" /\ XHCI.type = "xhci"
      /\ LayerFinish.type = "layerFinish" /\ \A t : Layer(t).type = "layer"
  BY DEF Timeout, Junk, XHCI, LayerFinish, Layer, Msg
<1>3. \A m \in Watched : m.type \in {"timer", "key"}
  BY <1>1, <1>2 DEF Watched
<1>4. "timer" # "junk" /\ "key" \notin {"timer", "junk"}
      /\ {"xhci", "layerFinish", "junk", "layer"} \cap {"timer", "key"} = {}
  OBVIOUS
<1>5. \A m \in {XHCI, LayerFinish, Junk} \union {Layer(t) : t \in TaskIds} :
         m.type \in {"xhci", "layerFinish", "junk", "layer"}
  BY <1>2
<1> QED
  BY <1>1, <1>2, <1>3, <1>4, <1>5

\* The effect of posting m to task u: it is there, and behind everything else.
Posts(u, m) ==
  \A t \in TaskIds : \A x, y :
    /\ Holds(msgs'[t], x) <=> Holds(msgs[t], x) \/ (t = u /\ x = m)
    /\ Ahead(msgs'[t], x, y) <=> Ahead(msgs[t], x, y) \/ (t = u /\ Holds(msgs[t], x) /\ y = m)

LEMMA Posted ==
  ASSUME KernelTypeOK, NEW u \in TaskIds, NEW m \in Message,
         msgs' = [msgs EXCEPT ![u] = Append(@, m)]
  PROVE  Posts(u, m)
<1>1. msgs \in [TaskIds -> Seq(Message)]
  BY DEF KernelTypeOK
<1>2. msgs'[u] = Append(msgs[u], m) /\ \A t \in TaskIds \ {u} : msgs'[t] = msgs[t]
  BY <1>1
<1>3. msgs[u] \in Seq(Message)
  BY <1>1
<1>4. /\ \A x : Holds(msgs'[u], x) <=> Holds(msgs[u], x) \/ x = m
      /\ \A x, y : Ahead(msgs'[u], x, y) <=> Ahead(msgs[u], x, y) \/ (Holds(msgs[u], x) /\ y = m)
  BY <1>2, <1>3, AppendOrder
<1> QED
  BY <1>2, <1>4 DEF Posts

\* What a task is done with, it has not in its hand any more.
LEMMA Dropped ==
  ASSUME KernelTypeOK, NEW t \in TaskIds, NEW w \in Points \ {"handle"}, HandledTo(t, w)
  PROVE  /\ \A u \in TaskIds : \A k : HandlingKey(u, k)' <=> HandlingKey(u, k) /\ u # t
         /\ \A u \in TaskIds : InHand(u)' <=> InHand(u) /\ u # t
         /\ \A u \in TaskIds : pc'[u] = IF u = t THEN w ELSE pc[u]
<1>1. pc \in [TaskIds -> Points] /\ inHand \in [TaskIds -> Message]
  BY DEF KernelTypeOK
<1>2. \A u \in TaskIds : /\ pc'[u] = IF u = t THEN w ELSE pc[u]
                         /\ inHand'[u] = IF u = t THEN Junk ELSE inHand[u]
  BY <1>1 DEF HandledTo, Goto
<1> QED
  BY <1>2 DEF HandlingKey, InHand

\* A task that is not handling anything goes on to another point of that kind.
LEMMA Moved ==
  ASSUME KernelTypeOK, NEW t \in TaskIds, NEW w \in Points \ {"handle"},
         pc[t] # "handle", Goto(t, w), UNCHANGED inHand
  PROVE  /\ \A u \in TaskIds : \A k : HandlingKey(u, k)' <=> HandlingKey(u, k)
         /\ \A u \in TaskIds : InHand(u)' <=> InHand(u)
         /\ \A u \in TaskIds : pc'[u] = IF u = t THEN w ELSE pc[u]
<1>1. pc \in [TaskIds -> Points]
  BY DEF KernelTypeOK
<1>2. \A u \in TaskIds : /\ pc'[u] = IF u = t THEN w ELSE pc[u]
                         /\ inHand'[u] = inHand[u]
  BY <1>1 DEF Goto
<1> QED
  BY <1>2 DEF HandlingKey, InHand

-----------------------------------------------------------------------------
(* Steps that leave every key where it is, or bring it further in its task. *)

\* The keys in the ring are numbered in order, up to the last that was pressed.
RingInOrder ==
  /\ \A i \in DOMAIN ring : ring[i] <= pressed
  /\ \A i, j \in DOMAIN ring : i < j => ring[i] < ring[j]

LEMMA KeysKept ==
  ASSUME KeysInv, UNCHANGED pressed, RingInOrder',
         \A k \in Keys : InRing(k)' <=> InRing(k),
         \A t \in TaskIds, k \in Keys : Has(t, k)' <=> Has(t, k),
         \A k \in Keys : Waits(k)' => Waits(k),
         \A t \in TaskIds, a, b \in Keys : Before(t, a, b)' => Before(t, a, b)
  PROVE  KeysInv'
<1>1. \A k \in Keys : k <= pressed => InRing(k)' \/ \E t \in TaskIds : Has(t, k)'
  BY DEF KeysInv
<1>2. \A t \in TaskIds, k \in Keys : Has(t, k)' => k <= pressed
  BY DEF KeysInv
<1>3. \A t, u \in TaskIds, k \in Keys : Has(t, k)' /\ Has(u, k)' => t = u
  BY DEF KeysInv
<1>4. \A t \in TaskIds, k, r \in Keys : Has(t, k)' /\ InRing(r)' => k < r
  BY DEF KeysInv
<1>5. \A u \in TaskIds \ {Main}, k, r \in Keys : Has(u, k)' /\ Waits(r)' => k < r
  BY DEF KeysInv
<1>6. \A t \in TaskIds, a, b \in Keys : Before(t, a, b)' => a < b
  BY DEF KeysInv
<1> HIDE DEF Has, InRing, Waits, Before
<1> QED
  BY <1>1, <1>2, <1>3, <1>4, <1>5, <1>6 DEF KeysInv, RingInOrder

LEMMA KeysQuiet ==
  ASSUME KeysInv, Main \in TaskIds, UNCHANGED <<pressed, ring, shown>>,
         (pc'[Main] = "popping") <=> (pc[Main] = "popping"),
         \A t \in TaskIds, k \in Keys : HandlingKey(t, k)' <=> HandlingKey(t, k),
         \A t \in TaskIds, x \in Watched : Holds(msgs'[t], x) <=> Holds(msgs[t], x),
         \A t \in TaskIds, x, y \in Watched : Ahead(msgs'[t], x, y) => Ahead(msgs[t], x, y)
  PROVE  KeysInv'
<1>1. \A k \in Keys : KeyPush(k) \in Watched
  BY DEF Watched
<1>2. RingInOrder'
  BY DEF KeysInv, RingInOrder
<1>3. \A k \in Keys : InRing(k)' <=> InRing(k)
  BY DEF InRing
<1>4. \A t \in TaskIds, k \in Keys : Mailed(t, k)' <=> Mailed(t, k)
  BY <1>1 DEF Mailed
<1>5. \A t \in TaskIds, k \in Keys : Has(t, k)' <=> Has(t, k)
  BY <1>4 DEF Has
<1>6. \A k \in Keys : Waits(k)' => Waits(k)
  BY <1>4 DEF Waits
<1>7. \A t \in TaskIds, a, b \in Keys : Before(t, a, b)' => Before(t, a, b)
  BY <1>1, <1>4 DEF Before
<1> QED
  BY <1>2, <1>3, <1>5, <1>6, <1>7, KeysKept

LEMMA TimersQuiet ==
  ASSUME TimersInv, ~heapTorn' => UNCHANGED armed, heapTorn => heapTorn',
         \A t \in TaskIds : pc'[t] \in Unarmed <=> pc[t] \in Unarmed,
         \A t \in TaskIds : InHand(t)' <=> InHand(t),
         \A t \in TaskIds : Holds(msgs'[t], Timeout) <=> Holds(msgs[t], Timeout),
         \A t \in TaskIds : Ahead(msgs'[t], Timeout, Timeout) => Ahead(msgs[t], Timeout, Timeout)
  PROVE  TimersInv'
<1>1. ASSUME NEW t \in TaskIds \ {Idle}, ~heapTorn' PROVE TimerOf(t)'
  <2>1. TimerOf(t) /\ (Expired(t)' <=> Expired(t))
    BY <1>1 DEF TimersInv, Expired
  <2>2. armed' = armed
    BY <1>1
  <2> QED
    BY <2>1, <2>2 DEF TimerOf
<1> QED
  BY <1>1 DEF TimersInv

LEMMA KeptQuietly ==
  ASSUME KeysInv, TimersInv, Main \in TaskIds, UNCHANGED <<pressed, ring, shown, armed, heapTorn>>,
         (pc'[Main] = "popping") <=> (pc[Main] = "popping"),
         \A t \in TaskIds : pc'[t] \in Unarmed <=> pc[t] \in Unarmed,
         \A t \in TaskIds : InHand(t)' <=> InHand(t),
         \A t \in TaskIds, k \in Keys : HandlingKey(t, k)' <=> HandlingKey(t, k),
         \A t \in TaskIds, x \in Watched : Holds(msgs'[t], x) <=> Holds(msgs[t], x),
         \A t \in TaskIds, x, y \in Watched : Ahead(msgs'[t], x, y) => Ahead(msgs[t], x, y)
  PROVE  KeysInv' /\ TimersInv'
<1>1. KeysInv'
  BY KeysQuiet
<1>2. Timeout \in Watched
  BY DEF Watched
<1>3. TimersInv'
  BY <1>2, TimersQuiet
<1> QED
  BY <1>1, <1>3

\* Nothing is added to the mailboxes that the invariant counts, and nothing is taken out.
MailQuiet ==
  \A t \in TaskIds, x, y \in Watched :
    /\ Holds(msgs'[t], x) <=> Holds(msgs[t], x)
    /\ Ahead(msgs'[t], x, y) => Ahead(msgs[t], x, y)

LEMMA PostedQuietly ==
  ASSUME KernelTypeOK, NEW u \in TaskIds, NEW m \in Message, m \notin Watched, Send(u, m)
  PROVE  MailQuiet
<1>1. msgs' = [msgs EXCEPT ![u] = Append(@, m)]
  BY DEF Send
<1>2. Posts(u, m)
  BY <1>1, Posted
<1> QED
  BY <1>2 DEF Posts, MailQuiet

LEMMA MovedKeeps ==
  ASSUME IInv, KeysInv, TimersInv, NEW t \in TaskIds,
         NEW w \in Points \ ({"handle", "popping"} \union Unarmed),
         pc[t] \notin {"handle"} \union Unarmed, t = Main => pc[t] # "popping",
         Goto(t, w), UNCHANGED inHand, MailQuiet, UNCHANGED <<pressed, ring, shown, armed, heapTorn>>
  PROVE  KeysInv' /\ TimersInv'
<1>1. KernelTypeOK /\ Main \in TaskIds
  BY Basics
<1>2. /\ \A u \in TaskIds : \A k : HandlingKey(u, k)' <=> HandlingKey(u, k)
      /\ \A u \in TaskIds : InHand(u)' <=> InHand(u)
      /\ \A u \in TaskIds : pc'[u] = IF u = t THEN w ELSE pc[u]
  BY <1>1, Moved
<1> QED
  BY <1>1, <1>2, KeptQuietly DEF MailQuiet

LEMMA DroppedKeeps ==
  ASSUME IInv, KeysInv, TimersInv, NEW t \in TaskIds,
         NEW w \in Points \ ({"handle", "popping"} \union Unarmed),
         pc[t] = "handle", inHand[t] \notin Watched,
         HandledTo(t, w), MailQuiet, UNCHANGED <<pressed, ring, shown, armed, heapTorn>>
  PROVE  KeysInv' /\ TimersInv'
<1>1. KernelTypeOK /\ Main \in TaskIds
  BY Basics
<1>2. /\ \A u \in TaskIds : \A k : HandlingKey(u, k)' <=> HandlingKey(u, k) /\ u # t
      /\ \A u \in TaskIds : InHand(u)' <=> InHand(u) /\ u # t
      /\ \A u \in TaskIds : pc'[u] = IF u = t THEN w ELSE pc[u]
  BY <1>1, Dropped
<1>3. ~InHand(t) /\ \A k \in Keys : ~HandlingKey(t, k)
  BY DEF InHand, HandlingKey, Watched
<1>4. \A u \in TaskIds : pc'[u] \in Unarmed <=> pc[u] \in Unarmed
  BY <1>2 DEF Unarmed, Adding
<1> QED
  BY <1>1, <1>2, <1>3, <1>4, KeptQuietly DEF MailQuiet

LEMMA StayKeeps ==
  ASSUME IInv, KeysInv, TimersInv, UNCHANGED <<pc, inHand>>, MailQuiet,
         UNCHANGED <<pressed, ring, shown, armed, heapTorn>>
  PROVE  KeysInv' /\ TimersInv'
<1>1. Main \in TaskIds
  BY Basics
<1>2. /\ \A u \in TaskIds : \A k : HandlingKey(u, k)' <=> HandlingKey(u, k)
      /\ \A u \in TaskIds : InHand(u)' <=> InHand(u)
  BY DEF InHand, HandlingKey
<1> QED
  BY <1>1, <1>2, KeptQuietly DEF MailQuiet

\* The critical part of the loop, and the checks between two messages.
LEMMA QuietKeeps ==
  ASSUME IInv, KeysInv, TimersInv, NEW t \in TaskIds,
         \/ Cli(t) \/ FindNothing(t) \/ SleepSelf(t) \/ Resume(t) \/ SkipBlink(t)
         \/ (t = Main /\ (Drained \/ BeginPush))
  PROVE  KeysInv' /\ TimersInv'
<1>1. UNCHANGED msgs => MailQuiet
  BY DEF MailQuiet
<1>2. CASE Cli(t)
  BY <1>1, <1>2, MovedKeeps DEF Cli, At, loopVars, hwVars, Points, Unarmed, Adding
<1>3. CASE FindNothing(t)
  BY <1>1, <1>3, MovedKeeps DEF FindNothing, At, loopVars, hwVars, Points, Unarmed, Adding
<1>4. CASE SleepSelf(t)
  BY <1>1, <1>4, MovedKeeps DEF SleepSelf, At, loopVars, hwVars, Points, Unarmed, Adding
<1>5. CASE Resume(t)
  BY <1>1, <1>5, MovedKeeps DEF Resume, At, loopVars, hwVars, Points, Unarmed, Adding
<1>6. CASE SkipBlink(t)
  BY <1>1, <1>6, MovedKeeps DEF SkipBlink, At, loopVars, hwVars, Points, Unarmed, Adding
<1>7. CASE t = Main /\ Drained
  BY <1>1, <1>7, MovedKeeps DEF Drained, At, loopVars, hwVars, Points, Unarmed, Adding
<1>8. CASE t = Main /\ BeginPush
  BY <1>1, <1>8, MovedKeeps DEF BeginPush, At, hwVars, Points, Unarmed, Adding
<1> QED
  BY <1>2, <1>3, <1>4, <1>5, <1>6, <1>7, <1>8

\* A message that is no key and no timeout is dropped.
LEMMA IgnoreKeeps ==
  ASSUME IInv, KeysInv, TimersInv, NEW t \in TaskIds, Ignore(t)
  PROVE  KeysInv' /\ TimersInv'
<1>1. pc[t] = "handle" /\ UNCHANGED <<pressed, ring, shown, armed, heapTorn>> /\ MailQuiet
  BY DEF Ignore, At, hwVars, MailQuiet
<1>2. inHand[t] \notin Watched
  <2>1. CASE inHand[t] \in {LayerFinish, Junk}
    BY <2>1, KeysDiffer
  <2>2. CASE inHand[t].type \in {"xhci", "layer"}
    <3>1. \A m \in Watched : m.type \in {"timer", "key"}
      BY DEF Watched, Timeout, KeyPush, Msg
    <3> QED
      BY <2>2, <3>1
  <2> QED
    BY <2>1, <2>2 DEF Ignore
<1> QED
  BY <1>1, <1>2, DroppedKeeps DEF Ignore, Points, Unarmed, Adding

LEMMA HandleXHCIKeeps ==
  ASSUME IInv, KeysInv, TimersInv, HandleXHCI
  PROVE  KeysInv' /\ TimersInv'
<1>1. /\ pc[Main] = "handle" /\ UNCHANGED <<pressed, ring, shown, armed, heapTorn>> /\ MailQuiet
      /\ inHand[Main] \notin Watched /\ Main \in TaskIds
  BY Basics, KeysDiffer DEF HandleXHCI, Handling, At, hwVars, MailQuiet
<1> QED
  BY <1>1, DroppedKeeps DEF HandleXHCI, Points, Unarmed, Adding

LEMMA HandleLayerKeeps ==
  ASSUME IInv, KeysInv, TimersInv, NEW t \in Terminals, HandleLayer(t)
  PROVE  KeysInv' /\ TimersInv'
<1>1. /\ pc[Main] = "handle" /\ UNCHANGED <<pressed, ring, shown, armed, heapTorn>>
      /\ inHand[Main] \notin Watched /\ Main \in TaskIds /\ t \in TaskIds
      /\ LayerFinish \notin Watched /\ Send(t, LayerFinish)
  BY Basics, KeysDiffer DEF HandleLayer, Handling, At, hwVars
<1>2. MailQuiet
  BY <1>1, Basics, Messages, PostedQuietly
<1> QED
  BY <1>1, <1>2, DroppedKeeps DEF HandleLayer, Points, Unarmed, Adding

LEMMA AskToDrawKeeps ==
  ASSUME IInv, KeysInv, TimersInv, NEW t \in TaskIds, AskToDraw(t)
  PROVE  KeysInv' /\ TimersInv'
<1>1. /\ pc[t] \in {"blink", "draw"} /\ UNCHANGED <<pressed, ring, shown, armed, heapTorn, inHand>>
      /\ Send(Main, Layer(t)) /\ Goto(t, "poll") /\ Layer(t) \notin Watched
  BY KeysDiffer DEF AskToDraw, At, hwVars
<1>2. t \in Terminals
  BY <1>1, NotIdle DEF IInv, MainAsksNobody, Terminals
<1>3. MailQuiet
  BY <1>1, <1>2, Basics, Messages, PostedQuietly
<1> QED
  BY <1>1, <1>3, MovedKeeps DEF Points, Unarmed, Adding

LEMMA IntHandlerXHCIKeeps ==
  ASSUME IInv, KeysInv, TimersInv, IntHandlerXHCI
  PROVE  KeysInv' /\ TimersInv'
<1>1. /\ UNCHANGED <<pc, inHand, pressed, ring, shown, armed, heapTorn>>
      /\ Send(Main, XHCI) /\ XHCI \notin Watched
  BY KeysDiffer DEF IntHandlerXHCI
<1>2. MailQuiet
  BY <1>1, Basics, Messages, PostedQuietly
<1> QED
  BY <1>1, <1>2, StayKeeps

-----------------------------------------------------------------------------
(* The cursor timers.                                                       *)

\* The timers of the other tasks, when only one task or its mailbox changes.
LEMMA OtherTimers ==
  ASSUME TimersInv, NEW t \in TaskIds,
         \A u \in TaskIds \ {t} :
           /\ ~heapTorn' => armed'[u] = armed[u]
           /\ pc'[u] = pc[u] /\ inHand'[u] = inHand[u] /\ msgs'[u] = msgs[u],
         heapTorn => heapTorn', t # Idle /\ ~heapTorn' => TimerOf(t)'
  PROVE  TimersInv'
<1>1. ASSUME NEW u \in TaskIds \ {t, Idle}, ~heapTorn' PROVE TimerOf(u)'
  BY <1>1 DEF TimersInv, TimerOf, Expired, InHand
<1> QED
  BY <1>1 DEF TimersInv

LEMMA StartKeeps ==
  ASSUME IInv, KeysInv, TimersInv, NEW t \in TaskIds, Start(t)
  PROVE  KeysInv' /\ TimersInv'
<1>1. KernelTypeOK /\ Main \in TaskIds
  BY Basics
<1>2. /\ pc[t] = "start" /\ Goto(t, "starting")
      /\ UNCHANGED <<msgs, inHand, pressed, ring, shown, armed, heapTorn>>
  BY DEF Start, At, loopVars, hwVars
<1>3. /\ \A u \in TaskIds : \A k : HandlingKey(u, k)' <=> HandlingKey(u, k)
      /\ \A u \in TaskIds : InHand(u)' <=> InHand(u)
      /\ \A u \in TaskIds : pc'[u] = IF u = t THEN "starting" ELSE pc[u]
  BY <1>1, <1>2, Moved DEF Points
<1>4. \A u \in TaskIds : pc'[u] \in Unarmed <=> pc[u] \in Unarmed
  BY <1>2, <1>3 DEF Unarmed, Adding
<1> QED
  BY <1>1, <1>2, <1>3, <1>4, KeptQuietly

\* A timer that has expired is on its way back into the heap.
LEMMA RearmKeeps ==
  ASSUME IInv, KeysInv, TimersInv, NEW t \in TaskIds, Rearm(t)
  PROVE  KeysInv' /\ TimersInv'
<1>1. KernelTypeOK /\ Main \in TaskIds
  BY Basics
<1>2. /\ pc[t] = "handle" /\ inHand[t] = Timeout /\ t # Idle
      /\ HandledTo(t, "arming") /\ "arming" \in Points \ {"handle"}
      /\ UNCHANGED <<msgs, pressed, ring, shown, armed, heapTorn>>
      /\ \A u \in TaskIds : u # t => inHand'[u] = inHand[u]
  BY <1>1, NotIdle DEF Rearm, Handling, At, HandledTo, hwVars, KernelTypeOK, Points
<1>3. /\ \A u \in TaskIds : \A k : HandlingKey(u, k)' <=> HandlingKey(u, k) /\ u # t
      /\ \A u \in TaskIds : InHand(u)' <=> InHand(u) /\ u # t
      /\ \A u \in TaskIds : pc'[u] = IF u = t THEN "arming" ELSE pc[u]
  BY <1>1, <1>2, Dropped
<1>4. \A u \in TaskIds, k \in Keys : HandlingKey(u, k)' <=> HandlingKey(u, k)
  BY <1>2, <1>3, KeysDiffer DEF HandlingKey
<1>5. KeysInv'
  BY <1>1, <1>2, <1>3, <1>4, KeysQuiet
<1>6. (heapTorn \/ TimerOf(t)) /\ InHand(t) /\ "arming" \in Unarmed /\ "handle" \notin Unarmed
  BY <1>2 DEF TimersInv, InHand, Unarmed, Adding
<1>7. heapTorn \/ TimerOf(t)'
  BY <1>2, <1>3, <1>6 DEF TimerOf, Expired
<1> QED
  BY <1>2, <1>3, <1>5, <1>7, OtherTimers

\* It has arrived there, unless a tick has torn the heap.
LEMMA EndAddTimerKeeps ==
  ASSUME IInv, KeysInv, TimersInv, NEW t \in TaskIds, EndAddTimer(t)
  PROVE  KeysInv' /\ TimersInv'
<1> DEFINE w == IF pc[t] = "starting" THEN "poll" ELSE "blink"
<1>1. KernelTypeOK /\ Main \in TaskIds
  BY Basics
<1>2. /\ pc[t] \in Adding /\ w \in Points \ {"handle"} /\ w \notin Unarmed
      /\ UNCHANGED <<msgs, inHand, pressed, ring, shown, heapTorn>>
      /\ Goto(t, w)
  BY DEF EndAddTimer, hwVars, Points, Unarmed, Adding
<1>3. pc[t] \in Unarmed /\ pc[t] # "handle" /\ (t = Main => pc[t] # "popping") /\ t # Idle
  BY <1>2, NotIdle DEF Unarmed, Adding
<1> HIDE DEF w
<1>4. /\ \A u \in TaskIds : \A k : HandlingKey(u, k)' <=> HandlingKey(u, k)
      /\ \A u \in TaskIds : InHand(u)' <=> InHand(u)
      /\ \A u \in TaskIds : pc'[u] = IF u = t THEN w ELSE pc[u]
  BY <1>1, <1>2, <1>3, Moved
<1>5. KeysInv'
  <2>1. w # "popping"
    BY DEF w
  <2> QED
    BY <1>1, <1>2, <1>3, <1>4, <2>1, KeysQuiet
<1>6. CASE heapTorn
  BY <1>2, <1>5, <1>6 DEF TimersInv
<1>7. CASE ~heapTorn
  <2>2. \A u \in TaskIds : armed'[u] = IF u = t THEN armed[u] + 1 ELSE armed[u]
    BY <1>1, <1>7 DEF EndAddTimer, Arm, KernelTypeOK
  <2>3. TimerOf(t)
    BY <1>3, <1>7 DEF TimersInv
  <2>4. TimerOf(t)'
    BY <1>2, <1>3, <1>4, <2>2, <2>3 DEF TimerOf, Expired
  <2> QED
    BY <1>2, <1>4, <1>5, <2>2, <2>4, OtherTimers
<1> QED
  BY <1>6, <1>7

\* The main task sets its own under cli.
LEMMA HandleTimeoutKeeps ==
  ASSUME IInv, KeysInv, TimersInv, HandleTimeout
  PROVE  KeysInv' /\ TimersInv'
<1>1. KernelTypeOK /\ Main \in TaskIds /\ Main # Idle
  BY Basics
<1>2. /\ pc[Main] = "handle" /\ inHand[Main] = Timeout
      /\ HandledTo(Main, "poll") /\ "poll" \in Points \ {"handle"}
      /\ UNCHANGED <<msgs, pressed, ring, shown, heapTorn>>
      /\ \A u \in TaskIds : /\ ~heapTorn => armed'[u] = IF u = Main THEN armed[u] + 1 ELSE armed[u]
                            /\ u # Main => inHand'[u] = inHand[u]
  BY <1>1 DEF HandleTimeout, Arm, Handling, At, HandledTo, hwVars, KernelTypeOK, Points
<1>3. /\ \A u \in TaskIds : \A k : HandlingKey(u, k)' <=> HandlingKey(u, k) /\ u # Main
      /\ \A u \in TaskIds : InHand(u)' <=> InHand(u) /\ u # Main
      /\ \A u \in TaskIds : pc'[u] = IF u = Main THEN "poll" ELSE pc[u]
  BY <1>1, <1>2, Dropped
<1>4. \A u \in TaskIds, k \in Keys : HandlingKey(u, k)' <=> HandlingKey(u, k)
  BY <1>2, <1>3, KeysDiffer DEF HandlingKey
<1>5. KeysInv'
  BY <1>1, <1>2, <1>3, <1>4, KeysQuiet
<1>6. /\ (heapTorn \/ TimerOf(Main)) /\ InHand(Main)
      /\ "poll" \notin Unarmed /\ "handle" \notin Unarmed
  BY <1>1, <1>2 DEF TimersInv, InHand, Unarmed, Adding
<1>7. ASSUME ~heapTorn PROVE TimerOf(Main)'
  <2>1. armed[Main] = 0 /\ ~Expired(Main) /\ ~Ahead(msgs[Main], Timeout, Timeout)
    BY <1>6, <1>7 DEF TimerOf
  <2>2. armed'[Main] = 1 /\ ~InHand(Main)' /\ pc'[Main] \notin Unarmed
    BY <1>1, <1>2, <1>3, <1>6, <1>7, <2>1
  <2>3. ~Expired(Main)' /\ ~Ahead(msgs[Main], Timeout, Timeout)'
    BY <1>2, <2>1 DEF Expired
  <2> QED
    BY <2>2, <2>3 DEF TimerOf
<1> QED
  BY <1>1, <1>2, <1>3, <1>5, <1>7, OtherTimers

LEMMA TimerExpiresKeeps ==
  ASSUME IInv, KeysInv, TimersInv, NEW t \in TaskIds, TimerExpires(t)
  PROVE  KeysInv' /\ TimersInv'
<1>1. KernelTypeOK /\ Main \in TaskIds /\ Timeout \in Message
  BY Basics, Messages
<1>2. /\ msgs' = [msgs EXCEPT ![t] = Append(@, Timeout)]
      /\ UNCHANGED <<pc, inHand, pressed, ring, shown>>
      /\ ~heapTorn' => /\ ~heapTorn /\ armed[t] > 0
                       /\ \A u \in TaskIds : armed'[u] = IF u = t THEN armed[u] - 1 ELSE armed[u]
      /\ \A u \in TaskIds \ {t} : msgs'[u] = msgs[u]
  BY <1>1 DEF TimerExpires, Tick, Send, hwVars, KernelTypeOK
<1>3. Posts(t, Timeout)
  BY <1>1, <1>2, Posted
<1>4. KeysInv'
  <2>1. \A k \in Keys, u \in TaskIds : Mailed(u, k)' <=> Mailed(u, k)
    BY <1>3, KeysDiffer DEF Mailed, Posts
  <2>2. \A u \in TaskIds, a, b \in Keys :
          Ahead(msgs'[u], KeyPush(a), KeyPush(b)) => Ahead(msgs[u], KeyPush(a), KeyPush(b))
    BY <1>3, KeysDiffer DEF Posts
  <2>3. \A u \in TaskIds, k \in Keys : HandlingKey(u, k)' <=> HandlingKey(u, k)
    BY <1>2 DEF HandlingKey
  <2>4. RingInOrder' /\ \A k \in Keys : InRing(k)' <=> InRing(k)
    BY <1>2 DEF InRing, KeysInv, RingInOrder
  <2>5. \A u \in TaskIds, k \in Keys : Has(u, k)' <=> Has(u, k)
    BY <1>2, <2>1, <2>3 DEF Has
  <2>6. \A k \in Keys : Waits(k)' => Waits(k)
    BY <1>1, <2>1, <2>3 DEF Waits
  <2>7. \A u \in TaskIds, a, b \in Keys : Before(u, a, b)' => Before(u, a, b)
    BY <1>2, <2>1, <2>2, <2>3 DEF Before
  <2> QED
    BY <1>2, <2>4, <2>5, <2>6, <2>7, KeysKept
<1>5. ASSUME t # Idle, ~heapTorn' PROVE TimerOf(t)'
  <2>1. TimerOf(t) /\ armed[t] = 1 /\ ~Expired(t) /\ ~InHand(t) /\ pc[t] \notin Unarmed
    BY <1>2, <1>5 DEF TimersInv, TimerOf
  <2>2. Expired(t)' /\ ~Ahead(msgs[t], Timeout, Timeout)'
    BY <1>2, <1>3, <2>1 DEF Expired, TimerOf, Posts
  <2>3. ~InHand(t)' /\ armed'[t] = 0
    BY <1>2, <1>5, <2>1 DEF InHand
  <2> QED
    BY <1>2, <2>1, <2>2, <2>3 DEF TimerOf
<1>6. heapTorn => heapTorn'
  BY DEF TimerExpires, Tick
<1> QED
  BY <1>2, <1>4, <1>5, <1>6, OtherTimers

-----------------------------------------------------------------------------
(* The way of a key.                                                        *)

LEMMA StillKeeps ==
  ASSUME IInv, KeysInv, TimersInv, SwitchTask \/ RaiseInterrupt
  PROVE  KeysInv' /\ TimersInv'
<1>1. /\ UNCHANGED <<pc, inHand, msgs, pressed, ring, shown>>
      /\ heapTorn => heapTorn'
      /\ ~heapTorn' => UNCHANGED armed
  <2>1. CASE SwitchTask
    BY <2>1 DEF SwitchTask, Tick, hwVars
  <2>2. CASE RaiseInterrupt
    BY <2>2 DEF RaiseInterrupt, loopVars
  <2> QED
    BY <2>1, <2>2
<1>2. /\ \A u \in TaskIds : \A k : HandlingKey(u, k)' <=> HandlingKey(u, k)
      /\ \A u \in TaskIds : InHand(u)' <=> InHand(u)
      /\ Main \in TaskIds
  BY <1>1, Basics DEF InHand, HandlingKey
<1>3. KeysInv'
  BY <1>1, <1>2, KeysQuiet
<1> QED
  BY <1>1, <1>2, <1>3, TimersQuiet

\* From the mailbox into the hand.
LEMMA ReceiveKeeps ==
  ASSUME IInv, KeysInv, TimersInv, NEW t \in TaskIds, Receive(t)
  PROVE  KeysInv' /\ TimersInv'
<1> DEFINE m == Head(msgs[t])
<1>1. KernelTypeOK /\ Main \in TaskIds
  BY Basics
<1>2. /\ pc[t] = "test" /\ t # Idle /\ msgs[t] # <<>> /\ msgs[t] \in Seq(Message)
      /\ UNCHANGED <<pressed, ring, shown, armed, heapTorn>>
      /\ msgs'[t] = Tail(msgs[t])
      /\ \A u \in TaskIds : /\ pc'[u] = IF u = t THEN "handle" ELSE pc[u]
                            /\ inHand'[u] = IF u = t THEN m ELSE inHand[u]
                            /\ u # t => msgs'[u] = msgs[u]
  BY <1>1, NotIdle DEF Receive, Rest, At, Goto, hwVars, KernelTypeOK
<1>3. /\ \A x : Holds(msgs[t], x) <=> x = m \/ Holds(msgs'[t], x)
      /\ \A x, y : Ahead(msgs[t], x, y)
                     <=> Ahead(msgs'[t], x, y) \/ (x = m /\ Holds(msgs'[t], y))
  BY <1>2, TailOrder
<1> HIDE DEF m
<1>4. /\ \A u \in TaskIds \ {t} : \A k \in Keys :
           /\ HandlingKey(u, k)' <=> HandlingKey(u, k)
           /\ Mailed(u, k)' <=> Mailed(u, k)
      /\ \A k \in Keys : /\ HandlingKey(t, k)' <=> m = KeyPush(k)
                         /\ ~HandlingKey(t, k)
                         /\ Mailed(t, k) <=> m = KeyPush(k) \/ Mailed(t, k)'
  BY <1>2, <1>3 DEF HandlingKey, Mailed
<1>5. KeysInv'
  <2>1. RingInOrder' /\ \A k \in Keys : InRing(k)' <=> InRing(k)
    BY <1>1, <1>2 DEF InRing, KeysInv, RingInOrder
  <2>2. \A u \in TaskIds, k \in Keys : Has(u, k)' <=> Has(u, k)
    BY <1>2, <1>4 DEF Has
  <2>3. \A k \in Keys : Waits(k)' => Waits(k)
    BY <1>1, <1>4 DEF Waits
  <2>4. ASSUME NEW u \in TaskIds, NEW a \in Keys, NEW b \in Keys, Before(u, a, b)'
        PROVE  Before(u, a, b)
    <3>1. CASE u # t
      BY <1>2, <1>4, <2>4, <3>1 DEF Before
    <3>2. CASE u = t
      BY <1>2, <1>3, <1>4, <2>4, <3>2 DEF Before, Mailed
    <3> QED
      BY <3>1, <3>2
  <2> QED
    BY <1>2, <2>1, <2>2, <2>3, <2>4, KeysKept
<1>6. ~heapTorn => TimerOf(t)'
  <2> SUFFICES ASSUME ~heapTorn PROVE TimerOf(t)'
    OBVIOUS
  <2>1. TimerOf(t) /\ ~InHand(t) /\ pc[t] \notin Unarmed /\ pc'[t] \notin Unarmed
    BY <1>2 DEF TimersInv, InHand, Unarmed, Adding
  <2>2. (InHand(t)' <=> m = Timeout) /\ (Expired(t) <=> m = Timeout \/ Expired(t)')
    BY <1>2, <1>3 DEF InHand, Expired
  <2>3. ~Ahead(msgs'[t], Timeout, Timeout) /\ (m = Timeout => ~Expired(t)')
    BY <1>3, <2>1 DEF TimerOf, Expired
  <2> QED
    BY <1>2, <2>1, <2>2, <2>3 DEF TimerOf
<1> QED
  BY <1>2, <1>5, <1>6, OtherTimers

\* From the hand onto the screen: Terminal::InputKey, or the main task's text window.
LEMMA ShownKeeps ==
  ASSUME IInv, KeysInv, TimersInv, NEW t \in TaskIds, NEW k \in Keys,
         NEW w \in {"draw", "poll"}, Handling(t, KeyPush(k)), HandledTo(t, w),
         shown' = [shown EXCEPT ![t] = Append(@, k)],
         UNCHANGED <<msgs, armed, heapTorn, pressed, ring>>
  PROVE  KeysInv' /\ TimersInv'
<1>1. KernelTypeOK /\ Main \in TaskIds
  BY Basics
<1>2. /\ pc[t] = "handle" /\ inHand[t] = KeyPush(k) /\ shown[t] \in Seq(Keys)
      /\ shown'[t] = Append(shown[t], k) /\ \A u \in TaskIds : u # t => shown'[u] = shown[u]
      /\ w \in Points \ {"handle"}
  BY <1>1 DEF Handling, At, KernelTypeOK, Points
<1>3. /\ \A u \in TaskIds : \A x : HandlingKey(u, x)' <=> HandlingKey(u, x) /\ u # t
      /\ \A u \in TaskIds : InHand(u)' <=> InHand(u) /\ u # t
      /\ \A u \in TaskIds : pc'[u] = IF u = t THEN w ELSE pc[u]
  BY <1>1, <1>2, Dropped
<1>4. /\ \A x : Holds(shown'[t], x) <=> Holds(shown[t], x) \/ x = k
      /\ \A x, y : Ahead(shown'[t], x, y)
                     <=> Ahead(shown[t], x, y) \/ (Holds(shown[t], x) /\ y = k)
  BY <1>2, AppendOrder
<1>5. ~InHand(t) /\ \A x \in Keys : HandlingKey(t, x) <=> x = k
  BY <1>2, KeysDiffer DEF InHand, HandlingKey
<1>6. \A u \in TaskIds, x \in Keys : Mailed(u, x)' <=> Mailed(u, x)
  BY DEF Mailed
<1>7. KeysInv'
  <2>1. RingInOrder' /\ \A x \in Keys : InRing(x)' <=> InRing(x)
    BY <1>1, <1>2, <1>3 DEF InRing, KeysInv, RingInOrder
  <2>2. \A u \in TaskIds, x \in Keys : Has(u, x)' <=> Has(u, x)
    BY <1>2, <1>3, <1>4, <1>5, <1>6 DEF Has
  <2>3. \A x \in Keys : Waits(x)' => Waits(x)
    BY <1>1, <1>3, <1>6 DEF Waits
  <2>4. ASSUME NEW u \in TaskIds, NEW a \in Keys, NEW b \in Keys, Before(u, a, b)'
        PROVE  Before(u, a, b)
    <3>1. CASE u # t
      BY <1>2, <1>3, <1>6, <2>4, <3>1 DEF Before
    <3>2. CASE u = t
      BY <1>2, <1>3, <1>4, <1>5, <1>6, <2>4, <3>2 DEF Before
    <3> QED
      BY <3>1, <3>2
  <2> QED
    BY <2>1, <2>2, <2>3, <2>4, KeysKept
<1>8. TimersInv'
  BY <1>2, <1>3, <1>5, TimersQuiet DEF Unarmed, Adding
<1> QED
  BY <1>7, <1>8

\* Into the ring.
LEMMA PressKeyKeeps ==
  ASSUME IInv, KeysInv, TimersInv, PressKey
  PROVE  KeysInv' /\ TimersInv'
<1>a. /\ KernelTypeOK /\ Main \in TaskIds /\ pressed \in 0..MaxKeys /\ ring \in Seq(Keys)
  <2>1. KernelTypeOK /\ Main \in TaskIds
    BY Basics
  <2> QED
    BY <2>1 DEF KernelTypeOK
<1>b. /\ pressed < MaxKeys /\ pressed' = pressed + 1 /\ ring' = Append(ring, pressed + 1)
      /\ UNCHANGED <<pc, inHand, msgs, shown, armed, heapTorn>>
  BY DEF PressKey, loopVars
<1>0. PICK n \in Keys : n = pressed + 1
  BY <1>a, <1>b, KernelAssumption DEF Keys
<1>1. /\ KernelTypeOK /\ Main \in TaskIds /\ pressed' = n /\ pressed \in Nat
      /\ ring \in Seq(Keys) /\ ring' = Append(ring, n)
      /\ UNCHANGED <<pc, inHand, msgs, shown, armed, heapTorn>>
  BY <1>0, <1>a, <1>b
<1>2. pc[Main] = "popping" => ring # <<>>
  BY DEF IInv, EventAtHand
<1>3. /\ DOMAIN ring = 1..Len(ring) /\ Len(ring) \in Nat
      /\ DOMAIN ring' = 1..(Len(ring) + 1)
      /\ \A i \in 1..Len(ring) : ring'[i] = ring[i] /\ ring[i] \in Keys
      /\ ring'[Len(ring) + 1] = n
  BY <1>1, AppendProperties, LenProperties
<1>4. RingInOrder'
  <2>1. \A i \in 1..Len(ring) : ring'[i] <= pressed /\ ring'[i] < n
    BY <1>0, <1>1, <1>3 DEF KeysInv, Keys
  <2>2. \A i \in DOMAIN ring' : ring'[i] <= n
    BY <1>0, <1>1, <1>3, <2>1 DEF Keys
  <2>3. ASSUME NEW i \in DOMAIN ring', NEW j \in DOMAIN ring', i < j
        PROVE  ring'[i] < ring'[j]
    <3>1. CASE j = Len(ring) + 1
      BY <1>3, <2>1, <2>3, <3>1
    <3>2. CASE j # Len(ring) + 1
      <4>1. i \in DOMAIN ring /\ j \in DOMAIN ring
        BY <1>3, <2>3, <3>2
      <4> QED
        BY <4>1, <1>3, <2>3 DEF KeysInv
    <3> QED
      BY <3>1, <3>2
  <2> QED
    BY <1>1, <2>2, <2>3 DEF RingInOrder
<1>5. \A k \in Keys : InRing(k)' <=> InRing(k) \/ k = n
  <2>1. \A k \in Keys : InRing(k) => InRing(k)'
    BY <1>1, <1>3 DEF InRing
  <2>2. InRing(n)'
    <3>1. Len(ring) + 1 # 1 \/ pc[Main] # "popping"
      BY <1>1, <1>2, <1>3
    <3> QED
      BY <1>1, <1>3, <3>1 DEF InRing
  <2>3. ASSUME NEW k \in Keys, InRing(k)', k # n PROVE InRing(k)
    BY <1>1, <1>3, <2>3 DEF InRing
  <2> QED
    BY <2>1, <2>2, <2>3
<1>6. /\ \A t \in TaskIds, k \in Keys : Has(t, k)' <=> Has(t, k)
      /\ \A k \in Keys : Waits(k)' <=> Waits(k)
      /\ \A t \in TaskIds, a, b \in Keys : Before(t, a, b)' <=> Before(t, a, b)
  BY <1>1 DEF Has, Waits, Before, HandlingKey, Mailed
<1>7. \A k \in Keys : k <= pressed' => k <= pressed \/ k = n
  BY <1>0, <1>1 DEF Keys
<1>8. \A k \in Keys : k <= pressed => k <= pressed' /\ k < n
  BY <1>0, <1>1 DEF Keys
<1>9. KeysInv'
  <2>1. \A k \in Keys : k <= pressed' => InRing(k)' \/ \E t \in TaskIds : Has(t, k)'
    BY <1>5, <1>6, <1>7 DEF KeysInv
  <2>2. \A t \in TaskIds, k \in Keys : Has(t, k)' => k <= pressed'
    BY <1>6, <1>8 DEF KeysInv
  <2>3. \A t, u \in TaskIds, k \in Keys : Has(t, k)' /\ Has(u, k)' => t = u
    BY <1>6 DEF KeysInv
  <2>4. \A t \in TaskIds, k, r \in Keys : Has(t, k)' /\ InRing(r)' => k < r
    BY <1>5, <1>6, <1>8 DEF KeysInv
  <2>5. \A u \in TaskIds \ {Main}, k, r \in Keys : Has(u, k)' /\ Waits(r)' => k < r
    BY <1>6 DEF KeysInv
  <2>6. \A t \in TaskIds, a, b \in Keys : Before(t, a, b)' => a < b
    BY <1>6 DEF KeysInv
  <2> HIDE DEF Has, InRing, Waits, Before
  <2> QED
    BY <1>4, <2>1, <2>2, <2>3, <2>4, <2>5, <2>6 DEF KeysInv, RingInOrder
<1>10. TimersInv'
  BY <1>1, TimersQuiet DEF InHand
<1> QED
  BY <1>9, <1>10

\* The front of the ring leaves it, when it has been pushed.
LEMMA PopKeeps ==
  ASSUME IInv, KeysInv, TimersInv, Pop
  PROVE  KeysInv' /\ TimersInv'
<1>1. /\ KernelTypeOK /\ Main \in TaskIds /\ pc[Main] = "popping"
      /\ ring \in Seq(Keys) /\ ring # <<>> /\ ring' = Tail(ring)
      /\ UNCHANGED <<inHand, msgs, shown, armed, heapTorn, pressed>>
      /\ \A u \in TaskIds : pc'[u] = IF u = Main THEN "drain" ELSE pc[u]
  BY Basics DEF Pop, At, Goto, loopVars, KernelTypeOK, IInv, EventAtHand
<1>2. /\ Len(ring) \in Nat \ {0} /\ DOMAIN ring = 1..Len(ring)
      /\ DOMAIN ring' = 1..(Len(ring) - 1)
      /\ \A i \in 1..(Len(ring) - 1) : ring'[i] = ring[i + 1]
  BY <1>1, HeadTailProperties, EmptySeq, LenProperties
<1>3. RingInOrder'
  <2>1. \A i \in DOMAIN ring' : i + 1 \in DOMAIN ring /\ ring'[i] = ring[i + 1]
    BY <1>2
  <2>2. \A i, j \in DOMAIN ring' : i < j => i + 1 < j + 1
    BY <1>2
  <2> QED
    BY <1>1, <2>1, <2>2 DEF RingInOrder, KeysInv
<1>4. \A k \in Keys : InRing(k)' <=> InRing(k)
  <2>1. ASSUME NEW k \in Keys, InRing(k) PROVE InRing(k)'
    <3>1. PICK i \in 1..Len(ring) : ring[i] = k /\ i # 1
      BY <1>1, <1>2, <2>1 DEF InRing
    <3>2. i - 1 \in DOMAIN ring' /\ ring'[i - 1] = k
      BY <1>2, <3>1
    <3> QED
      BY <1>1, <3>2 DEF InRing
  <2>2. ASSUME NEW k \in Keys, InRing(k)' PROVE InRing(k)
    <3>1. PICK i \in 1..(Len(ring) - 1) : ring'[i] = k
      BY <1>1, <1>2, <2>2 DEF InRing
    <3>2. i + 1 \in DOMAIN ring /\ ring[i + 1] = k /\ i + 1 # 1
      BY <1>2, <3>1
    <3> QED
      BY <3>2 DEF InRing
  <2> QED
    BY <2>1, <2>2
<1>5. \A u \in TaskIds, k \in Keys : /\ HandlingKey(u, k)' <=> HandlingKey(u, k)
                                     /\ InHand(u)' <=> InHand(u)
                                     /\ Mailed(u, k)' <=> Mailed(u, k)
  BY <1>1 DEF HandlingKey, InHand, Mailed
<1>6. /\ \A t \in TaskIds, k \in Keys : Has(t, k)' <=> Has(t, k)
      /\ \A k \in Keys : Waits(k)' => Waits(k)
      /\ \A t \in TaskIds, a, b \in Keys : Before(t, a, b)' => Before(t, a, b)
  BY <1>1, <1>5 DEF Has, Waits, Before
<1>7. KeysInv'
  BY <1>1, <1>3, <1>4, <1>6, KeysKept
<1>8. \A u \in TaskIds : InHand(u)' <=> InHand(u)
  BY <1>1 DEF InHand
<1>9. TimersInv'
  BY <1>1, <1>8, TimersQuiet DEF Unarmed, Adding
<1> QED
  BY <1>7, <1>9

(***************************************************************************)
(* From the ring into the main task's mailbox.  Every key a task has was    *)
(* pressed before the one in front of the ring, which goes behind them.     *)
(***************************************************************************)
LEMMA CommitPushKeeps ==
  ASSUME IInv, KeysInv, TimersInv, CommitPush, ~torn'
  PROVE  KeysInv' /\ TimersInv'
<1>0. PICK n \in Keys : n = Head(ring)
  BY FrontIsKey, HeadTailProperties DEF CommitPush, At
<1>1. /\ KernelTypeOK /\ Main \in TaskIds /\ pc[Main] = "pushing"
      /\ ring \in Seq(Keys) /\ ring # <<>> /\ KeyPush(n) \in Message
      /\ UNCHANGED <<inHand, shown, armed, heapTorn, ring, pressed>> /\ Goto(Main, "popping")
  BY <1>0, Basics, FrontIsKey DEF CommitPush, At
<1>2. msgs' = [msgs EXCEPT ![Main] = Append(@, KeyPush(n))]
  BY <1>0 DEF CommitPush
<1>3. Posts(Main, KeyPush(n))
  BY <1>1, <1>2, Posted
<1>4. /\ \A u \in TaskIds : \A k : HandlingKey(u, k)' <=> HandlingKey(u, k)
      /\ \A u \in TaskIds : InHand(u)' <=> InHand(u)
      /\ \A u \in TaskIds : pc'[u] = IF u = Main THEN "popping" ELSE pc[u]
  BY <1>1, Moved DEF Points
<1>5. \A u \in TaskIds, k \in Keys : Mailed(u, k)' <=> Mailed(u, k) \/ (u = Main /\ k = n)
  BY <1>3, KeysDiffer DEF Posts, Mailed
<1>6. /\ 1 \in DOMAIN ring /\ ring[1] = n /\ DOMAIN ring = 1..Len(ring) /\ Len(ring) \in Nat
      /\ \A i \in DOMAIN ring : ring[i] \in Keys
  BY <1>0, <1>1, LenProperties, EmptySeq
<1>7. /\ InRing(n) /\ n <= pressed
      /\ \A k \in Keys : InRing(k)' => InRing(k) /\ n < k
      /\ \A k \in Keys : InRing(k) => InRing(k)' \/ k = n
  <2>1. InRing(n) /\ n <= pressed
    BY <1>1, <1>6 DEF InRing, KeysInv
  <2>2. ASSUME NEW k \in Keys, InRing(k)' PROVE InRing(k) /\ n < k
    <3>1. PICK i \in DOMAIN ring : ring[i] = k /\ i # 1
      BY <1>1, <1>4, <2>2 DEF InRing
    <3>2. 1 < i
      BY <1>6, <3>1
    <3> QED
      BY <1>1, <1>6, <3>1, <3>2 DEF InRing, KeysInv
  <2>3. ASSUME NEW k \in Keys, InRing(k) PROVE InRing(k)' \/ k = n
    BY <1>1, <1>4, <1>6, <2>3 DEF InRing
  <2> QED
    BY <2>1, <2>2, <2>3
<1>8. /\ \A u \in TaskIds, k \in Keys : Has(u, k)' <=> Has(u, k) \/ (u = Main /\ k = n)
      /\ \A k \in Keys : Waits(k)' <=> Waits(k) \/ k = n
  BY <1>1, <1>4, <1>5 DEF Has, Waits
<1>9. ASSUME NEW t \in TaskIds, NEW a \in Keys, NEW b \in Keys, Before(t, a, b)'
      PROVE  Before(t, a, b) \/ (Has(t, a) /\ b = n)
  <2>1. \/ Ahead(shown[t], a, b)
        \/ Holds(shown[t], a) /\ (HandlingKey(t, b) \/ Mailed(t, b)')
        \/ HandlingKey(t, a) /\ Mailed(t, b)'
        \/ Ahead(msgs'[t], KeyPush(a), KeyPush(b))
    BY <1>1, <1>4, <1>9 DEF Before
  <2>2. Ahead(msgs'[t], KeyPush(a), KeyPush(b))
          => Ahead(msgs[t], KeyPush(a), KeyPush(b)) \/ (Mailed(t, a) /\ b = n)
    BY <1>3, KeysDiffer DEF Posts, Mailed
  <2> QED
    BY <1>5, <2>1, <2>2 DEF Before, Has
<1>10. KeysInv'
  <2>1. \A k \in Keys : k <= pressed => InRing(k)' \/ \E t \in TaskIds : Has(t, k)'
    BY <1>1, <1>7, <1>8 DEF KeysInv
  <2>2. \A t \in TaskIds, k \in Keys : Has(t, k)' => k <= pressed
    BY <1>7, <1>8 DEF KeysInv
  <2>3. \A t \in TaskIds : ~Has(t, n)
    BY <1>7 DEF KeysInv, Keys
  <2>4. \A t, u \in TaskIds, k \in Keys : Has(t, k)' /\ Has(u, k)' => t = u
    BY <1>8, <2>3 DEF KeysInv
  <2>5. \A t \in TaskIds, k, r \in Keys : Has(t, k)' /\ InRing(r)' => k < r
    BY <1>7, <1>8 DEF KeysInv
  <2>6. \A u \in TaskIds \ {Main}, k, r \in Keys : Has(u, k)' /\ Waits(r)' => k < r
    BY <1>7, <1>8 DEF KeysInv
  <2>7. \A t \in TaskIds, a, b \in Keys : Before(t, a, b)' => a < b
    BY <1>7, <1>9 DEF KeysInv
  <2>8. RingInOrder'
    BY <1>1 DEF RingInOrder, KeysInv
  <2> HIDE DEF Has, InRing, Waits, Before
  <2> QED
    BY <1>1, <2>1, <2>2, <2>4, <2>5, <2>6, <2>7, <2>8 DEF KeysInv, RingInOrder
<1>11. TimersInv'
  <2>1. \A u \in TaskIds : /\ Holds(msgs'[u], Timeout) <=> Holds(msgs[u], Timeout)
                           /\ Ahead(msgs'[u], Timeout, Timeout) => Ahead(msgs[u], Timeout, Timeout)
    BY <1>3, KeysDiffer DEF Posts
  <2>2. \A u \in TaskIds : pc'[u] \in Unarmed <=> pc[u] \in Unarmed
    BY <1>1, <1>4 DEF Unarmed, Adding
  <2> QED
    BY <1>1, <1>4, <2>1, <2>2, TimersQuiet
<1> QED
  BY <1>10, <1>11

(***************************************************************************)
(* From the main task's hand into a terminal's mailbox.  Every key that the *)
(* terminal has was pressed before those that the main task still has.      *)
(***************************************************************************)
LEMMA ForwardKeyKeeps ==
  ASSUME IInv, KeysInv, TimersInv, NEW n \in Keys, NEW t \in Terminals, ForwardKey(n, t)
  PROVE  KeysInv' /\ TimersInv'
<1>1. /\ KernelTypeOK /\ Main \in TaskIds /\ t \in TaskIds /\ t # Main /\ KeyPush(n) \in Message
      /\ pc[Main] = "handle" /\ inHand[Main] = KeyPush(n) /\ HandledTo(Main, "poll")
      /\ msgs' = [msgs EXCEPT ![t] = Append(@, KeyPush(n))]
      /\ UNCHANGED <<shown, armed, heapTorn, ring, pressed>>
  BY Basics, Messages DEF ForwardKey, Handling, At, Send, hwVars, Terminals
<1>2. Posts(t, KeyPush(n))
  BY <1>1, Posted
<1>3. /\ \A u \in TaskIds : \A k : HandlingKey(u, k)' <=> HandlingKey(u, k) /\ u # Main
      /\ \A u \in TaskIds : InHand(u)' <=> InHand(u) /\ u # Main
      /\ \A u \in TaskIds : pc'[u] = IF u = Main THEN "poll" ELSE pc[u]
  BY <1>1, Dropped DEF Points
<1>4. ~InHand(Main) /\ \A k \in Keys : HandlingKey(Main, k) <=> k = n
  BY <1>1, KeysDiffer DEF InHand, HandlingKey
<1>5. \A u \in TaskIds, k \in Keys : Mailed(u, k)' <=> Mailed(u, k) \/ (u = t /\ k = n)
  BY <1>2, KeysDiffer DEF Posts, Mailed
<1>6. Has(Main, n) /\ Waits(n) /\ ~Holds(shown[Main], n) /\ ~Mailed(Main, n)
  <2>1. Has(Main, n) /\ Waits(n)
    BY <1>4 DEF Has, Waits
  <2>2. ~Before(Main, n, n)
    BY <1>1 DEF KeysInv, Keys
  <2> QED
    BY <1>4, <2>1, <2>2 DEF Before
<1>7. /\ \A k \in Keys : Has(Main, k)' <=> Has(Main, k) /\ k # n
      /\ \A k \in Keys : Has(t, k)' <=> Has(t, k) \/ k = n
      /\ \A u \in TaskIds \ {Main, t}, k \in Keys : Has(u, k)' <=> Has(u, k)
      /\ \A k \in Keys : Waits(k)' => Mailed(Main, k) /\ Waits(k)
  BY <1>1, <1>3, <1>4, <1>5, <1>6 DEF Has, Waits
<1>8. ASSUME NEW u \in TaskIds, NEW a \in Keys, NEW b \in Keys, Before(u, a, b)'
      PROVE  Before(u, a, b) \/ (u = t /\ Has(t, a) /\ b = n)
  <2>1. Ahead(msgs'[u], KeyPush(a), KeyPush(b))
          => \/ Ahead(msgs[u], KeyPush(a), KeyPush(b))
             \/ (u = t /\ Mailed(u, a) /\ b = n)
    BY <1>2, KeysDiffer DEF Posts, Mailed
  <2>2. \/ Ahead(shown[u], a, b)
        \/ Holds(shown[u], a) /\ (HandlingKey(u, b) \/ Mailed(u, b)')
        \/ HandlingKey(u, a) /\ Mailed(u, b)'
        \/ Ahead(msgs'[u], KeyPush(a), KeyPush(b))
    BY <1>1, <1>3, <1>8 DEF Before
  <2> QED
    BY <1>5, <2>1, <2>2 DEF Before, Has
<1>9. RingInOrder' /\ \A k \in Keys : InRing(k)' <=> InRing(k)
  BY <1>1, <1>3 DEF InRing, KeysInv, RingInOrder
<1>10. KeysInv'
  <2>1. ASSUME NEW k \in Keys, k <= pressed
        PROVE  InRing(k)' \/ \E u \in TaskIds : Has(u, k)'
    <3>1. InRing(k) \/ \E u \in TaskIds : Has(u, k)
      BY <2>1 DEF KeysInv
    <3>2. CASE k = n
      BY <1>1, <1>7, <3>2
    <3>3. CASE k # n
      BY <1>7, <1>9, <3>1, <3>3
    <3> QED
      BY <3>2, <3>3
  <2>2. \A u \in TaskIds, k \in Keys : Has(u, k)' => k <= pressed
    BY <1>1, <1>6, <1>7 DEF KeysInv
  <2>3. \A u \in TaskIds, k \in Keys :
          Has(u, k)' => (k = n /\ u = t) \/ (k # n /\ Has(u, k))
    BY <1>1, <1>6, <1>7 DEF KeysInv
  <2>4. \A u, v \in TaskIds, k \in Keys : Has(u, k)' /\ Has(v, k)' => u = v
    BY <2>3 DEF KeysInv
  <2>5. \A u \in TaskIds, k, r \in Keys : Has(u, k)' /\ InRing(r)' => k < r
    BY <1>1, <1>6, <1>9, <2>3 DEF KeysInv
  <2>6. \A k \in Keys : Mailed(Main, k) => n < k
    BY <1>1, <1>4 DEF KeysInv, Before
  <2>7. \A u \in TaskIds \ {Main}, k, r \in Keys : Has(u, k)' /\ Waits(r)' => k < r
    BY <1>1, <1>7, <2>3, <2>6 DEF KeysInv
  <2>8. \A k \in Keys : Has(t, k) => k < n
    BY <1>1, <1>6 DEF KeysInv
  <2>9. \A u \in TaskIds, a, b \in Keys : Before(u, a, b)' => a < b
    BY <1>1, <1>8, <2>8 DEF KeysInv
  <2> HIDE DEF Has, InRing, Waits, Before
  <2> QED
    BY <1>1, <1>9, <2>1, <2>2, <2>4, <2>5, <2>7, <2>9 DEF KeysInv, RingInOrder
<1>11. TimersInv'
  <2>1. \A u \in TaskIds : /\ Holds(msgs'[u], Timeout) <=> Holds(msgs[u], Timeout)
                           /\ Ahead(msgs'[u], Timeout, Timeout) => Ahead(msgs[u], Timeout, Timeout)
    BY <1>2, KeysDiffer DEF Posts
  <2>2. \A u \in TaskIds : /\ InHand(u)' <=> InHand(u)
                           /\ pc'[u] \in Unarmed <=> pc[u] \in Unarmed
    BY <1>1, <1>3, <1>4 DEF Unarmed, Adding
  <2> QED
    BY <1>1, <2>1, <2>2, TimersQuiet
<1> QED
  BY <1>10, <1>11

-----------------------------------------------------------------------------
(* Every step keeps the keys and the timers, unless a push is torn.         *)

LEMMA InitKept == Init => Kept
<1> SUFFICES ASSUME Init PROVE KeysInv /\ TimersInv
  BY DEF Kept
<1>1. /\ \A t \in TaskIds : msgs[t] = <<>> /\ shown[t] = <<>> /\ pc[t] # "handle"
      /\ pressed = 0 /\ ring = <<>>
  BY DEF Init
<1>2. DOMAIN <<>> = {}
  OBVIOUS
<1>3. /\ \A t \in TaskIds : \A x, y : ~Holds(msgs[t], x) /\ ~Ahead(msgs[t], x, y)
      /\ \A t \in TaskIds : \A x, y : ~Holds(shown[t], x) /\ ~Ahead(shown[t], x, y)
      /\ \A t \in TaskIds, k \in Keys : ~HandlingKey(t, k)
      /\ \A t \in TaskIds : ~InHand(t)
  BY <1>1, <1>2 DEF Holds, Ahead, HandlingKey, InHand
<1>4. KeysInv
  <2>1. \A t \in TaskIds, k \in Keys : ~Has(t, k)
    BY <1>3 DEF Has, Mailed
  <2>2. \A t \in TaskIds, a, b \in Keys : ~Before(t, a, b)
    BY <1>3 DEF Before, Mailed
  <2>3. \A k \in Keys : ~(k <= pressed)
    BY <1>1 DEF Keys
  <2> QED
    BY <1>1, <1>2, <2>1, <2>2, <2>3 DEF KeysInv
<1>5. ASSUME NEW t \in TaskIds \ {Idle} PROVE TimerOf(t)
  <2>1. /\ armed[t] = IF t = Main THEN 1 ELSE 0
        /\ (pc[t] \in Unarmed) <=> t # Main
    BY RunQueuesAssumption DEF Init, Unarmed, Adding, Terminals, Main, Idle, TaskIds
  <2> QED
    BY <1>3, <2>1 DEF TimerOf, Expired
<1> QED
  BY <1>4, <1>5 DEF TimersInv

LEMMA StepKept == IInv /\ Kept /\ [Next]_vars => Kept'
<1> SUFFICES ASSUME IInv, KeysInv, TimersInv, [Next]_vars, ~torn, ~torn'
             PROVE  KeysInv' /\ TimersInv'
  <2>1. torn /\ [Next]_vars => torn'
    BY DEF Next, Devices, PressKey, RaiseInterrupt, Interrupts, IntHandlerXHCI, TimerExpires,
           SwitchTask, Step, MessageLoop, Start, Cli, Receive, FindNothing, SleepSelf, Resume,
           Rearm, EndAddTimer, SkipBlink, AskToDraw, Ignore, InputKey, MainOnly, HandleTimeout, HandleXHCI, Drained,
           BeginPush, CommitPush, Pop, KeepKey, ForwardKey, HandleLayer, loopVars, vars
  <2> QED
    BY <2>1 DEF Kept
<1>1. ASSUME Devices PROVE KeysInv' /\ TimersInv'
  BY <1>1, PressKeyKeeps, StillKeeps DEF Devices
<1>2. ASSUME Interrupts PROVE KeysInv' /\ TimersInv'
  BY <1>2, IntHandlerXHCIKeeps, TimerExpiresKeeps, StillKeeps DEF Interrupts
<1>3. ASSUME NEW t \in TaskIds, MessageLoop(t) PROVE KeysInv' /\ TimersInv'
  <2>1. ASSUME NEW k \in Keys, InputKey(t, k) PROVE KeysInv' /\ TimersInv'
    BY <2>1, ShownKeeps DEF InputKey, hwVars
  <2> QED
    BY <1>3, <2>1, StartKeeps, QuietKeeps, ReceiveKeeps, RearmKeeps, EndAddTimerKeeps, AskToDrawKeeps,
       IgnoreKeeps DEF MessageLoop
<1>4. ASSUME MainOnly PROVE KeysInv' /\ TimersInv'
  <2>1. Main \in TaskIds
    BY Basics
  <2>2. ASSUME NEW k \in Keys, KeepKey(k) PROVE KeysInv' /\ TimersInv'
    BY <2>1, <2>2, ShownKeeps DEF KeepKey, hwVars
  <2> QED
    BY <1>4, <2>1, <2>2, HandleTimeoutKeeps, HandleXHCIKeeps, QuietKeeps, CommitPushKeeps, PopKeeps, ForwardKeyKeeps,
       HandleLayerKeeps DEF MainOnly
<1>5. ASSUME UNCHANGED vars PROVE KeysInv' /\ TimersInv'
  <2>1. UNCHANGED <<pc, inHand, msgs, pressed, ring, shown, armed, heapTorn>>
    BY <1>5 DEF vars, loopVars, hwVars
  <2> QED
    BY <2>1, StayKeeps DEF MailQuiet
<1> QED
  BY <1>1, <1>2, <1>3, <1>4, <1>5 DEF Next, Step

LEMMA SpecKept == Spec => [](IInv /\ Kept)
BY InitIInv, StepIInv, InitKept, StepKept, PTL DEF Spec

-----------------------------------------------------------------------------
(* What the invariant says of the places of a key and of the timers.        *)

\* The position of the only x of a queue.
LEMMA OnlyOne ==
  ASSUME NEW S, NEW q \in Seq(S), NEW x, Holds(q, x), ~Ahead(q, x, x)
  PROVE  \E i \in DOMAIN q : \A j \in DOMAIN q : q[j] = x <=> j = i
<1>1. DOMAIN q = 1..Len(q) /\ Len(q) \in Nat
  BY LenProperties
<1>2. PICK i \in DOMAIN q : q[i] = x
  BY DEF Holds
<1>3. ASSUME NEW j \in DOMAIN q, q[j] = x PROVE j = i
  <2>1. ~(i < j) /\ ~(j < i)
    BY <1>2, <1>3 DEF Ahead
  <2> QED
    BY <1>1, <2>1
<1> QED
  BY <1>2, <1>3

LEMMA OnePlace ==
  ASSUME IInv, KeysInv, NEW k \in Keys, k <= pressed
  PROVE  \E p : Places(k) = {p}
<1>1. KernelTypeOK /\ Main \in TaskIds
  BY Basics
<1>2. ASSUME NEW p
      PROVE  p \in Places(k) <=>
               \/ \E i \in DOMAIN ring : /\ ring[i] = k /\ ~(i = 1 /\ pc[Main] = "popping")
                                         /\ p = <<"ring", Main, i>>
               \/ \E t \in TaskIds : HandlingKey(t, k) /\ p = <<"hand", t, 1>>
               \/ \E t \in TaskIds : \E i \in DOMAIN msgs[t] :
                    msgs[t][i] = KeyPush(k) /\ p = <<"mailbox", t, i>>
               \/ \E t \in TaskIds : \E i \in DOMAIN shown[t] :
                    shown[t][i] = k /\ p = <<"shown", t, i>>
  <2>1. p \in RingPlaces(k) <=> \E i \in DOMAIN ring : /\ ring[i] = k
                                                      /\ ~(i = 1 /\ pc[Main] = "popping")
                                                      /\ p = <<"ring", Main, i>>
    BY DEF RingPlaces
  <2>2. \A t \in TaskIds : p \in TaskPlaces(t, k) <=>
          \/ HandlingKey(t, k) /\ p = <<"hand", t, 1>>
          \/ \E i \in DOMAIN msgs[t] : msgs[t][i] = KeyPush(k) /\ p = <<"mailbox", t, i>>
          \/ \E i \in DOMAIN shown[t] : shown[t][i] = k /\ p = <<"shown", t, i>>
    BY DEF TaskPlaces
  <2>3. p \in Places(k) <=> p \in RingPlaces(k) \/ \E t \in TaskIds : p \in TaskPlaces(t, k)
    BY Zenon DEF Places
  <2> QED
    BY <2>1, <2>2, <2>3
<1>3. ASSUME InRing(k) PROVE \E p : Places(k) = {p}
  <2>1. \A t \in TaskIds : ~Has(t, k)
    BY <1>3 DEF KeysInv, Keys
  <2>2. /\ \A t \in TaskIds : ~HandlingKey(t, k)
        /\ \A t \in TaskIds : \A i \in DOMAIN msgs[t] : msgs[t][i] # KeyPush(k)
        /\ \A t \in TaskIds : \A i \in DOMAIN shown[t] : shown[t][i] # k
    BY <2>1 DEF Has, Mailed, Holds
  <2>3. PICK i \in DOMAIN ring : ring[i] = k /\ ~(i = 1 /\ pc[Main] = "popping")
    BY <1>3 DEF InRing
  <2>4. \A j \in DOMAIN ring : ring[j] = k => j = i
    <3>1. DOMAIN ring = 1..Len(ring) /\ Len(ring) \in Nat
      BY <1>1, LenProperties DEF KernelTypeOK
    <3>2. ASSUME NEW j \in DOMAIN ring, ring[j] = k PROVE ~(i < j) /\ ~(j < i)
      BY <2>3, <3>2 DEF KeysInv, Keys
    <3> QED
      BY <3>1, <3>2
  <2>5. \A p : p \in Places(k) <=> p = <<"ring", Main, i>>
    BY <1>2, <2>2, <2>3, <2>4
  <2>6. Places(k) = {<<"ring", Main, i>>}
    BY <2>5
  <2> QED
    BY <2>6
<1>4. ASSUME NEW t \in TaskIds, Has(t, k) PROVE \E p : Places(k) = {p}
  <2>1. ~InRing(k) /\ \A u \in TaskIds : Has(u, k) => u = t
    BY <1>4 DEF KeysInv, Keys
  <2>2. ~Before(t, k, k)
    BY DEF KeysInv, Keys
  <2>3. /\ \A i \in DOMAIN ring : ~(ring[i] = k /\ ~(i = 1 /\ pc[Main] = "popping"))
        /\ \A u \in TaskIds : HandlingKey(u, k) => u = t
        /\ \A u \in TaskIds : \A i \in DOMAIN msgs[u] : msgs[u][i] = KeyPush(k) => u = t
        /\ \A u \in TaskIds : \A i \in DOMAIN shown[u] : shown[u][i] = k => u = t
    BY <2>1 DEF InRing, Has, Mailed, Holds
  <2>4. shown[t] \in Seq(Keys) /\ msgs[t] \in Seq(Message)
    BY <1>1 DEF KernelTypeOK
  <2>5. CASE HandlingKey(t, k)
    <3>1. ~Mailed(t, k) /\ ~Holds(shown[t], k)
      BY <2>2, <2>5 DEF Before
    <3>2. \A p : p \in Places(k) <=> p = <<"hand", t, 1>>
      BY <1>2, <2>3, <2>5, <3>1 DEF Mailed, Holds
    <3>3. Places(k) = {<<"hand", t, 1>>}
      BY <3>2
    <3> QED
      BY <3>3
  <2>6. CASE Holds(shown[t], k)
    <3>1. ~Mailed(t, k) /\ ~HandlingKey(t, k) /\ ~Ahead(shown[t], k, k)
      BY <2>2, <2>6 DEF Before
    <3>2. PICK i \in DOMAIN shown[t] : \A j \in DOMAIN shown[t] : shown[t][j] = k <=> j = i
      BY <2>4, <2>6, <3>1, OnlyOne
    <3>3. \A p : p \in Places(k) <=> p = <<"shown", t, i>>
      BY <1>2, <2>3, <3>1, <3>2 DEF Mailed, Holds
    <3>4. Places(k) = {<<"shown", t, i>>}
      BY <3>3
    <3> QED
      BY <3>4
  <2>7. CASE Mailed(t, k)
    <3>1. ~Holds(shown[t], k) /\ ~HandlingKey(t, k) /\ ~Ahead(msgs[t], KeyPush(k), KeyPush(k))
      BY <2>2, <2>7 DEF Before
    <3>2. PICK i \in DOMAIN msgs[t] : \A j \in DOMAIN msgs[t] : msgs[t][j] = KeyPush(k) <=> j = i
      BY <2>4, <2>7, <3>1, OnlyOne DEF Mailed
    <3>3. \A p : p \in Places(k) <=> p = <<"mailbox", t, i>>
      BY <1>2, <2>3, <3>1, <3>2 DEF Holds
    <3>4. Places(k) = {<<"mailbox", t, i>>}
      BY <3>3
    <3> QED
      BY <3>4
  <2> QED
    BY <1>4, <2>5, <2>6, <2>7 DEF Has
<1> QED
  BY <1>3, <1>4 DEF KeysInv

LEMMA OneTimer ==
  ASSUME IInv, TimersInv, ~heapTorn, NEW t \in TaskIds \ {Idle}
  PROVE  CursorTimers(t) = IF pc[t] \in Unarmed THEN 0 ELSE 1
<1> DEFINE O == {i \in DOMAIN msgs[t] : msgs[t][i] = Timeout}
<1>1. msgs[t] \in Seq(Message) /\ TimerOf(t)
  BY Basics DEF KernelTypeOK, TimersInv
<1>2. Cardinality(O) = IF Expired(t) THEN 1 ELSE 0
  <2>1. CASE Expired(t)
    <3>1. PICK i \in DOMAIN msgs[t] : \A j \in DOMAIN msgs[t] : msgs[t][j] = Timeout <=> j = i
      BY <1>1, <2>1, OnlyOne DEF Expired, TimerOf
    <3>2. O = {i}
      BY <3>1
    <3> HIDE DEF O
    <3> QED
      BY <2>1, <3>2, FS_Singleton
  <2>2. CASE ~Expired(t)
    <3>1. O = {}
      BY <2>2 DEF Expired, Holds
    <3> HIDE DEF O
    <3> QED
      BY <2>2, <3>1, FS_EmptySet
  <2> QED
    BY <2>1, <2>2
<1>3. Occurrences(msgs[t], Timeout) = IF Expired(t) THEN 1 ELSE 0
  BY <1>2 DEF Occurrences
<1>4. CursorTimers(t) = armed[t] + (IF Expired(t) THEN 1 ELSE 0) + (IF InHand(t) THEN 1 ELSE 0)
  BY <1>3 DEF CursorTimers, InHand
<1> QED
  BY <1>1, <1>4 DEF TimerOf

-----------------------------------------------------------------------------
\* The message loops, the handlers and the devices keep every variable in its type.
THEOREM KernelTypeCorrect == Spec => []KernelTypeOK
<1>1. IInv => KernelTypeOK
  BY DEF IInv
<1> QED
  BY <1>1, SpecIInv, PTL

(***************************************************************************)
(* A task that sleeps has no message: the cli in front of ReceiveMessage    *)
(* covers the test and the Sleep, whoever sends.                            *)
(***************************************************************************)
THEOREM NoWakeupLost == FairSpec => []NoLostWakeup
<1>1. IInv => NoLostWakeup
  BY DEF IInv, Discipline, Asleep, NoLostWakeup
<1> QED
  BY <1>1, SpecIInv, PTL DEF FairSpec

\* The idle task runs with interrupts on, although the task before it slept with them off.
THEOREM IdleIsInterruptible == FairSpec => []IdleInterruptible
<1>1. IInv => IdleInterruptible
  BY Basics DEF IInv, Discipline, IdleHalts, FlagsFollow, FlagOf, Off, IdleInterruptible
<1> QED
  BY <1>1, SpecIInv, PTL DEF FairSpec

(***************************************************************************)
(* Unless a push was torn, every key that was pressed is in exactly one     *)
(* place, a window shows its keys in the order they were pressed, and every *)
(* cursor has exactly one timer, wherever SendMessage, ReceiveMessage and   *)
(* the interrupt handlers have brought them.                                *)
(***************************************************************************)
THEOREM NothingIsLost == FairSpec => []NothingLost
<1>1. IInv /\ Kept => NothingLost
  <2> SUFFICES ASSUME IInv, KeysInv, TimersInv PROVE NothingLost
    BY DEF Kept, NothingLost, KeysConserved, OneCursorTimer
  <2>1. ASSUME NEW k \in 1..pressed PROVE Cardinality(Places(k)) = 1
    <3>1. k \in Keys /\ k <= pressed
      BY Basics, KernelAssumption DEF KernelTypeOK, Keys
    <3> QED
      BY <3>1, OnePlace, FS_Singleton
  <2>2. ASSUME NEW t \in TaskIds PROVE Increasing(shown[t])
    <3>1. shown[t] \in Seq(Keys)
      BY Basics DEF KernelTypeOK
    <3>2. \A i \in DOMAIN shown[t] : shown[t][i] \in Keys
      BY <3>1
    <3> QED
      BY <3>2 DEF KeysInv, Before, Ahead, Increasing
  <2> QED
    BY <2>1, <2>2, OneTimer DEF NothingLost, KeysConserved, OneCursorTimer
<1> QED
  BY <1>1, SpecKept, PTL DEF FairSpec

=============================================================================
