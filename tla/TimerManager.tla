---------------------------- MODULE TimerManager ----------------------------
(***************************************************************************)
(* class TimerManager of kernel/timer.cpp and the calls that add timers:    *)
(* the task timer that drives preemption (InitializeTask), the cursor of    *)
(* the main window (main.cpp), which sets its timer again each time it      *)
(* expires, and the CreateTimer system call (syscall.cpp).  All of them     *)
(* push with interrupts off, so a push never meets a Tick half-way.         *)
(*                                                                          *)
(* The priority queue is a set: its top is any timer with the nearest       *)
(* timeout.  A timer carries, besides its fields, the tick at which it was  *)
(* added and a serial number, which tell equal timers apart.                *)
(***************************************************************************)
EXTENDS Integers, Sequences, FiniteSets, SequencesExt

CONSTANTS Apps,       \* tasks that call CreateTimer
          MainTask,   \* the task that owns the cursor
          Period,     \* kTaskTimerPeriod
          Half,       \* kTimer05Sec
          Delays,     \* timeouts apps ask for, in ticks
          MaxTick,    \* bound: ticks
          MaxTimers   \* bound: timers added

ASSUME TimerManagerAssumption ==
  /\ MainTask \notin Apps
  /\ Period \in Nat \ {0} /\ Half \in Nat \ {0}
  /\ Delays \subseteq Nat
  /\ MaxTick \in Nat /\ MaxTimers \in Nat

VARIABLES
  tick,       \* tick_
  timers,     \* timers_, the sentinel apart
  inbox,      \* inbox[t]: kTimerTimeout messages of t, each with the timer it is from
  alive,      \* tasks that exist
  asked,      \* asked[t]: the timeout CreateTimer has computed and not yet pushed
  added,      \* history: timers pushed so far
  fired,      \* history: the timers that expired, with the tick at which they did
  lastSwitch  \* history: the tick of the last task switch

vars == <<tick, timers, inbox, alive, asked, added, fired, lastSwitch>>

Tasks    == Apps \union {MainTask}
TaskTimer == "task"     \* kTaskTimerValue
Cursor    == "cursor"   \* kTextboxCursorTimer
AppTimer  == "app"      \* a negative value
NotAsked  == -1

Timer(timeout, value, task, serial) ==
  [timeout |-> timeout, value |-> value, task |-> task, serial |-> serial, since |-> tick]

(***************************************************************************)
(* KernelMainNewStack adds the cursor's timer, InitializeTask the task's;   *)
(* the clock has been running for a while then, less than a period.         *)
(***************************************************************************)
Init ==
  /\ tick = 0
  /\ timers = {Timer(Half, Cursor, MainTask, 1), Timer(Period, TaskTimer, MainTask, 2)}
  /\ inbox = [t \in Tasks |-> <<>>]
  /\ alive = Tasks
  /\ asked = [t \in Apps |-> NotAsked]
  /\ added = 2
  /\ fired = {}
  /\ lastSwitch = 0

AddTimer(timeout, value, task) ==
  /\ added < MaxTimers
  /\ timers' = timers \union {Timer(timeout, value, task, added + 1)}
  /\ added' = added + 1

-----------------------------------------------------------------------------
(* Tick.                                                                    *)

\* The loop of Tick pops while the nearest timeout is not in the future.
Expired(now) == {t \in timers : t.timeout <= now}

\* Mutant: the comparison of timers is the other way round.
PopOrders_Reversed(S) ==
  {q \in SetToSeqs(S) : \A i, j \in DOMAIN q : i < j => q[i].timeout >= q[j].timeout}

\* The orders in which it may pop them: the nearest first.
PopOrders(S) ==
  {q \in SetToSeqs(S) : \A i, j \in DOMAIN q : i < j => q[i].timeout <= q[j].timeout}

\* The messages each task may be sent: its timers, in an order in which they are popped.
SentTo(sent, task) == PopOrders({t \in sent : t.task = task})
Deliveries(sent) ==
  {d \in [Tasks -> UNION {SentTo(sent, t) : t \in Tasks}] :
     \A t \in Tasks : d[t] \in SentTo(sent, t)}

\* The task timer is pushed again, a period after this tick.
NextTaskTimer(t, now) == [t EXCEPT !.timeout = now + Period, !.since = now]

(***************************************************************************)
(* One tick: the task timer switches tasks, any other timer sends its task  *)
(* a message (SendMessage finds no task when it is gone).                   *)
(***************************************************************************)
Tick ==
  LET now      == tick + 1
      expired  == Expired(now)
      taskOnes == {t \in expired : t.value = TaskTimer}
      sent     == expired \ taskOnes
  IN  /\ tick < MaxTick
      /\ tick' = now
      /\ timers' = (timers \ expired) \union {NextTaskTimer(t, now) : t \in taskOnes}
      /\ \E delivery \in Deliveries(sent) :
           inbox' = [t \in Tasks |->
             IF t \in alive THEN inbox[t] \o delivery[t] ELSE inbox[t]]
      /\ fired' = fired \union {[timer |-> t, at |-> now] : t \in sent}
      /\ lastSwitch' = IF taskOnes # {} THEN now ELSE lastSwitch
      /\ UNCHANGED <<alive, asked, added>>

-----------------------------------------------------------------------------
(* The callers.                                                             *)

\* Mutant: the next blink is counted from the time the message is handled.
NextBlink_FromNow(timeout) == tick + Half

\* The next blink is counted from the timeout of this one.
NextBlink(timeout) == timeout + Half

\* The main task handles a timeout of its cursor.
Blink ==
  /\ inbox[MainTask] # <<>>
  /\ inbox' = [inbox EXCEPT ![MainTask] = Tail(@)]
  /\ AddTimer(NextBlink(Head(inbox[MainTask]).timeout), Cursor, MainTask)
  /\ UNCHANGED <<tick, alive, asked, fired, lastSwitch>>

AskedTimeout(delay, relative) == IF relative THEN delay + tick ELSE delay

\* CreateTimer reads the clock with interrupts on ...
CreateTimerReads(t, delay, relative) ==
  /\ t \in alive /\ asked[t] = NotAsked
  /\ added < MaxTimers
  /\ asked' = [asked EXCEPT ![t] = AskedTimeout(delay, relative)]
  /\ UNCHANGED <<tick, timers, inbox, alive, added, fired, lastSwitch>>

\* ... and pushes the timer with interrupts off, some ticks later perhaps.
CreateTimerAdds(t) ==
  /\ t \in alive /\ asked[t] # NotAsked
  /\ AddTimer(asked[t], AppTimer, t)
  /\ asked' = [asked EXCEPT ![t] = NotAsked]
  /\ UNCHANGED <<tick, inbox, alive, fired, lastSwitch>>

\* ReadEvent hands a timeout to the application.
ReadEvent(t) ==
  /\ t \in alive /\ asked[t] = NotAsked
  /\ inbox[t] # <<>>
  /\ inbox' = [inbox EXCEPT ![t] = Tail(@)]
  /\ UNCHANGED <<tick, timers, alive, asked, added, fired, lastSwitch>>

\* The task of an application finishes; its timers stay in the queue.
Finish(t) ==
  /\ t \in alive /\ asked[t] = NotAsked
  /\ alive' = alive \ {t}
  /\ inbox' = [inbox EXCEPT ![t] = <<>>]
  /\ UNCHANGED <<tick, timers, asked, added, fired, lastSwitch>>

Next ==
  \/ Tick
  \/ Blink
  \/ \E t \in Apps :
       \/ \E delay \in Delays, relative \in BOOLEAN : CreateTimerReads(t, delay, relative)
       \/ CreateTimerAdds(t)
       \/ ReadEvent(t)
       \/ Finish(t)

Spec == Init /\ [][Next]_vars

-----------------------------------------------------------------------------
(***************************************************************************)
(* A timer that was pushed is in the queue or has expired, never both: once,*)
(* not before its timeout, and at the first tick that had reached it (or at *)
(* the first one after it was pushed).  The timers of one tick reach a task *)
(* in the order of their times.  The timer of preemption is among them: it  *)
(* is there exactly once, and two switches are less than a period apart.    *)
(***************************************************************************)
OnTime(f) ==
  /\ f.at >= f.timer.timeout /\ f.at > f.timer.since
  /\ f.at = f.timer.timeout \/ f.at = f.timer.since + 1

FiredAt(t) == {f.at : f \in {g \in fired : g.timer = t}}

ExpiresOnceOnTime ==
  /\ \A n \in 1..added :
       Cardinality({t \in timers : t.serial = n})
         + Cardinality({f \in fired : f.timer.serial = n}) = 1
  /\ \A f \in fired : OnTime(f)
  /\ \A t \in Tasks : \A i, j \in DOMAIN inbox[t] :
       i < j /\ FiredAt(inbox[t][i]) = FiredAt(inbox[t][j])
         => inbox[t][i].timeout <= inbox[t][j].timeout
  /\ Cardinality({t \in timers : t.value = TaskTimer}) = 1
  /\ tick - lastSwitch < Period

(***************************************************************************)
(* The cursor keeps its rhythm however late its messages are handled: the   *)
(* timeouts are the multiples of half a second, one after the other, none   *)
(* twice.                                                                   *)
(***************************************************************************)
CursorTimeouts ==
  {t.timeout : t \in {x \in timers : x.value = Cursor}}
    \union {f.timer.timeout : f \in {x \in fired : x.timer.value = Cursor}}

CursorKeepsRhythm ==
  \A x \in CursorTimeouts : x % Half = 0 /\ (x = Half \/ x - Half \in CursorTimeouts)
=============================================================================
