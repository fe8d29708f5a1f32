------------------------------ MODULE RunQueues ------------------------------
(***************************************************************************)
(* The run queues of the scheduler (kernel/task.cpp): one queue of runnable *)
(* tasks per level, the task at the head of the queue of the current level  *)
(* being the one that has the processor.                                    *)
(*                                                                          *)
(* The module has no state of its own.  It defines the private part of      *)
(* class TaskManager as operators on a scheduler record s:                  *)
(*   s.queue[lv]   running_[lv], a sequence of task ids (the code keeps     *)
(*                 pointers; a task is identified with its object)          *)
(*   s.current     current_level_                                           *)
(*   s.changed     level_changed_                                           *)
(*   s.level[t]    Task::level_                                             *)
(*   s.running[t]  Task::running_                                           *)
(***************************************************************************)
EXTENDS Integers, Sequences

CONSTANTS MaxLevel,      \* kMaxLevel, the highest level
          DefaultLevel,  \* Task::kDefaultLevel, the level of a new task
          MaxTasks       \* bound: how many tasks may be created, ever

ASSUME RunQueuesAssumption ==
  /\ MaxLevel \in Nat \ {0}
  /\ DefaultLevel \in 0..MaxLevel
  /\ MaxTasks \in Nat \ {0, 1}

Levels  == 0..MaxLevel
TaskIds == 1..MaxTasks
Main    == 1    \* the first task, made by the constructor for KernelMainNewStack
Idle    == 2    \* the second one, TaskIdle
Same    == -1   \* the default argument of Wakeup: keep the level

Scheduler == [queue   : [Levels -> Seq(TaskIds)],
              current : Levels,
              changed : BOOLEAN,
              level   : [TaskIds -> Levels],
              running : [TaskIds -> BOOLEAN]]

(***************************************************************************)
(* The state the constructor leaves: the main task alone at the highest     *)
(* level, the idle task alone at the lowest.                                *)
(***************************************************************************)
InitScheduler ==
  [queue   |-> [lv \in Levels |-> IF lv = MaxLevel THEN <<Main>>
                                  ELSE IF lv = 0 THEN <<Idle>> ELSE <<>>],
   current |-> MaxLevel,
   changed |-> FALSE,
   level   |-> [t \in TaskIds |-> IF t = Main THEN MaxLevel
                                  ELSE IF t = Idle THEN 0 ELSE DefaultLevel],
   running |-> [t \in TaskIds |-> t \in {Main, Idle}]]

CurrentTask(s) == Head(s.queue[s.current])

Holds(q, t) == \E i \in DOMAIN q : q[i] = t

(***************************************************************************)
(* Erase of task.cpp drops every element equal to t.  No queue holds a task *)
(* twice (NoTaskTwice below), so dropping one position is the same thing.   *)
(***************************************************************************)
Erase(q, t) ==
  LET i == CHOOSE j \in DOMAIN q : q[j] = t
  IN  IF Holds(q, t) THEN SubSeq(q, 1, i - 1) \o SubSeq(q, i + 1, Len(q)) ELSE q

IsHighest(queue, lv) ==
  /\ queue[lv] # <<>>
  /\ \A m \in Levels : queue[m] # <<>> => m <= lv

(***************************************************************************)
(* The level to run after the current queue was rotated into queue: it is   *)
(* looked for, from the highest down, only when level_changed_ says so or   *)
(* the current queue has become empty.  When every queue is empty the loop  *)
(* of the code finds no level and leaves current_level_ alone.              *)
(***************************************************************************)
NextLevel(s, queue) ==
  LET rescan == s.changed \/ queue[s.current] = <<>>
  IN  IF rescan /\ \E lv \in Levels : IsHighest(queue, lv)
      THEN CHOOSE lv \in Levels : IsHighest(queue, lv)
      ELSE s.current

(***************************************************************************)
(* RotateCurrentRunQueue: the current task leaves the head of its queue for *)
(* the tail, or for good when it goes to sleep.                             *)
(***************************************************************************)
\* Mutant: the preempted task goes back to the front.
RotatedQueue_KeepsFront(s, currentSleep) ==
  [s.queue EXCEPT ![s.current] = IF currentSleep THEN Tail(@) ELSE @]

RotatedQueue(s, currentSleep) ==
  [s.queue EXCEPT ![s.current] =
     IF currentSleep THEN Tail(@) ELSE Append(Tail(@), Head(@))]

RotateCurrentRunQueue(s, currentSleep) ==
  [s EXCEPT !.queue   = RotatedQueue(s, currentSleep),
            !.changed = FALSE,
            !.current = NextLevel(s, RotatedQueue(s, currentSleep))]

(***************************************************************************)
(* ChangeLevelRunning: another task is moved to the tail of its new queue;  *)
(* the current task keeps the processor, at the head of its new queue.      *)
(***************************************************************************)
ChangeOther(s, t, lv) ==
  [s EXCEPT !.queue[s.level[t]] = Erase(@, t),
            !.queue[lv]         = Append(@, t),
            !.level[t]          = lv,
            !.changed           = @ \/ lv > s.current]

\* Mutant: a task that lowers its own level asks for no rescan.
ChangeMyself_NoRescan(s, lv) ==
  LET t == CurrentTask(s)
  IN  [s EXCEPT !.queue[s.current] = Tail(@),
                !.queue[lv]        = <<t>> \o @,
                !.level[t]         = lv,
                !.current          = lv]

ChangeMyself(s, lv) ==
  LET t == CurrentTask(s)
  IN  [s EXCEPT !.queue[s.current] = Tail(@),
                !.queue[lv]        = <<t>> \o @,
                !.level[t]         = lv,
                !.current          = lv,
                !.changed          = @ \/ lv < s.current]

ChangeLevelRunning(s, t, lv) ==
  IF lv = Same \/ lv = s.level[t] THEN s
  ELSE IF t # CurrentTask(s) THEN ChangeOther(s, t, lv)
  ELSE ChangeMyself(s, lv)

(***************************************************************************)
(* TaskManager::Wakeup(Task*, int).                                         *)
(***************************************************************************)
\* Mutant: waking a task of a higher level asks for no rescan.
Enqueue_NoRescan(s, t, lv) ==
  [s EXCEPT !.level[t] = lv, !.running[t] = TRUE, !.queue[lv] = Append(@, t)]

Enqueue(s, t, lv) ==
  [s EXCEPT !.level[t]   = lv,
            !.running[t] = TRUE,
            !.queue[lv]  = Append(@, t),
            !.changed    = @ \/ lv > s.current]

\* Mutant: the default level -1 is not replaced by the level of the task.
Wakeup_LevelUnset(s, t, lv) ==
  IF s.running[t] THEN ChangeLevelRunning(s, t, lv) ELSE Enqueue(s, t, lv)

Wakeup(s, t, lv) ==
  IF s.running[t] THEN ChangeLevelRunning(s, t, lv)
  ELSE Enqueue(s, t, IF lv = Same THEN s.level[t] ELSE lv)

(***************************************************************************)
(* TaskManager::Sleep(Task* ).  When the task is the current one the code   *)
(* goes on to switch contexts: the processor is then CurrentTask's.         *)
(***************************************************************************)
Stop(s, t) == [s EXCEPT !.running[t] = FALSE]

Sleep(s, t) ==
  IF ~s.running[t] THEN s
  ELSE IF t = CurrentTask(s) THEN RotateCurrentRunQueue(Stop(s, t), TRUE)
  ELSE [Stop(s, t) EXCEPT !.queue[s.level[t]] = Erase(@, t)]

(***************************************************************************)
(* The scheduling part of Finish: the current task leaves for good.  Its    *)
(* Task object is destroyed; running[t] = FALSE stands for that.            *)
(***************************************************************************)
Retire(s) == RotateCurrentRunQueue(Stop(s, CurrentTask(s)), TRUE)

-----------------------------------------------------------------------------
(* What the code relies on, conjunct by conjunct.                           *)

\* A queued task is runnable and is in the queue of its own level.
QueuedAtOwnLevel(s) ==
  \A lv \in Levels, t \in TaskIds :
    Holds(s.queue[lv], t) => s.running[t] /\ s.level[t] = lv

\* A runnable task is queued: it cannot be forgotten.
RunningIsQueued(s) ==
  \A t \in TaskIds : s.running[t] => Holds(s.queue[s.level[t]], t)

\* No queue holds a task twice.
Distinct(q) == \A i, j \in DOMAIN q : q[i] = q[j] => i = j

NoTaskTwice(s) == \A lv \in Levels : Distinct(s.queue[lv])

\* The idle task never stops, so some queue is never empty.
IdleRuns(s) == s.running[Idle]

\* running_[current_level_].front() exists whenever the code reads it.
HasCurrent(s) == s.queue[s.current] # <<>>

\* The current level is the highest that has a task, or a rescan is pending.
PriorityKept(s) ==
  s.changed \/ \A lv \in Levels : lv > s.current => s.queue[lv] = <<>>

WellFormed(s) ==
  /\ s \in Scheduler
  /\ QueuedAtOwnLevel(s)
  /\ RunningIsQueued(s)
  /\ NoTaskTwice(s)
  /\ IdleRuns(s)
  /\ HasCurrent(s)
  /\ PriorityKept(s)
=============================================================================
