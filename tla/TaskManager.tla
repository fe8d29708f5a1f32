----------------------------- MODULE TaskManager -----------------------------
(***************************************************************************)
(* class TaskManager of kernel/task.cpp: the tasks, their mailboxes, the    *)
(* preemptive scheduler and the exit-code protocol of Finish / WaitFinish.  *)
(*                                                                          *)
(* Every action is one call of a public method, run to its end: the callers *)
(* hold interrupts off around the calls that matter (module Kernel is about *)
(* where they do and where they do not).  A call is made either by the      *)
(* current task or by an interrupt handler, which borrows the processor     *)
(* from it.  The `while' loop of WaitFinish sleeps in its middle and is     *)
(* therefore two actions, one per iteration outcome.                        *)
(***************************************************************************)
EXTENDS RunQueues

CONSTANTS Messages,    \* what mailboxes carry
          ExitCodes,   \* what programs return
          NoCode,      \* no exit code
          MaxMessages, \* bound: length of a mailbox
          WakeLevels   \* the levels callers pass to Wakeup

ASSUME TaskManagerAssumption ==
  /\ NoCode \notin ExitCodes
  /\ MaxMessages \in Nat
  /\ WakeLevels \subseteq Levels

VARIABLES
  sched,         \* the scheduler record of RunQueues
  tasks,         \* ids of the objects in tasks_
  latestId,      \* latest_id_
  msgs,          \* Task::msgs_
  finishTasks,   \* finish_tasks_: NoCode where the map has no entry
  finishWaiter,  \* finish_waiter_: NoTask where the map has no entry
  child,         \* child[t]: the subtask t will wait for (ExecuteLine's subtask_id)
  inWait,        \* the tasks inside WaitFinish
  returned       \* history: what WaitFinish returned for a task, NoCode before

schedVars  == <<sched, tasks, latestId>>
finishVars == <<finishTasks, finishWaiter, child, inWait, returned>>
vars       == <<sched, tasks, latestId, msgs, finishTasks, finishWaiter,
                child, inWait, returned>>

NoTask  == 0
Current == CurrentTask(sched)

\* The current task executes its own code, outside WaitFinish.
Runs(t) == t = Current /\ t \notin inWait

Init ==
  /\ sched = InitScheduler
  /\ tasks = {Main, Idle}
  /\ latestId = Idle
  /\ msgs = [t \in TaskIds |-> <<>>]
  /\ finishTasks = [t \in TaskIds |-> NoCode]
  /\ finishWaiter = [t \in TaskIds |-> NoTask]
  /\ child = [t \in TaskIds |-> NoTask]
  /\ inWait = {}
  /\ returned = [t \in TaskIds |-> NoCode]

(***************************************************************************)
(* NewTask: the object exists, asleep, at the default level.  The caller    *)
(* may keep its id to wait for it (a pipeline) or forget it (noterm, a new  *)
(* terminal); a terminal has at most one subtask to wait for.               *)
(***************************************************************************)
NewTask(t, keeps) ==
  /\ Runs(t) /\ t # Idle
  /\ latestId < MaxTasks
  /\ keeps => child[t] = NoTask /\ t # Main
  /\ latestId' = latestId + 1
  /\ tasks' = tasks \union {latestId + 1}
  /\ child' = IF keeps THEN [child EXCEPT ![t] = latestId + 1] ELSE child
  /\ UNCHANGED <<sched, msgs, finishTasks, finishWaiter, inWait, returned>>

(***************************************************************************)
(* SwitchTask, from the LAPIC timer interrupt: whatever runs is preempted.  *)
(***************************************************************************)
SwitchTask ==
  /\ sched' = RotateCurrentRunQueue(sched, FALSE)
  /\ UNCHANGED <<tasks, latestId, msgs, finishVars>>

(***************************************************************************)
(* Sleep(task).  The current task puts itself to sleep, or another one: the *)
(* read of a terminal's keyboard by a `noterm' command sleeps the task that *)
(* owns the terminal (that one is not waiting for a subtask then).  Nobody  *)
(* sleeps the idle task, and an unknown id is the error kNoSuchTask, which  *)
(* changes nothing.                                                         *)
(***************************************************************************)
SleepTask(t) ==
  /\ Runs(Current)
  /\ t \in tasks \ (inWait \union {Idle})
  /\ sched' = Sleep(sched, t)
  /\ UNCHANGED <<tasks, latestId, msgs, finishVars>>

\* Wakeup(task, level), by the current task or by an interrupt handler.
WakeupTask(t, lv) ==
  /\ t \in tasks \ {Idle}
  /\ sched' = Wakeup(sched, t, lv)
  /\ UNCHANGED <<tasks, latestId, msgs, finishVars>>

\* SendMessage: the message is queued and its receiver woken, in this order.
SendMessage(t, m) ==
  /\ t \in tasks \ {Idle}
  /\ Len(msgs[t]) < MaxMessages
  /\ msgs' = [msgs EXCEPT ![t] = Append(@, m)]
  /\ sched' = Wakeup(sched, t, Same)
  /\ UNCHANGED <<tasks, latestId, finishVars>>

ReceiveMessage(t) ==
  /\ Runs(t)
  /\ msgs[t] # <<>>
  /\ msgs' = [msgs EXCEPT ![t] = Tail(@)]
  /\ UNCHANGED <<sched, tasks, latestId, finishVars>>

(***************************************************************************)
(* Finish: the task leaves the run queues, its object and its mailbox are   *)
(* destroyed, the exit code is kept for whoever asks, and a registered      *)
(* waiter is woken (after the next task was chosen).  The main and the idle *)
(* task never finish.  A terminal finishes between two command lines, with  *)
(* no subtask left to wait for.                                             *)
(***************************************************************************)
\* Mutant: the waiter is forgotten.
AfterFinish_NoWakeup(u) == Retire(sched)

AfterFinish(u) ==
  IF finishWaiter[u] = NoTask THEN Retire(sched)
  ELSE Wakeup(Retire(sched), finishWaiter[u], Same)

\* Mutant: the entry of finish_waiter_ is left behind.
Finish_KeepsWaiter(u, code) ==
  /\ Runs(u) /\ u \notin {Main, Idle}
  /\ child[u] = NoTask
  /\ tasks' = tasks \ {u}
  /\ msgs' = [msgs EXCEPT ![u] = <<>>]
  /\ finishTasks' = [finishTasks EXCEPT ![u] = code]
  /\ sched' = AfterFinish(u)
  /\ UNCHANGED <<latestId, finishWaiter, child, inWait, returned>>

\* Mutant: the exit code is kept only when somebody already waits for it.
Finish_DropsCode(u, code) ==
  /\ Runs(u) /\ u \notin {Main, Idle}
  /\ child[u] = NoTask
  /\ tasks' = tasks \ {u}
  /\ msgs' = [msgs EXCEPT ![u] = <<>>]
  /\ finishTasks' = IF finishWaiter[u] = NoTask THEN finishTasks
                    ELSE [finishTasks EXCEPT ![u] = code]
  /\ finishWaiter' = [finishWaiter EXCEPT ![u] = NoTask]
  /\ sched' = AfterFinish(u)
  /\ UNCHANGED <<latestId, child, inWait, returned>>

Finish(u, code) ==
  /\ Runs(u) /\ u \notin {Main, Idle}
  /\ child[u] = NoTask
  /\ tasks' = tasks \ {u}
  /\ msgs' = [msgs EXCEPT ![u] = <<>>]
  /\ finishTasks' = [finishTasks EXCEPT ![u] = code]
  /\ finishWaiter' = [finishWaiter EXCEPT ![u] = NoTask]
  /\ sched' = AfterFinish(u)
  /\ UNCHANGED <<latestId, child, inWait, returned>>

(***************************************************************************)
(* WaitFinish(child[t]), called by t.  Each iteration of its loop looks for *)
(* the exit code; when there is none it registers t and sleeps, and runs    *)
(* again from the test when t next has the processor: after Finish woke it, *)
(* or after any message did.                                                *)
(***************************************************************************)
Waiting(t) == t = Current /\ child[t] # NoTask

WaitFinishSleeps(t) ==
  /\ Waiting(t)
  /\ finishTasks[child[t]] = NoCode
  /\ finishWaiter' = [finishWaiter EXCEPT ![child[t]] = t]
  /\ inWait' = inWait \union {t}
  /\ sched' = Sleep(sched, t)
  /\ UNCHANGED <<tasks, latestId, msgs, finishTasks, child, returned>>

WaitFinishReturns(t) ==
  /\ Waiting(t)
  /\ finishTasks[child[t]] # NoCode
  /\ returned' = [returned EXCEPT ![child[t]] = finishTasks[child[t]]]
  /\ finishTasks' = [finishTasks EXCEPT ![child[t]] = NoCode]
  /\ child' = [child EXCEPT ![t] = NoTask]
  /\ inWait' = inWait \ {t}
  /\ UNCHANGED <<sched, tasks, latestId, msgs, finishWaiter>>

Next ==
  \/ SwitchTask
  \/ \E t \in TaskIds :
       \/ \E keeps \in BOOLEAN : NewTask(t, keeps)
       \/ SleepTask(t)
       \/ \E lv \in WakeLevels \union {Same} : WakeupTask(t, lv)
       \/ \E m \in Messages : SendMessage(t, m)
       \/ ReceiveMessage(t)
       \/ \E code \in ExitCodes : Finish(t, code)
       \/ WaitFinishSleeps(t)
       \/ WaitFinishReturns(t)

Spec == Init /\ [][Next]_vars

(***************************************************************************)
(* The timer interrupt keeps coming, and a time slice is long enough for a  *)
(* task inside WaitFinish to run one more iteration of its loop.            *)
(***************************************************************************)
FairSpec ==
  /\ Spec
  /\ WF_vars(SwitchTask)
  /\ \A t \in TaskIds : SF_vars(WaitFinishReturns(t))

-----------------------------------------------------------------------------
TypeOK ==
  /\ sched \in Scheduler
  /\ tasks \subseteq TaskIds
  /\ latestId \in TaskIds
  /\ msgs \in [TaskIds -> Seq(Messages)]
  /\ finishTasks \in [TaskIds -> ExitCodes \union {NoCode}]
  /\ finishWaiter \in [TaskIds -> TaskIds \union {NoTask}]
  /\ child \in [TaskIds -> TaskIds \union {NoTask}]
  /\ inWait \subseteq TaskIds
  /\ returned \in [TaskIds -> ExitCodes \union {NoCode}]

(***************************************************************************)
(* The run queues stay consistent through every sequence of calls: each     *)
(* runnable task is in exactly one queue, once, that of its level, the code *)
(* always finds a current task at the head of the current queue, and the    *)
(* current level is the highest non-empty one unless level_changed_ is set. *)
(***************************************************************************)
RunQueuesOK == WellFormed(sched)

(***************************************************************************)
(* Finish destroys a Task while raw pointers to tasks sit in running_ and   *)
(* in finish_waiter_: none of them may be left pointing to it, and no id is *)
(* given twice.                                                             *)
(***************************************************************************)
NoDanglingTask ==
  /\ \A lv \in Levels, t \in TaskIds : Holds(sched.queue[lv], t) => t \in tasks
  /\ \A u \in TaskIds : finishWaiter[u] # NoTask => finishWaiter[u] \in tasks
  /\ \A t \in tasks : t <= latestId

(***************************************************************************)
(* A task that sleeps inside WaitFinish is registered with a subtask that   *)
(* is still alive: the exit code has not come without waking it.            *)
(***************************************************************************)
WaiterNotLost ==
  \A t \in inWait : ~sched.running[t] =>
    /\ child[t] \in tasks
    /\ finishWaiter[child[t]] = t

(***************************************************************************)
(* The exit code of a subtask is there for its waiter until it is fetched,  *)
(* whichever of Finish and WaitFinish comes first, and it is fetched once.  *)
(***************************************************************************)
ExitCodeKept ==
  \A t, u \in TaskIds : child[t] = u /\ u # NoTask =>
    /\ u \in tasks <=> finishTasks[u] = NoCode
    /\ returned[u] = NoCode

(***************************************************************************)
(* When the processor changes hands it goes to the highest level that had   *)
(* work: whatever is queued above the new current task was asleep before    *)
(* this very call (the waiter that Finish wakes after choosing).            *)
(***************************************************************************)
SwitchesToHighest ==
  [][Current' # Current =>
       \A lv \in Levels, t \in TaskIds :
         lv > sched'.current /\ Holds(sched'.queue[lv], t) => ~sched.running[t]]_vars

(***************************************************************************)
(* A runnable task gets the processor again and again, as long as no task   *)
(* of a higher level is runnable and callers do not change levels for ever. *)
(***************************************************************************)
LevelsKeepChanging == []<><<sched'.level # sched.level>>_vars

Outranked(t) == \E u \in TaskIds : sched.running[u] /\ sched.level[u] > sched.level[t]

EveryoneRuns ==
  LevelsKeepChanging \/
  \A t \in TaskIds : []<>(t = Current \/ ~sched.running[t] \/ Outranked(t))

(***************************************************************************)
(* Once its subtask has finished, WaitFinish returns, unless tasks of a     *)
(* higher level keep the processor or levels are changed for ever.          *)
(***************************************************************************)
ResultReady(t) == t \in inWait /\ finishTasks[child[t]] # NoCode

WaitFinishEnds ==
  LevelsKeepChanging \/ \A t \in TaskIds : []<>(~ResultReady(t) \/ Outranked(t))
=============================================================================
