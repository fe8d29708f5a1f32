-------------------------- MODULE TaskManagerProofs --------------------------
(***************************************************************************)
(* The safety of TaskManager for every number of tasks, levels, messages    *)
(* and exit codes.  WaiterNotLost and ExitCodeKept are not inductive by     *)
(* themselves: they also need that a subtask has one parent, that parents   *)
(* are alive, that finish_waiter_ names a task that really waits, and that  *)
(* nothing is recorded of a task that does not exist yet.                   *)
(***************************************************************************)
EXTENDS TaskManager, RunQueuesProofs

Alive == \A t \in TaskIds : sched.running[t] => t \in tasks

Parents ==
  /\ \A t \in TaskIds : child[t] # NoTask => t \in tasks \ {Idle} /\ child[t] <= latestId
  /\ \A t, v \in TaskIds : child[t] = child[v] /\ child[t] # NoTask => t = v
  /\ \A t \in inWait : child[t] # NoTask

Registered ==
  \A u \in TaskIds : finishWaiter[u] # NoTask =>
    /\ u \in tasks
    /\ finishWaiter[u] \in inWait
    /\ child[finishWaiter[u]] = u

Unborn ==
  \A u \in TaskIds : u > latestId =>
    /\ u \notin tasks
    /\ finishTasks[u] = NoCode
    /\ returned[u] = NoCode

IInv ==
  /\ TypeOK
  /\ RunQueuesOK
  /\ Alive
  /\ Parents
  /\ Registered
  /\ Unborn
  /\ WaiterNotLost
  /\ ExitCodeKept

-----------------------------------------------------------------------------
\* What an action may assume: the constants, the types, the current task.
LEMMA Facts ==
  ASSUME IInv
  PROVE  /\ TypeOK /\ WellFormed(sched) /\ sched \in Scheduler
         /\ Current \in tasks /\ sched.running[Current]
         /\ sched.running \in [TaskIds -> BOOLEAN]
         /\ TaskIds \subseteq Nat \ {0} /\ NoTask \notin TaskIds
         /\ Idle \in TaskIds /\ Main \in TaskIds /\ Main # Idle
<1>1. TypeOK /\ WellFormed(sched)
  BY DEF IInv, RunQueuesOK
<1>2. /\ sched \in Scheduler /\ CurrentTask(sched) \in TaskIds
      /\ sched.running[CurrentTask(sched)] /\ sched.running \in [TaskIds -> BOOLEAN]
  BY <1>1, WellFormedFacts
<1>3. /\ TaskIds \subseteq Nat \ {0} /\ NoTask \notin TaskIds
      /\ Idle \in TaskIds /\ Main \in TaskIds /\ Main # Idle
  BY RunQueuesAssumption DEF TaskIds, NoTask, Idle, Main
<1> QED
  BY <1>1, <1>2, <1>3 DEF IInv, Alive, Current

LEMMA InitIInv == Init => IInv
<1> SUFFICES ASSUME Init PROVE IInv
  OBVIOUS
<1>1. WellFormed(sched) /\ sched \in Scheduler
  BY InitWellFormed DEF Init, WellFormed
<1>2. Main \in TaskIds /\ Idle \in TaskIds /\ Main < Idle /\ TaskIds \subseteq Int
  BY RunQueuesAssumption DEF TaskIds, Main, Idle
<1>3. \A t \in TaskIds : sched.running[t] = (t \in {Main, Idle})
  BY DEF Init, InitScheduler
<1>4. TypeOK
  BY <1>1, <1>2 DEF Init, TypeOK
<1>5. Alive /\ Parents /\ Registered /\ WaiterNotLost /\ ExitCodeKept
  BY <1>2, <1>3 DEF Init, Alive, Parents, Registered, WaiterNotLost, ExitCodeKept
<1>6. Unborn
  BY <1>2 DEF Init, Unborn, Main, Idle
<1> QED
  BY <1>1, <1>4, <1>5, <1>6 DEF IInv, RunQueuesOK

\* NewTask: the new id is not known anywhere yet.
LEMMA NewTaskStep ==
  ASSUME IInv, NEW t \in TaskIds, NEW keeps \in BOOLEAN, NewTask(t, keeps)
  PROVE  IInv'
<1> DEFINE n == latestId + 1
<1>1. /\ TypeOK /\ WellFormed(sched) /\ Current \in tasks
      /\ TaskIds \subseteq Nat \ {0} /\ NoTask \notin TaskIds
  BY Facts
<1>2. /\ t \in tasks \ {Idle} /\ n \in TaskIds /\ n > latestId /\ latestId \in Nat
      /\ \A u \in TaskIds : u > n => u > latestId
  BY <1>1, RunQueuesAssumption DEF NewTask, Runs, TaskIds, TypeOK
<1>3. /\ tasks' = tasks \union {n} /\ latestId' = n
      /\ child' = IF keeps THEN [child EXCEPT ![t] = n] ELSE child
      /\ (keeps => child[t] = NoTask)
      /\ UNCHANGED <<sched, msgs, finishTasks, finishWaiter, inWait, returned>>
  BY DEF NewTask
<1> HIDE DEF n
<1>4. TypeOK'
  BY <1>1, <1>2, <1>3 DEF TypeOK
<1>5. RunQueuesOK' /\ Alive'
  BY <1>1, <1>3 DEF RunQueuesOK, IInv, Alive
<1>6. n \notin tasks /\ finishTasks[n] = NoCode /\ returned[n] = NoCode
  BY <1>2 DEF IInv, Unborn
<1>7. \A v \in TaskIds : child[v] # n
  <2>1. \A v \in TaskIds : child[v] # NoTask => child[v] <= latestId
    BY DEF IInv, Parents
  <2>2. n # NoTask /\ n \in Nat /\ \A v \in TaskIds : child[v] # NoTask => child[v] \in Nat
    BY <1>1, <1>2 DEF TypeOK
  <2> QED
    BY <1>2, <2>1, <2>2
<1>8. \A v \in TaskIds : child'[v] = child[v] \/ (v = t /\ keeps /\ child'[v] = n /\ child[v] = NoTask)
  BY <1>3, <1>1 DEF TypeOK
<1>9. Parents'
  <2>1. ASSUME NEW v \in TaskIds, child'[v] # NoTask
        PROVE  v \in tasks' \ {Idle} /\ child'[v] <= latestId'
    <3>1. CASE child'[v] = child[v]
      <4>0. child[v] \in TaskIds /\ n \in Int
        BY <2>1, <3>1, <1>1, <1>2 DEF TypeOK
      <4>1. v \in tasks \ {Idle} /\ child[v] <= latestId
        BY <2>1, <3>1 DEF IInv, Parents
      <4>3. child[v] \in Int
        BY <4>0 DEF TaskIds
      <4>2. child[v] <= n
        BY <4>0, <4>1, <4>3, <1>2
      <4> QED
        BY <3>1, <4>1, <4>2, <1>3
    <3>2. CASE v = t /\ child'[v] = n
      BY <3>2, <1>1, <1>2, <1>3
    <3> QED
      BY <3>1, <3>2, <1>8
  <2>2. ASSUME NEW v \in TaskIds, NEW w \in TaskIds, child'[v] = child'[w], child'[v] # NoTask
        PROVE  v = w
    BY <2>2, <1>7, <1>8 DEF IInv, Parents
  <2>3. ASSUME NEW v \in inWait PROVE child'[v] # NoTask
    BY <2>3, <1>1, <1>2, <1>8 DEF IInv, Parents, TypeOK
  <2> QED
    BY <2>1, <2>2, <2>3, <1>3 DEF Parents
<1>10. \A v \in inWait : v \in TaskIds /\ child'[v] = child[v]
  BY <1>1, <1>8 DEF IInv, Parents, TypeOK
<1>11. Registered'
  BY <1>1, <1>3, <1>10 DEF IInv, Registered, TypeOK
<1>12. Unborn'
  BY <1>1, <1>2, <1>3 DEF IInv, Unborn, TypeOK
<1>13. WaiterNotLost'
  BY <1>3, <1>10 DEF IInv, WaiterNotLost
<1>14. ExitCodeKept'
  <2> SUFFICES ASSUME NEW v \in TaskIds, NEW u \in TaskIds, child'[v] = u
               PROVE  /\ u \in tasks' <=> finishTasks[u] = NoCode
                      /\ returned[u] = NoCode
    BY <1>3 DEF ExitCodeKept
  <2>1. CASE child'[v] = n
    BY <2>1, <1>3, <1>6
  <2>2. CASE child'[v] = child[v]
    <3>1. child[v] = u /\ u # NoTask /\ u # n
      BY <2>2, <1>1, <1>7
    <3>2. (u \in tasks <=> finishTasks[u] = NoCode) /\ returned[u] = NoCode
      BY <3>1 DEF IInv, ExitCodeKept
    <3> QED
      BY <3>1, <3>2, <1>3
  <2> QED
    BY <2>1, <2>2, <1>8
<1> QED
  BY <1>4, <1>5, <1>9, <1>11, <1>12, <1>13, <1>14 DEF IInv

(***************************************************************************)
(* The calls that only schedule: the invariant survives as soon as the run  *)
(* queues stay well formed, no dead task becomes runnable and no task that  *)
(* waits stops being so.                                                    *)
(***************************************************************************)
LEMMA SchedulingStep ==
  ASSUME IInv, WellFormed(sched'),
         \A v \in TaskIds : sched'.running[v] => sched.running[v] \/ v \in tasks,
         \A v \in inWait : sched.running[v] => sched'.running[v],
         msgs' \in [TaskIds -> Seq(Messages)],
         UNCHANGED <<tasks, latestId, finishVars>>
  PROVE  IInv'
<1>1. TypeOK' /\ RunQueuesOK'
  BY DEF IInv, TypeOK, RunQueuesOK, finishVars, WellFormed
<1>2. Alive'
  BY DEF IInv, Alive
<1>3. Parents' /\ Registered' /\ Unborn' /\ ExitCodeKept'
  BY DEF IInv, Parents, Registered, Unborn, ExitCodeKept, finishVars
<1>4. WaiterNotLost'
  BY DEF IInv, WaiterNotLost, finishVars
<1> QED
  BY <1>1, <1>2, <1>3, <1>4 DEF IInv

LEMMA SwitchTaskStep ==
  ASSUME IInv, SwitchTask
  PROVE  IInv'
<1>1. WellFormed(sched) /\ sched \in Scheduler /\ TypeOK
  BY Facts
<1>2. WellFormed(sched') /\ sched'.running = sched.running
  BY <1>1, RotateAwake, RotateRunning DEF SwitchTask
<1>3. msgs' \in [TaskIds -> Seq(Messages)] /\ UNCHANGED <<tasks, latestId, finishVars>>
  BY <1>1 DEF SwitchTask, TypeOK
<1> QED
  BY <1>2, <1>3, SchedulingStep

LEMMA SleepTaskStep ==
  ASSUME IInv, NEW t \in TaskIds, SleepTask(t)
  PROVE  IInv'
<1>1. WellFormed(sched) /\ sched.running \in [TaskIds -> BOOLEAN] /\ TypeOK
  BY Facts
<1>2. WellFormed(sched') /\ sched'.running = [sched.running EXCEPT ![t] = FALSE]
  BY <1>1, SleepWellFormed, SleepRunning DEF SleepTask
<1>3. /\ \A v \in TaskIds : sched'.running[v] => sched.running[v] \/ v \in tasks
      /\ \A v \in inWait : sched.running[v] => sched'.running[v]
  BY <1>1, <1>2 DEF SleepTask, TypeOK
<1>4. msgs' \in [TaskIds -> Seq(Messages)] /\ UNCHANGED <<tasks, latestId, finishVars>>
  BY <1>1 DEF SleepTask, TypeOK
<1> QED
  BY <1>2, <1>3, <1>4, SchedulingStep

\* A wake-up, with or without a message.
LEMMA WakingStep ==
  ASSUME IInv, NEW t \in TaskIds, NEW l \in Levels \union {Same},
         t \in tasks, sched' = Wakeup(sched, t, l),
         msgs' \in [TaskIds -> Seq(Messages)],
         UNCHANGED <<tasks, latestId, finishVars>>
  PROVE  IInv'
<1>1. WellFormed(sched) /\ sched.running \in [TaskIds -> BOOLEAN] /\ TypeOK
  BY Facts
<1>2. WellFormed(sched') /\ sched'.running = [sched.running EXCEPT ![t] = TRUE]
  BY <1>1, WakeupWellFormed, WakeupRunning
<1>3. /\ \A v \in TaskIds : sched'.running[v] => sched.running[v] \/ v \in tasks
      /\ \A v \in inWait : sched.running[v] => sched'.running[v]
  BY <1>1, <1>2 DEF TypeOK
<1> QED
  BY <1>2, <1>3, SchedulingStep

LEMMA WakeupTaskStep ==
  ASSUME IInv, NEW t \in TaskIds, NEW l \in WakeLevels \union {Same}, WakeupTask(t, l)
  PROVE  IInv'
<1>1. TypeOK /\ l \in Levels \union {Same}
  BY Facts, TaskManagerAssumption
<1>2. /\ msgs' \in [TaskIds -> Seq(Messages)] /\ UNCHANGED <<tasks, latestId, finishVars>>
      /\ t \in tasks /\ sched' = Wakeup(sched, t, l)
  BY <1>1 DEF WakeupTask, TypeOK
<1> QED
  BY <1>1, <1>2, WakingStep

LEMMA SendMessageStep ==
  ASSUME IInv, NEW t \in TaskIds, NEW m \in Messages, SendMessage(t, m)
  PROVE  IInv'
<1>1. TypeOK /\ Same \in Levels \union {Same}
  BY Facts
<1>2. msgs' \in [TaskIds -> Seq(Messages)]
  BY <1>1, AppendProperties DEF SendMessage, TypeOK
<1>3. /\ UNCHANGED <<tasks, latestId, finishVars>>
      /\ t \in tasks /\ sched' = Wakeup(sched, t, Same)
  BY DEF SendMessage
<1> QED
  BY <1>1, <1>2, <1>3, WakingStep

LEMMA ReceiveMessageStep ==
  ASSUME IInv, NEW t \in TaskIds, ReceiveMessage(t)
  PROVE  IInv'
<1>1. TypeOK /\ WellFormed(sched)
  BY Facts
<1>2. msgs' \in [TaskIds -> Seq(Messages)]
  BY <1>1, HeadTailProperties DEF ReceiveMessage, TypeOK
<1>3. UNCHANGED <<sched, tasks, latestId, finishVars>>
  BY DEF ReceiveMessage
<1> QED
  BY <1>1, <1>2, <1>3, SchedulingStep

\* Finish: whoever waits for the task is the one that is woken.
LEMMA FinishStep ==
  ASSUME IInv, NEW u \in TaskIds, NEW code \in ExitCodes, Finish(u, code)
  PROVE  IInv'
<1> DEFINE w == finishWaiter[u]
<1>1. /\ TypeOK /\ WellFormed(sched) /\ sched.running \in [TaskIds -> BOOLEAN]
      /\ Current \in tasks /\ NoTask \notin TaskIds /\ NoCode \notin ExitCodes
  BY Facts, TaskManagerAssumption
<1>2. /\ u = Current /\ u \in tasks \ {Main, Idle} /\ u \notin inWait /\ child[u] = NoTask
      /\ tasks' = tasks \ {u} /\ msgs' = [msgs EXCEPT ![u] = <<>>]
      /\ finishTasks' = [finishTasks EXCEPT ![u] = code]
      /\ finishWaiter' = [finishWaiter EXCEPT ![u] = NoTask]
      /\ sched' = AfterFinish(u)
      /\ UNCHANGED <<latestId, child, inWait, returned>>
  BY <1>1 DEF Finish, Runs
<1>3. WellFormed(Retire(sched)) /\ Retire(sched).running = [sched.running EXCEPT ![u] = FALSE]
  BY <1>1, <1>2, RotateAsleep, RetireRunning DEF Retire, Current
<1>4. w # NoTask => w \in inWait /\ w \in TaskIds /\ w # u /\ w \in tasks /\ child[w] = u
  BY <1>1, <1>2 DEF IInv, Registered, Parents, TypeOK
<1>5. /\ WellFormed(sched')
      /\ sched'.running = IF w = NoTask THEN [sched.running EXCEPT ![u] = FALSE]
                          ELSE [[sched.running EXCEPT ![u] = FALSE] EXCEPT ![w] = TRUE]
  <2>1. CASE w = NoTask
    BY <2>1, <1>2, <1>3 DEF AfterFinish
  <2>2. CASE w # NoTask
    <3> DEFINE r == Retire(sched)
    <3>1. sched' = Wakeup(r, w, Same) /\ w \in TaskIds /\ WellFormed(r)
          /\ r.running = [sched.running EXCEPT ![u] = FALSE]
      BY <2>2, <1>2, <1>3, <1>4 DEF AfterFinish
    <3> HIDE DEF r, w
    <3>2. WellFormed(Wakeup(r, w, Same))
      BY <3>1, WakeupWellFormed
    <3>3. Wakeup(r, w, Same).running = [r.running EXCEPT ![w] = TRUE]
      BY <3>1, WakeupRunning
    <3> QED
      BY <2>2, <3>1, <3>2, <3>3
  <2> QED
    BY <2>1, <2>2
<1> HIDE DEF w
<1>6. \A v \in TaskIds : v # u /\ v # w => sched'.running[v] = sched.running[v]
  BY <1>1, <1>5
<1>7. ~sched'.running[u] /\ (w # NoTask => sched'.running[w])
  BY <1>1, <1>4, <1>5
<1>8. TypeOK'
  <2>1. sched' \in Scheduler
    BY <1>5 DEF WellFormed
  <2>2. msgs' \in [TaskIds -> Seq(Messages)]
    BY <1>1, <1>2 DEF TypeOK
  <2>3. /\ finishTasks' \in [TaskIds -> ExitCodes \union {NoCode}]
        /\ finishWaiter' \in [TaskIds -> TaskIds \union {NoTask}]
    BY <1>1, <1>2 DEF TypeOK
  <2> QED
    BY <2>1, <2>2, <2>3, <1>1, <1>2 DEF TypeOK
<1>9. RunQueuesOK'
  BY <1>5 DEF RunQueuesOK
<1>10. Alive'
  BY <1>1, <1>2, <1>4, <1>6, <1>7 DEF IInv, Alive
<1>11. Parents'
  BY <1>1, <1>2 DEF IInv, Parents
<1>12. Registered'
  <2> SUFFICES ASSUME NEW x \in TaskIds, finishWaiter'[x] # NoTask
               PROVE  x \in tasks' /\ finishWaiter'[x] \in inWait /\ child[finishWaiter'[x]] = x
    BY <1>2 DEF Registered
  <2>1. x # u /\ finishWaiter'[x] = finishWaiter[x]
    BY <1>1, <1>2 DEF TypeOK
  <2> QED
    BY <2>1, <1>2 DEF IInv, Registered
<1>13. Unborn'
  <2> SUFFICES ASSUME NEW x \in TaskIds, x > latestId
               PROVE  x \notin tasks' /\ finishTasks'[x] = NoCode /\ returned[x] = NoCode
    BY <1>2 DEF Unborn
  <2>1. x \notin tasks /\ x # u /\ finishTasks'[x] = finishTasks[x]
    BY <1>1, <1>2 DEF IInv, Unborn, TypeOK
  <2> QED
    BY <2>1, <1>2 DEF IInv, Unborn
<1>14. WaiterNotLost'
  <2> SUFFICES ASSUME NEW v \in inWait, ~sched'.running[v]
               PROVE  child[v] \in tasks' /\ finishWaiter'[child[v]] = v
    BY <1>2 DEF WaiterNotLost
  <2>1. v \in TaskIds /\ v # u /\ v # w
    BY <1>1, <1>2, <1>4, <1>7 DEF TypeOK
  <2>2. child[v] \in tasks /\ finishWaiter[child[v]] = v
    BY <2>1, <1>6 DEF IInv, WaiterNotLost
  <2>3. child[v] # u
    BY <2>1, <2>2 DEF w
  <2> QED
    BY <2>2, <2>3, <1>1, <1>2 DEF TypeOK
<1>15. ExitCodeKept'
  <2> SUFFICES ASSUME NEW v \in TaskIds, NEW x \in TaskIds, child[v] = x, x # NoTask
               PROVE  /\ x \in tasks' <=> finishTasks'[x] = NoCode
                      /\ returned[x] = NoCode
    BY <1>2 DEF ExitCodeKept
  <2>1. (x \in tasks <=> finishTasks[x] = NoCode) /\ returned[x] = NoCode
    BY DEF IInv, ExitCodeKept
  <2>2. CASE x = u
    BY <2>1, <2>2, <1>1, <1>2 DEF TypeOK
  <2>3. CASE x # u
    BY <2>1, <2>3, <1>1, <1>2 DEF TypeOK
  <2> QED
    BY <2>2, <2>3
<1> QED
  BY <1>8, <1>9, <1>10, <1>11, <1>12, <1>13, <1>14, <1>15 DEF IInv

\* WaitFinish finds no exit code: the subtask is alive, and will find its waiter.
LEMMA WaitFinishSleepsStep ==
  ASSUME IInv, NEW t \in TaskIds, WaitFinishSleeps(t)
  PROVE  IInv'
<1> DEFINE c == child[t]
<1>1. /\ TypeOK /\ WellFormed(sched) /\ sched.running \in [TaskIds -> BOOLEAN]
      /\ Current \in tasks /\ NoTask \notin TaskIds
  BY Facts
<1>2. /\ t = Current /\ t \in tasks /\ c # NoTask /\ finishTasks[c] = NoCode
      /\ finishWaiter' = [finishWaiter EXCEPT ![c] = t]
      /\ inWait' = inWait \union {t}
      /\ sched' = Sleep(sched, t)
      /\ UNCHANGED <<tasks, latestId, msgs, finishTasks, child, returned>>
  BY <1>1 DEF WaitFinishSleeps, Waiting
<1>3. c \in TaskIds /\ t # Idle /\ c \in tasks
  BY <1>1, <1>2 DEF IInv, Parents, ExitCodeKept, TypeOK
<1>4. WellFormed(sched') /\ sched'.running = [sched.running EXCEPT ![t] = FALSE]
  BY <1>1, <1>2, <1>3, SleepWellFormed, SleepRunning
<1>5. \A v \in TaskIds : child[v] = c => v = t
  BY <1>2 DEF IInv, Parents
<1> HIDE DEF c
<1>6. TypeOK'
  <2>1. sched' \in Scheduler
    BY <1>4 DEF WellFormed
  <2>2. finishWaiter' \in [TaskIds -> TaskIds \union {NoTask}]
    BY <1>1, <1>2 DEF TypeOK
  <2> QED
    BY <2>1, <2>2, <1>1, <1>2 DEF TypeOK
<1>7. RunQueuesOK' /\ Alive'
  BY <1>1, <1>2, <1>4 DEF RunQueuesOK, IInv, Alive
<1>8. Parents'
  BY <1>2 DEF IInv, Parents, c
<1>9. Registered'
  BY <1>1, <1>2, <1>3 DEF IInv, Registered, TypeOK, c
<1>10. Unborn'
  BY <1>2 DEF IInv, Unborn
<1>11. WaiterNotLost'
  <2> SUFFICES ASSUME NEW v \in inWait', ~sched'.running[v]
               PROVE  child[v] \in tasks /\ finishWaiter'[child[v]] = v
    BY <1>2 DEF WaiterNotLost
  <2>1. CASE v = t
    BY <2>1, <1>1, <1>2, <1>3 DEF TypeOK, c
  <2>2. CASE v # t
    <3>1. v \in inWait /\ v \in TaskIds /\ ~sched.running[v]
      BY <2>2, <1>1, <1>2, <1>4 DEF TypeOK
    <3>2. child[v] \in tasks /\ finishWaiter[child[v]] = v /\ child[v] # c
      BY <2>2, <3>1, <1>5 DEF IInv, WaiterNotLost
    <3> QED
      BY <3>2, <1>1, <1>2 DEF TypeOK
  <2> QED
    BY <2>1, <2>2
<1>12. ExitCodeKept'
  BY <1>2 DEF IInv, ExitCodeKept
<1> QED
  BY <1>6, <1>7, <1>8, <1>9, <1>10, <1>11, <1>12 DEF IInv

\* WaitFinish returns: the code is taken and nobody else could want it.
LEMMA WaitFinishReturnsStep ==
  ASSUME IInv, NEW t \in TaskIds, WaitFinishReturns(t)
  PROVE  IInv'
<1> DEFINE c == child[t]
<1>1. /\ TypeOK /\ WellFormed(sched) /\ sched.running \in [TaskIds -> BOOLEAN]
      /\ NoTask \notin TaskIds /\ TaskIds \subseteq Nat \ {0}
  BY Facts
<1>2. /\ c # NoTask /\ finishTasks[c] # NoCode
      /\ returned' = [returned EXCEPT ![c] = finishTasks[c]]
      /\ finishTasks' = [finishTasks EXCEPT ![c] = NoCode]
      /\ child' = [child EXCEPT ![t] = NoTask]
      /\ inWait' = inWait \ {t}
      /\ UNCHANGED <<sched, tasks, latestId, msgs, finishWaiter>>
  BY DEF WaitFinishReturns, Waiting
<1>3. /\ c \in TaskIds /\ c \notin tasks /\ finishWaiter[c] = NoTask
      /\ ~(c > latestId)
  <2>1. c \in TaskIds
    BY <1>1, <1>2 DEF TypeOK
  <2>2. c \notin tasks
    BY <1>2, <2>1 DEF IInv, ExitCodeKept
  <2>3. finishWaiter[c] = NoTask
    BY <2>1, <2>2 DEF IInv, Registered
  <2>4. ~(c > latestId)
    BY <1>2, <2>1 DEF IInv, Unborn
  <2> QED
    BY <2>1, <2>2, <2>3, <2>4
<1>4. \A v \in TaskIds : child[v] = c => v = t
  BY <1>2 DEF IInv, Parents
<1>5. \A v \in TaskIds : v # t => child'[v] = child[v]
  BY <1>1, <1>2 DEF TypeOK
<1>6. child'[t] = NoTask
  BY <1>1, <1>2 DEF TypeOK
<1>7. TypeOK'
  <2>1. /\ returned' \in [TaskIds -> ExitCodes \union {NoCode}]
        /\ finishTasks' \in [TaskIds -> ExitCodes \union {NoCode}]
        /\ child' \in [TaskIds -> TaskIds \union {NoTask}]
    BY <1>1, <1>2, <1>3 DEF TypeOK
  <2> QED
    BY <2>1, <1>1, <1>2 DEF TypeOK
<1> HIDE DEF c
<1>8. RunQueuesOK' /\ Alive'
  BY <1>1, <1>2 DEF RunQueuesOK, IInv, Alive
<1>9. Parents'
  <2>1. ASSUME NEW v \in TaskIds, child'[v] # NoTask
        PROVE  v \in tasks \ {Idle} /\ child'[v] <= latestId
    BY <2>1, <1>5, <1>6 DEF IInv, Parents
  <2>2. ASSUME NEW v \in TaskIds, NEW x \in TaskIds, child'[v] = child'[x], child'[v] # NoTask
        PROVE  v = x
    BY <2>2, <1>5, <1>6 DEF IInv, Parents
  <2>3. ASSUME NEW v \in inWait' PROVE child'[v] # NoTask
    BY <2>3, <1>1, <1>2, <1>5 DEF IInv, Parents, TypeOK
  <2> QED
    BY <2>1, <2>2, <2>3, <1>2 DEF Parents
<1>10. Registered'
  <2> SUFFICES ASSUME NEW x \in TaskIds, finishWaiter[x] # NoTask
               PROVE  /\ x \in tasks /\ finishWaiter[x] \in inWait'
                      /\ child'[finishWaiter[x]] = x
    BY <1>2 DEF Registered
  <2>1. /\ x \in tasks /\ finishWaiter[x] \in inWait /\ child[finishWaiter[x]] = x
        /\ x # c /\ finishWaiter[x] \in TaskIds
    BY <1>1, <1>3 DEF IInv, Registered, TypeOK
  <2>2. finishWaiter[x] # t
    BY <2>1 DEF c
  <2> QED
    BY <2>1, <2>2, <1>2, <1>5
<1>11. Unborn'
  <2> SUFFICES ASSUME NEW x \in TaskIds, x > latestId
               PROVE  x \notin tasks /\ finishTasks'[x] = NoCode /\ returned'[x] = NoCode
    BY <1>2 DEF Unborn
  <2>1. x # c
    BY <1>3
  <2> QED
    BY <2>1, <1>1, <1>2 DEF IInv, Unborn, TypeOK
<1>12. WaiterNotLost'
  <2> SUFFICES ASSUME NEW v \in inWait', ~sched.running[v]
               PROVE  child'[v] \in tasks /\ finishWaiter[child'[v]] = v
    BY <1>2 DEF WaiterNotLost
  <2> QED
    BY <1>1, <1>2, <1>5 DEF IInv, WaiterNotLost, TypeOK
<1>13. ExitCodeKept'
  <2> SUFFICES ASSUME NEW v \in TaskIds, NEW x \in TaskIds, child'[v] = x
               PROVE  /\ x \in tasks <=> finishTasks'[x] = NoCode
                      /\ returned'[x] = NoCode
    BY <1>2 DEF ExitCodeKept
  <2>1. v # t /\ child[v] = x /\ x # NoTask /\ x # c
    BY <1>1, <1>4, <1>5, <1>6
  <2>2. (x \in tasks <=> finishTasks[x] = NoCode) /\ returned[x] = NoCode
    BY <2>1 DEF IInv, ExitCodeKept
  <2> QED
    BY <2>1, <2>2, <1>1, <1>2 DEF TypeOK
<1> QED
  BY <1>7, <1>8, <1>9, <1>10, <1>11, <1>12, <1>13 DEF IInv

LEMMA StepIInv == IInv /\ [Next]_vars => IInv'
<1> SUFFICES ASSUME IInv, [Next]_vars PROVE IInv'
  OBVIOUS
<1>1. CASE SwitchTask
  BY <1>1, SwitchTaskStep
<1>2. ASSUME NEW t \in TaskIds, NEW keeps \in BOOLEAN, NewTask(t, keeps) PROVE IInv'
  BY <1>2, NewTaskStep
<1>3. ASSUME NEW t \in TaskIds, SleepTask(t) PROVE IInv'
  BY <1>3, SleepTaskStep
<1>4. ASSUME NEW t \in TaskIds, NEW l \in WakeLevels \union {Same}, WakeupTask(t, l) PROVE IInv'
  BY <1>4, WakeupTaskStep
<1>5. ASSUME NEW t \in TaskIds, NEW m \in Messages, SendMessage(t, m) PROVE IInv'
  BY <1>5, SendMessageStep
<1>6. ASSUME NEW t \in TaskIds, ReceiveMessage(t) PROVE IInv'
  BY <1>6, ReceiveMessageStep
<1>7. ASSUME NEW t \in TaskIds, NEW code \in ExitCodes, Finish(t, code) PROVE IInv'
  BY <1>7, FinishStep
<1>8. ASSUME NEW t \in TaskIds, WaitFinishSleeps(t) PROVE IInv'
  BY <1>8, WaitFinishSleepsStep
<1>9. ASSUME NEW t \in TaskIds, WaitFinishReturns(t) PROVE IInv'
  BY <1>9, WaitFinishReturnsStep
<1>10. CASE UNCHANGED vars
  <2>1. WellFormed(sched') /\ msgs' \in [TaskIds -> Seq(Messages)]
        /\ UNCHANGED <<sched, tasks, latestId, finishVars>>
    BY <1>10, Facts DEF vars, finishVars, TypeOK
  <2> QED
    BY <2>1, SchedulingStep
<1> QED
  BY <1>1, <1>2, <1>3, <1>4, <1>5, <1>6, <1>7, <1>8, <1>9, <1>10 DEF Next

-----------------------------------------------------------------------------
LEMMA SpecIInv == Spec => []IInv
BY InitIInv, StepIInv, PTL DEF Spec

\* The variables keep their types through every sequence of calls of task.cpp.
THEOREM TypeCorrect == Spec => []TypeOK
<1>1. IInv => TypeOK
  BY DEF IInv
<1> QED
  BY <1>1, SpecIInv, PTL

(***************************************************************************)
(* The run queues are well formed after every sequence of calls: no runnable *)
(* task is forgotten, none is queued twice, running_[current_level_] has a  *)
(* front, and no higher level is ignored.                                   *)
(***************************************************************************)
THEOREM RunQueuesCorrect == Spec => []RunQueuesOK
<1>1. IInv => RunQueuesOK
  BY DEF IInv
<1> QED
  BY <1>1, SpecIInv, PTL

\* Finish leaves no pointer to the task it destroys in running_ or finish_waiter_.
THEOREM NoDangling == Spec => []NoDanglingTask
<1>1. IInv => NoDanglingTask
  <2> SUFFICES ASSUME IInv PROVE NoDanglingTask
    OBVIOUS
  <2>1. TypeOK /\ WellFormed(sched) /\ TaskIds \subseteq Nat \ {0}
    BY Facts
  <2>2. \A lv \in Levels, t \in TaskIds : Holds(sched.queue[lv], t) => t \in tasks
    BY <2>1 DEF WellFormed, QueuedAtOwnLevel, IInv, Alive
  <2>3. \A u \in TaskIds : finishWaiter[u] # NoTask => finishWaiter[u] \in tasks
    BY <2>1 DEF IInv, Registered, Parents, TypeOK
  <2>4. \A t \in tasks : t <= latestId
    BY <2>1 DEF IInv, Unborn, TypeOK
  <2> QED
    BY <2>2, <2>3, <2>4 DEF NoDanglingTask
<1> QED
  BY <1>1, SpecIInv, PTL

\* WaitFinish never sleeps through the end of its subtask.
THEOREM NoLostWaiter == Spec => []WaiterNotLost
<1>1. IInv => WaiterNotLost
  BY DEF IInv
<1> QED
  BY <1>1, SpecIInv, PTL

\* An exit code waits for its reader and is read once.
THEOREM ExitCodesKept == Spec => []ExitCodeKept
<1>1. IInv => ExitCodeKept
  BY DEF IInv
<1> QED
  BY <1>1, SpecIInv, PTL

(***************************************************************************)
(* The step property: it needs the whole invariant in the state before the  *)
(* step, and that the run queues are well formed after it.                  *)
(***************************************************************************)
GoesToHighest ==
  Current' # Current =>
    \A lv \in Levels, t \in TaskIds :
      lv > sched'.current /\ Holds(sched'.queue[lv], t) => ~sched.running[t]

LEMMA RotationGoesToHighest ==
  ASSUME NEW s \in Scheduler, NEW b \in BOOLEAN,
         sched' = RotateCurrentRunQueue(s, b), WellFormed(sched')
  PROVE  GoesToHighest
BY NoneAboveAfterRotate DEF GoesToHighest

\* Sleep, by WaitFinish too: the processor changes hands only when its owner sleeps.
LEMMA SleepGoesToHighest ==
  ASSUME IInv, NEW t \in TaskIds \ {Idle}, sched' = Sleep(sched, t)
  PROVE  GoesToHighest
<1>1. WellFormed(sched) /\ sched \in Scheduler /\ WellFormed(sched')
  BY Facts, SleepWellFormed
<1>2. CASE ~sched.running[t] \/ t # CurrentTask(sched)
  <2>1. Current' = Current
    BY <1>1, <1>2, SleepKeepsCurrent DEF Current, Sleep
  <2> QED
    BY <2>1 DEF GoesToHighest
<1>3. CASE sched.running[t] /\ t = CurrentTask(sched)
  <2>1. sched' = RotateCurrentRunQueue(Stop(sched, t), TRUE) /\ Stop(sched, t) \in Scheduler
    BY <1>1, <1>3 DEF Sleep, Stop, Scheduler
  <2> QED
    BY <1>1, <2>1, RotationGoesToHighest
<1> QED
  BY <1>2, <1>3

\* Finish chooses the next task first and wakes the waiter then: only the waiter may be
\* queued above, and it was asleep.
LEMMA FinishGoesToHighest ==
  ASSUME IInv, NEW u \in TaskIds, NEW code \in ExitCodes, Finish(u, code)
  PROVE  GoesToHighest
<1> DEFINE w == finishWaiter[u]
           r == Retire(sched)
<1>1. /\ TypeOK /\ WellFormed(sched) /\ sched \in Scheduler
      /\ sched.running \in [TaskIds -> BOOLEAN]
  BY Facts
<1>2. u = CurrentTask(sched) /\ u # Idle /\ sched' = AfterFinish(u)
  BY DEF Finish, Runs, Current
<1>3. /\ WellFormed(r) /\ r.running = [sched.running EXCEPT ![u] = FALSE]
      /\ r = RotateCurrentRunQueue(Stop(sched, u), TRUE) /\ Stop(sched, u) \in Scheduler
  BY <1>1, <1>2, RotateAsleep, RetireRunning DEF Retire, Stop, Scheduler
<1>4. CASE w = NoTask
  BY <1>2, <1>3, <1>4, RotationGoesToHighest DEF AfterFinish
<1>5. CASE w # NoTask
  <2>1. sched' = Wakeup(r, w, Same) /\ w \in TaskIds /\ w # u
    BY <1>1, <1>2, <1>5 DEF AfterFinish, IInv, Registered, Parents, TypeOK, Finish
  <2> HIDE DEF w
  <2>2. \A lv \in Levels, t \in TaskIds : lv > r.current => ~Holds(r.queue[lv], t)
    BY <1>3, NoneAboveAfterRotate
  <2> HIDE DEF r
  <2>3. r.running[w] = sched.running[w] /\ r \in Scheduler /\ r.level[w] \in Levels
    <3>1. WellFormed(r) /\ r.running[w] = sched.running[w]
      BY <1>1, <1>3, <2>1
    <3>2. r \in Scheduler /\ r.level \in [TaskIds -> Levels]
      BY <3>1, WellFormedFacts
    <3> QED
      BY <2>1, <3>1, <3>2
  <2>4. CASE sched.running[w]
    <3>1. sched' = r
      BY <2>1, <2>3, <2>4 DEF Wakeup, ChangeLevelRunning
    <3> QED
      BY <3>1, <2>2 DEF GoesToHighest
  <2>5. CASE ~sched.running[w]
    <3>1. /\ sched'.current = r.current
          /\ sched'.queue = [r.queue EXCEPT ![r.level[w]] = Append(@, w)]
      <4>1. Wakeup(r, w, Same) = Enqueue(r, w, r.level[w])
        BY <2>3, <2>5 DEF Wakeup
      <4> QED
        BY <2>1, <2>3, <4>1 DEF Enqueue, Scheduler
    <3>2. /\ r.queue \in [Levels -> Seq(TaskIds)]
          /\ Distinct(r.queue[r.level[w]]) /\ ~Holds(r.queue[r.level[w]], w)
      <4>1. WellFormed(r) /\ ~r.running[w]
        BY <1>3, <2>3, <2>5
      <4>2. r.queue \in [Levels -> Seq(TaskIds)]
        BY <4>1, WellFormedFacts
      <4> QED
        BY <2>1, <2>3, <4>1, <4>2 DEF WellFormed, QueuedAtOwnLevel, NoTaskTwice
    <3>3. \A t : Holds(Append(r.queue[r.level[w]], w), t) => Holds(r.queue[r.level[w]], t) \/ t = w
      BY <2>1, <2>3, <3>2, AppendHolds
    <3> QED
      BY <2>2, <2>3, <2>5, <3>1, <3>2, <3>3 DEF GoesToHighest
  <2> QED
    BY <2>4, <2>5
<1> QED
  BY <1>4, <1>5

LEMMA StepGoesToHighest == IInv /\ [Next]_vars => GoesToHighest
<1> SUFFICES ASSUME IInv, [Next]_vars PROVE GoesToHighest
  OBVIOUS
<1>0. TypeOK /\ WellFormed(sched) /\ sched \in Scheduler /\ Same \in Levels \union {Same}
  BY Facts
<1>1. CASE SwitchTask
  BY <1>0, <1>1, RotateAwake, RotationGoesToHighest DEF SwitchTask
<1>2. ASSUME NEW t \in TaskIds, NEW l \in Levels \union {Same}, sched' = Wakeup(sched, t, l)
      PROVE  GoesToHighest
  BY <1>0, <1>2, WakeupKeepsCurrent DEF GoesToHighest, Current
<1>3. CASE sched' = sched
  BY <1>3 DEF GoesToHighest, Current
<1>4. ASSUME NEW t \in TaskIds, SleepTask(t) PROVE GoesToHighest
  BY <1>0, <1>4, SleepGoesToHighest DEF SleepTask, TypeOK
<1>5. ASSUME NEW t \in TaskIds, WaitFinishSleeps(t) PROVE GoesToHighest
  <2>1. t # Idle /\ sched' = Sleep(sched, t)
    BY <1>0, <1>5 DEF WaitFinishSleeps, Waiting, IInv, Parents
  <2> QED
    BY <2>1, SleepGoesToHighest
<1>6. ASSUME NEW t \in TaskIds, NEW code \in ExitCodes, Finish(t, code) PROVE GoesToHighest
  BY <1>6, FinishGoesToHighest
<1>7. ASSUME NEW t \in TaskIds, NEW l \in WakeLevels \union {Same}, WakeupTask(t, l)
      PROVE  GoesToHighest
  BY <1>2, <1>7, TaskManagerAssumption DEF WakeupTask
<1>8. ASSUME NEW t \in TaskIds, NEW m \in Messages, SendMessage(t, m) PROVE GoesToHighest
  BY <1>0, <1>2, <1>8 DEF SendMessage
<1>9. ASSUME NEW t \in TaskIds, \/ \E keeps \in BOOLEAN : NewTask(t, keeps)
                                \/ ReceiveMessage(t)
                                \/ WaitFinishReturns(t)
      PROVE  sched' = sched
  BY <1>9 DEF NewTask, ReceiveMessage, WaitFinishReturns
<1> QED
  BY <1>1, <1>3, <1>4, <1>5, <1>6, <1>7, <1>8, <1>9 DEF Next, vars

(***************************************************************************)
(* Whoever gets the processor in place of another is of the highest level   *)
(* that had work before the call (RotateCurrentRunQueue, from SwitchTask,   *)
(* Sleep and Finish).                                                       *)
(***************************************************************************)
THEOREM HighestRuns == Spec => SwitchesToHighest
<1>1. IInv /\ [Next]_vars => [GoesToHighest]_vars
  BY StepGoesToHighest
<1> QED
  BY <1>1, SpecIInv, PTL DEF Spec, SwitchesToHighest, GoesToHighest
=============================================================================
