----------------------------- MODULE ClockProofs -----------------------------
(***************************************************************************)
(* Clock for every number of tasks and timers, every period and delay, and  *)
(* every width and rate of the hardware's timers: a timer expires once and  *)
(* on time, the task timer among them; the cursor keeps its rhythm; a tick  *)
(* is a hundredth of a second.                                              *)
(***************************************************************************)
EXTENDS Clock, FiniteSetTheorems, TLAPS

-----------------------------------------------------------------------------
(* Sets of natural numbers.                                                *)

\* A set of natural numbers has a least member.
LEMMA LeastMember ==
  ASSUME NEW S, S \subseteq Nat, S # {}
  PROVE  \E m \in S : \A x \in S : m <= x
<1> DEFINE R == OpToRel(<, Nat)
<1>1. IsWellFoundedOn(R, Nat)
  BY NatLessThanWellFounded
<1>2. PICK m \in S : \A x \in S : ~(<<x, m>> \in R)
  <2> HIDE DEF R
  <2> QED
    BY <1>1, WFMin
<1>3. \A x \in S : ~(x < m)
  BY <1>2 DEF OpToRel
<1> QED
  BY <1>3

-----------------------------------------------------------------------------
(* The inductive invariant of TimerManager.                                 *)

Entries == [timeout : Nat, value : {TaskTimer, Cursor, AppTimer}, task : Tasks, serial : Nat, since : Nat]

TypeOK ==
  /\ tick \in Nat /\ added \in Nat /\ lastSwitch \in Nat
  /\ timers \in SUBSET Entries /\ IsFiniteSet(timers)
  /\ inbox \in [Tasks -> Seq(Entries)]
  /\ alive \in SUBSET Tasks
  /\ asked \in [Apps -> Nat \cup {NotAsked}]
  /\ fired \in SUBSET [timer : Entries, at : Nat]

\* A serial number is that of one timer, which waits or has expired.
Serials ==
  /\ \A t \in timers : t.serial \in 1..added
  /\ \A f \in fired : f.timer.serial \in 1..added
  /\ \A t, u \in timers : t.serial = u.serial => t = u
  /\ \A f, g \in fired : f.timer.serial = g.timer.serial => f = g
  /\ \A t \in timers, f \in fired : t.serial # f.timer.serial
  /\ \A n \in 1..added : (\E t \in timers : t.serial = n) \/ (\E f \in fired : f.timer.serial = n)

\* No timer is overdue, unless it was added since the last tick.
Times ==
  /\ \A t \in timers : t.since <= tick /\ (t.timeout > tick \/ t.since = tick)
  /\ \A f \in fired : f.at <= tick /\ OnTime(f)

\* The timer of preemption.
Switching ==
  /\ \E t \in timers : t.value = TaskTimer
  /\ \A t, u \in timers : t.value = TaskTimer /\ u.value = TaskTimer => t = u
  /\ \A t \in timers : t.value = TaskTimer => t.since = lastSwitch /\ t.timeout = t.since + Period
  /\ \A f \in fired : f.timer.value # TaskTimer

\* The timers of the main task, that of preemption aside, are those of its cursor.
Owners ==
  /\ \A t \in timers : t.task = MainTask => t.value # AppTimer
  /\ \A f \in fired : f.timer.task = MainTask => f.timer.value = Cursor

\* A message comes from a timer of its task that has expired.
Mailboxes ==
  \A t \in Tasks : \A i \in DOMAIN inbox[t] :
    inbox[t][i].task = t /\ \E f \in fired : f.timer = inbox[t][i]

\* The messages of one tick are in the order of their times.
InOrder ==
  \A t \in Tasks : \A i, j \in DOMAIN inbox[t] : \A f, g \in fired :
    i < j /\ f.timer = inbox[t][i] /\ g.timer = inbox[t][j] /\ f.at = g.at
      => inbox[t][i].timeout <= inbox[t][j].timeout

IInv ==
  /\ TypeOK /\ Serials /\ Times /\ Switching /\ Owners /\ Mailboxes /\ InOrder
  /\ CursorKeepsRhythm

-----------------------------------------------------------------------------
(* Arithmetic.                                                              *)

LEMMA NextMultiple ==
  ASSUME NEW h \in Nat \ {0}, NEW x \in Nat, x % h = 0
  PROVE  (x + h) % h = 0
<1> DEFINE q == x \div h
<1>1. x = h * q /\ q \in Nat
  OBVIOUS
<1>2. x + h = h * (q + 1) /\ q + 1 \in Nat
  BY <1>1
<1> DEFINE p == q + 1
<1>3. (h * p) % h = 0
  <2>1. p \in Nat
    BY <1>2
  <2> HIDE DEF p
  <2> QED
    BY <2>1
<1> QED
  BY <1>2, <1>3

-----------------------------------------------------------------------------
(* The messages of a tick.                                                  *)

LEMMA SentToTask ==
  ASSUME NEW S, S \subseteq Entries, IsFiniteSet(S), NEW task, NEW order \in SentTo(S, task)
  PROVE  /\ order \in Seq(S)
         /\ \A k \in DOMAIN order : order[k].task = task
         /\ \A k, l \in DOMAIN order : k < l => order[k].timeout <= order[l].timeout
<1> DEFINE mine == {t \in S : t.task = task}
           n == Cardinality(mine)
<1>1. n \in Nat
  <2>1. mine \in SUBSET S
    OBVIOUS
  <2> HIDE DEF mine
  <2> QED
    BY <2>1, FS_Subset, FS_CardinalityType
<1>2. order \in PopOrders(mine)
  BY DEF SentTo
<1>3. order \in SetToSeqs(mine)
  <2> HIDE DEF mine
  <2> QED
    BY <1>2 DEF PopOrders
<1>4. order \in [1..n -> mine]
  <2> HIDE DEF mine
  <2> QED
    BY <1>3 DEF SetToSeqs, n
<1>5. order \in Seq(mine) /\ DOMAIN order = 1..n
  <2> HIDE DEF mine, n
  <2> QED
    BY <1>1, <1>4
<1>6. \A k \in DOMAIN order : order[k] \in S /\ order[k].task = task
  BY <1>4
<1>7. order \in Seq(S)
  <2> HIDE DEF mine, n
  <2> QED
    BY <1>1, <1>4, <1>5, <1>6
<1>8. \A k, l \in DOMAIN order : k < l => order[k].timeout <= order[l].timeout
  <2> HIDE DEF mine, n
  <2> QED
    BY <1>2 DEF PopOrders
<1> QED
  BY <1>6, <1>7, <1>8

-----------------------------------------------------------------------------
(* What the invariant says.                                                 *)

LEMMA TimersFollow == IInv => ExpiresOnceOnTime
<1> SUFFICES ASSUME IInv PROVE ExpiresOnceOnTime
  OBVIOUS
<1> USE DEF IInv
<1>1. ASSUME NEW n \in 1..added
      PROVE  Cardinality({t \in timers : t.serial = n})
               + Cardinality({f \in fired : f.timer.serial = n}) = 1
  <2> DEFINE A == {t \in timers : t.serial = n}
             B == {f \in fired : f.timer.serial = n}
  <2>1. CASE \E t \in timers : t.serial = n
    <3>1. PICK t \in timers : t.serial = n
      BY <2>1
    <3>2. A = {t} /\ B = {}
      BY <3>1 DEF Serials
    <3> HIDE DEF A, B
    <3>3. Cardinality(A) = 1 /\ Cardinality(B) = 0
      BY <3>2, FS_Singleton, FS_EmptySet
    <3> QED
      BY <3>3 DEF A, B
  <2>2. CASE \E f \in fired : f.timer.serial = n
    <3>1. PICK f \in fired : f.timer.serial = n
      BY <2>2
    <3>2. A = {} /\ B = {f}
      BY <3>1 DEF Serials
    <3> HIDE DEF A, B
    <3>3. Cardinality(A) = 0 /\ Cardinality(B) = 1
      BY <3>2, FS_Singleton, FS_EmptySet
    <3> QED
      BY <3>3 DEF A, B
  <2> QED
    BY <2>1, <2>2 DEF Serials
<1>2. \A f \in fired : OnTime(f)
  BY DEF Times
<1>3. ASSUME NEW t \in Tasks, NEW i \in DOMAIN inbox[t], NEW j \in DOMAIN inbox[t],
             i < j, FiredAt(inbox[t][i]) = FiredAt(inbox[t][j])
      PROVE  inbox[t][i].timeout <= inbox[t][j].timeout
  <2>1. PICK f \in fired : f.timer = inbox[t][i]
    BY DEF Mailboxes
  <2>2. f.at \in FiredAt(inbox[t][j])
    BY <1>3, <2>1 DEF FiredAt
  <2>3. PICK g \in fired : g.timer = inbox[t][j] /\ g.at = f.at
    BY <2>2 DEF FiredAt
  <2> QED
    BY <1>3, <2>1, <2>3 DEF InOrder
<1>4. PICK t \in timers : t.value = TaskTimer
  BY DEF Switching
<1>5. Cardinality({u \in timers : u.value = TaskTimer}) = 1
  <2>1. {u \in timers : u.value = TaskTimer} = {t}
    BY <1>4 DEF Switching
  <2> QED
    BY <2>1, FS_Singleton
<1>6. tick - lastSwitch < Period
  <2>1. /\ t.since = lastSwitch /\ t.timeout = t.since + Period /\ t.since <= tick
        /\ t.timeout > tick \/ t.since = tick
    BY <1>4 DEF Switching, Times
  <2>2. t.since \in Nat /\ tick \in Nat
    BY DEF TypeOK, Entries
  <2> QED
    BY <2>1, <2>2, TimerManagerAssumption DEF TimerManagerAssumption
<1> QED
  BY <1>1, <1>2, <1>3, <1>5, <1>6 DEF ExpiresOnceOnTime

-----------------------------------------------------------------------------
(* Steps of the callers.                                                    *)

LEMMA InitTimers == Init => IInv
<1> SUFFICES ASSUME Init PROVE IInv
  OBVIOUS
<1> DEFINE c == Timer(Half, Cursor, MainTask, 1)
           p == Timer(Period, TaskTimer, MainTask, 2)
<1>1. /\ Half \in Nat \ {0} /\ Period \in Nat \ {0}
      /\ tick = 0 /\ timers = {c, p} /\ added = 2 /\ fired = {} /\ lastSwitch = 0
      /\ inbox = [t \in Tasks |-> <<>>]
  BY TimerManagerAssumption DEF Init, TimerManagerAssumption
<1>2. /\ c = [timeout |-> Half, value |-> Cursor, task |-> MainTask, serial |-> 1, since |-> 0]
      /\ p = [timeout |-> Period, value |-> TaskTimer, task |-> MainTask, serial |-> 2, since |-> 0]
  BY <1>1 DEF Timer
<1> HIDE DEF c, p
<1>3. TypeOK
  <2>1. c \in Entries /\ p \in Entries
    BY <1>1, <1>2 DEF Entries, Tasks
  <2>2. IsFiniteSet(timers)
    <3>1. IsFiniteSet({c}) /\ timers = {c} \cup {p}
      BY <1>1, FS_Singleton
    <3> QED
      BY <3>1, FS_AddElement
  <2> QED
    BY <1>1, <2>1, <2>2 DEF Init, TypeOK, Tasks
<1>4. Serials
  BY <1>1, <1>2 DEF Serials
<1>5. Times /\ Switching /\ Owners
  BY <1>1, <1>2 DEF Times, Switching, Owners, TaskTimer, Cursor, AppTimer
<1>6. Mailboxes /\ InOrder
  BY <1>1 DEF Mailboxes, InOrder
<1>7. CursorKeepsRhythm
  <2>1. CursorTimeouts = {Half}
    BY <1>1, <1>2 DEF CursorTimeouts, TaskTimer, Cursor
  <2>2. Half % Half = 0
    <3>1. 0 % Half = 0 /\ 0 + Half = Half
      BY <1>1
    <3> QED
      BY <1>1, <3>1, NextMultiple
  <2> QED
    BY <2>1, <2>2 DEF CursorKeepsRhythm
<1> QED
  BY <1>3, <1>4, <1>5, <1>6, <1>7 DEF IInv

LEMMA CursorTimesAre ==
  ASSUME NEW x
  PROVE  x \in CursorTimeouts <=> \/ \E t \in timers : t.value = Cursor /\ t.timeout = x
                                  \/ \E f \in fired : f.timer.value = Cursor /\ f.timer.timeout = x
BY DEF CursorTimeouts

LEMMA CursorTimesNext ==
  ASSUME NEW x
  PROVE  x \in CursorTimeouts' <=> \/ \E t \in timers' : t.value = Cursor /\ t.timeout = x
                                   \/ \E f \in fired' : f.timer.value = Cursor /\ f.timer.timeout = x
BY DEF CursorTimeouts

LEMMA AddTimerStep ==
  ASSUME IInv, NEW timeout \in Nat, NEW value \in {Cursor, AppTimer}, NEW task \in Tasks,
         task = MainTask => value # AppTimer,
         AddTimer(timeout, value, task), UNCHANGED <<tick, fired, lastSwitch>>
  PROVE  /\ added' \in Nat /\ timers' \in SUBSET Entries /\ IsFiniteSet(timers')
         /\ Serials' /\ Times' /\ Switching' /\ Owners'
         /\ \A x : x \in CursorTimeouts' <=> x \in CursorTimeouts \/ (value = Cursor /\ x = timeout)
<1> DEFINE new == Timer(timeout, value, task, added + 1)
<1>1. TypeOK /\ Serials /\ Times /\ Switching /\ Owners
  BY DEF IInv
<1>2. /\ new = [timeout |-> timeout, value |-> value, task |-> task, serial |-> added + 1, since |-> tick]
      /\ timers' = timers \cup {new} /\ added' = added + 1
  BY DEF AddTimer, Timer
<1> HIDE DEF new
<1>3. new \in Entries /\ added' \in Nat
  BY <1>1, <1>2 DEF TypeOK, Entries
<1>4. timers' \in SUBSET Entries /\ IsFiniteSet(timers')
  BY <1>1, <1>2, <1>3, FS_AddElement DEF TypeOK
<1>5. /\ new.serial = added + 1 /\ new.since = tick /\ new.value = value /\ new.task = task
      /\ new.timeout = timeout /\ value # TaskTimer
  BY <1>2 DEF TaskTimer, Cursor, AppTimer
<1>6. Serials'
  <2>1. /\ \A t \in timers : t.serial \in 1..added /\ t.serial # added + 1
        /\ \A f \in fired : f.timer.serial \in 1..added /\ f.timer.serial # added + 1
    BY <1>1 DEF Serials, TypeOK
  <2>2. \A n \in 1..added' : n \in 1..added \/ n = added + 1
    BY <1>1, <1>2 DEF TypeOK
  <2>3. 1..added \subseteq 1..added' /\ added + 1 \in 1..added'
    BY <1>1, <1>2 DEF TypeOK
  <2>4. \A t \in timers' : t \in timers \/ t = new
    BY <1>2
  <2>5. \A t, u \in timers' : t.serial = u.serial => t = u
    BY <1>1, <1>5, <2>1, <2>4 DEF Serials
  <2>6. \A t \in timers', f \in fired' : t.serial # f.timer.serial
    BY <1>1, <1>5, <2>1, <2>4 DEF Serials
  <2>7. \A n \in 1..added' : (\E t \in timers' : t.serial = n) \/ (\E f \in fired' : f.timer.serial = n)
    BY <1>1, <1>2, <1>5, <2>2 DEF Serials
  <2> QED
    BY <1>1, <1>5, <2>1, <2>3, <2>4, <2>5, <2>6, <2>7 DEF Serials
<1>7. Times'
  BY <1>1, <1>2, <1>5 DEF Times, OnTime, TypeOK
<1>8. Switching'
  BY <1>1, <1>2, <1>5 DEF Switching
<1>9. Owners'
  BY <1>1, <1>2, <1>5 DEF Owners
<1>10. \A x : x \in CursorTimeouts' <=> x \in CursorTimeouts \/ (value = Cursor /\ x = timeout)
  BY <1>2, <1>5, CursorTimesAre, CursorTimesNext
<1> QED
  BY <1>3, <1>4, <1>6, <1>7, <1>8, <1>9, <1>10

\* Messages are taken from the front, or go with their task.
LEMMA MessagesTaken ==
  ASSUME IInv, NEW t \in Tasks, NEW rest,
         \/ inbox[t] # <<>> /\ rest = Tail(inbox[t])
         \/ rest = <<>>,
         inbox' = [inbox EXCEPT ![t] = rest], fired' = fired
  PROVE  inbox' \in [Tasks -> Seq(Entries)] /\ Mailboxes' /\ InOrder'
<1>1. TypeOK /\ Mailboxes /\ InOrder /\ inbox[t] \in Seq(Entries)
  BY DEF IInv, TypeOK
<1>2. /\ rest \in Seq(Entries)
      /\ \A i \in DOMAIN rest : i + 1 \in DOMAIN inbox[t] /\ rest[i] = inbox[t][i + 1] /\ i \in Nat
  <2>1. CASE rest = <<>>
    BY <2>1
  <2>2. CASE inbox[t] # <<>> /\ rest = Tail(inbox[t])
    <3> DEFINE q == inbox[t]
    <3>1. q \in Seq(Entries) /\ q # <<>> /\ rest = Tail(q)
      BY <1>1, <2>2
    <3> HIDE DEF q
    <3>2. /\ rest \in Seq(Entries)
          /\ \A i \in DOMAIN rest : i + 1 \in DOMAIN q /\ rest[i] = q[i + 1] /\ i \in Nat
      BY <3>1
    <3> QED
      BY <3>2 DEF q
  <2> QED
    BY <2>1, <2>2
<1>3. \A u \in Tasks : inbox'[u] = IF u = t THEN rest ELSE inbox[u]
  BY <1>1 DEF TypeOK
<1>4. inbox' \in [Tasks -> Seq(Entries)]
  BY <1>1, <1>2 DEF TypeOK
<1>5. Mailboxes'
  BY <1>1, <1>2, <1>3 DEF Mailboxes
<1>6. InOrder'
  <2> SUFFICES ASSUME NEW u \in Tasks, NEW i \in DOMAIN inbox'[u], NEW j \in DOMAIN inbox'[u],
                      NEW f \in fired, NEW g \in fired,
                      i < j, f.timer = inbox'[u][i], g.timer = inbox'[u][j], f.at = g.at
               PROVE  inbox'[u][i].timeout <= inbox'[u][j].timeout
    BY DEF InOrder
  <2>1. CASE u # t
    BY <1>1, <1>3, <2>1 DEF InOrder
  <2>2. CASE u = t
    <3>1. /\ inbox'[u][i] = inbox[t][i + 1] /\ inbox'[u][j] = inbox[t][j + 1] /\ i + 1 < j + 1
          /\ i + 1 \in DOMAIN inbox[t] /\ j + 1 \in DOMAIN inbox[t]
      BY <1>2, <1>3, <2>2
    <3> QED
      BY <1>1, <3>1 DEF InOrder
  <2> QED
    BY <2>1, <2>2
<1> QED
  BY <1>4, <1>5, <1>6

LEMMA BlinkStep ==
  ASSUME IInv, Blink
  PROVE  IInv'
<1> DEFINE m == Head(inbox[MainTask])
           next == m.timeout + Half
<1>1. TypeOK /\ MainTask \in Tasks /\ Half \in Nat \ {0}
  BY TimerManagerAssumption DEF IInv, Tasks, TimerManagerAssumption
<1>2. m \in Entries /\ \E f \in fired : f.timer = m /\ m.task = MainTask
  <2>1. inbox[MainTask] \in Seq(Entries) /\ inbox[MainTask] # <<>>
    BY <1>1 DEF TypeOK, Blink
  <2>2. 1 \in DOMAIN inbox[MainTask] /\ m = inbox[MainTask][1]
    <3> DEFINE q == inbox[MainTask]
    <3> HIDE DEF q
    <3>1. q \in Seq(Entries) /\ q # <<>>
      BY <2>1 DEF q
    <3>2. 1 \in DOMAIN q /\ Head(q) = q[1]
      BY <3>1
    <3> QED
      BY <3>2 DEF q
  <2>3. m \in Entries
    BY <2>1, <2>2
  <2> QED
    BY <1>1, <2>2, <2>3 DEF IInv, Mailboxes
<1>3. m.value = Cursor /\ m.timeout \in CursorTimeouts
  <2>1. PICK f \in fired : f.timer = m /\ m.task = MainTask
    BY <1>2
  <2>2. f.timer.value = Cursor /\ m.timeout = f.timer.timeout
    BY <2>1 DEF IInv, Owners
  <2> QED
    BY <2>1, <2>2, CursorTimesAre
<1>4. /\ AddTimer(next, Cursor, MainTask) /\ UNCHANGED <<tick, alive, asked, fired, lastSwitch>>
      /\ inbox[MainTask] # <<>> /\ inbox' = [inbox EXCEPT ![MainTask] = Tail(inbox[MainTask])]
  BY DEF Blink, NextBlink
<1>5. next \in Nat /\ m.timeout \in Nat
  BY <1>1, <1>2 DEF Entries
<1>6. /\ added' \in Nat /\ timers' \in SUBSET Entries /\ IsFiniteSet(timers')
      /\ Serials' /\ Times' /\ Switching' /\ Owners'
      /\ \A x : x \in CursorTimeouts' <=> x \in CursorTimeouts \/ x = next
  <2> HIDE DEF m, next
  <2>1. Cursor # AppTimer
    BY DEF Cursor, AppTimer
  <2> QED
    BY <1>1, <1>4, <1>5, <2>1, AddTimerStep
<1>7. inbox' \in [Tasks -> Seq(Entries)] /\ Mailboxes' /\ InOrder'
  BY <1>1, <1>4, MessagesTaken
<1>8. CursorKeepsRhythm'
  <2>1. next % Half = 0
    <3>1. m.timeout % Half = 0
      BY <1>3 DEF IInv, CursorKeepsRhythm
    <3> HIDE DEF m
    <3> QED
      BY <1>1, <1>5, <3>1, NextMultiple
  <2>2. next - Half = m.timeout
    BY <1>1, <1>5
  <2>3. next - Half \in CursorTimeouts
    BY <1>3, <2>2
  <2> HIDE DEF next, m
  <2> QED
    BY <1>6, <2>1, <2>3 DEF IInv, CursorKeepsRhythm
<1>9. TypeOK'
  BY <1>1, <1>4, <1>6, <1>7 DEF TypeOK
<1> QED
  BY <1>6, <1>7, <1>8, <1>9 DEF IInv

LEMMA CreateTimerReadsStep ==
  ASSUME IInv, NEW t \in Apps, NEW delay \in Delays, NEW relative \in BOOLEAN,
         CreateTimerReads(t, delay, relative)
  PROVE  IInv'
<1>1. /\ asked' = [asked EXCEPT ![t] = AskedTimeout(delay, relative)]
      /\ UNCHANGED <<tick, timers, inbox, alive, added, fired, lastSwitch>>
  BY DEF CreateTimerReads
<1>2. AskedTimeout(delay, relative) \in Nat
  BY TimerManagerAssumption DEF AskedTimeout, IInv, TypeOK, TimerManagerAssumption
<1>3. TypeOK'
  BY <1>1, <1>2 DEF IInv, TypeOK
<1> QED
  BY <1>1, <1>3 DEF IInv, Serials, Times, OnTime, Switching, Owners, Mailboxes, InOrder,
                    CursorKeepsRhythm, CursorTimeouts

LEMMA CreateTimerAddsStep ==
  ASSUME IInv, NEW t \in Apps, CreateTimerAdds(t)
  PROVE  IInv'
<1>1. /\ AddTimer(asked[t], AppTimer, t) /\ asked' = [asked EXCEPT ![t] = NotAsked]
      /\ UNCHANGED <<tick, inbox, alive, fired, lastSwitch>>
  BY DEF CreateTimerAdds
<1>2. TypeOK /\ asked[t] \in Nat /\ t \in Tasks /\ t # MainTask /\ Cursor # AppTimer
  BY TimerManagerAssumption
  DEF IInv, TypeOK, CreateTimerAdds, Tasks, TimerManagerAssumption, Cursor, AppTimer
<1>3. /\ added' \in Nat /\ timers' \in SUBSET Entries /\ IsFiniteSet(timers')
      /\ Serials' /\ Times' /\ Switching' /\ Owners'
      /\ \A x : x \in CursorTimeouts' <=> x \in CursorTimeouts
  BY <1>1, <1>2, AddTimerStep
<1>4. TypeOK'
  BY <1>1, <1>2, <1>3 DEF TypeOK
<1>5. Mailboxes' /\ InOrder' /\ CursorKeepsRhythm'
  BY <1>1, <1>3 DEF IInv, Mailboxes, InOrder, CursorKeepsRhythm
<1> QED
  BY <1>3, <1>4, <1>5 DEF IInv

LEMMA ReadEventStep ==
  ASSUME IInv, NEW t \in Apps, ReadEvent(t)
  PROVE  IInv'
<1>1. /\ inbox[t] # <<>> /\ inbox' = [inbox EXCEPT ![t] = Tail(inbox[t])]
      /\ UNCHANGED <<tick, timers, alive, asked, added, fired, lastSwitch>>
  BY DEF ReadEvent
<1>2. inbox' \in [Tasks -> Seq(Entries)] /\ Mailboxes' /\ InOrder'
  BY <1>1, MessagesTaken DEF Tasks
<1>3. TypeOK'
  BY <1>1, <1>2 DEF IInv, TypeOK
<1> QED
  BY <1>1, <1>2, <1>3 DEF IInv, Serials, Times, OnTime, Switching, Owners, CursorKeepsRhythm,
                          CursorTimeouts

LEMMA FinishStep ==
  ASSUME IInv, NEW t \in Apps, Finish(t)
  PROVE  IInv'
<1>1. /\ alive' = alive \ {t} /\ inbox' = [inbox EXCEPT ![t] = <<>>]
      /\ UNCHANGED <<tick, timers, asked, added, fired, lastSwitch>>
  BY DEF Finish
<1>2. inbox' \in [Tasks -> Seq(Entries)] /\ Mailboxes' /\ InOrder'
  BY <1>1, MessagesTaken DEF Tasks
<1>3. TypeOK'
  BY <1>1, <1>2 DEF IInv, TypeOK
<1> QED
  BY <1>1, <1>2, <1>3 DEF IInv, Serials, Times, OnTime, Switching, Owners, CursorKeepsRhythm,
                          CursorTimeouts

-----------------------------------------------------------------------------
(* Tick.                                                                    *)

\* What one tick at the time now pops, and how the task timer comes back.
Pops(now, expired, taskOnes) ==
  /\ now \in Nat /\ expired \subseteq timers /\ taskOnes \subseteq expired
  /\ \A t \in expired : t.timeout <= now /\ (t.timeout = now \/ t.since + 1 = now) /\ t.since < now
  /\ \A t \in timers \ expired : t.timeout > now /\ t.since <= now
  /\ \A t, u \in taskOnes : t = u
  /\ \A t \in timers : t \in expired /\ t \notin taskOnes <=> t \in expired /\ t.value # TaskTimer
  /\ \A t \in timers : /\ NextTaskTimer(t, now) \in Entries
                       /\ NextTaskTimer(t, now).timeout = now + Period
                       /\ NextTaskTimer(t, now).since = now
                       /\ NextTaskTimer(t, now).serial = t.serial
                       /\ NextTaskTimer(t, now).value = t.value
                       /\ NextTaskTimer(t, now).task = t.task
  /\ IsFiniteSet(expired) /\ IsFiniteSet(expired \ taskOnes)
  /\ IsFiniteSet((timers \ expired) \cup {NextTaskTimer(t, now) : t \in taskOnes})

\* What the loop of Tick takes from the queue, and what is pushed again.
LEMMA Popped ==
  ASSUME IInv, NEW now, now = tick + 1, NEW expired, expired = Expired(now),
         NEW taskOnes, taskOnes = {t \in expired : t.value = TaskTimer}
  PROVE  Pops(now, expired, taskOnes)
<1>1. TypeOK /\ Times /\ Switching
  BY DEF IInv
<1>2. now \in Nat /\ expired \subseteq timers /\ taskOnes \subseteq expired
  BY <1>1 DEF TypeOK, Expired
<1>3. \A t \in timers : t.timeout \in Nat /\ t.since \in Nat /\ t \in Entries
  BY <1>1 DEF TypeOK, Entries
<1>4. \A t \in expired : t.timeout <= now /\ (t.timeout = now \/ t.since + 1 = now) /\ t.since < now
  BY <1>1, <1>2, <1>3 DEF TypeOK, Times, Expired
<1>5. \A t \in timers \ expired : t.timeout > now /\ t.since <= now
  BY <1>1, <1>2, <1>3 DEF TypeOK, Times, Expired
<1>6. \A t, u \in taskOnes : t = u
  BY <1>1, <1>2 DEF Switching
<1>7. ASSUME NEW t \in timers
      PROVE  /\ NextTaskTimer(t, now) \in Entries
             /\ NextTaskTimer(t, now).timeout = now + Period
             /\ NextTaskTimer(t, now).since = now
             /\ NextTaskTimer(t, now).serial = t.serial
             /\ NextTaskTimer(t, now).value = t.value
             /\ NextTaskTimer(t, now).task = t.task
  <2> DEFINE n == now + Period
  <2>1. n \in Nat /\ t \in Entries
    BY <1>2, <1>3, TimerManagerAssumption DEF TimerManagerAssumption
  <2>2. NextTaskTimer(t, now) = [t EXCEPT !.timeout = n, !.since = now]
    BY DEF NextTaskTimer
  <2> HIDE DEF n
  <2>3. /\ NextTaskTimer(t, now) \in Entries
        /\ NextTaskTimer(t, now).timeout = n /\ NextTaskTimer(t, now).since = now
        /\ NextTaskTimer(t, now).serial = t.serial /\ NextTaskTimer(t, now).value = t.value
        /\ NextTaskTimer(t, now).task = t.task
    BY <1>2, <2>1, <2>2 DEF Entries
  <2> QED
    BY <2>3 DEF n
<1>8. IsFiniteSet(expired) /\ IsFiniteSet(expired \ taskOnes) /\ IsFiniteSet(timers \ expired)
  <2>1. IsFiniteSet(timers) /\ expired \in SUBSET timers /\ timers \ expired \in SUBSET timers
    BY <1>1, <1>2 DEF TypeOK
  <2>2. IsFiniteSet(expired) /\ IsFiniteSet(timers \ expired)
    BY <2>1, FS_Subset
  <2>3. expired \ taskOnes \in SUBSET expired
    OBVIOUS
  <2> QED
    BY <2>2, <2>3, FS_Subset
<1>9. IsFiniteSet((timers \ expired) \cup {NextTaskTimer(t, now) : t \in taskOnes})
  <2> DEFINE rest == timers \ expired
             again == {NextTaskTimer(t, now) : t \in taskOnes}
  <2>1. CASE taskOnes = {}
    <3>1. rest \cup again = rest
      BY <2>1
    <3> QED
      BY <1>8, <3>1
  <2>2. CASE taskOnes # {}
    <3>1. PICK t : t \in taskOnes
      BY <2>2
    <3>2. rest \cup again = rest \cup {NextTaskTimer(t, now)}
      BY <1>6, <3>1
    <3> HIDE DEF again
    <3>3. IsFiniteSet(rest \cup {NextTaskTimer(t, now)})
      BY <1>8, FS_AddElement
    <3> QED
      BY <3>2, <3>3 DEF again
  <2> QED
    BY <2>1, <2>2
<1>10. \A t \in timers : t \in expired /\ t \notin taskOnes <=> t \in expired /\ t.value # TaskTimer
  OBVIOUS
<1> QED
  BY <1>2, <1>4, <1>5, <1>6, <1>7, <1>8, <1>9, <1>10 DEF Pops

LEMMA TickStep ==
  ASSUME IInv, Tick
  PROVE  IInv'
<1>1. PICK now, expired, taskOnes, sent :
        /\ now = tick + 1 /\ expired = Expired(now)
        /\ taskOnes = {t \in expired : t.value = TaskTimer} /\ sent = expired \ taskOnes
  OBVIOUS
<1>2. /\ tick' = now
      /\ timers' = (timers \ expired) \cup {NextTaskTimer(t, now) : t \in taskOnes}
      /\ fired' = fired \cup {[timer |-> t, at |-> now] : t \in sent}
      /\ lastSwitch' = IF taskOnes # {} THEN now ELSE lastSwitch
      /\ UNCHANGED <<alive, asked, added>>
  BY <1>1 DEF Tick
<1>3. PICK delivery \in Deliveries(sent) :
        inbox' = [t \in Tasks |-> IF t \in alive THEN inbox[t] \o delivery[t] ELSE inbox[t]]
  BY <1>1 DEF Tick
<1>18. Pops(now, expired, taskOnes)
  <2>1. /\ now = tick + 1 /\ expired = Expired(now)
        /\ taskOnes = {t \in expired : t.value = TaskTimer}
    BY <1>1
  <2> QED
    BY <2>1, Popped
<1>4. /\ now \in Nat /\ expired \subseteq timers /\ taskOnes \subseteq expired
      /\ \A t \in expired : t.timeout <= now /\ (t.timeout = now \/ t.since + 1 = now) /\ t.since < now
      /\ \A t \in timers \ expired : t.timeout > now /\ t.since <= now
      /\ \A t, u \in taskOnes : t = u
      /\ \A t \in timers : /\ NextTaskTimer(t, now) \in Entries
                           /\ NextTaskTimer(t, now).timeout = now + Period
                           /\ NextTaskTimer(t, now).since = now
                           /\ NextTaskTimer(t, now).serial = t.serial
                           /\ NextTaskTimer(t, now).value = t.value
                           /\ NextTaskTimer(t, now).task = t.task
  BY <1>18 DEF Pops
<1>16. IsFiniteSet(sent) /\ IsFiniteSet(timers')
  <2>1. sent = expired \ taskOnes
    BY <1>1
  <2> QED
    BY <1>2, <1>18, <2>1 DEF Pops
<1>5. /\ sent \subseteq timers /\ sent \cap taskOnes = {}
      /\ \A t \in taskOnes : t.value = TaskTimer
      /\ \A t \in sent : t.value # TaskTimer
      /\ \A t \in expired : t \in taskOnes \/ t \in sent
      /\ \A t \in timers : t.value = TaskTimer /\ t \in expired => t \in taskOnes
      /\ sent \subseteq Entries /\ timers \subseteq Entries
  BY <1>1, <1>4 DEF IInv, TypeOK
<1>17. sent \subseteq expired
  BY <1>1
<1>6. /\ \A u \in timers' : u \in timers \ expired \/ \E t \in taskOnes : u = NextTaskTimer(t, now)
      /\ \A f \in fired' : f \in fired \/ \E t \in sent : f.timer = t /\ f.at = now
      /\ \A t \in timers \ expired : t \in timers'
      /\ \A t \in taskOnes : NextTaskTimer(t, now) \in timers'
      /\ \A f \in fired : f \in fired'
      /\ \A t \in sent : \E f \in fired' : f.timer = t /\ f.at = now
  <2>1. \A u \in timers' : u \in timers \ expired \/ \E t \in taskOnes : u = NextTaskTimer(t, now)
    BY <1>2
  <2>2. ASSUME NEW f \in fired'
        PROVE  f \in fired \/ \E t \in sent : f.timer = t /\ f.at = now
    <3>1. f \in fired \/ \E t \in sent : f = [timer |-> t, at |-> now]
      BY <1>2
    <3> QED
      BY <3>1
  <2>3. /\ \A t \in timers \ expired : t \in timers'
        /\ \A t \in taskOnes : NextTaskTimer(t, now) \in timers'
        /\ \A f \in fired : f \in fired'
    BY <1>2
  <2>4. ASSUME NEW t \in sent
        PROVE  \E f \in fired' : f.timer = t /\ f.at = now
    <3>1. [timer |-> t, at |-> now] \in fired'
      BY <1>2
    <3>2. [timer |-> t, at |-> now].timer = t /\ [timer |-> t, at |-> now].at = now
      OBVIOUS
    <3> QED
      BY <3>1, <3>2
  <2> QED
    BY <2>1, <2>2, <2>3, <2>4
<1> HIDE <1>1
<1>7. Serials'
  <2> USE DEF IInv
  <2>1. ASSUME NEW u \in timers'
        PROVE  \E t \in timers \ sent : /\ t.serial = u.serial
                                        /\ t \notin taskOnes => u = t
                                        /\ t \in taskOnes => u = NextTaskTimer(t, now)
    <3>1. CASE u \in timers \ expired
      <4>1. u \in timers \ sent /\ u \notin taskOnes
        BY <1>4, <1>5, <3>1, <1>17
      <4> QED
        BY <4>1
    <3>2. CASE \E t \in taskOnes : u = NextTaskTimer(t, now)
      <4>1. PICK t \in taskOnes : u = NextTaskTimer(t, now)
        BY <3>2
      <4>2. t \in timers \ sent /\ t.serial = u.serial
        BY <1>4, <1>5, <4>1
      <4> QED
        BY <4>1, <4>2
    <3> QED
      BY <1>6, <3>1, <3>2
  <2>2. \A t, u \in timers : t.serial = u.serial => t = u
    BY DEF Serials
  <2>3. \A u \in timers' : u.serial \in 1..added
    BY <2>1 DEF Serials
  <2>4. \A f \in fired' : f.timer.serial \in 1..added
    BY <1>5, <1>6 DEF Serials
  <2>5. ASSUME NEW u \in timers', NEW v \in timers', u.serial = v.serial PROVE u = v
    <3>1. PICK t \in timers \ sent : /\ t.serial = u.serial /\ (t \notin taskOnes => u = t)
                                     /\ (t \in taskOnes => u = NextTaskTimer(t, now))
      BY <2>1
    <3>2. PICK r \in timers \ sent : /\ r.serial = v.serial /\ (r \notin taskOnes => v = r)
                                     /\ (r \in taskOnes => v = NextTaskTimer(r, now))
      BY <2>1
    <3>3. t = r
      BY <2>2, <2>5, <3>1, <3>2
    <3> QED
      BY <3>1, <3>2, <3>3
  <2>6. ASSUME NEW f \in fired', NEW g \in fired', f.timer.serial = g.timer.serial PROVE f = g
    <3>1. CASE f \in fired /\ g \in fired
      BY <2>6, <3>1 DEF Serials
    <3>2. CASE f \in fired /\ g \notin fired
      BY <1>5, <1>6, <2>6, <3>2 DEF Serials
    <3>3. CASE f \notin fired /\ g \in fired
      BY <1>5, <1>6, <2>6, <3>3 DEF Serials
    <3>4. CASE f \notin fired /\ g \notin fired
      <4>1. PICK t \in sent : f = [timer |-> t, at |-> now]
        BY <1>2, <3>4
      <4>2. PICK r \in sent : g = [timer |-> r, at |-> now]
        BY <1>2, <3>4
      <4>3. t = r
        BY <1>5, <2>2, <2>6, <4>1, <4>2
      <4> QED
        BY <4>1, <4>2, <4>3
    <3> QED
      BY <3>1, <3>2, <3>3, <3>4
  <2>7. ASSUME NEW u \in timers', NEW f \in fired' PROVE u.serial # f.timer.serial
    <3>1. PICK t \in timers \ sent : t.serial = u.serial
      BY <2>1
    <3>2. CASE f \in fired
      BY <3>1, <3>2 DEF Serials
    <3>3. CASE \E r \in sent : f.timer = r /\ f.at = now
      BY <1>5, <2>2, <3>1, <3>3
    <3> QED
      BY <1>6, <3>2, <3>3
  <2>8. ASSUME NEW n \in 1..added
        PROVE  (\E u \in timers' : u.serial = n) \/ (\E f \in fired' : f.timer.serial = n)
    <3>1. CASE \E t \in timers : t.serial = n
      <4>1. PICK t \in timers : t.serial = n
        BY <3>1
      <4>2. CASE t \notin expired
        BY <1>6, <4>1, <4>2
      <4>3. CASE t \in taskOnes
        BY <1>4, <1>6, <4>1, <4>3
      <4>4. CASE t \in sent
        BY <1>6, <4>1, <4>4
      <4> QED
        BY <1>5, <4>2, <4>3, <4>4
    <3>2. CASE \E f \in fired : f.timer.serial = n
      BY <1>6, <3>2
    <3> QED
      BY <3>1, <3>2 DEF Serials
  <2> QED
    BY <1>2, <2>3, <2>4, <2>5, <2>6, <2>7, <2>8 DEF Serials
<1>8. Times'
  <2>1. \A u \in timers' : u.since <= now /\ (u.timeout > now \/ u.since = now)
    BY <1>4, <1>5, <1>6
  <2>2. \A f \in fired : f.at <= now /\ OnTime(f)
    <3>1. \A f \in fired : f.at <= tick /\ f.at \in Nat /\ tick \in Nat /\ tick <= now
      BY <1>1 DEF IInv, Times, TypeOK
    <3> QED
      BY <3>1, <1>4 DEF IInv, Times
  <2>3. ASSUME NEW f \in fired'
        PROVE  f \in fired \/ (f.at = now /\ OnTime(f))
    <3>1. CASE \E t \in sent : f.timer = t /\ f.at = now
      <4>1. PICK t \in sent : f.timer = t /\ f.at = now
        BY <3>1
      <4>2. /\ t.timeout <= now /\ (t.timeout = now \/ t.since + 1 = now) /\ t.since < now
            /\ t.timeout \in Int /\ t.since \in Int /\ now \in Int
        BY <1>4, <1>5, <1>17, <4>1 DEF Entries
      <4> QED
        BY <4>1, <4>2 DEF OnTime
    <3> QED
      BY <1>6, <3>1
  <2> QED
    BY <1>2, <1>4, <2>1, <2>2, <2>3 DEF Times, OnTime
<1>9. Switching'
  <2>1. PICK t \in timers : t.value = TaskTimer
    BY DEF IInv, Switching
  <2>2. /\ \A u \in timers : u.value = TaskTimer => u = t
        /\ t.since = lastSwitch /\ t.timeout = t.since + Period
    BY <2>1 DEF IInv, Switching
  <2>3. \A f \in fired' : f.timer.value # TaskTimer
    BY <1>5, <1>6 DEF IInv, Switching
  <2>4. CASE t \in taskOnes
    <3>1. taskOnes # {} /\ lastSwitch' = now
      BY <1>2, <2>4
    <3>2. \A u \in timers' : u.value = TaskTimer => u = NextTaskTimer(t, now)
      BY <1>4, <1>5, <1>6, <2>2, <2>4
    <3> QED
      BY <1>4, <1>5, <1>6, <2>3, <2>4, <3>1, <3>2 DEF Switching
  <2>5. CASE t \notin taskOnes
    <3>1. taskOnes = {} /\ lastSwitch' = lastSwitch /\ t \notin expired
      BY <1>2, <1>4, <1>5, <2>1, <2>2, <2>5
    <3>2. timers' \subseteq timers /\ t \in timers'
      BY <1>6, <3>1
    <3> QED
      BY <2>1, <2>2, <2>3, <3>1, <3>2 DEF Switching
  <2> QED
    BY <2>4, <2>5
<1>10. Owners'
  <2>1. \A t \in timers : t.value \in {TaskTimer, Cursor, AppTimer}
    BY <1>5 DEF Entries
  <2>2. \A u \in timers' : u.task = MainTask => u.value # AppTimer
    BY <1>4, <1>5, <1>6 DEF IInv, Owners
  <2>3. \A t \in sent : t.task = MainTask => t.value = Cursor
    BY <1>5, <2>1 DEF IInv, Owners
  <2>4. \A f \in fired' : f.timer.task = MainTask => f.timer.value = Cursor
    BY <1>6, <2>3 DEF IInv, Owners
  <2> QED
    BY <2>2, <2>4 DEF Owners
<1>11. ASSUME NEW t \in Tasks
       PROVE  /\ inbox'[t] \in Seq(Entries)
              /\ inbox[t] \in Seq(Entries)
              /\ \A i \in DOMAIN inbox'[t] :
                   \/ i \in DOMAIN inbox[t] /\ inbox'[t][i] = inbox[t][i] /\ i <= Len(inbox[t])
                   \/ inbox'[t][i] \in sent /\ inbox'[t][i].task = t /\ i > Len(inbox[t])
              /\ \A i, j \in DOMAIN inbox'[t] :
                   i < j /\ i > Len(inbox[t]) => inbox'[t][i].timeout <= inbox'[t][j].timeout
  <2> DEFINE s == delivery[t]
             q == inbox[t]
  <2>0. s \in SentTo(sent, t)
    BY <1>3 DEF Deliveries
  <2>1. /\ s \in Seq(sent) /\ \A k \in DOMAIN s : s[k].task = t
        /\ \A k, l \in DOMAIN s : k < l => s[k].timeout <= s[l].timeout
    BY <1>5, <1>16, <2>0, SentToTask
  <2>2. q \in Seq(Entries) /\ s \in Seq(Entries)
    <3>1. q \in Seq(Entries)
      BY DEF IInv, TypeOK
    <3> HIDE DEF s
    <3>2. s \in Seq(Entries)
      BY <1>5, <2>1
    <3> QED
      BY <3>1, <3>2
  <2>3. CASE t \in alive
    <3>1. inbox'[t] = q \o s
      BY <1>3, <2>3
    <3> DEFINE r == inbox'[t]
    <3> HIDE DEF s, q, r
    <3>2. r = q \o s
      BY <3>1 DEF r
    <3>3. /\ r \in Seq(Entries) /\ Len(q) \in Nat /\ Len(s) \in Nat
          /\ DOMAIN r = 1..(Len(q) + Len(s)) /\ DOMAIN q = 1..Len(q) /\ DOMAIN s = 1..Len(s)
          /\ \A i \in DOMAIN r : IF i <= Len(q) THEN r[i] = q[i] ELSE r[i] = s[i - Len(q)]
      BY <2>2, <3>2
    <3>4. \A k \in DOMAIN s : s[k] \in sent
      BY <2>1, <3>3
    <3>5. \A i \in DOMAIN r : i > Len(q) => i - Len(q) \in DOMAIN s /\ i \in Nat /\ r[i] = s[i - Len(q)]
      BY <3>3
    <3>6. \A i \in DOMAIN r : i <= Len(q) => i \in DOMAIN q /\ r[i] = q[i]
      BY <3>3
    <3>7. \A i \in DOMAIN r :
            \/ i \in DOMAIN q /\ r[i] = q[i] /\ i <= Len(q)
            \/ r[i] \in sent /\ r[i].task = t /\ i > Len(q)
      BY <2>1, <3>3, <3>4, <3>5, <3>6
    <3>8. ASSUME NEW i \in DOMAIN r, NEW j \in DOMAIN r, i < j, i > Len(q)
          PROVE  r[i].timeout <= r[j].timeout
      <4>1. i \in Nat /\ j \in Nat /\ j > Len(q) /\ i - Len(q) < j - Len(q)
        BY <3>3, <3>8
      <4> QED
        BY <2>1, <3>5, <3>8, <4>1
    <3> QED
      BY <2>2, <3>3, <3>7, <3>8 DEF q, r
  <2>4. CASE t \notin alive
    <3>1. inbox'[t] = q
      BY <1>3, <2>4
    <3> HIDE DEF q
    <3>2. \A i \in DOMAIN q : i <= Len(q) /\ ~(i > Len(q))
      BY <2>2
    <3>3. /\ inbox'[t] \in Seq(Entries) /\ q \in Seq(Entries)
          /\ \A i \in DOMAIN inbox'[t] : i \in DOMAIN q /\ inbox'[t][i] = q[i] /\ i <= Len(q)
          /\ \A i \in DOMAIN inbox'[t] : ~(i > Len(q))
      BY <2>2, <3>1, <3>2
    <3> QED
      BY <3>3 DEF q
  <2> QED
    BY <2>3, <2>4
<1>12. TypeOK'
  <2>1. inbox' \in [Tasks -> Seq(Entries)]
    <3>1. inbox' = [t \in Tasks |-> inbox'[t]]
      BY <1>3
    <3> QED
      BY <1>11, <3>1
  <2>2. timers' \in SUBSET Entries
    BY <1>4, <1>5, <1>6
  <2>3. fired' \in SUBSET [timer : Entries, at : Nat]
    BY <1>2, <1>4, <1>5 DEF IInv, TypeOK
  <2>4. lastSwitch' \in Nat
    BY <1>2, <1>4 DEF IInv, TypeOK
  <2> QED
    BY <1>2, <1>4, <1>16, <2>1, <2>2, <2>3, <2>4 DEF IInv, TypeOK
<1>13. Mailboxes'
  <2> SUFFICES ASSUME NEW t \in Tasks, NEW i \in DOMAIN inbox'[t]
               PROVE  inbox'[t][i].task = t /\ \E f \in fired' : f.timer = inbox'[t][i]
    BY DEF Mailboxes
  <2>1. CASE i \in DOMAIN inbox[t] /\ inbox'[t][i] = inbox[t][i]
    BY <1>6, <2>1 DEF IInv, Mailboxes
  <2>2. CASE inbox'[t][i] \in sent /\ inbox'[t][i].task = t
    BY <1>6, <2>2
  <2> QED
    BY <1>11, <2>1, <2>2
<1>14. InOrder'
  <2> SUFFICES ASSUME NEW t \in Tasks, NEW i \in DOMAIN inbox'[t], NEW j \in DOMAIN inbox'[t],
                      NEW f \in fired', NEW g \in fired',
                      i < j, f.timer = inbox'[t][i], g.timer = inbox'[t][j], f.at = g.at
               PROVE  inbox'[t][i].timeout <= inbox'[t][j].timeout
    BY DEF InOrder
  <2>0. \A h \in fired : h.at < now /\ h.timer \notin sent
    <3>1. \A h \in fired : h.at <= tick /\ h.at \in Nat /\ tick \in Nat /\ tick < now
      BY <1>1 DEF IInv, Times, TypeOK
    <3>2. \A h \in fired : h.timer \notin sent
      BY <1>5 DEF IInv, Serials
    <3> QED
      BY <3>1, <3>2, <1>4
  <2>1. CASE i > Len(inbox[t])
    BY <1>11, <2>1
  <2>2. CASE ~(i > Len(inbox[t]))
    <3>1. i \in DOMAIN inbox[t] /\ inbox'[t][i] = inbox[t][i]
      BY <1>11, <2>2
    <3>2. PICK h \in fired : h.timer = inbox[t][i]
      BY <3>1 DEF IInv, Mailboxes
    <3>3. f = h
      BY <1>6, <1>7, <3>1, <3>2 DEF Serials
    <3>4. f.at < now
      BY <2>0, <3>2, <3>3
    <3>5. g \in fired
      BY <1>4, <1>6, <3>4
    <3>6. inbox'[t][j] \notin sent
      BY <2>0, <3>5
    <3>7. j \in DOMAIN inbox[t] /\ inbox'[t][j] = inbox[t][j]
      BY <1>11, <3>6
    <3> QED
      BY <3>1, <3>2, <3>3, <3>5, <3>7 DEF IInv, InOrder
  <2> QED
    BY <2>1, <2>2
<1>15. CursorKeepsRhythm'
  <2>1. TaskTimer # Cursor
    BY DEF TaskTimer, Cursor
  <2>2. \A x : x \in CursorTimeouts' <=> x \in CursorTimeouts
    <3> SUFFICES ASSUME NEW x PROVE x \in CursorTimeouts' <=> x \in CursorTimeouts
      OBVIOUS
    <3>1. (\E u \in timers' : u.value = Cursor /\ u.timeout = x)
            => \E t \in timers : t.value = Cursor /\ t.timeout = x
      BY <1>4, <1>5, <1>6, <2>1
    <3>2. (\E f \in fired' : f.timer.value = Cursor /\ f.timer.timeout = x)
            => \/ \E t \in timers : t.value = Cursor /\ t.timeout = x
               \/ \E f \in fired : f.timer.value = Cursor /\ f.timer.timeout = x
      BY <1>5, <1>6
    <3>3. (\E t \in timers : t.value = Cursor /\ t.timeout = x)
            => \/ \E u \in timers' : u.value = Cursor /\ u.timeout = x
               \/ \E f \in fired' : f.timer.value = Cursor /\ f.timer.timeout = x
      BY <1>5, <1>6, <2>1
    <3>4. (\E f \in fired : f.timer.value = Cursor /\ f.timer.timeout = x)
            => \E f \in fired' : f.timer.value = Cursor /\ f.timer.timeout = x
      BY <1>6
    <3> QED
      BY <3>1, <3>2, <3>3, <3>4, CursorTimesAre, CursorTimesNext
  <2> QED
    BY <2>2 DEF IInv, CursorKeepsRhythm
<1> QED
  BY <1>7, <1>8, <1>9, <1>10, <1>12, <1>13, <1>14, <1>15 DEF IInv

LEMMA TimersStep == IInv /\ [Next]_vars => IInv'
<1> SUFFICES ASSUME IInv, [Next]_vars PROVE IInv'
  OBVIOUS
<1>1. CASE Tick
  BY <1>1, TickStep
<1>2. CASE Blink
  BY <1>2, BlinkStep
<1>3. ASSUME NEW t \in Apps, NEW delay \in Delays, NEW relative \in BOOLEAN,
             CreateTimerReads(t, delay, relative)
      PROVE  IInv'
  BY <1>3, CreateTimerReadsStep
<1>4. ASSUME NEW t \in Apps, CreateTimerAdds(t) \/ ReadEvent(t) \/ Finish(t) PROVE IInv'
  BY <1>4, CreateTimerAddsStep, ReadEventStep, FinishStep
<1>5. CASE UNCHANGED vars
  BY <1>5 DEF vars, IInv, TypeOK, Serials, Times, OnTime, Switching, Owners, Mailboxes, InOrder,
              CursorKeepsRhythm, CursorTimeouts
<1> QED
  BY <1>1, <1>2, <1>3, <1>4, <1>5 DEF Next

LEMMA TimersInvariance == ClockSpec => []IInv
<1>1. ClockInit => IInv
  BY InitTimers DEF ClockInit
<1>2. IInv /\ [ClockNext]_<<vars, acpiVars>> => IInv'
  BY TimersStep DEF ClockNext
<1> QED
  BY <1>1, <1>2, PTL DEF ClockSpec

\* TimerManager::Tick takes every timer from the queue once and on time, sends the messages of a
\* tick in the order of their times, and never loses the timer of preemption.
THEOREM TimersExpire == ClockSpec => []ExpiresOnceOnTime
BY TimersInvariance, TimersFollow, PTL

\* The blinking of the cursor in KernelMainNewStack: each timeout is half a second after the one
\* before, however late the message of that was handled.
THEOREM CursorBlinks == ClockSpec => []CursorKeepsRhythm
<1>1. IInv => CursorKeepsRhythm
  BY DEF IInv
<1> QED
  BY <1>1, TimersInvariance, PTL
-----------------------------------------------------------------------------
(* The inductive invariant of Acpi.                                         *)

Boots == {"acpi", "halted", "start", "begin", "wrap", "reach", "stop", "set", "ticking"}

AcpiTypeOK ==
  /\ boot \in Boots /\ time \in Nat
  /\ pm \in [size : {Narrow, Wide}, count : Nat] /\ pm.count < pm.size
  /\ lapic \in [initial : Nat, current : Nat]
  /\ wait \in [start : Nat, end : Nat]

\* The tables are those of a firmware, and say how wide its timer is.
TableDescribesTimer ==
  /\ boot = "acpi" => \E f \in Firmwares : rsdp = f.rsdp /\ pm.size = f.size
  /\ boot \in {"start", "begin", "wrap", "reach"} => fadt.wide = (pm.size = Wide)

\* The LAPIC timer has counted since it was started.
Counting ==
  /\ boot \in {"acpi", "start", "begin"} => time = 0
  /\ boot \in {"begin", "wrap", "reach", "stop"} =>
       lapic.current = IF CountMax < Rate * time THEN 0 ELSE CountMax - Rate * time

\* What the PM timer shows e ticks after the start of the wait, in its first two rounds.
Shows(e) ==
  /\ wait.start + e < pm.size => pm.count = wait.start + e
  /\ wait.start + e >= pm.size /\ wait.start + e < pm.size + pm.size =>
       pm.count = wait.start + e - pm.size

\* The end of the wait is in this round of the PM timer, or in the next one.
EndOfWait ==
  /\ wait.start < pm.size
  /\ \/ wait.end = wait.start + WaitTicks /\ wait.end < pm.size
     \/ wait.end = wait.start + WaitTicks - pm.size /\ wait.start + WaitTicks >= pm.size

\* The loops of WaitMilliseconds, e ticks after its first read of the PM timer.
Loops(e) ==
  /\ e \in Nat /\ e <= time /\ time <= e + MaxPoll
  /\ Shows(e)
  /\ boot = "wrap" => wait.end < wait.start /\ wait.start + e < pm.size
  /\ boot = "reach" =>
       \/ /\ wait.end > wait.start
          /\ MayBeMissed \/ e < WaitTicks
       \/ /\ wait.end < wait.start /\ wait.start + e >= pm.size
          /\ MayBeMissed \/ e < WaitTicks \/ wait.start + e < pm.size + MaxPoll

Waiting ==
  /\ boot \in {"wrap", "reach"} => EndOfWait /\ \E e \in 0..time : Loops(e)
  /\ boot = "stop" => /\ WaitTicks <= time
                      /\ MayBeMissed \/ time <= WaitTicks + 3 * MaxPoll

AcpiInv == AcpiTypeOK /\ TableDescribesTimer /\ Counting /\ Waiting /\ TickIsCentisecond

LEMMA Sizes ==
  /\ Narrow \in Nat /\ Wide \in Nat /\ Narrow < Wide /\ Narrow + Narrow <= Wide
  /\ WaitTicks \in Nat /\ 1 <= WaitTicks /\ WaitTicks < Narrow
  /\ MaxPoll \in Nat /\ 1 <= MaxPoll /\ MaxPoll + WaitTicks <= Narrow /\ MaxPoll + MaxPoll <= Narrow
BY AcpiAssumption

LEMMA OneRound ==
  ASSUME NEW n \in Nat \ {0}, NEW x \in Nat, x < n + n
  PROVE  x % n = IF x < n THEN x ELSE x - n
OBVIOUS

\* The LAPIC timer has run down by what has passed, or to 0.
LEMMA RunsDown ==
  ASSUME NEW t \in Nat, NEW d \in Nat, NEW c \in Nat, NEW c1 \in Nat,
         c = IF CountMax < Rate * t THEN 0 ELSE CountMax - Rate * t,
         c1 = IF c < Rate * d THEN 0 ELSE c - Rate * d
  PROVE  c1 = IF CountMax < Rate * (t + d) THEN 0 ELSE CountMax - Rate * (t + d)
<1>1. Rate \in Nat /\ CountMax \in Nat
  BY AcpiAssumption
<1> DEFINE a == Rate * t
           b == Rate * d
<1>2. Rate * (t + d) = a + b /\ a \in Nat /\ b \in Nat
  BY <1>1
<1> HIDE DEF a, b
<1>3. c = (IF CountMax < a THEN 0 ELSE CountMax - a) /\ c1 = (IF c < b THEN 0 ELSE c - b)
  BY DEF a, b
<1> QED
  BY <1>1, <1>2, <1>3

\* What passes between two reads of the PM timer.
LEMMA PassStep ==
  ASSUME AcpiTypeOK, NEW d \in 0..MaxPoll, Pass(d)
  PROVE  /\ time' = time + d /\ time' \in Nat
         /\ pm' \in [size : {Narrow, Wide}, count : Nat] /\ pm'.count < pm'.size /\ pm'.size = pm.size
         /\ pm'.count = IF pm.count + d < pm.size THEN pm.count + d ELSE pm.count + d - pm.size
         /\ lapic' \in [initial : Nat, current : Nat] /\ lapic'.initial = lapic.initial
         /\ lapic.current = (IF CountMax < Rate * time THEN 0 ELSE CountMax - Rate * time) =>
              lapic'.current = IF CountMax < Rate * time' THEN 0 ELSE CountMax - Rate * time'
<1>1. d \in Nat /\ d <= MaxPoll /\ pm.size \in Nat \ {0} /\ pm.count \in Nat /\ pm.count < pm.size
      /\ pm.size \in {Narrow, Wide} /\ MaxPoll < pm.size
  BY Sizes DEF AcpiTypeOK
<1>2. time' = time + d /\ time' \in Nat
  BY <1>1 DEF Pass, AcpiTypeOK
<1>3. pm' = [pm EXCEPT !.count = (pm.count + d) % pm.size]
  BY DEF Pass
<1>4. (pm.count + d) % pm.size = IF pm.count + d < pm.size THEN pm.count + d ELSE pm.count + d - pm.size
  <2> DEFINE x == pm.count + d
             n == pm.size
  <2>1. n \in Nat \ {0} /\ x \in Nat /\ x < n + n
    BY <1>1, Sizes
  <2> HIDE DEF x, n
  <2>2. x % n = IF x < n THEN x ELSE x - n
    BY <2>1, OneRound
  <2> QED
    BY <1>1, <2>2 DEF x, n
<1>5. pm'.size = pm.size /\ pm'.count = (pm.count + d) % pm.size
      /\ pm' = [size |-> pm.size, count |-> (pm.count + d) % pm.size]
  BY <1>3 DEF AcpiTypeOK
<1>6. pm' \in [size : {Narrow, Wide}, count : Nat] /\ pm'.count < pm'.size
  <2>1. pm'.count \in Nat /\ pm'.count < pm.size
    BY <1>1, <1>4, <1>5
  <2> QED
    BY <1>1, <1>5, <2>1
<1>7. lapic' = [lapic EXCEPT !.current = IF lapic.current < Rate * d THEN 0 ELSE lapic.current - Rate * d]
  BY DEF Pass
<1> DEFINE b == Rate * d
           c == IF lapic.current < b THEN 0 ELSE lapic.current - b
<1>8. Rate \in Nat /\ b \in Nat
  BY <1>1, AcpiAssumption
<1>9. lapic.current \in Nat /\ lapic.initial \in Nat /\ c \in Nat
  <2> HIDE DEF b
  <2> QED
    BY <1>8 DEF AcpiTypeOK
<1>10. lapic' = [initial |-> lapic.initial, current |-> c]
  BY <1>7 DEF AcpiTypeOK
<1>11. lapic' \in [initial : Nat, current : Nat] /\ lapic'.initial = lapic.initial /\ lapic'.current = c
  <2> HIDE DEF c
  <2> QED
    BY <1>9, <1>10
<1>12. lapic.current = (IF CountMax < Rate * time THEN 0 ELSE CountMax - Rate * time) =>
         lapic'.current = IF CountMax < Rate * time' THEN 0 ELSE CountMax - Rate * time'
  <2> SUFFICES ASSUME lapic.current = IF CountMax < Rate * time THEN 0 ELSE CountMax - Rate * time
               PROVE  lapic'.current = IF CountMax < Rate * (time + d) THEN 0 ELSE CountMax - Rate * (time + d)
    BY <1>2
  <2>1. time \in Nat /\ lapic'.current \in Nat
    BY <1>11 DEF AcpiTypeOK
  <2>2. lapic'.current = IF lapic.current < Rate * d THEN 0 ELSE lapic.current - Rate * d
    BY <1>11
  <2> HIDE DEF b, c
  <2> QED
    BY <1>1, <1>9, <2>1, <2>2, RunsDown
<1> QED
  BY <1>2, <1>4, <1>5, <1>6, <1>11, <1>12

\* A tick is found from what the LAPIC timer has counted: more ticks, more counts.
LEMMA CountsGrow ==
  ASSUME NEW x \in Nat, NEW y \in Nat, x <= y
  PROVE  /\ Rate * x \in Nat /\ Rate * y \in Nat /\ Rate * x <= Rate * y
         /\ (x * Tenths) \div TimerFreq \in Nat
         /\ (x * Tenths) \div TimerFreq <= (y * Tenths) \div TimerFreq
<1>1. Rate \in Nat /\ Tenths \in Nat /\ TimerFreq \in Nat \ {0}
  BY AcpiAssumption
<1>2. Rate * x \in Nat /\ Rate * y \in Nat /\ Rate * x <= Rate * y
  BY <1>1
<1> DEFINE a == x * Tenths
           b == y * Tenths
<1>3. a \in Nat /\ b \in Nat /\ a <= b
  BY <1>1
<1> HIDE DEF a, b
<1>4. a \div TimerFreq \in Nat /\ a \div TimerFreq <= b \div TimerFreq
  BY <1>1, <1>3
<1> QED
  BY <1>2, <1>4 DEF a, b

LEMMA InitAcpi == ClockInit => AcpiInv
<1> SUFFICES ASSUME AcpiInit PROVE AcpiInv
  BY DEF ClockInit
<1>1. PICK f \in Firmwares :
        /\ rsdp = f.rsdp
        /\ pm \in {[size |-> f.size, count |-> c] : c \in 0..(f.size - 1)}
  BY DEF AcpiInit
<1>2. f.size \in {Narrow, Wide} /\ f.size \in Nat
  BY FirmwareAssumption, Sizes
<1>3. PICK c \in 0..(f.size - 1) : pm = [size |-> f.size, count |-> c]
  BY <1>1
<1>4. AcpiTypeOK
  BY <1>2, <1>3 DEF AcpiInit, AcpiTypeOK, Boots
<1>5. TableDescribesTimer
  BY <1>1, <1>3 DEF AcpiInit, TableDescribesTimer
<1> QED
  BY <1>4, <1>5 DEF AcpiInit, AcpiInv, Counting, Waiting, TickIsCentisecond

LEMMA InitializeStep ==
  ASSUME AcpiInv, Initialize
  PROVE  AcpiInv'
<1> DEFINE xsdt == rsdp.xsdt
           ok == IsValidRSDP(rsdp) /\ IsValid(xsdt.header, "XSDT") /\ Found(xsdt) # {}
           i == CHOOSE k \in Found(xsdt) : \A j \in Found(xsdt) : k <= j
<1>1. /\ boot = "acpi" /\ boot' = IF ok THEN "start" ELSE "halted"
      /\ fadt' = IF ok THEN xsdt.entries[i] ELSE NoFADT
      /\ UNCHANGED <<rsdp, pm, lapic, wait, time>>
  BY DEF Initialize
<1>2. AcpiTypeOK' /\ boot' \in {"start", "halted"}
  BY <1>1 DEF AcpiInv, AcpiTypeOK, Boots
<1>3. TableDescribesTimer'
  <2>1. CASE ok
    <3>1. PICK f \in Firmwares : rsdp = f.rsdp /\ pm.size = f.size
      BY <1>1 DEF AcpiInv, TableDescribesTimer
    <3>2. Found(xsdt) \subseteq Nat
      BY DEF Found
    <3>3. \E k \in Found(xsdt) : \A j \in Found(xsdt) : k <= j
      <4> DEFINE F == Found(xsdt)
      <4>1. F \subseteq Nat /\ F # {}
        BY <2>1, <3>2
      <4> HIDE DEF F
      <4>2. \E k \in F : \A j \in F : k <= j
        BY <4>1, LeastMember
      <4> QED
        BY <4>2 DEF F
    <3>4. i \in Found(xsdt)
      BY <3>3
    <3> HIDE DEF i
    <3>5. xsdt.entries[i].wide = (f.size = Wide)
      BY <2>1, <3>1, <3>4, FirmwareAssumption
    <3>6. fadt'.wide = (pm'.size = Wide)
      BY <1>1, <2>1, <3>1, <3>5
    <3> QED
      BY <1>1, <2>1, <3>6 DEF TableDescribesTimer
  <2>2. CASE ~ok
    BY <1>1, <2>2 DEF TableDescribesTimer
  <2> QED
    BY <2>1, <2>2
<1>4. Counting' /\ Waiting' /\ TickIsCentisecond'
  BY <1>1, <1>2 DEF AcpiInv, Counting, Waiting, TickIsCentisecond
<1> QED
  BY <1>2, <1>3, <1>4 DEF AcpiInv

LEMMA StartStep ==
  ASSUME AcpiInv, StartLAPICTimer
  PROVE  AcpiInv'
<1>1. /\ boot = "start" /\ boot' = "begin" /\ lapic' = [initial |-> CountMax, current |-> CountMax]
      /\ UNCHANGED <<rsdp, fadt, pm, wait, time>>
  BY DEF StartLAPICTimer
<1>2. time = 0 /\ CountMax \in Nat /\ Rate \in Nat
  BY <1>1, AcpiAssumption DEF AcpiInv, Counting
<1>3. AcpiTypeOK'
  BY <1>1, <1>2 DEF AcpiInv, AcpiTypeOK, Boots
<1>4. Rate * time' = 0 /\ time' = 0
  BY <1>1, <1>2
<1>5. Counting'
  BY <1>1, <1>2, <1>4 DEF Counting
<1> QED
  BY <1>1, <1>3, <1>5 DEF AcpiInv, TableDescribesTimer, Waiting, TickIsCentisecond

\* WaitMilliseconds finds the end of the wait, and whether the timer begins again before it.
LEMMA EndIsAhead ==
  ASSUME pm.size \in {Narrow, Wide}, fadt.wide = (pm.size = Wide), NEW s \in Nat, s < pm.size
  PROVE  /\ End(s) \in Nat
         /\ \/ End(s) = s + WaitTicks /\ End(s) < pm.size
            \/ End(s) = s + WaitTicks - pm.size /\ s + WaitTicks >= pm.size
<1>1. s + WaitTicks \in Nat /\ s + WaitTicks < pm.size + pm.size /\ WaitTicks \in Nat
  BY Sizes
<1> DEFINE x == s + WaitTicks
<1> HIDE DEF x
<1>2. x \in Nat
  BY <1>1 DEF x
<1>3. CASE pm.size = Wide
  <2>1. x < Wide + Wide /\ Wide \in Nat \ {0}
    BY <1>1, <1>3, Sizes DEF x
  <2>2. x % Wide = IF x < Wide THEN x ELSE x - Wide
    BY <1>2, <2>1, OneRound
  <2>3. End(s) = x % Wide
    BY <1>3 DEF End, x
  <2> QED
    BY <1>1, <1>2, <1>3, <2>1, <2>2, <2>3 DEF x
<1>4. CASE pm.size = Narrow
  <2>1. x < Narrow + Narrow /\ x < Wide /\ x < Wide + Wide /\ Wide \in Nat \ {0} /\ Narrow \in Nat \ {0}
    BY <1>1, <1>4, Sizes DEF x
  <2>2. x % Wide = x
    BY <1>2, <2>1, OneRound
  <2>3. x % Narrow = IF x < Narrow THEN x ELSE x - Narrow
    BY <1>2, <2>1, OneRound
  <2>4. fadt.wide = FALSE
    <3>1. Narrow # Wide
      BY Sizes
    <3> QED
      BY <1>4, <3>1
  <2>5. End(s) = x % Narrow
    BY <2>2, <2>4 DEF End, x
  <2> QED
    BY <1>1, <1>2, <1>4, <2>1, <2>3, <2>5 DEF x
<1> QED
  BY <1>3, <1>4

LEMMA WaitMillisecondsStep ==
  ASSUME AcpiInv, WaitMilliseconds
  PROVE  AcpiInv'
<1>1. boot = "begin" /\ AcpiTypeOK /\ TableDescribesTimer /\ Counting
  BY DEF WaitMilliseconds, AcpiInv
<1>2. PICK d \in 0..MaxPoll : Pass(d)
  BY DEF WaitMilliseconds
<1>3. /\ wait' = [start |-> pm'.count, end |-> End(pm'.count)]
      /\ boot' = IF Overflows(pm'.count) THEN "wrap" ELSE "reach"
      /\ UNCHANGED <<rsdp, fadt>>
  BY DEF WaitMilliseconds
<1>4. /\ time' = time + d /\ time' \in Nat
      /\ pm' \in [size : {Narrow, Wide}, count : Nat] /\ pm'.count < pm'.size /\ pm'.size = pm.size
      /\ lapic' \in [initial : Nat, current : Nat]
      /\ lapic'.current = IF CountMax < Rate * time' THEN 0 ELSE CountMax - Rate * time'
  BY <1>1, <1>2, PassStep DEF Counting
<1>5. time = 0 /\ pm.size \in {Narrow, Wide} /\ fadt.wide = (pm.size = Wide)
  BY <1>1 DEF Counting, AcpiTypeOK, TableDescribesTimer
<1>6. pm'.count \in Nat /\ pm'.count < pm.size
  BY <1>4
<1>7. /\ End(pm'.count) \in Nat
      /\ \/ End(pm'.count) = pm'.count + WaitTicks /\ End(pm'.count) < pm.size
         \/ End(pm'.count) = pm'.count + WaitTicks - pm.size /\ pm'.count + WaitTicks >= pm.size
  BY <1>5, <1>6, EndIsAhead
<1>8. wait'.start = pm'.count /\ wait'.end = End(pm'.count) /\ wait' \in [start : Nat, end : Nat]
  BY <1>3, <1>6, <1>7
<1>9. boot' \in {"wrap", "reach"} /\ (boot' = "wrap" <=> wait'.end < wait'.start)
  BY <1>3, <1>8 DEF Overflows
<1>10. EndOfWait'
  BY <1>4, <1>6, <1>7, <1>8 DEF EndOfWait
<1>11. Loops(0)'
  <2>1. 0 <= time' /\ time' <= 0 + MaxPoll
    BY <1>2, <1>4, <1>5, Sizes
  <2>2. Shows(0)'
    BY <1>4, <1>5, <1>6, <1>8, Sizes DEF Shows
  <2>3. boot' = "wrap" => wait'.end < wait'.start /\ wait'.start + 0 < pm'.size
    BY <1>4, <1>8, <1>9
  <2>4. boot' = "reach" => wait'.end > wait'.start /\ 0 < WaitTicks
    <3>1. wait'.end # wait'.start
      BY <1>4, <1>6, <1>7, <1>8, Sizes
    <3> QED
      BY <1>8, <1>9, <3>1, Sizes
  <2> QED
    BY <2>1, <2>2, <2>3, <2>4 DEF Loops
<1>12. Waiting'
  <2>1. 0 \in 0..time'
    BY <1>4
  <2>2. \E e \in 0..time' : Loops(e)'
    BY <1>11, <2>1
  <2> QED
    BY <1>9, <1>10, <2>2 DEF Waiting
<1>13. AcpiTypeOK' /\ TableDescribesTimer' /\ Counting' /\ TickIsCentisecond'
  BY <1>3, <1>4, <1>5, <1>8, <1>9 DEF AcpiTypeOK, Boots, TableDescribesTimer, Counting, TickIsCentisecond
<1> QED
  BY <1>12, <1>13 DEF AcpiInv

\* What a read shows follows from what the one before has shown.
LEMMA ShowsNext ==
  ASSUME AcpiTypeOK, AcpiTypeOK', pm'.size = pm.size, wait' = wait, wait.start < pm.size,
         NEW e \in Nat, NEW d \in 1..MaxPoll, Shows(e),
         pm'.count = IF pm.count + d < pm.size THEN pm.count + d ELSE pm.count + d - pm.size
  PROVE  Shows(e + d)'
<1>1. /\ pm.size \in Nat /\ pm.count \in Nat /\ pm.count < pm.size /\ wait.start \in Nat /\ d \in Nat
      /\ d < pm.size
  BY Sizes DEF AcpiTypeOK
<1>2. pm'.count \in Nat /\ wait'.start = wait.start
  BY DEF AcpiTypeOK
<1> DEFINE s == wait.start
           n == pm.size
           c == pm.count
           c1 == pm'.count
<1>3. /\ s + e < n => c = s + e
      /\ s + e >= n /\ s + e < n + n => c = s + e - n
  BY DEF Shows
<1>4. c1 = IF c + d < n THEN c + d ELSE c + d - n
  OBVIOUS
<1>5. s \in Nat /\ n \in Nat /\ c \in Nat /\ c1 \in Nat /\ d \in Nat /\ c < n /\ d < n
  BY <1>1, <1>2
<1> HIDE DEF s, n, c, c1
<1>6. /\ s + (e + d) < n => c1 = s + (e + d)
      /\ s + (e + d) >= n /\ s + (e + d) < n + n => c1 = s + (e + d) - n
  BY <1>3, <1>4, <1>5
<1> QED
  BY <1>2, <1>6 DEF Shows, s, n, c, c1

LEMMA WaitForWrapStep ==
  ASSUME AcpiInv, WaitForWrap
  PROVE  AcpiInv'
<1>1. boot = "wrap" /\ AcpiTypeOK /\ TableDescribesTimer /\ Counting /\ EndOfWait
  BY DEF WaitForWrap, AcpiInv, Waiting
<1>2. PICK d \in 1..MaxPoll : Pass(d)
  BY DEF WaitForWrap
<1>3. boot' = (IF pm'.count >= wait.start THEN "wrap" ELSE "reach") /\ UNCHANGED <<rsdp, fadt, wait>>
  BY DEF WaitForWrap
<1>4. PICK e \in 0..time : Loops(e)
  BY <1>1 DEF AcpiInv, Waiting
<1>5. /\ time' = time + d /\ time' \in Nat
      /\ pm' \in [size : {Narrow, Wide}, count : Nat] /\ pm'.count < pm'.size /\ pm'.size = pm.size
      /\ pm'.count = IF pm.count + d < pm.size THEN pm.count + d ELSE pm.count + d - pm.size
      /\ lapic' \in [initial : Nat, current : Nat]
      /\ lapic'.current = IF CountMax < Rate * time' THEN 0 ELSE CountMax - Rate * time'
  <2>1. d \in 0..MaxPoll
    OBVIOUS
  <2> QED
    BY <1>1, <1>2, <2>1, PassStep DEF Counting
<1>6. boot' \in {"wrap", "reach"} /\ AcpiTypeOK'
  BY <1>1, <1>3, <1>5 DEF AcpiTypeOK, Boots
<1>7. /\ wait.start \in Nat /\ wait.end \in Nat /\ wait.start < pm.size /\ wait.end < wait.start
      /\ wait.start + WaitTicks >= pm.size /\ pm.size \in Nat /\ pm'.count \in Nat
      /\ e \in Nat /\ d \in Nat /\ d <= MaxPoll /\ e + d \in Nat /\ time \in Nat
      /\ MaxPoll \in Nat /\ WaitTicks \in Nat /\ MaxPoll + WaitTicks <= pm.size
      /\ wait.start + e < pm.size /\ e <= time /\ time <= e + MaxPoll
  <2>1. wait.end < wait.start /\ wait.start + e < pm.size /\ e <= time /\ time <= e + MaxPoll /\ e \in Nat
    BY <1>1, <1>4 DEF Loops
  <2>2. wait.start \in Nat /\ wait.end \in Nat /\ wait.start < pm.size /\ pm.size \in {Narrow, Wide}
        /\ pm'.count \in Nat /\ time \in Nat
    BY <1>1, <1>5 DEF EndOfWait, AcpiTypeOK
  <2>3. pm.size \in Nat /\ MaxPoll + WaitTicks <= pm.size /\ MaxPoll \in Nat /\ WaitTicks \in Nat
    BY <2>2, Sizes
  <2>4. wait.start + WaitTicks >= pm.size
    BY <1>1, <2>1, <2>2, <2>3 DEF EndOfWait
  <2> QED
    BY <2>1, <2>2, <2>3, <2>4
<1>8. Shows(e + d)'
  BY <1>1, <1>3, <1>4, <1>5, <1>6, <1>7, ShowsNext DEF Loops
<1>9. /\ wait.start + (e + d) < pm.size => pm'.count = wait.start + (e + d)
      /\ wait.start + (e + d) >= pm.size /\ wait.start + (e + d) < pm.size + pm.size =>
           pm'.count = wait.start + (e + d) - pm.size
  BY <1>3, <1>5, <1>8 DEF Shows
<1>10. boot' = "wrap" => wait.start + (e + d) < pm.size
  BY <1>3, <1>7, <1>9
<1>11. boot' = "reach" => /\ wait.start + (e + d) >= pm.size
                          /\ wait.start + (e + d) < pm.size + MaxPoll
  BY <1>3, <1>7, <1>9
<1>12. Loops(e + d)'
  <2>1. e + d <= time' /\ time' <= (e + d) + MaxPoll
    BY <1>5, <1>7
  <2> QED
    BY <1>3, <1>5, <1>7, <1>8, <1>10, <1>11, <2>1 DEF Loops
<1>13. Waiting'
  <2>1. e + d \in 0..time'
    BY <1>5, <1>7
  <2>2. \E g \in 0..time' : Loops(g)'
    BY <1>12, <2>1
  <2>3. EndOfWait'
    BY <1>1, <1>3, <1>5 DEF EndOfWait
  <2> QED
    BY <1>6, <2>2, <2>3 DEF Waiting
<1>14. TableDescribesTimer' /\ Counting' /\ TickIsCentisecond'
  BY <1>1, <1>3, <1>5, <1>6 DEF TableDescribesTimer, Counting, TickIsCentisecond
<1> QED
  BY <1>6, <1>13, <1>14 DEF AcpiInv

LEMMA WaitForEndStep ==
  ASSUME AcpiInv, WaitForEnd
  PROVE  AcpiInv'
<1>1. boot = "reach" /\ AcpiTypeOK /\ TableDescribesTimer /\ Counting /\ EndOfWait
  BY DEF WaitForEnd, AcpiInv, Waiting
<1>2. PICK d \in 1..MaxPoll : Pass(d)
  BY DEF WaitForEnd
<1>3. boot' = (IF pm'.count < wait.end THEN "reach" ELSE "stop") /\ UNCHANGED <<rsdp, fadt, wait>>
  BY DEF WaitForEnd
<1>4. PICK e \in 0..time : Loops(e)
  BY <1>1 DEF AcpiInv, Waiting
<1>5. /\ time' = time + d /\ time' \in Nat
      /\ pm' \in [size : {Narrow, Wide}, count : Nat] /\ pm'.count < pm'.size /\ pm'.size = pm.size
      /\ pm'.count = IF pm.count + d < pm.size THEN pm.count + d ELSE pm.count + d - pm.size
      /\ lapic' \in [initial : Nat, current : Nat]
      /\ lapic'.current = IF CountMax < Rate * time' THEN 0 ELSE CountMax - Rate * time'
  <2>1. d \in 0..MaxPoll
    OBVIOUS
  <2> QED
    BY <1>1, <1>2, <2>1, PassStep DEF Counting
<1>6. boot' \in {"reach", "stop"} /\ AcpiTypeOK' /\ MayBeMissed' = MayBeMissed
  BY <1>1, <1>3, <1>5 DEF AcpiTypeOK, Boots, MayBeMissed
<1>7. /\ wait.start \in Nat /\ wait.end \in Nat /\ wait.start < pm.size
      /\ pm.size \in Nat /\ pm'.count \in Nat /\ pm'.count < pm.size
      /\ e \in Nat /\ d \in Nat /\ d <= MaxPoll /\ e + d \in Nat /\ time \in Nat
      /\ MaxPoll \in Nat /\ WaitTicks \in Nat /\ WaitTicks < pm.size
      /\ MaxPoll + WaitTicks <= pm.size /\ MaxPoll + MaxPoll <= pm.size
      /\ e <= time /\ time <= e + MaxPoll
  <2>1. e <= time /\ time <= e + MaxPoll /\ e \in Nat
    BY <1>4 DEF Loops
  <2>2. wait.start \in Nat /\ wait.end \in Nat /\ wait.start < pm.size /\ pm.size \in {Narrow, Wide}
        /\ pm'.count \in Nat /\ pm'.count < pm.size /\ time \in Nat
    BY <1>1, <1>5 DEF EndOfWait, AcpiTypeOK
  <2>3. pm.size \in Nat /\ MaxPoll + WaitTicks <= pm.size /\ MaxPoll \in Nat /\ WaitTicks \in Nat
        /\ MaxPoll + MaxPoll <= pm.size /\ WaitTicks < pm.size
    BY <2>2, Sizes
  <2> QED
    BY <2>1, <2>2, <2>3
<1>8. Shows(e + d)'
  BY <1>1, <1>3, <1>4, <1>5, <1>6, <1>7, ShowsNext DEF Loops
<1>9. /\ wait.start + (e + d) < pm.size => pm'.count = wait.start + (e + d)
      /\ wait.start + (e + d) >= pm.size /\ wait.start + (e + d) < pm.size + pm.size =>
           pm'.count = wait.start + (e + d) - pm.size
  BY <1>3, <1>5, <1>8 DEF Shows
<1>10. ~MayBeMissed => wait.end + MaxPoll <= pm.size
  BY <1>7 DEF MayBeMissed
<1>11. \/ wait.end = wait.start + WaitTicks /\ wait.end < pm.size /\ wait.end > wait.start
       \/ /\ wait.end = wait.start + WaitTicks - pm.size /\ wait.start + WaitTicks >= pm.size
          /\ wait.end < wait.start
  BY <1>1, <1>7, Sizes DEF EndOfWait
<1>12. ASSUME wait.end > wait.start PROVE Waiting'
  <2>1. /\ wait.end = wait.start + WaitTicks /\ wait.end < pm.size
        /\ MayBeMissed \/ e < WaitTicks
    BY <1>1, <1>4, <1>7, <1>11, <1>12 DEF Loops
  <2>2. pm'.count < wait.end => MayBeMissed \/ e + d < WaitTicks
    BY <1>7, <1>9, <1>10, <2>1
  <2>3. ~(pm'.count < wait.end) => WaitTicks <= e + d
    BY <1>7, <1>9, <2>1
  <2>4. MayBeMissed \/ e + d <= WaitTicks + 2 * MaxPoll
    BY <1>7, <2>1
  <2>5. boot' = "reach" => MayBeMissed' \/ e + d < WaitTicks
    BY <1>3, <1>6, <2>2
  <2>6. boot' = "reach" => Loops(e + d)'
    <3>1. e + d <= time' /\ time' <= (e + d) + MaxPoll
      BY <1>5, <1>7
    <3> QED
      BY <1>3, <1>5, <1>6, <1>7, <1>8, <1>12, <2>5, <3>1 DEF Loops
  <2>7. boot' = "reach" => Waiting'
    <3>1. e + d \in 0..time'
      BY <1>5, <1>7
    <3>2. boot' = "reach" => \E g \in 0..time' : Loops(g)'
      BY <2>6, <3>1
    <3>3. EndOfWait'
      BY <1>1, <1>3, <1>5 DEF EndOfWait
    <3> QED
      BY <1>6, <3>2, <3>3 DEF Waiting
  <2>8. boot' = "stop" => Waiting'
    <3>1. boot' = "stop" => WaitTicks <= time' /\ (MayBeMissed \/ time' <= WaitTicks + 3 * MaxPoll)
      BY <1>3, <1>5, <1>7, <2>3, <2>4
    <3> QED
      BY <1>6, <3>1 DEF Waiting
  <2> QED
    BY <1>6, <2>7, <2>8
<1>13. ASSUME wait.end < wait.start PROVE Waiting'
  <2>1. /\ wait.end = wait.start + WaitTicks - pm.size /\ wait.start + WaitTicks >= pm.size
        /\ wait.start + e >= pm.size
        /\ MayBeMissed \/ e < WaitTicks \/ wait.start + e < pm.size + MaxPoll
    BY <1>1, <1>4, <1>7, <1>11, <1>13 DEF Loops
  <2>2. pm'.count < wait.end => MayBeMissed \/ e + d < WaitTicks
    BY <1>7, <1>9, <1>10, <2>1
  <2>3. ~(pm'.count < wait.end) => WaitTicks <= e + d
    BY <1>7, <1>9, <2>1
  <2>4. MayBeMissed \/ e + d <= WaitTicks + 2 * MaxPoll
    BY <1>7, <2>1
  <2>5. boot' = "reach" => MayBeMissed' \/ e + d < WaitTicks
    BY <1>3, <1>6, <2>2
  <2>6. boot' = "reach" => Loops(e + d)'
    <3>1. e + d <= time' /\ time' <= (e + d) + MaxPoll /\ wait.start + (e + d) >= pm.size
      BY <1>5, <1>7, <2>1
    <3> QED
      BY <1>3, <1>5, <1>6, <1>7, <1>8, <1>13, <2>5, <3>1 DEF Loops
  <2>7. boot' = "reach" => Waiting'
    <3>1. e + d \in 0..time'
      BY <1>5, <1>7
    <3>2. boot' = "reach" => \E g \in 0..time' : Loops(g)'
      BY <2>6, <3>1
    <3>3. EndOfWait'
      BY <1>1, <1>3, <1>5 DEF EndOfWait
    <3> QED
      BY <1>6, <3>2, <3>3 DEF Waiting
  <2>8. boot' = "stop" => Waiting'
    <3>1. boot' = "stop" => WaitTicks <= time' /\ (MayBeMissed \/ time' <= WaitTicks + 3 * MaxPoll)
      BY <1>3, <1>5, <1>7, <2>3, <2>4
    <3> QED
      BY <1>6, <3>1 DEF Waiting
  <2> QED
    BY <1>6, <2>7, <2>8
<1>14. Waiting'
  BY <1>11, <1>12, <1>13
<1>15. TableDescribesTimer' /\ Counting' /\ TickIsCentisecond'
  BY <1>1, <1>3, <1>5, <1>6 DEF TableDescribesTimer, Counting, TickIsCentisecond
<1> QED
  BY <1>6, <1>14, <1>15 DEF AcpiInv

LEMMA SetPeriodStep ==
  ASSUME AcpiInv, SetPeriod
  PROVE  AcpiInv'
<1>1. /\ boot = "stop" /\ boot' = "set"
      /\ lapic' = [initial |-> (LAPICTimerElapsed * Tenths) \div TimerFreq, current |-> 0]
      /\ UNCHANGED <<rsdp, fadt, pm, wait, time>>
  BY DEF SetPeriod
<1>2. AcpiTypeOK /\ Counting /\ Waiting
  BY DEF AcpiInv
<1>3. time \in Nat /\ WaitTicks <= time /\ (MayBeMissed \/ time <= WaitTicks + 3 * MaxPoll)
  BY <1>1, <1>2 DEF AcpiTypeOK, Waiting
<1>4. WaitTicks \in Nat /\ WaitTicks + 3 * MaxPoll \in Nat
  BY Sizes
<1> DEFINE min == Rate * WaitTicks
           now == Rate * time
           max == Rate * (WaitTicks + 3 * MaxPoll)
<1>5. min \in Nat /\ now \in Nat /\ max \in Nat
  BY <1>3, <1>4, AcpiAssumption
<1>6. min <= now
  BY <1>3, <1>4, CountsGrow
<1>7. MayBeMissed \/ now <= max
  BY <1>3, <1>4, CountsGrow
<1>8. lapic.current = IF CountMax < now THEN 0 ELSE CountMax - now
  BY <1>1, <1>2 DEF Counting
<1>9. CountMax \in Nat /\ CountMax >= min
  BY AcpiAssumption
<1>10. Counts(WaitTicks) = (min * Tenths) \div TimerFreq
       /\ Counts(WaitTicks + 3 * MaxPoll) = (max * Tenths) \div TimerFreq
  BY DEF Counts
<1> HIDE DEF min, now, max
<1> DEFINE elapsed == LAPICTimerElapsed
<1>11. elapsed \in Nat /\ min <= elapsed /\ elapsed <= now
  BY <1>5, <1>6, <1>8, <1>9 DEF LAPICTimerElapsed
<1>12. MayBeMissed \/ elapsed <= max
  BY <1>5, <1>7, <1>11
<1> HIDE DEF elapsed
<1>13. /\ (elapsed * Tenths) \div TimerFreq \in Nat
       /\ (min * Tenths) \div TimerFreq <= (elapsed * Tenths) \div TimerFreq
  BY <1>5, <1>11, CountsGrow
<1>14. MayBeMissed \/ (elapsed * Tenths) \div TimerFreq <= (max * Tenths) \div TimerFreq
  BY <1>5, <1>11, <1>12, CountsGrow
<1> DEFINE count == (elapsed * Tenths) \div TimerFreq
<1>15. lapic'.initial = count /\ lapic' = [initial |-> count, current |-> 0] /\ count \in Nat
  BY <1>1, <1>13 DEF elapsed
<1>16. AcpiTypeOK'
  <2> HIDE DEF count
  <2> QED
    BY <1>1, <1>2, <1>15 DEF AcpiTypeOK, Boots
<1>17. MayBeMissed' = MayBeMissed
  BY <1>1 DEF MayBeMissed
<1>18. TickIsCentisecond'
  <2>1. lapic'.initial >= Counts(WaitTicks)
    <3>1. (min * Tenths) \div TimerFreq \in Nat
      BY <1>5, CountsGrow
    <3> QED
      BY <1>10, <1>13, <1>15, <3>1
  <2>2. MayBeMissed \/ lapic'.initial <= Counts(WaitTicks + 3 * MaxPoll)
    BY <1>10, <1>14, <1>15
  <2> QED
    BY <1>17, <2>1, <2>2 DEF TickIsCentisecond, Counts
<1> QED
  BY <1>1, <1>16, <1>18 DEF AcpiInv, TableDescribesTimer, Counting, Waiting

LEMMA AcpiStep == AcpiInv /\ [ClockNext]_<<vars, acpiVars>> => AcpiInv'
<1> SUFFICES ASSUME AcpiInv, [ClockNext]_<<vars, acpiVars>> PROVE AcpiInv'
  OBVIOUS
<1>1. CASE Ticks
  <2>1. AcpiTypeOK'
    <3>1. boot' = "ticking" /\ time' = 0 /\ pm' = [size |-> Wide, count |-> 0]
      BY <1>1 DEF Ticks
    <3>2. lapic' = [initial |-> 0, current |-> 0] /\ wait' = [start |-> 0, end |-> 0]
      BY <1>1 DEF Ticks
    <3>3. pm' \in [size : {Narrow, Wide}, count : Nat] /\ pm'.count < pm'.size
      BY <3>1, Sizes
    <3>4. lapic' \in [initial : Nat, current : Nat] /\ wait' \in [start : Nat, end : Nat]
      BY <3>2
    <3> QED
      BY <3>1, <3>3, <3>4 DEF AcpiTypeOK, Boots
  <2> QED
    BY <1>1, <2>1 DEF AcpiInv, Ticks, TableDescribesTimer, Counting, Waiting, TickIsCentisecond
<1>2. CASE UNCHANGED acpiVars
  BY <1>2 DEF acpiVars, AcpiInv, AcpiTypeOK, TableDescribesTimer, Counting, Waiting, EndOfWait, Loops,
              Shows, MayBeMissed, TickIsCentisecond, Counts
<1> QED
  BY <1>1, <1>2, InitializeStep, StartStep, WaitMillisecondsStep, WaitForWrapStep, WaitForEndStep,
     SetPeriodStep DEF ClockNext, AcpiNext

\* InitializeLAPICTimer: wherever the PM timer is in its round, whichever of the tables describes it
\* and however fast the LAPIC timer counts, a tick is a hundredth of a second.
THEOREM ClockIsMeasured == ClockSpec => []TickIsCentisecond
<1>1. AcpiInv => TickIsCentisecond
  BY DEF AcpiInv
<1> QED
  BY <1>1, InitAcpi, AcpiStep, PTL DEF ClockSpec
=============================================================================
