--------------------------- MODULE RunQueuesProofs ---------------------------
(***************************************************************************)
(* Every operation of RunQueues keeps the run queues well formed, whatever  *)
(* the number of tasks and of levels.  The lemmas on sequences say what the *)
(* operations of std::deque do to the set of tasks a queue holds; the rest  *)
(* of the argument is about that set only.                                  *)
(***************************************************************************)
EXTENDS RunQueues, SequenceTheorems, WellFoundedInduction, TLAPS

-----------------------------------------------------------------------------
(* Queues.                                                                  *)

\* A queue is empty exactly when it holds nothing.
LEMMA EmptyHoldsNothing ==
  ASSUME NEW S, NEW q \in Seq(S)
  PROVE  q # <<>> <=> \E t \in S : Holds(q, t)
<1>1. DOMAIN q = 1..Len(q) /\ Len(q) \in Nat /\ (q = <<>> <=> Len(q) = 0)
  OBVIOUS
<1>2. \A i \in DOMAIN q : q[i] \in S
  OBVIOUS
<1>3. ASSUME q # <<>> PROVE \E t \in S : Holds(q, t)
  <2>1. 1 \in DOMAIN q
    BY <1>1, <1>3
  <2> QED
    BY <2>1, <1>2 DEF Holds
<1>4. ASSUME \E t \in S : Holds(q, t) PROVE q # <<>>
  BY <1>1, <1>4 DEF Holds
<1> QED
  BY <1>3, <1>4

\* pop_front takes the head away and nothing else.
LEMMA TailHolds ==
  ASSUME NEW S, NEW q \in Seq(S), q # <<>>, Distinct(q)
  PROVE  /\ Head(q) \in S
         /\ Holds(q, Head(q))
         /\ Tail(q) \in Seq(S)
         /\ Distinct(Tail(q))
         /\ \A t : Holds(Tail(q), t) <=> Holds(q, t) /\ t # Head(q)
<1>1. /\ Head(q) = q[1] /\ Head(q) \in S
      /\ Tail(q) \in Seq(S) /\ Len(Tail(q)) = Len(q) - 1
      /\ \A i \in 1..Len(Tail(q)) : Tail(q)[i] = q[i + 1]
  BY HeadTailProperties
<1>2. DOMAIN q = 1..Len(q) /\ Len(q) \in Nat \ {0} /\ DOMAIN Tail(q) = 1..(Len(q) - 1)
  BY <1>1, EmptySeq, LenProperties
<1>3. Distinct(Tail(q))
  <2> SUFFICES ASSUME NEW i \in DOMAIN Tail(q), NEW j \in DOMAIN Tail(q),
                      Tail(q)[i] = Tail(q)[j]
               PROVE  i = j
    BY DEF Distinct
  <2>1. i + 1 \in DOMAIN q /\ j + 1 \in DOMAIN q /\ q[i + 1] = q[j + 1]
    BY <1>1, <1>2
  <2>2. i + 1 = j + 1
    BY <2>1 DEF Distinct
  <2> QED
    BY <2>2, <1>2
<1>4. ASSUME NEW t PROVE Holds(Tail(q), t) <=> Holds(q, t) /\ t # Head(q)
  <2>1. ASSUME Holds(Tail(q), t) PROVE Holds(q, t) /\ t # Head(q)
    <3>1. PICK i \in 1..(Len(q) - 1) : Tail(q)[i] = t
      BY <2>1, <1>2 DEF Holds
    <3>2. i + 1 \in DOMAIN q /\ q[i + 1] = t /\ i + 1 # 1 /\ 1 \in DOMAIN q
      BY <3>1, <1>1, <1>2
    <3> QED
      BY <3>2, <1>1 DEF Holds, Distinct
  <2>2. ASSUME Holds(q, t), t # Head(q) PROVE Holds(Tail(q), t)
    <3>1. PICK i \in 1..Len(q) : q[i] = t
      BY <2>2, <1>2 DEF Holds
    <3>2. i # 1
      BY <3>1, <2>2, <1>1
    <3>3. i - 1 \in DOMAIN Tail(q) /\ Tail(q)[i - 1] = q[i]
      BY <3>2, <1>1, <1>2
    <3> QED
      BY <3>1, <3>3 DEF Holds
  <2> QED
    BY <2>1, <2>2
<1>5. Holds(q, Head(q))
  BY <1>1, <1>2 DEF Holds
<1> QED
  BY <1>1, <1>3, <1>4, <1>5

\* push_back adds its task at the end.
LEMMA AppendHolds ==
  ASSUME NEW S, NEW q \in Seq(S), Distinct(q), NEW t \in S, ~Holds(q, t)
  PROVE  /\ Append(q, t) \in Seq(S)
         /\ Append(q, t) # <<>>
         /\ Distinct(Append(q, t))
         /\ \A u : Holds(Append(q, t), u) <=> Holds(q, u) \/ u = t
<1>1. /\ Append(q, t) \in Seq(S)
      /\ Len(Append(q, t)) = Len(q) + 1
      /\ \A i \in 1..Len(q) : Append(q, t)[i] = q[i]
      /\ Append(q, t)[Len(q) + 1] = t
  BY AppendProperties
<1>2. DOMAIN q = 1..Len(q) /\ Len(q) \in Nat /\ DOMAIN Append(q, t) = 1..(Len(q) + 1)
  BY <1>1, LenProperties
<1>3. Append(q, t) # <<>>
  BY <1>1, <1>2, EmptySeq
<1>4. Distinct(Append(q, t))
  BY <1>1, <1>2 DEF Distinct, Holds
<1>5. \A u : Holds(Append(q, t), u) <=> Holds(q, u) \/ u = t
  BY <1>1, <1>2 DEF Holds
<1> QED
  BY <1>1, <1>3, <1>4, <1>5

\* push_front adds its task at the beginning.
LEMMA ConsHolds ==
  ASSUME NEW S, NEW q \in Seq(S), Distinct(q), NEW t \in S, ~Holds(q, t)
  PROVE  /\ <<t>> \o q \in Seq(S)
         /\ <<t>> \o q # <<>>
         /\ Head(<<t>> \o q) = t
         /\ Distinct(<<t>> \o q)
         /\ \A u : Holds(<<t>> \o q, u) <=> Holds(q, u) \/ u = t
<1> DEFINE r == <<t>> \o q
<1>1. <<t>> \in Seq(S) /\ Len(<<t>>) = 1 /\ <<t>>[1] = t
  OBVIOUS
<1>2. /\ r \in Seq(S)
      /\ Len(r) = 1 + Len(q)
      /\ \A i \in 1..Len(r) : r[i] = IF i <= 1 THEN <<t>>[i] ELSE q[i - 1]
  BY <1>1, ConcatProperties
<1>3. DOMAIN q = 1..Len(q) /\ Len(q) \in Nat /\ DOMAIN r = 1..(Len(q) + 1)
  BY <1>2, LenProperties
<1>4. r[1] = t /\ \A i \in 1..Len(q) : r[i + 1] = q[i]
  BY <1>1, <1>2, <1>3
<1>5. r # <<>> /\ Head(r) = t
  BY <1>2, <1>3, <1>4, EmptySeq, HeadTailProperties
<1>6. Distinct(r)
  <2> SUFFICES ASSUME NEW i \in 1..(Len(q) + 1), NEW j \in 1..(Len(q) + 1), r[i] = r[j]
               PROVE  i = j
    BY <1>3 DEF Distinct
  <2>1. ASSUME NEW k \in 1..(Len(q) + 1), k # 1
        PROVE  k - 1 \in DOMAIN q /\ r[k] = q[k - 1] /\ r[k] # t
    BY <2>1, <1>3, <1>4 DEF Holds
  <2>2. CASE i = 1 \/ j = 1
    BY <2>1, <2>2, <1>4
  <2>3. CASE i # 1 /\ j # 1
    <3>1. i - 1 = j - 1
      BY <2>1, <2>3 DEF Distinct
    <3> QED
      BY <3>1
  <2> QED
    BY <2>2, <2>3
<1>7. ASSUME NEW u PROVE Holds(r, u) <=> Holds(q, u) \/ u = t
  <2>1. Holds(r, u) => Holds(q, u) \/ u = t
    <3> SUFFICES ASSUME NEW i \in 1..(Len(q) + 1), r[i] = u, u # t PROVE Holds(q, u)
      BY <1>3 DEF Holds
    <3>1. i - 1 \in DOMAIN q /\ q[i - 1] = u
      BY <1>3, <1>4
    <3> QED
      BY <3>1 DEF Holds
  <2>2. u = t => Holds(r, u)
    BY <1>3, <1>4 DEF Holds
  <2>3. Holds(q, u) => Holds(r, u)
    <3> SUFFICES ASSUME NEW i \in 1..Len(q), q[i] = u PROVE Holds(r, u)
      BY <1>3 DEF Holds
    <3>1. i + 1 \in DOMAIN r /\ r[i + 1] = u
      BY <1>3, <1>4
    <3> QED
      BY <3>1 DEF Holds
  <2> QED
    BY <2>1, <2>2, <2>3
<1> QED
  BY <1>2, <1>5, <1>6, <1>7

\* Erase takes exactly its task away.
LEMMA EraseHolds ==
  ASSUME NEW S, NEW q \in Seq(S), Distinct(q), NEW t
  PROVE  /\ Erase(q, t) \in Seq(S)
         /\ Distinct(Erase(q, t))
         /\ \A u : Holds(Erase(q, t), u) <=> Holds(q, u) /\ u # t
<1>1. CASE ~Holds(q, t)
  BY <1>1 DEF Erase, Holds
<1>2. CASE Holds(q, t)
  <2>0. PICK i \in DOMAIN q :
          q[i] = t /\ Erase(q, t) = SubSeq(q, 1, i - 1) \o SubSeq(q, i + 1, Len(q))
    BY <1>2 DEF Holds, Erase
  <2> DEFINE a == SubSeq(q, 1, i - 1)
             b == SubSeq(q, i + 1, Len(q))
             r == a \o b
  <2>1. i \in DOMAIN q /\ q[i] = t /\ Erase(q, t) = r
    BY <2>0
  <2>2. DOMAIN q = 1..Len(q) /\ Len(q) \in Nat /\ i \in Nat /\ 1 <= i /\ i <= Len(q)
    BY <2>1, LenProperties
  <2>3. /\ a \in Seq(S) /\ Len(a) = i - 1 /\ \A k \in 1..(i - 1) : a[k] = q[k]
    BY <2>2, SubSeqProperties
  <2>4. /\ b \in Seq(S) /\ Len(b) = Len(q) - i
        /\ \A k \in 1..(Len(q) - i) : b[k] = q[i + k]
    <3>1. i + 1 \in Int /\ Len(q) \in Int /\ \A k \in (i + 1)..Len(q) : q[k] \in S
      BY <2>2, ElementOfSeq
    <3>2. /\ b \in Seq(S)
          /\ Len(b) = IF i + 1 <= Len(q) THEN Len(q) - (i + 1) + 1 ELSE 0
          /\ \A k \in 1..(Len(q) - (i + 1) + 1) : b[k] = q[(i + 1) + k - 1]
      BY <3>1, SubSeqProperties
    <3> HIDE DEF a, b, r
    <3>3. Len(b) = Len(q) - i
      <4>1. CASE ~(i + 1 <= Len(q))
        <5>1. Len(b) = 0 /\ Len(q) - i = 0
          BY <3>2, <4>1, <2>2
        <5> QED
          BY <5>1
      <4>2. CASE i + 1 <= Len(q)
        <5>1. Len(b) = Len(q) - (i + 1) + 1
          BY <3>2, <4>2
        <5> QED
          BY <5>1, <2>2
      <4> QED
        BY <4>1, <4>2
    <3>4. ASSUME NEW k \in 1..(Len(q) - i) PROVE b[k] = q[i + k]
      <4>1. k \in 1..(Len(q) - (i + 1) + 1) /\ (i + 1) + k - 1 = i + k
        BY <2>2
      <4>2. b[k] = q[(i + 1) + k - 1]
        BY <4>1, <3>2
      <4> QED
        BY <4>1, <4>2
    <3> QED
      BY <3>2, <3>3, <3>4
  <2> HIDE DEF a, b
  <2>5. /\ r \in Seq(S) /\ Len(r) = Len(q) - 1
        /\ \A k \in 1..(Len(q) - 1) : r[k] = IF k < i THEN q[k] ELSE q[k + 1]
    <3>1. /\ r \in Seq(S) /\ Len(r) = Len(a) + Len(b)
          /\ \A k \in 1..(Len(a) + Len(b)) :
               r[k] = IF k <= Len(a) THEN a[k] ELSE b[k - Len(a)]
      BY <2>3, <2>4, ConcatProperties
    <3> HIDE DEF r
    <3>2. ASSUME NEW k \in 1..(Len(q) - 1)
          PROVE  r[k] = IF k < i THEN q[k] ELSE q[k + 1]
      <4>1. CASE k < i
        BY <3>1, <4>1, <2>2, <2>3, <2>4
      <4>2. CASE ~(k < i)
        <5>1. /\ k - (i - 1) \in 1..(Len(q) - i) /\ i + (k - (i - 1)) = k + 1
              /\ k \in 1..(Len(a) + Len(b)) /\ ~(k <= Len(a))
          BY <4>2, <2>2, <2>3, <2>4
        <5>2. r[k] = b[k - (i - 1)]
          BY <3>1, <5>1, <2>3
        <5> QED
          BY <5>1, <5>2, <2>4, <4>2
      <4> QED
        BY <4>1, <4>2
    <3> QED
      BY <3>1, <3>2, <2>2, <2>3, <2>4
  <2> HIDE DEF r
  <2>6. DOMAIN r = 1..(Len(q) - 1)
    BY <2>5, LenProperties
  <2>7. Distinct(r)
    <3> DEFINE at(k) == IF k < i THEN k ELSE k + 1
    <3>1. \A k \in DOMAIN r : at(k) \in DOMAIN q /\ r[k] = q[at(k)]
      BY <2>2, <2>5, <2>6
    <3>2. \A k, l \in DOMAIN r : at(k) = at(l) => k = l
      BY <2>2, <2>6
    <3> HIDE DEF at
    <3> QED
      BY <3>1, <3>2 DEF Distinct
  <2>8. ASSUME NEW u PROVE Holds(r, u) <=> Holds(q, u) /\ u # t
    <3>1. ASSUME NEW k \in DOMAIN r, r[k] = u PROVE Holds(q, u) /\ u # t
      <4>1. CASE k < i
        <5>1. k \in DOMAIN q /\ q[k] = u /\ k # i
          BY <3>1, <4>1, <2>2, <2>5, <2>6
        <5> QED
          BY <5>1, <2>1 DEF Holds, Distinct
      <4>2. CASE ~(k < i)
        <5>1. k + 1 \in DOMAIN q /\ q[k + 1] = u /\ k + 1 # i
          BY <3>1, <4>2, <2>2, <2>5, <2>6
        <5> QED
          BY <5>1, <2>1 DEF Holds, Distinct
      <4> QED
        BY <4>1, <4>2
    <3>2. ASSUME NEW k \in DOMAIN q, q[k] = u, u # t PROVE Holds(r, u)
      <4>1. k # i
        BY <3>2, <2>1
      <4>2. CASE k < i
        <5>1. k \in DOMAIN r /\ r[k] = u
          BY <3>2, <4>2, <2>2, <2>5, <2>6
        <5> QED
          BY <5>1 DEF Holds
      <4>3. CASE k > i
        <5>1. k - 1 \in DOMAIN r /\ ~(k - 1 < i) /\ (k - 1) + 1 = k
          BY <4>3, <2>2, <2>6
        <5>2. r[k - 1] = q[k]
          BY <5>1, <2>5, <2>6
        <5> QED
          BY <5>1, <5>2, <3>2 DEF Holds
      <4> QED
        BY <4>1, <4>2, <4>3, <2>2
    <3> QED
      BY <3>1, <3>2 DEF Holds
  <2> QED
    BY <2>1, <2>5, <2>7, <2>8
<1> QED
  BY <1>1, <1>2

-----------------------------------------------------------------------------
(* The choice of the next level.                                            *)

\* Among the levels that have a task, one is the highest.
LEMMA SomeLevelIsHighest ==
  ASSUME NEW queue \in [Levels -> Seq(TaskIds)],
         NEW l \in Levels, queue[l] # <<>>
  PROVE  \E lv \in Levels : IsHighest(queue, lv)
<1> DEFINE R == OpToRel(<, Nat)
           T == {MaxLevel - lv : lv \in {m \in Levels : queue[m] # <<>>}}
<1>1. MaxLevel \in Nat
  BY RunQueuesAssumption
<1>2. T \subseteq Nat /\ T # {}
  BY <1>1 DEF Levels
<1>3. IsWellFoundedOn(R, Nat)
  BY NatLessThanWellFounded
<1>4. PICK x \in T : \A y \in T : ~(<<y, x>> \in R)
  <2> HIDE DEF R, T
  <2> QED
    BY <1>2, <1>3, WFMin
<1>5. PICK lv \in Levels : queue[lv] # <<>> /\ x = MaxLevel - lv
  OBVIOUS
<1>6. ASSUME NEW m \in Levels, queue[m] # <<>> PROVE m <= lv
  <2>1. MaxLevel - m \in T /\ MaxLevel - m \in Nat /\ x \in Nat
    BY <1>1, <1>2, <1>6
  <2>2. ~(MaxLevel - m < x)
    BY <2>1, <1>4 DEF OpToRel
  <2> QED
    BY <2>2, <1>1, <1>5 DEF Levels
<1> QED
  BY <1>5, <1>6 DEF IsHighest

\* What NextLevel returns has a task, and nothing above it has one.
LEMMA NextLevelIsHighest ==
  ASSUME NEW s \in Scheduler, PriorityKept(s),
         NEW queue \in [Levels -> Seq(TaskIds)],
         \A lv \in Levels : lv # s.current => queue[lv] = s.queue[lv],
         NEW l \in Levels, queue[l] # <<>>
  PROVE  /\ NextLevel(s, queue) \in Levels
         /\ queue[NextLevel(s, queue)] # <<>>
         /\ \A lv \in Levels : lv > NextLevel(s, queue) => queue[lv] = <<>>
<1> DEFINE rescan == s.changed \/ queue[s.current] = <<>>
<1>1. s.current \in Levels /\ Levels \subseteq Int
  BY RunQueuesAssumption DEF Scheduler, Levels
<1>2. PICK h \in Levels : IsHighest(queue, h)
  BY SomeLevelIsHighest
<1>3. CASE rescan
  <2> DEFINE n == CHOOSE lv \in Levels : IsHighest(queue, lv)
  <2>1. n \in Levels /\ IsHighest(queue, n)
    BY <1>2
  <2>2. NextLevel(s, queue) = n
    BY <1>2, <1>3 DEF NextLevel
  <2> HIDE DEF n
  <2> QED
    BY <2>1, <2>2, <1>1 DEF IsHighest
<1>4. CASE ~rescan
  BY <1>1, <1>4 DEF NextLevel, PriorityKept
<1> QED
  BY <1>3, <1>4

-----------------------------------------------------------------------------
(* The operations.                                                          *)

\* The facts about a well-formed scheduler that every operation starts from.
LEMMA WellFormedFacts ==
  ASSUME NEW s, WellFormed(s)
  PROVE  /\ s \in Scheduler
         /\ s.current \in Levels
         /\ s.queue \in [Levels -> Seq(TaskIds)]
         /\ s.level \in [TaskIds -> Levels]
         /\ s.running \in [TaskIds -> BOOLEAN]
         /\ s.changed \in BOOLEAN
         /\ Levels \subseteq Int /\ Idle \in TaskIds
         /\ CurrentTask(s) \in TaskIds
         /\ s.running[CurrentTask(s)]
         /\ s.level[CurrentTask(s)] = s.current
         /\ \A lv \in Levels : Distinct(s.queue[lv])
<1>1. /\ s \in Scheduler
      /\ s.current \in Levels
      /\ s.queue \in [Levels -> Seq(TaskIds)]
      /\ s.level \in [TaskIds -> Levels]
      /\ s.running \in [TaskIds -> BOOLEAN]
      /\ s.changed \in BOOLEAN
  BY DEF WellFormed, Scheduler
<1>2. Levels \subseteq Int /\ Idle \in TaskIds
  BY RunQueuesAssumption DEF Levels, TaskIds, Idle
<1>3. s.queue[s.current] \in Seq(TaskIds) /\ s.queue[s.current] # <<>>
  BY <1>1 DEF WellFormed, HasCurrent
<1>4. \A lv \in Levels : Distinct(s.queue[lv])
  BY DEF WellFormed, NoTaskTwice
<1>5. CurrentTask(s) \in TaskIds /\ Holds(s.queue[s.current], CurrentTask(s))
  BY <1>1, <1>3, <1>4, TailHolds DEF CurrentTask
<1> QED
  BY <1>1, <1>2, <1>4, <1>5 DEF WellFormed, QueuedAtOwnLevel

\* A time slice ends: the current task goes to the tail of its queue.
LEMMA RotateAwake ==
  ASSUME NEW s, WellFormed(s)
  PROVE  WellFormed(RotateCurrentRunQueue(s, FALSE))
<1> DEFINE q == s.queue[s.current]
           t == Head(q)
           qq == Append(Tail(q), t)
           queue == RotatedQueue(s, FALSE)
           r == RotateCurrentRunQueue(s, FALSE)
<1>1. /\ s \in Scheduler /\ s.current \in Levels
      /\ s.queue \in [Levels -> Seq(TaskIds)]
      /\ Idle \in TaskIds
      /\ \A lv \in Levels : Distinct(s.queue[lv])
  BY WellFormedFacts
<1>2. q \in Seq(TaskIds) /\ q # <<>> /\ Distinct(q)
  BY <1>1 DEF WellFormed, HasCurrent
<1>3. /\ t \in TaskIds /\ Holds(q, t) /\ Tail(q) \in Seq(TaskIds) /\ Distinct(Tail(q))
      /\ \A u : Holds(Tail(q), u) <=> Holds(q, u) /\ u # t
  BY <1>2, TailHolds
<1>4. /\ qq \in Seq(TaskIds) /\ qq # <<>> /\ Distinct(qq)
      /\ \A u : Holds(qq, u) <=> Holds(Tail(q), u) \/ u = t
  <2>1. ~Holds(Tail(q), t)
    BY <1>3
  <2> DEFINE w == Tail(q)
  <2>2. w \in Seq(TaskIds) /\ Distinct(w) /\ ~Holds(w, t) /\ t \in TaskIds
    BY <2>1, <1>3
  <2> HIDE DEF w, t
  <2>3. /\ Append(w, t) \in Seq(TaskIds) /\ Append(w, t) # <<>> /\ Distinct(Append(w, t))
        /\ \A u : Holds(Append(w, t), u) <=> Holds(w, u) \/ u = t
    BY <2>2, AppendHolds
  <2> QED
    BY <2>3 DEF w
<1> HIDE DEF qq
<1>5. /\ queue \in [Levels -> Seq(TaskIds)]
      /\ \A lv \in Levels : queue[lv] = IF lv = s.current THEN qq ELSE s.queue[lv]
  BY <1>1, <1>4 DEF RotatedQueue, qq
<1> HIDE DEF queue
<1>6. \A lv \in Levels, u \in TaskIds : Holds(queue[lv], u) <=> Holds(s.queue[lv], u)
  BY <1>1, <1>3, <1>4, <1>5
<1>7. PriorityKept(s)
  BY DEF WellFormed
<1>8. /\ NextLevel(s, queue) \in Levels
      /\ queue[NextLevel(s, queue)] # <<>>
      /\ \A lv \in Levels : lv > NextLevel(s, queue) => queue[lv] = <<>>
  <2>1. queue[s.current] # <<>> /\ \A lv \in Levels : lv # s.current => queue[lv] = s.queue[lv]
    BY <1>1, <1>4, <1>5
  <2> QED
    BY <2>1, <1>1, <1>5, <1>7, NextLevelIsHighest
<1>9. /\ r \in Scheduler /\ r.queue = queue /\ r.current = NextLevel(s, queue)
      /\ r.running = s.running /\ r.level = s.level
  BY <1>1, <1>5, <1>8 DEF RotateCurrentRunQueue, queue, Scheduler
<1> HIDE DEF r
<1>10. QueuedAtOwnLevel(r) /\ RunningIsQueued(r)
  BY <1>1, <1>6, <1>9 DEF WellFormed, QueuedAtOwnLevel, RunningIsQueued, Scheduler
<1>11. NoTaskTwice(r)
  BY <1>1, <1>4, <1>5, <1>9 DEF NoTaskTwice
<1>12. IdleRuns(r) /\ HasCurrent(r) /\ PriorityKept(r)
  BY <1>8, <1>9 DEF WellFormed, IdleRuns, HasCurrent, PriorityKept
<1> QED
  BY <1>9, <1>10, <1>11, <1>12 DEF WellFormed, r

\* The current task goes to sleep, or finishes: it leaves its queue.
LEMMA RotateAsleep ==
  ASSUME NEW s, WellFormed(s), CurrentTask(s) # Idle
  PROVE  WellFormed(RotateCurrentRunQueue(Stop(s, CurrentTask(s)), TRUE))
<1> DEFINE q == s.queue[s.current]
           t == Head(q)
           z == Stop(s, t)
           queue == RotatedQueue(z, TRUE)
           r == RotateCurrentRunQueue(z, TRUE)
<1>1. /\ s \in Scheduler /\ s.current \in Levels
      /\ s.queue \in [Levels -> Seq(TaskIds)]
      /\ s.level \in [TaskIds -> Levels]
      /\ s.running \in [TaskIds -> BOOLEAN]
      /\ Idle \in TaskIds
      /\ s.level[t] = s.current
      /\ \A lv \in Levels : Distinct(s.queue[lv])
  BY WellFormedFacts DEF CurrentTask
<1>2. q \in Seq(TaskIds) /\ q # <<>> /\ Distinct(q)
  BY <1>1 DEF WellFormed, HasCurrent
<1>3. /\ t \in TaskIds /\ t # Idle
      /\ Tail(q) \in Seq(TaskIds) /\ Distinct(Tail(q))
      /\ \A u : Holds(Tail(q), u) <=> Holds(q, u) /\ u # t
  BY <1>2, TailHolds DEF CurrentTask
<1> HIDE DEF t
<1>4. /\ z \in Scheduler /\ z.queue = s.queue /\ z.current = s.current
      /\ z.level = s.level /\ z.changed = s.changed
      /\ z.running = [s.running EXCEPT ![t] = FALSE]
  BY <1>1 DEF Stop, Scheduler
<1> HIDE DEF z
<1>5. /\ queue \in [Levels -> Seq(TaskIds)]
      /\ \A lv \in Levels : queue[lv] = IF lv = s.current THEN Tail(q) ELSE s.queue[lv]
  BY <1>1, <1>3, <1>4 DEF RotatedQueue
<1> HIDE DEF queue
<1>6. \A lv \in Levels, u \in TaskIds :
        Holds(queue[lv], u) <=> Holds(s.queue[lv], u) /\ u # t
  <2> SUFFICES ASSUME NEW lv \in Levels, NEW u \in TaskIds
               PROVE  Holds(queue[lv], u) <=> Holds(s.queue[lv], u) /\ u # t
    OBVIOUS
  <2>1. CASE lv = s.current
    BY <2>1, <1>3, <1>5
  <2>2. CASE lv # s.current
    <3>1. ~Holds(s.queue[lv], t)
      BY <2>2, <1>1, <1>3 DEF WellFormed, QueuedAtOwnLevel
    <3> QED
      BY <3>1, <2>2, <1>5
  <2> QED
    BY <2>1, <2>2
<1>7. PriorityKept(z)
  BY <1>4 DEF WellFormed, PriorityKept
<1>8. /\ NextLevel(z, queue) \in Levels
      /\ queue[NextLevel(z, queue)] # <<>>
      /\ \A lv \in Levels : lv > NextLevel(z, queue) => queue[lv] = <<>>
  <2>1. s.level[Idle] \in Levels /\ Holds(s.queue[s.level[Idle]], Idle)
    BY <1>1 DEF WellFormed, IdleRuns, RunningIsQueued
  <2>2. Holds(queue[s.level[Idle]], Idle)
    BY <2>1, <1>1, <1>3, <1>6
  <2>3. queue[s.level[Idle]] # <<>>
    BY <2>1, <2>2, <1>1, <1>5, EmptyHoldsNothing
  <2>4. \A lv \in Levels : lv # z.current => queue[lv] = z.queue[lv]
    BY <1>4, <1>5
  <2> QED
    BY <2>1, <2>3, <2>4, <1>4, <1>5, <1>7, NextLevelIsHighest
<1>9. /\ r \in Scheduler /\ r.queue = queue /\ r.current = NextLevel(z, queue)
      /\ r.running = [s.running EXCEPT ![t] = FALSE] /\ r.level = s.level
  BY <1>1, <1>4, <1>5, <1>8 DEF RotateCurrentRunQueue, queue, Scheduler
<1> HIDE DEF r
<1>10. QueuedAtOwnLevel(r) /\ RunningIsQueued(r)
  BY <1>1, <1>3, <1>6, <1>9 DEF WellFormed, QueuedAtOwnLevel, RunningIsQueued
<1>11. NoTaskTwice(r)
  BY <1>1, <1>3, <1>5, <1>9 DEF NoTaskTwice
<1>12. IdleRuns(r) /\ HasCurrent(r) /\ PriorityKept(r)
  BY <1>1, <1>3, <1>8, <1>9 DEF WellFormed, IdleRuns, HasCurrent, PriorityKept
<1> QED
  BY <1>9, <1>10, <1>11, <1>12 DEF WellFormed, r, z, t, CurrentTask

\* Taking another element away leaves the head where it is.
LEMMA EraseKeepsHead ==
  ASSUME NEW S, NEW q \in Seq(S), q # <<>>, NEW t, t # Head(q)
  PROVE  Head(Erase(q, t)) = Head(q)
<1>1. CASE ~Holds(q, t)
  BY <1>1 DEF Erase
<1>2. CASE Holds(q, t)
  <2> DEFINE i == CHOOSE j \in DOMAIN q : q[j] = t
             a == SubSeq(q, 1, i - 1)
             b == SubSeq(q, i + 1, Len(q))
  <2>1. i \in DOMAIN q /\ q[i] = t
    BY <1>2 DEF Holds
  <2>2. Erase(q, t) = a \o b
    BY <1>2 DEF Erase
  <2>3. i \in 1..Len(q) /\ i # 1 /\ Len(q) \in Nat
    BY <2>1
  <2> HIDE DEF i
  <2>4. a \in Seq(S) /\ b \in Seq(S) /\ Len(a) = i - 1 /\ a[1] = q[1]
    BY <2>3
  <2> HIDE DEF a, b
  <2>5. Head(a \o b) = a[1]
    BY <2>3, <2>4
  <2>6. Head(q) = q[1]
    BY <2>3
  <2> QED
    BY <2>2, <2>4, <2>5, <2>6
<1> QED
  BY <1>1, <1>2

\* The current task is the only one at the head of the current queue: taking
\* another task away leaves the queue non-empty.
Without(s, t) == [s.queue EXCEPT ![s.level[t]] = Erase(@, t)]

LEMMA EraseOther ==
  ASSUME NEW s, WellFormed(s), NEW t \in TaskIds, s.running[t], t # CurrentTask(s)
  PROVE  /\ Without(s, t) \in [Levels -> Seq(TaskIds)]
         /\ \A lv \in Levels : Distinct(Without(s, t)[lv])
         /\ \A lv \in Levels, u \in TaskIds :
              Holds(Without(s, t)[lv], u) <=> Holds(s.queue[lv], u) /\ u # t
         /\ Without(s, t)[s.current] # <<>>
         /\ \A lv \in Levels : s.queue[lv] = <<>> => Without(s, t)[lv] = <<>>
<1> DEFINE l == s.level[t]
           queue == Without(s, t)
<1>1. /\ s \in Scheduler /\ s.current \in Levels /\ l \in Levels
      /\ s.queue \in [Levels -> Seq(TaskIds)]
      /\ \A lv \in Levels : Distinct(s.queue[lv]) /\ s.queue[lv] \in Seq(TaskIds)
  BY WellFormedFacts
<1>2. /\ Erase(s.queue[l], t) \in Seq(TaskIds) /\ Distinct(Erase(s.queue[l], t))
      /\ \A u : Holds(Erase(s.queue[l], t), u) <=> Holds(s.queue[l], u) /\ u # t
  BY <1>1, EraseHolds
<1>3. /\ queue \in [Levels -> Seq(TaskIds)]
      /\ \A lv \in Levels : queue[lv] = IF lv = l THEN Erase(s.queue[l], t) ELSE s.queue[lv]
  BY <1>1, <1>2 DEF Without
<1> HIDE DEF l, queue
<1>4. ASSUME NEW lv \in Levels, lv # l PROVE ~Holds(s.queue[lv], t)
  BY <1>4 DEF WellFormed, QueuedAtOwnLevel, l
<1>5. \A lv \in Levels, u \in TaskIds :
        Holds(queue[lv], u) <=> Holds(s.queue[lv], u) /\ u # t
  <2> SUFFICES ASSUME NEW lv \in Levels, NEW u \in TaskIds
               PROVE  Holds(queue[lv], u) <=> Holds(s.queue[lv], u) /\ u # t
    OBVIOUS
  <2>1. CASE lv = l
    BY <2>1, <1>2, <1>3
  <2>2. CASE lv # l
    BY <2>2, <1>3, <1>4
  <2> QED
    BY <2>1, <2>2
<1>6. queue[s.current] # <<>>
  <2>1. CurrentTask(s) \in TaskIds /\ Holds(s.queue[s.current], CurrentTask(s))
    BY <1>1, TailHolds DEF WellFormed, HasCurrent, CurrentTask
  <2>2. Holds(queue[s.current], CurrentTask(s))
    BY <2>1, <1>1, <1>5
  <2> QED
    BY <2>1, <2>2, <1>1, <1>3, EmptyHoldsNothing
<1>7. ASSUME NEW lv \in Levels, s.queue[lv] = <<>> PROVE queue[lv] = <<>>
  <2>1. \A u \in TaskIds : ~Holds(s.queue[lv], u)
    BY <1>1, <1>7, EmptyHoldsNothing
  <2> QED
    BY <2>1, <1>3, <1>5, EmptyHoldsNothing
<1>8. \A lv \in Levels : Distinct(queue[lv])
  BY <1>1, <1>2, <1>3
<1> QED
  BY <1>3, <1>5, <1>6, <1>7, <1>8 DEF queue

\* Sleep leaves the scheduler well formed, whichever task it stops.
THEOREM SleepWellFormed ==
  ASSUME NEW s, WellFormed(s), NEW t \in TaskIds \ {Idle}
  PROVE  WellFormed(Sleep(s, t))
<1>1. CASE ~s.running[t]
  BY <1>1 DEF Sleep
<1>2. CASE s.running[t] /\ t = CurrentTask(s)
  BY <1>2, RotateAsleep DEF Sleep
<1>3. CASE s.running[t] /\ t # CurrentTask(s)
  <2> DEFINE queue == Without(s, t)
             r == Sleep(s, t)
  <2>1. /\ s \in Scheduler /\ s.current \in Levels
        /\ s.queue \in [Levels -> Seq(TaskIds)] /\ s.level \in [TaskIds -> Levels]
        /\ s.running \in [TaskIds -> BOOLEAN]
        /\ Idle \in TaskIds /\ s.level[t] \in Levels
        /\ \A lv \in Levels : Distinct(s.queue[lv])
    BY WellFormedFacts
  <2>2. /\ queue \in [Levels -> Seq(TaskIds)]
        /\ \A lv \in Levels : Distinct(queue[lv])
        /\ \A lv \in Levels, u \in TaskIds :
             Holds(queue[lv], u) <=> Holds(s.queue[lv], u) /\ u # t
        /\ queue[s.current] # <<>>
        /\ \A lv \in Levels : s.queue[lv] = <<>> => queue[lv] = <<>>
    BY <1>3, EraseOther
  <2>3. Sleep(s, t) = [Stop(s, t) EXCEPT !.queue = queue]
    BY <1>3, <2>1 DEF Sleep, Stop, Without, Scheduler
  <2> HIDE DEF queue
  <2>4. /\ r \in Scheduler /\ r.queue = queue /\ r.current = s.current
        /\ r.changed = s.changed /\ r.level = s.level
        /\ r.running = [s.running EXCEPT ![t] = FALSE]
    <3> DEFINE z == Stop(s, t)
    <3>1. /\ z \in Scheduler /\ z.queue = s.queue /\ z.current = s.current
          /\ z.changed = s.changed /\ z.level = s.level
          /\ z.running = [s.running EXCEPT ![t] = FALSE]
      BY <2>1 DEF Stop, Scheduler
    <3> HIDE DEF z
    <3>2. r = [z EXCEPT !.queue = queue]
      BY <2>3 DEF z
    <3> HIDE DEF r
    <3> QED
      BY <2>1, <2>2, <3>1, <3>2 DEF Scheduler
  <2> HIDE DEF r
  <2>5. QueuedAtOwnLevel(r) /\ RunningIsQueued(r) /\ NoTaskTwice(r) /\ IdleRuns(r)
    BY <2>1, <2>2, <2>4
       DEF WellFormed, QueuedAtOwnLevel, RunningIsQueued, NoTaskTwice, IdleRuns
  <2>6. HasCurrent(r) /\ PriorityKept(r)
    BY <2>1, <2>2, <2>4 DEF WellFormed, HasCurrent, PriorityKept
  <2> QED
    BY <2>4, <2>5, <2>6 DEF WellFormed, r
<1> QED
  BY <1>1, <1>2, <1>3

\* A sleeping task is put at the tail of the queue of its new level.
LEMMA EnqueueWellFormed ==
  ASSUME NEW s, WellFormed(s), NEW t \in TaskIds, ~s.running[t], NEW l \in Levels
  PROVE  WellFormed(Enqueue(s, t, l))
<1> DEFINE queue == [s.queue EXCEPT ![l] = Append(@, t)]
           r == Enqueue(s, t, l)
<1>1. /\ s \in Scheduler /\ s.current \in Levels
      /\ s.queue \in [Levels -> Seq(TaskIds)] /\ s.level \in [TaskIds -> Levels]
      /\ s.running \in [TaskIds -> BOOLEAN] /\ s.changed \in BOOLEAN
      /\ Idle \in TaskIds /\ Levels \subseteq Int
      /\ \A lv \in Levels : Distinct(s.queue[lv])
  BY WellFormedFacts
<1>2. \A lv \in Levels : ~Holds(s.queue[lv], t)
  BY DEF WellFormed, QueuedAtOwnLevel
<1>3. /\ Append(s.queue[l], t) \in Seq(TaskIds) /\ Append(s.queue[l], t) # <<>>
      /\ Distinct(Append(s.queue[l], t))
      /\ \A u : Holds(Append(s.queue[l], t), u) <=> Holds(s.queue[l], u) \/ u = t
  BY <1>1, <1>2, AppendHolds
<1>4. /\ queue \in [Levels -> Seq(TaskIds)]
      /\ \A lv \in Levels : queue[lv] = IF lv = l THEN Append(s.queue[l], t) ELSE s.queue[lv]
  BY <1>1, <1>3
<1> HIDE DEF queue
<1>5. /\ r \in Scheduler /\ r.queue = queue /\ r.current = s.current
      /\ r.changed = (s.changed \/ l > s.current)
      /\ r.level = [s.level EXCEPT ![t] = l]
      /\ r.running = [s.running EXCEPT ![t] = TRUE]
  BY <1>1, <1>4 DEF Enqueue, Scheduler, queue
<1> HIDE DEF r
<1>6. \A lv \in Levels, u \in TaskIds :
        Holds(queue[lv], u) <=> Holds(s.queue[lv], u) \/ (u = t /\ lv = l)
  BY <1>3, <1>4
<1>7. QueuedAtOwnLevel(r)
  BY <1>1, <1>2, <1>5, <1>6 DEF WellFormed, QueuedAtOwnLevel
<1>8. RunningIsQueued(r) /\ IdleRuns(r)
  <2>1. IdleRuns(s) /\ RunningIsQueued(s)
    BY DEF WellFormed
  <2>2. r.running[Idle]
    BY <1>1, <1>5, <2>1 DEF IdleRuns
  <2>3. ASSUME NEW u \in TaskIds, r.running[u] PROVE Holds(r.queue[r.level[u]], u)
    <3>1. CASE u = t
      BY <1>1, <1>5, <1>6, <3>1
    <3>2. CASE u # t
      <4>1. r.level[u] = s.level[u] /\ s.running[u] /\ s.level[u] \in Levels
        BY <1>1, <1>5, <2>3, <3>2
      <4> QED
        BY <1>5, <1>6, <2>1, <4>1 DEF RunningIsQueued
    <3> QED
      BY <3>1, <3>2
  <2> QED
    BY <2>2, <2>3 DEF RunningIsQueued, IdleRuns
<1>9. NoTaskTwice(r)
  BY <1>1, <1>3, <1>4, <1>5 DEF NoTaskTwice
<1>10. HasCurrent(r)
  BY <1>1, <1>3, <1>4, <1>5 DEF WellFormed, HasCurrent
<1>11. PriorityKept(r)
  BY <1>1, <1>4, <1>5 DEF WellFormed, PriorityKept
<1> QED
  BY <1>5, <1>7, <1>8, <1>9, <1>10, <1>11 DEF WellFormed, r

\* Another task's level is changed: it moves to the tail of its new queue.
LEMMA ChangeOtherWellFormed ==
  ASSUME NEW s, WellFormed(s), NEW t \in TaskIds, s.running[t], t # CurrentTask(s),
         NEW l \in Levels, l # s.level[t]
  PROVE  WellFormed(ChangeOther(s, t, l))
<1> DEFINE w == Without(s, t)
           queue == [w EXCEPT ![l] = Append(@, t)]
           r == ChangeOther(s, t, l)
<1>1. /\ s \in Scheduler /\ s.current \in Levels
      /\ s.queue \in [Levels -> Seq(TaskIds)] /\ s.level \in [TaskIds -> Levels]
      /\ s.running \in [TaskIds -> BOOLEAN] /\ s.changed \in BOOLEAN
      /\ Idle \in TaskIds /\ Levels \subseteq Int /\ s.level[t] \in Levels
  BY WellFormedFacts
<1>2. /\ w \in [Levels -> Seq(TaskIds)]
      /\ \A lv \in Levels : Distinct(w[lv])
      /\ \A lv \in Levels, u \in TaskIds : Holds(w[lv], u) <=> Holds(s.queue[lv], u) /\ u # t
      /\ w[s.current] # <<>>
      /\ \A lv \in Levels : s.queue[lv] = <<>> => w[lv] = <<>>
  BY EraseOther
<1>3. ChangeOther(s, t, l) =
        [s EXCEPT !.queue = queue, !.level[t] = l, !.changed = @ \/ l > s.current]
  BY <1>1 DEF ChangeOther, Without, Scheduler
<1> HIDE DEF w
<1>4. /\ Append(w[l], t) \in Seq(TaskIds) /\ Append(w[l], t) # <<>>
      /\ Distinct(Append(w[l], t))
      /\ \A u : Holds(Append(w[l], t), u) <=> Holds(w[l], u) \/ u = t
  BY <1>2, AppendHolds
<1>5. /\ queue \in [Levels -> Seq(TaskIds)]
      /\ \A lv \in Levels : queue[lv] = IF lv = l THEN Append(w[l], t) ELSE w[lv]
  BY <1>2, <1>4
<1> HIDE DEF queue
<1>6. /\ r \in Scheduler /\ r.queue = queue /\ r.current = s.current
      /\ r.changed = (s.changed \/ l > s.current)
      /\ r.level = [s.level EXCEPT ![t] = l]
      /\ r.running = s.running
  <2> DEFINE level == [s.level EXCEPT ![t] = l]
             changed == s.changed \/ l > s.current
  <2>1. level \in [TaskIds -> Levels] /\ changed \in BOOLEAN
    BY <1>1
  <2>2. r = [s EXCEPT !.queue = queue, !.level = level, !.changed = changed]
    BY <1>1, <1>3 DEF Scheduler
  <2> HIDE DEF level, changed, r
  <2>3. /\ r \in Scheduler /\ r.queue = queue /\ r.current = s.current
        /\ r.changed = changed /\ r.level = level /\ r.running = s.running
    BY <1>1, <1>5, <2>1, <2>2 DEF Scheduler
  <2> QED
    BY <2>3 DEF level, changed
<1> HIDE DEF r
<1>7. \A lv \in Levels, u \in TaskIds :
        Holds(queue[lv], u) <=> (Holds(s.queue[lv], u) /\ u # t) \/ (u = t /\ lv = l)
  BY <1>2, <1>4, <1>5
<1>8. QueuedAtOwnLevel(r)
  BY <1>1, <1>6, <1>7 DEF WellFormed, QueuedAtOwnLevel
<1>9. RunningIsQueued(r) /\ IdleRuns(r)
  <2>1. ASSUME NEW u \in TaskIds, s.running[u] PROVE Holds(queue[r.level[u]], u)
    <3>1. CASE u = t
      BY <3>1, <1>1, <1>6, <1>7
    <3>2. CASE u # t
      <4>1. r.level[u] = s.level[u] /\ s.level[u] \in Levels
        BY <3>2, <1>1, <1>6
      <4>2. Holds(s.queue[s.level[u]], u)
        BY <2>1 DEF WellFormed, RunningIsQueued
      <4> QED
        BY <3>2, <4>1, <4>2, <1>7
    <3> QED
      BY <3>1, <3>2
  <2> QED
    BY <2>1, <1>6 DEF WellFormed, RunningIsQueued, IdleRuns
<1>10. NoTaskTwice(r)
  BY <1>2, <1>4, <1>5, <1>6 DEF NoTaskTwice
<1>11. HasCurrent(r)
  BY <1>1, <1>2, <1>4, <1>5, <1>6 DEF HasCurrent
<1>12. PriorityKept(r)
  BY <1>1, <1>2, <1>5, <1>6 DEF WellFormed, PriorityKept
<1> QED
  BY <1>6, <1>8, <1>9, <1>10, <1>11, <1>12 DEF WellFormed, r

\* The current task changes its own level and keeps the processor.
LEMMA ChangeMyselfWellFormed ==
  ASSUME NEW s, WellFormed(s), NEW l \in Levels, l # s.current
  PROVE  WellFormed(ChangeMyself(s, l))
<1> DEFINE q == s.queue[s.current]
           t == CurrentTask(s)
           p == <<t>> \o s.queue[l]
           queue == [s.queue EXCEPT ![s.current] = Tail(@), ![l] = <<t>> \o @]
           r == ChangeMyself(s, l)
<1>1. /\ s \in Scheduler /\ s.current \in Levels
      /\ s.queue \in [Levels -> Seq(TaskIds)] /\ s.level \in [TaskIds -> Levels]
      /\ s.running \in [TaskIds -> BOOLEAN] /\ s.changed \in BOOLEAN
      /\ Idle \in TaskIds /\ Levels \subseteq Int
      /\ t \in TaskIds /\ s.running[t] /\ s.level[t] = s.current
      /\ \A lv \in Levels : Distinct(s.queue[lv])
  BY WellFormedFacts
<1>2. /\ Tail(q) \in Seq(TaskIds) /\ Distinct(Tail(q))
      /\ \A u : Holds(Tail(q), u) <=> Holds(q, u) /\ u # t
  <2>1. q \in Seq(TaskIds) /\ q # <<>> /\ Distinct(q) /\ t = Head(q)
    BY <1>1 DEF WellFormed, HasCurrent, CurrentTask
  <2> HIDE DEF q, t
  <2> QED
    BY <2>1, TailHolds
<1>3. \A lv \in Levels : lv # s.current => ~Holds(s.queue[lv], t)
  BY <1>1 DEF WellFormed, QueuedAtOwnLevel
<1>4. ChangeMyself(s, l) =
        [s EXCEPT !.queue = queue, !.level[t] = l, !.current = l,
                  !.changed = @ \/ l < s.current]
  BY <1>1 DEF ChangeMyself, Scheduler
<1> HIDE DEF t
<1>5. /\ p \in Seq(TaskIds) /\ p # <<>> /\ Distinct(p)
      /\ \A u : Holds(p, u) <=> Holds(s.queue[l], u) \/ u = t
  BY <1>1, <1>3, ConsHolds
<1>6. /\ queue \in [Levels -> Seq(TaskIds)]
      /\ \A lv \in Levels : queue[lv] = IF lv = l THEN p
                                        ELSE IF lv = s.current THEN Tail(q) ELSE s.queue[lv]
  BY <1>1, <1>2, <1>5
<1> HIDE DEF p, queue
<1>7. /\ r \in Scheduler /\ r.queue = queue /\ r.current = l
      /\ r.changed = (s.changed \/ l < s.current)
      /\ r.level = [s.level EXCEPT ![t] = l]
      /\ r.running = s.running
  <2> DEFINE level == [s.level EXCEPT ![t] = l]
             changed == s.changed \/ l < s.current
  <2>1. level \in [TaskIds -> Levels] /\ changed \in BOOLEAN
    BY <1>1
  <2>2. r = [s EXCEPT !.queue = queue, !.level = level, !.current = l,
                      !.changed = changed]
    BY <1>1, <1>4 DEF Scheduler
  <2> HIDE DEF level, changed, r
  <2>3. /\ r \in Scheduler /\ r.queue = queue /\ r.current = l
        /\ r.changed = changed /\ r.level = level /\ r.running = s.running
    BY <1>1, <1>6, <2>1, <2>2 DEF Scheduler
  <2> QED
    BY <2>3 DEF level, changed
<1> HIDE DEF r
<1>8. \A lv \in Levels, u \in TaskIds :
        Holds(queue[lv], u) <=> (Holds(s.queue[lv], u) /\ u # t) \/ (u = t /\ lv = l)
  BY <1>2, <1>3, <1>5, <1>6
<1>9. QueuedAtOwnLevel(r)
  BY <1>1, <1>7, <1>8 DEF WellFormed, QueuedAtOwnLevel
<1>10. RunningIsQueued(r) /\ IdleRuns(r)
  <2>1. ASSUME NEW u \in TaskIds, s.running[u] PROVE Holds(queue[r.level[u]], u)
    <3>1. CASE u = t
      BY <3>1, <1>1, <1>7, <1>8
    <3>2. CASE u # t
      <4>1. r.level[u] = s.level[u] /\ s.level[u] \in Levels
        BY <3>2, <1>1, <1>7
      <4>2. Holds(s.queue[s.level[u]], u)
        BY <2>1 DEF WellFormed, RunningIsQueued
      <4> QED
        BY <3>2, <4>1, <4>2, <1>8
    <3> QED
      BY <3>1, <3>2
  <2> QED
    BY <2>1, <1>7 DEF WellFormed, RunningIsQueued, IdleRuns
<1>11. NoTaskTwice(r)
  BY <1>1, <1>2, <1>5, <1>6, <1>7 DEF NoTaskTwice
<1>12. HasCurrent(r)
  BY <1>5, <1>6, <1>7 DEF HasCurrent
<1>13. PriorityKept(r)
  <2>0. l \in Int /\ s.current \in Int /\ s.changed \in BOOLEAN
    BY <1>1
  <2>1. CASE l < s.current
    BY <2>1, <1>7 DEF PriorityKept
  <2>2. CASE s.changed
    BY <2>2, <1>7 DEF PriorityKept
  <2>3. CASE l > s.current /\ ~s.changed
    <3>1. ASSUME NEW lv \in Levels, lv > l PROVE queue[lv] = <<>>
      <4>1. lv \in Int
        BY <1>1
      <4>2. lv # l /\ lv # s.current /\ lv > s.current
        BY <2>0, <2>3, <3>1, <4>1
      <4> QED
        BY <4>2, <2>3, <1>6 DEF WellFormed, PriorityKept
    <3> QED
      BY <3>1, <1>7 DEF PriorityKept
  <2>4. l < s.current \/ l > s.current
    BY <2>0
  <2> QED
    BY <2>1, <2>2, <2>3, <2>4
<1> QED
  BY <1>7, <1>9, <1>10, <1>11, <1>12, <1>13 DEF WellFormed, r

\* Wakeup leaves the scheduler well formed, for every task and every level.
THEOREM WakeupWellFormed ==
  ASSUME NEW s, WellFormed(s), NEW t \in TaskIds, NEW l \in Levels \union {Same}
  PROVE  WellFormed(Wakeup(s, t, l))
<1>1. s.level[t] \in Levels /\ s.level[CurrentTask(s)] = s.current /\ CurrentTask(s) \in TaskIds
  BY WellFormedFacts
<1>2. CASE ~s.running[t]
  BY <1>1, <1>2, EnqueueWellFormed DEF Wakeup
<1>3. CASE s.running[t]
  <2>1. CASE l = Same \/ l = s.level[t]
    BY <1>3, <2>1 DEF Wakeup, ChangeLevelRunning
  <2>2. CASE l # Same /\ l # s.level[t] /\ t # CurrentTask(s)
    BY <1>3, <2>2, ChangeOtherWellFormed DEF Wakeup, ChangeLevelRunning
  <2>3. CASE l # Same /\ l # s.level[t] /\ t = CurrentTask(s)
    BY <1>1, <1>3, <2>3, ChangeMyselfWellFormed DEF Wakeup, ChangeLevelRunning
  <2> QED
    BY <2>1, <2>2, <2>3
<1> QED
  BY <1>2, <1>3

\* The constructor's state is well formed.
THEOREM InitWellFormed == WellFormed(InitScheduler)
<1> DEFINE s == InitScheduler
<1>1. /\ 0 \in Levels /\ MaxLevel \in Levels /\ MaxLevel # 0 /\ DefaultLevel \in Levels
      /\ Levels \subseteq Int /\ \A lv \in Levels : lv <= MaxLevel
      /\ Main \in TaskIds /\ Idle \in TaskIds /\ Main # Idle
  BY RunQueuesAssumption DEF Levels, TaskIds, Main, Idle
<1>2. /\ s.queue \in [Levels -> Seq(TaskIds)]
      /\ \A lv \in Levels : s.queue[lv] = IF lv = MaxLevel THEN <<Main>>
                                          ELSE IF lv = 0 THEN <<Idle>> ELSE <<>>
  BY <1>1 DEF InitScheduler
<1>3. s \in Scheduler
  BY <1>1, <1>2 DEF InitScheduler, Scheduler
<1>4. \A t \in TaskIds : \A u : Holds(<<t>>, u) <=> u = t
  BY DEF Holds
<1>5. \A u : ~Holds(<<>>, u)
  BY DEF Holds
<1>6. QueuedAtOwnLevel(s)
  BY <1>1, <1>2, <1>4, <1>5 DEF InitScheduler, QueuedAtOwnLevel
<1>7. RunningIsQueued(s) /\ IdleRuns(s)
  BY <1>1, <1>2, <1>4, <1>5 DEF InitScheduler, RunningIsQueued, IdleRuns
<1>8. NoTaskTwice(s)
  BY <1>1, <1>2 DEF NoTaskTwice, Distinct
<1>9. HasCurrent(s) /\ PriorityKept(s)
  BY <1>1, <1>2 DEF InitScheduler, HasCurrent, PriorityKept
<1> QED
  BY <1>3, <1>6, <1>7, <1>8, <1>9 DEF WellFormed

-----------------------------------------------------------------------------
(* Which tasks are runnable after an operation.                             *)

LEMMA RotateRunning ==
  ASSUME NEW s, s \in Scheduler, NEW b \in BOOLEAN
  PROVE  RotateCurrentRunQueue(s, b).running = s.running
BY DEF RotateCurrentRunQueue, Scheduler

LEMMA SleepRunning ==
  ASSUME NEW s, WellFormed(s), NEW t \in TaskIds
  PROVE  Sleep(s, t).running = [s.running EXCEPT ![t] = FALSE]
<1>1. s \in Scheduler /\ s.running \in [TaskIds -> BOOLEAN]
  BY WellFormedFacts
<1>2. CASE ~s.running[t]
  BY <1>1, <1>2 DEF Sleep
<1>3. CASE s.running[t] /\ t = CurrentTask(s)
  <2>1. Stop(s, t) \in Scheduler /\ Stop(s, t).running = [s.running EXCEPT ![t] = FALSE]
    BY <1>1 DEF Stop, Scheduler
  <2> QED
    BY <1>3, <2>1, RotateRunning DEF Sleep
<1>4. CASE s.running[t] /\ t # CurrentTask(s)
  BY <1>1, <1>4 DEF Sleep, Stop, Scheduler
<1> QED
  BY <1>2, <1>3, <1>4

LEMMA RetireRunning ==
  ASSUME NEW s, WellFormed(s)
  PROVE  Retire(s).running = [s.running EXCEPT ![CurrentTask(s)] = FALSE]
<1>1. s \in Scheduler
  BY WellFormedFacts
<1>2. /\ Stop(s, CurrentTask(s)) \in Scheduler
      /\ Stop(s, CurrentTask(s)).running = [s.running EXCEPT ![CurrentTask(s)] = FALSE]
  BY <1>1 DEF Stop, Scheduler
<1> QED
  BY <1>2, RotateRunning DEF Retire

LEMMA WakeupRunning ==
  ASSUME NEW s, WellFormed(s), NEW t \in TaskIds, NEW l
  PROVE  Wakeup(s, t, l).running = [s.running EXCEPT ![t] = TRUE]
<1>1. s \in Scheduler /\ s.running \in [TaskIds -> BOOLEAN]
  BY WellFormedFacts
<1>2. CASE ~s.running[t]
  BY <1>1, <1>2 DEF Wakeup, Enqueue, Scheduler
<1>3. CASE s.running[t]
  <2>1. [s.running EXCEPT ![t] = TRUE] = s.running
    BY <1>1, <1>3
  <2>2. ChangeLevelRunning(s, t, l).running = s.running
    BY <1>1 DEF ChangeLevelRunning, ChangeOther, ChangeMyself, Scheduler
  <2> QED
    BY <1>3, <2>1, <2>2 DEF Wakeup
<1> QED
  BY <1>2, <1>3

-----------------------------------------------------------------------------
(* Who has the processor afterwards.                                        *)

\* Whatever is queued, the level chosen by RotateCurrentRunQueue is the highest
\* with work: level_changed_ is reset, so a well-formed result has none above.
LEMMA NoneAboveAfterRotate ==
  ASSUME NEW s, NEW b \in BOOLEAN, WellFormed(RotateCurrentRunQueue(s, b)), s \in Scheduler,
         NEW lv \in Levels, lv > RotateCurrentRunQueue(s, b).current, NEW t
  PROVE  ~Holds(RotateCurrentRunQueue(s, b).queue[lv], t)
<1> DEFINE r == RotateCurrentRunQueue(s, b)
<1>1. ~r.changed
  BY DEF RotateCurrentRunQueue, Scheduler
<1> HIDE DEF r
<1>2. PriorityKept(r)
  BY DEF WellFormed, r
<1>3. r.queue[lv] = <<>>
  BY <1>1, <1>2 DEF PriorityKept, r
<1> QED
  BY <1>3 DEF Holds, r

\* Putting another task to sleep does not take the processor from the current one.
LEMMA SleepKeepsCurrent ==
  ASSUME NEW s, WellFormed(s), NEW t \in TaskIds, s.running[t], t # CurrentTask(s)
  PROVE  CurrentTask(Sleep(s, t)) = CurrentTask(s)
<1> DEFINE q == s.queue[s.current]
<1>1. /\ s \in Scheduler /\ s.current \in Levels /\ s.level[t] \in Levels
      /\ s.queue \in [Levels -> Seq(TaskIds)]
  BY WellFormedFacts
<1>2. q \in Seq(TaskIds) /\ q # <<>> /\ Distinct(q)
  BY <1>1 DEF WellFormed, HasCurrent, NoTaskTwice
<1>3. Sleep(s, t).current = s.current /\ Sleep(s, t).queue = Without(s, t)
  BY <1>1 DEF Sleep, Stop, Without, Scheduler
<1>4. Head(Erase(q, t)) = Head(q)
  BY <1>2, EraseKeepsHead DEF CurrentTask
<1>5. Head(Without(s, t)[s.current]) = Head(q)
  BY <1>1, <1>4 DEF Without
<1> QED
  BY <1>3, <1>5 DEF CurrentTask

\* No wake-up and no change of level takes the processor from the current task.
LEMMA WakeupKeepsCurrent ==
  ASSUME NEW s, WellFormed(s), NEW t \in TaskIds, NEW l \in Levels \union {Same}
  PROVE  CurrentTask(Wakeup(s, t, l)) = CurrentTask(s)
<1> DEFINE q == s.queue[s.current]
<1>1. /\ s \in Scheduler /\ s.current \in Levels /\ s.level[t] \in Levels
      /\ s.queue \in [Levels -> Seq(TaskIds)]
      /\ CurrentTask(s) \in TaskIds
      /\ s.level[CurrentTask(s)] = s.current
  BY WellFormedFacts
<1>2. q \in Seq(TaskIds) /\ q # <<>> /\ Distinct(q)
  BY <1>1 DEF WellFormed, HasCurrent, NoTaskTwice
<1>3. Head(Append(q, t)) = Head(q)
  BY <1>2
<1>4. CASE ~s.running[t]
  <2>1. ASSUME NEW m \in Levels PROVE CurrentTask(Enqueue(s, t, m)) = CurrentTask(s)
    <3>1. Enqueue(s, t, m).current = s.current
          /\ Enqueue(s, t, m).queue = [s.queue EXCEPT ![m] = Append(@, t)]
      BY <1>1 DEF Enqueue, Scheduler
    <3> QED
      BY <1>1, <1>3, <3>1 DEF CurrentTask
  <2> QED
    BY <1>1, <1>4, <2>1 DEF Wakeup
<1>5. CASE s.running[t] /\ (l = Same \/ l = s.level[t])
  BY <1>5 DEF Wakeup, ChangeLevelRunning
<1>6. CASE s.running[t] /\ ~(l = Same \/ l = s.level[t]) /\ t # CurrentTask(s)
  <2> DEFINE w == Without(s, t)
  <2>1. Wakeup(s, t, l) = ChangeOther(s, t, l) /\ l \in Levels
    BY <1>6 DEF Wakeup, ChangeLevelRunning
  <2>2. w \in [Levels -> Seq(TaskIds)] /\ w[s.current] # <<>>
    BY <1>6, EraseOther
  <2>3. Head(w[s.current]) = Head(q)
    <3>1. Head(Erase(q, t)) = Head(q)
      BY <1>2, <1>6, EraseKeepsHead DEF CurrentTask
    <3> QED
      BY <1>1, <3>1 DEF Without
  <2>4. /\ ChangeOther(s, t, l).current = s.current
        /\ ChangeOther(s, t, l).queue = [w EXCEPT ![l] = Append(@, t)]
    <3>1. ChangeOther(s, t, l) =
            [s EXCEPT !.queue = [w EXCEPT ![l] = Append(@, t)], !.level[t] = l,
                      !.changed = @ \/ l > s.current]
      BY <1>1, <1>6, <2>1, WellFormedFacts DEF ChangeOther, Without, Scheduler
    <3> HIDE DEF w
    <3> QED
      BY <1>1, <3>1 DEF Scheduler
  <2> HIDE DEF w
  <2>5. Head([w EXCEPT ![l] = Append(@, t)][s.current]) = Head(w[s.current])
    BY <1>1, <2>1, <2>2
  <2> QED
    BY <2>1, <2>3, <2>4, <2>5 DEF CurrentTask
<1>7. CASE s.running[t] /\ ~(l = Same \/ l = s.level[t]) /\ t = CurrentTask(s)
  <2>1. Wakeup(s, t, l) = ChangeMyself(s, l) /\ l \in Levels /\ l # s.current
    BY <1>1, <1>7 DEF Wakeup, ChangeLevelRunning
  <2>2. /\ ChangeMyself(s, l).current = l
        /\ ChangeMyself(s, l).queue =
             [s.queue EXCEPT ![s.current] = Tail(@), ![l] = <<t>> \o @]
    BY <1>1, <1>7 DEF ChangeMyself, Scheduler
  <2>3. ChangeMyself(s, l).queue[l] = <<t>> \o s.queue[l]
    BY <1>1, <2>1, <2>2
  <2>4. Head(<<t>> \o s.queue[l]) = t
    BY <1>1, <2>1
  <2>5. CurrentTask(ChangeMyself(s, l)) = t
    BY <2>2, <2>3, <2>4 DEF CurrentTask
  <2> QED
    BY <1>7, <2>1, <2>5
<1> QED
  BY <1>4, <1>5, <1>6, <1>7
=============================================================================
