-------------------------- MODULE MemoryMapProofs ---------------------------
(***************************************************************************)
(* MemoryMap for every machine, kernel, volume and number of callers: the   *)
(* bitmap that is made of the firmware's map is right, and calls that come  *)
(* one at a time are given frames of their own.                             *)
(***************************************************************************)
EXTENDS MemoryMap, FiniteSetTheorems, TLAPS

-----------------------------------------------------------------------------
(* Sets of natural numbers: induction, least and greatest members, counting. *)

(***************************************************************************)
(* A set of natural numbers has a least member.                             *)
(***************************************************************************)
LEMMA LeastMember ==
  ASSUME NEW S, S \subseteq Nat, S # {}
  PROVE  \E m \in S : \A x \in S : m <= x
<1> DEFINE R == OpToRel(<, Nat)
<1>1. IsWellFoundedOn(R, Nat)
  BY NatLessThanWellFounded
<1>2. PICK m \in S : \A x \in S : ~(<<x, m>> \in R)
  <2> HIDE DEF R
  <2> QED
    BY <1>1, WFMin
<1>3. \A x \in S : ~(x < m)
  BY <1>2 DEF OpToRel
<1> QED
  BY <1>3

(***************************************************************************)
(* Induction with the set of numbers it is about, in place of a predicate.  *)
(***************************************************************************)
LEMMA SetInduction ==
  ASSUME NEW T, T \subseteq Nat, 0 \in T, \A n \in T : n + 1 \in T
  PROVE  T = Nat
<1> DEFINE U == Nat \ T
<1> SUFFICES ASSUME U # {} PROVE FALSE
  OBVIOUS
<1>1. PICK m \in U : \A x \in U : m <= x
  <2>1. U \subseteq Nat
    OBVIOUS
  <2> HIDE DEF U
  <2> QED
    BY <2>1, LeastMember
<1>2. m \in Nat \ {0} /\ m - 1 \in Nat /\ ~(m <= m - 1)
  OBVIOUS
<1>3. m - 1 \in T
  BY <1>1, <1>2
<1>4. (m - 1) + 1 \in T /\ (m - 1) + 1 = m
  BY <1>2, <1>3
<1> QED
  BY <1>4

(***************************************************************************)
(* A set of natural numbers with a bound has a greatest member.             *)
(***************************************************************************)
LEMMA GreatestMember ==
  ASSUME NEW S, NEW n \in Nat, S \subseteq 0..n, S # {}
  PROVE  \E m \in S : \A x \in S : x <= m
<1> DEFINE D == {k \in Nat : \A x \in S : x <= k}
<1>1. D \subseteq Nat /\ n \in D
  OBVIOUS
<1>2. PICK k \in D : \A j \in D : k <= j
  <2> HIDE DEF D
  <2> QED
    BY <1>1, LeastMember
<1>3. ASSUME k \notin S PROVE FALSE
  <2>1. \A x \in S : x <= k - 1
    BY <1>3
  <2>2. PICK x \in S : TRUE
    OBVIOUS
  <2>3. k - 1 \in Nat
    BY <2>1, <2>2
  <2>4. k - 1 \in D
    BY <2>1, <2>3
  <2> QED
    BY <1>2, <2>4
<1> QED
  BY <1>3

(***************************************************************************)
(* The numbers in a finite sequence have a bound.                           *)
(***************************************************************************)
LEMMA BoundedSequence ==
  ASSUME NEW s \in Seq(Nat)
  PROVE  \E b \in Nat : \A k \in 1..Len(s) : s[k] <= b
<1> DEFINE T == {n \in Nat : \E b \in Nat : \A k \in 1..Len(s) : k <= n => s[k] <= b}
<1>1. 0 \in T
  OBVIOUS
<1>2. ASSUME NEW n \in T PROVE n + 1 \in T
  <2>0. n \in Nat /\ n + 1 \in Nat
    OBVIOUS
  <2> SUFFICES \E b \in Nat : \A k \in 1..Len(s) : k <= n + 1 => s[k] <= b
    BY <2>0
  <2>1. PICK b \in Nat : \A k \in 1..Len(s) : k <= n => s[k] <= b
    OBVIOUS
  <2>2. CASE n + 1 \in 1..Len(s)
    <3>1. s[n + 1] \in Nat
      BY <2>2
    <3>2. PICK c \in Nat : b <= c /\ s[n + 1] <= c
      <4>1. CASE s[n + 1] <= b
        BY <4>1
      <4>2. CASE ~(s[n + 1] <= b)
        BY <4>2, <3>1
      <4> QED
        BY <4>1, <4>2
    <3>3. ASSUME NEW k \in 1..Len(s), k <= n + 1 PROVE s[k] <= c
      <4>1. CASE k = n + 1
        BY <4>1, <3>2
      <4>2. CASE k # n + 1
        <5>1. k <= n /\ s[k] \in Nat
          BY <4>2, <3>3
        <5> QED
          BY <5>1, <2>1, <3>2
      <4> QED
        BY <4>1, <4>2
    <3> QED
      BY <3>3
  <2>3. CASE n + 1 \notin 1..Len(s)
    <3>1. \A k \in 1..Len(s) : k <= n + 1 => k <= n
      BY <2>3
    <3> QED
      BY <2>1, <3>1
  <2> QED
    BY <2>2, <2>3
<1>3. T = Nat
  <2>1. T \subseteq Nat
    OBVIOUS
  <2> HIDE DEF T
  <2> QED
    BY <1>1, <1>2, <2>1, SetInduction
<1>4. Len(s) \in Nat /\ Len(s) \in T
  <2>1. Len(s) \in Nat
    OBVIOUS
  <2> HIDE DEF T
  <2> QED
    BY <1>3, <2>1
<1>5. PICK b \in Nat : \A k \in 1..Len(s) : k <= Len(s) => s[k] <= b
  BY <1>4
<1>6. \A k \in 1..Len(s) : k <= Len(s)
  BY <1>4
<1> QED
  BY <1>5, <1>6

-----------------------------------------------------------------------------
(* Members of a bounded set, by how many are not above them.                *)

Rank(S, x) == Cardinality({y \in S : y <= x})

LEMMA RankType ==
  ASSUME NEW n \in Nat, NEW S, S \subseteq 0..n, NEW x \in S
  PROVE  Rank(S, x) \in 1..Cardinality(S)
<1>1. IsFiniteSet(0..n)
  BY FS_Interval
<1>2. IsFiniteSet(S)
  BY <1>1, FS_Subset
<1> DEFINE B == {y \in S : y <= x}
<1>3. B \in SUBSET S /\ x \in B
  OBVIOUS
<1>4. IsFiniteSet(B) /\ Cardinality(B) <= Cardinality(S)
  <2> HIDE DEF B
  <2> QED
    BY <1>2, <1>3, FS_Subset
<1>5. Cardinality(B) \in Nat /\ Cardinality(S) \in Nat
  <2> HIDE DEF B
  <2> QED
    BY <1>2, <1>4, FS_CardinalityType
<1>6. Cardinality(B) # 0
  <2> HIDE DEF B
  <2> QED
    BY <1>3, <1>4, FS_EmptySet
<1>7. Rank(S, x) = Cardinality(B)
  BY DEF Rank
<1> HIDE DEF B
<1> QED
  BY <1>4, <1>5, <1>6, <1>7

LEMMA RankGrows ==
  ASSUME NEW n \in Nat, NEW S, S \subseteq 0..n, NEW x \in S, NEW y \in S, x < y
  PROVE  Rank(S, x) < Rank(S, y)
<1>1. IsFiniteSet(0..n)
  BY FS_Interval
<1>2. IsFiniteSet(S)
  BY <1>1, FS_Subset
<1> DEFINE A == {z \in S : z <= x}
           B == {z \in S : z <= y}
<1>0. x \in Nat /\ y \in Nat /\ \A z \in S : z \in Nat
  OBVIOUS
<1>3. B \in SUBSET S /\ A \in SUBSET B /\ y \in B /\ y \notin A
  <2>1. B \in SUBSET S
    OBVIOUS
  <2>2. ASSUME NEW z \in A PROVE z \in B
    <3>1. z \in S /\ z <= x /\ z \in Nat
      BY <1>0
    <3>2. z <= y
      BY <1>0, <3>1
    <3> QED
      BY <3>1, <3>2
  <2>3. y \in B /\ y \notin A
    BY <1>0
  <2> QED
    BY <2>1, <2>2, <2>3
<1>4. Rank(S, x) = Cardinality(A) /\ Rank(S, y) = Cardinality(B)
  BY DEF Rank
<1> HIDE DEF A, B
<1>5. IsFiniteSet(B)
  BY <1>2, <1>3, FS_Subset
<1>6. IsFiniteSet(A) /\ Cardinality(A) <= Cardinality(B) /\ Cardinality(A) # Cardinality(B)
  BY <1>3, <1>5, FS_Subset
<1>7. Cardinality(A) \in Nat /\ Cardinality(B) \in Nat
  BY <1>5, <1>6, FS_CardinalityType
<1> QED
  BY <1>4, <1>6, <1>7

(***************************************************************************)
(* Every rank is taken.                                                     *)
(***************************************************************************)
LEMMA RankTaken ==
  ASSUME NEW n \in Nat, NEW S, S \subseteq 0..n, NEW r \in 1..Cardinality(S)
  PROVE  \E x \in S : Rank(S, x) = r
<1>1. IsFiniteSet(0..n)
  BY FS_Interval
<1>2. IsFiniteSet(S)
  BY <1>1, FS_Subset
<1>3. Cardinality(S) \in Nat
  BY <1>2, FS_CardinalityType
<1> DEFINE High == {x \in S : Rank(S, x) >= r}
<1>4. ASSUME NEW x \in S PROVE Rank(S, x) \in 1..Cardinality(S)
  BY RankType
<1>5. High # {}
  <2>1. S # {}
    BY <1>2, <1>3, FS_EmptySet
  <2>2. PICK x \in S : \A y \in S : y <= x
    BY <2>1, GreatestMember
  <2>3. {y \in S : y <= x} = S
    BY <2>2
  <2>4. Rank(S, x) = Cardinality(S)
    BY <2>3 DEF Rank
  <2> QED
    BY <2>4, <1>3
<1>6. PICK x \in High : \A y \in High : x <= y
  <2>1. High \subseteq Nat
    <3>1. High \subseteq S
      OBVIOUS
    <3> HIDE DEF High
    <3> QED
      BY <3>1
  <2> HIDE DEF High
  <2> QED
    BY <1>5, <2>1, LeastMember
<1>7. ASSUME Rank(S, x) # r PROVE FALSE
  <2> DEFINE B == {y \in S : y <= x}
             A == B \ {x}
  <2>1. Rank(S, x) = Cardinality(B) /\ x \in B /\ B \in SUBSET S
    BY DEF Rank
  <2>2. IsFiniteSet(B)
    <3> HIDE DEF B
    <3> QED
      BY <1>2, <2>1, FS_Subset
  <2>3. IsFiniteSet(A) /\ Cardinality(A) = Cardinality(B) - 1
    <3> HIDE DEF B
    <3> QED
      BY <2>1, <2>2, FS_RemoveElement
  <2>4. Cardinality(A) >= r
    <3> HIDE DEF A, B
    <3>1. Rank(S, x) \in 1..Cardinality(S) /\ Rank(S, x) >= r
      BY <1>4
    <3> QED
      BY <2>1, <2>3, <3>1, <1>7, <1>3
  <2>5. A # {}
    <3> HIDE DEF A, B
    <3> QED
      BY <2>3, <2>4, FS_EmptySet
  <2>6. A \subseteq 0..n
    OBVIOUS
  <2>7. PICK z \in A : \A y \in A : y <= z
    <3> HIDE DEF A, B
    <3> QED
      BY <2>5, <2>6, GreatestMember
  <2>8. z \in S /\ z < x
    OBVIOUS
  <2>9. {y \in S : y <= z} = A
    <3>1. ASSUME NEW y \in S PROVE y <= z <=> y \in A
      <4>1. y \in Nat /\ z \in Nat /\ x \in Nat
        OBVIOUS
      <4>2. y <= z => y \in A
        BY <2>8, <4>1
      <4>3. y \in A => y <= z
        BY <2>7
      <4> QED
        BY <4>2, <4>3
    <3> QED
      BY <3>1
  <2>10. Rank(S, z) >= r
    BY <2>4, <2>9 DEF Rank
  <2>11. z \in High
    BY <2>8, <2>10
  <2>12. z \in Nat /\ x \in Nat /\ x <= z
    BY <2>11, <1>6
  <2> QED
    BY <2>8, <2>12
<1> QED
  BY <1>7

-----------------------------------------------------------------------------

Descriptors == [start : AllFrames, type : Types, end : 1..FrameCount]

LEMMA Frame0 == FrameCount \in Nat \ {0} /\ AllFrames \subseteq Nat /\ 0 \in AllFrames
BY LoaderAssumption DEF LoaderAssumption, AllFrames

-----------------------------------------------------------------------------
(* The firmware's map.                                                      *)

\* m is sorted, and its descriptors have exactly the frames of mem that there are.
Describes(m, mem) ==
  /\ m \in Seq(Descriptors)
  /\ \A k \in 1..Len(m) : m[k].start < m[k].end /\ m[k].type # "none"
  /\ \A k, l \in 1..Len(m) : k < l => m[k].end <= m[l].start
  /\ \A k \in 1..Len(m) : \A f \in Described(m[k]) : f \in AllFrames /\ mem[f] = m[k].type
  /\ \A f \in AllFrames : mem[f] # "none" => \E k \in 1..Len(m) : f \in Described(m[k])

\* Where a descriptor ends.
LEMMA DescriptorEnd ==
  ASSUME NEW mem, NEW f \in AllFrames
  PROVE  LET d == Descriptor(mem, f)
         IN  /\ d.start = f /\ d.type = mem[f]
             /\ d.end \in (f + 1)..FrameCount
             /\ \A g \in f..(d.end - 1) : mem[g] = mem[f]
             /\ d.end = FrameCount \/ mem[d.end] # mem[f]
<1>1. f \in Nat /\ FrameCount \in Nat /\ f + 1 \in Nat /\ f + 1 <= FrameCount
  BY Frame0 DEF AllFrames
<1> DEFINE Ends == {e \in (f + 1)..FrameCount : e = FrameCount \/ mem[e] # mem[f]}
<1>2. Ends \subseteq Nat /\ Ends # {}
  <2>1. FrameCount \in (f + 1)..FrameCount
    BY <1>1
  <2>2. (f + 1)..FrameCount \subseteq Nat
    BY <1>1
  <2> QED
    BY <2>1, <2>2
<1>3. PICK e \in Ends : \A x \in Ends : e <= x
  <2> HIDE DEF Ends
  <2> QED
    BY <1>2, LeastMember
<1>4. e \in Nat /\ e \in (f + 1)..FrameCount
  BY <1>1
<1>5. ASSUME NEW g \in f..(e - 1) PROVE mem[g] = mem[f]
  <2>1. CASE g = f
    BY <2>1
  <2>2. CASE g # f
    <3>1. g \in (f + 1)..FrameCount /\ g # FrameCount /\ ~(e <= g)
      BY <1>1, <1>4, <2>2
    <3> QED
      BY <3>1, <1>3
  <2> QED
    BY <2>1, <2>2
<1>6. e = FrameCount \/ mem[e] # mem[f]
  OBVIOUS
<1> DEFINE P(x) == /\ \A g \in f..(x - 1) : mem[g] = mem[f]
                   /\ x = FrameCount \/ mem[x] # mem[f]
           c == CHOOSE x \in (f + 1)..FrameCount : P(x)
<1>7. P(e)
  BY <1>5, <1>6
<1>8. c \in (f + 1)..FrameCount /\ P(c)
  <2> HIDE DEF P
  <2> QED
    BY <1>4, <1>7
<1>9. Descriptor(mem, f) = [start |-> f, type |-> mem[f], end |-> c]
  BY DEF Descriptor
<1> HIDE DEF c
<1> QED
  BY <1>8, <1>9

\* The n-th beginning is the one of rank n.
LEMMA BeginningsBounded ==
  ASSUME NEW mem
  PROVE  Beginnings(mem) \subseteq 0..FrameCount /\ Cardinality(Beginnings(mem)) \in Nat
<1>1. Beginnings(mem) \subseteq 0..FrameCount
  BY Frame0 DEF Beginnings, AllFrames
<1>2. IsFiniteSet(0..FrameCount)
  BY Frame0, FS_Interval
<1> QED
  BY <1>1, <1>2, FS_Subset, FS_CardinalityType

Nth(mem, n) == CHOOSE f \in Beginnings(mem) : Rank(Beginnings(mem), f) = n

LEMMA MapOfRanks ==
  ASSUME NEW mem
  PROVE  MapOf(mem) = [n \in 1..Cardinality(Beginnings(mem)) |-> Descriptor(mem, Nth(mem, n))]
BY DEF MapOf, Nth, Rank

LEMMA NthRank ==
  ASSUME NEW mem, NEW n \in 1..Cardinality(Beginnings(mem))
  PROVE  Nth(mem, n) \in Beginnings(mem) /\ Rank(Beginnings(mem), Nth(mem, n)) = n
<1>1. \E f \in Beginnings(mem) : Rank(Beginnings(mem), f) = n
  BY BeginningsBounded, Frame0, RankTaken
<1> QED
  BY <1>1 DEF Nth

LEMMA NthGrows ==
  ASSUME NEW mem, NEW k \in 1..Cardinality(Beginnings(mem)),
         NEW l \in 1..Cardinality(Beginnings(mem)), k < l
  PROVE  Nth(mem, k) < Nth(mem, l)
<1> DEFINE fs == Beginnings(mem)
           x == Nth(mem, k)
           y == Nth(mem, l)
<1>1. fs \subseteq 0..FrameCount /\ Cardinality(fs) \in Nat /\ FrameCount \in Nat
  BY BeginningsBounded, Frame0
<1>2. x \in fs /\ y \in fs /\ Rank(fs, x) = k /\ Rank(fs, y) = l
  BY NthRank
<1> HIDE DEF fs, x, y
<1>3. x \in Nat /\ y \in Nat
  BY <1>1, <1>2
<1>4. CASE x = y
  BY <1>2, <1>4, <1>1
<1>5. CASE y < x
  <2>1. Rank(fs, y) < Rank(fs, x)
    BY <1>1, <1>2, <1>5, RankGrows
  <2>2. l < k
    BY <2>1, <1>2
  <2> QED
    BY <2>2, <1>1
<1> QED
  BY <1>3, <1>4, <1>5 DEF x, y

LEMMA NthHasAll ==
  ASSUME NEW mem, NEW f \in Beginnings(mem)
  PROVE  \E n \in 1..Cardinality(Beginnings(mem)) : Nth(mem, n) = f
<1> DEFINE fs == Beginnings(mem)
           n == Rank(fs, f)
<1>1. fs \subseteq 0..FrameCount /\ FrameCount \in Nat
  BY BeginningsBounded, Frame0
<1>2. n \in 1..Cardinality(fs)
  BY <1>1, RankType
<1>3. Nth(mem, n) \in fs /\ Rank(fs, Nth(mem, n)) = n
  <2> HIDE DEF n
  <2> QED
    BY <1>2, NthRank
<1> DEFINE x == Nth(mem, n)
<1>4. x \in fs /\ Rank(fs, x) = Rank(fs, f)
  BY <1>3
<1> HIDE DEF x
<1>5. x \in Nat /\ f \in Nat
  BY <1>1, <1>4
<1>6. Cardinality(fs) \in Nat /\ Rank(fs, f) \in Int
  BY <1>2, BeginningsBounded
<1>7. ~(x < f)
  <2> HIDE DEF fs
  <2> SUFFICES ASSUME x < f PROVE FALSE
    OBVIOUS
  <2>1. Rank(fs, x) < Rank(fs, f)
    BY <1>1, <1>4, RankGrows DEF fs
  <2> QED
    BY <2>1, <1>4, <1>6
<1>8. ~(f < x)
  <2> HIDE DEF fs
  <2> SUFFICES ASSUME f < x PROVE FALSE
    OBVIOUS
  <2>1. Rank(fs, f) < Rank(fs, x)
    BY <1>1, <1>4, RankGrows DEF fs
  <2> QED
    BY <2>1, <1>4, <1>6
<1>9. x = f
  BY <1>5, <1>7, <1>8
<1> QED
  BY <1>2, <1>9 DEF x

\* Every frame there is lies behind the beginning of its descriptor.
LEMMA BeginningBefore ==
  ASSUME NEW mem, NEW f \in AllFrames, mem[f] # "none"
  PROVE  \E b \in Beginnings(mem) : b <= f /\ \A g \in b..f : mem[g] = mem[f]
<1>1. f \in Nat /\ f < FrameCount /\ FrameCount \in Nat /\ \A g \in 0..f : g \in AllFrames
  BY Frame0 DEF AllFrames
<1> DEFINE S == {b \in 0..f : \A g \in b..f : mem[g] = mem[f]}
<1>2. S \subseteq Nat /\ f \in S
  BY <1>1
<1>3. PICK b \in S : \A x \in S : b <= x
  <2> HIDE DEF S
  <2> QED
    BY <1>2, LeastMember
<1>4. b \in 0..f /\ b \in Nat /\ \A g \in b..f : mem[g] = mem[f]
  BY <1>1
<1>5. b \in AllFrames /\ mem[b] = mem[f]
  BY <1>1, <1>4
<1>6. ASSUME b # 0, mem[b] = mem[b - 1] PROVE FALSE
  <2>1. b - 1 \in 0..f /\ ~(b <= b - 1)
    BY <1>4, <1>6, <1>1
  <2>2. ASSUME NEW g \in (b - 1)..f PROVE mem[g] = mem[f]
    <3>1. CASE g = b - 1
      BY <3>1, <1>5, <1>6
    <3>2. CASE g # b - 1
      <4>1. g \in b..f
        BY <3>2, <1>4, <1>1
      <4> QED
        BY <4>1, <1>4
    <3> QED
      BY <3>1, <3>2
  <2>3. b - 1 \in S
    BY <2>1, <2>2
  <2> QED
    BY <1>3, <2>1, <2>3
<1>7. b \in Beginnings(mem)
  BY <1>5, <1>6 DEF Beginnings
<1> QED
  BY <1>4, <1>7

(***************************************************************************)
(* The firmware's map describes its memory: GetMemoryMap hands out          *)
(* descriptors that are sorted and leave out no frame.                      *)
(***************************************************************************)
LEMMA MapDescribes ==
  ASSUME NEW mem \in [AllFrames -> Types]
  PROVE  Describes(MapOf(mem), mem)
<1> DEFINE n == Cardinality(Beginnings(mem))
           m == MapOf(mem)
           F(k) == Nth(mem, k)
<1>0. FrameCount \in Nat /\ n \in Nat /\ AllFrames = 0..(FrameCount - 1)
  BY Frame0, BeginningsBounded DEF AllFrames
<1>1. ASSUME NEW k \in 1..n
      PROVE  /\ F(k) \in AllFrames /\ F(k) \in Nat /\ mem[F(k)] # "none"
             /\ F(k) = 0 \/ mem[F(k)] # mem[F(k) - 1]
             /\ m[k] \in Descriptors /\ m[k].start = F(k) /\ m[k].type = mem[F(k)]
             /\ m[k].end \in (F(k) + 1)..FrameCount
             /\ \A g \in F(k)..(m[k].end - 1) : mem[g] = mem[F(k)]
             /\ m[k].end = FrameCount \/ mem[m[k].end] # mem[F(k)]
  <2>1. F(k) \in Beginnings(mem)
    BY NthRank
  <2> DEFINE f == F(k)
  <2>2. f \in AllFrames /\ mem[f] # "none" /\ (f = 0 \/ mem[f] # mem[f - 1])
    BY <2>1 DEF Beginnings
  <2>3. m[k] = Descriptor(mem, f)
    BY MapOfRanks
  <2>4. f \in Nat
    BY <2>2, Frame0
  <2> DEFINE d == Descriptor(mem, f)
  <2> HIDE DEF f
  <2>5. /\ d.start = f /\ d.type = mem[f]
        /\ d.end \in (f + 1)..FrameCount
        /\ \A g \in f..(d.end - 1) : mem[g] = mem[f]
        /\ d.end = FrameCount \/ mem[d.end] # mem[f]
    BY <2>2, DescriptorEnd
  <2>6. d = [start |-> d.start, type |-> d.type, end |-> d.end]
    BY DEF Descriptor
  <2>7. d.end \in 1..FrameCount /\ d.type \in Types /\ d.start \in AllFrames
    BY <2>2, <2>4, <2>5, <1>0
  <2> HIDE DEF d
  <2>8. d \in Descriptors
    BY <2>6, <2>7 DEF Descriptors
  <2> QED
    BY <2>2, <2>3, <2>4, <2>5, <2>8 DEF f, d
<1>2. m \in Seq(Descriptors) /\ Len(m) = n
  <2>1. m = [k \in 1..n |-> m[k]]
    BY MapOfRanks
  <2> HIDE DEF m, n
  <2> QED
    BY <1>0, <1>1, <2>1
<1>3. ASSUME NEW k \in 1..n, NEW l \in 1..n, k < l PROVE m[k].end <= m[l].start
  <2>1. F(k) < F(l)
    BY <1>3, NthGrows
  <2> DEFINE b == F(l)
             e == m[k].end
             a == F(k)
  <2>2. /\ a \in Nat /\ b \in Nat /\ a < b /\ e \in (a + 1)..FrameCount
        /\ \A g \in a..(e - 1) : mem[g] = mem[a]
        /\ mem[b] # mem[b - 1] \/ b = 0
        /\ m[l].start = b
    BY <1>1, <2>1
  <2> HIDE DEF a, b, e
  <2> SUFFICES ASSUME ~(e <= b) PROVE FALSE
    BY <2>2 DEF b, e
  <2>3. b \in a..(e - 1) /\ b - 1 \in a..(e - 1) /\ b # 0
    BY <2>2, <1>0
  <2> QED
    BY <2>2, <2>3
<1>4. ASSUME NEW k \in 1..n, NEW f \in Described(m[k])
      PROVE  f \in AllFrames /\ mem[f] = m[k].type
  <2> DEFINE a == F(k)
             e == m[k].end
  <2>1. /\ a \in Nat /\ e \in (a + 1)..FrameCount /\ f \in a..(e - 1)
        /\ \A g \in a..(e - 1) : mem[g] = mem[a]
        /\ m[k].type = mem[a]
    BY <1>1 DEF Described
  <2> HIDE DEF a, e
  <2>2. f \in AllFrames
    BY <2>1, <1>0
  <2> QED
    BY <2>1, <2>2
<1>5. ASSUME NEW f \in AllFrames, mem[f] # "none"
      PROVE  \E k \in 1..n : f \in Described(m[k])
  <2>1. PICK b \in Beginnings(mem) : b <= f /\ \A g \in b..f : mem[g] = mem[f]
    BY <1>5, BeginningBefore
  <2>2. PICK k \in 1..n : Nth(mem, k) = b
    BY NthHasAll
  <2> DEFINE e == m[k].end
  <2>3. /\ b \in Nat /\ e \in (b + 1)..FrameCount
        /\ e = FrameCount \/ mem[e] # mem[b]
        /\ m[k].start = b
    BY <1>1, <2>2
  <2> HIDE DEF e
  <2>4. f \in Nat /\ f < FrameCount
    BY <1>0
  <2>5. ASSUME e <= f PROVE FALSE
    <3>1. e # FrameCount /\ e \in b..f /\ b \in b..f
      BY <2>1, <2>3, <2>4, <2>5, <1>0
    <3> QED
      BY <3>1, <2>1, <2>3
  <2>6. f \in b..(e - 1)
    BY <2>1, <2>3, <2>4, <2>5, <1>0
  <2> QED
    BY <2>3, <2>6 DEF Described, e
<1>6. ASSUME NEW k \in 1..n PROVE m[k].start < m[k].end /\ m[k].type # "none"
  BY <1>0, <1>1
<1> HIDE DEF m, n
<1> QED
  BY <1>2, <1>3, <1>4, <1>5, <1>6 DEF Describes, m

-----------------------------------------------------------------------------
(* The kernel.                                                              *)

IsSegment(f) == SegmentAt(f) # {}

\* The frames of the segments lie in the pages that are allocated for them.
LEMMA SegmentsInRange ==
  ASSUME NEW f \in AllFrames, IsSegment(f)
  PROVE  f \in CalcLoadAddressRange
<1> DEFINE Starts == {s.vaddr : s \in Loads}
           Ends   == {s.vaddr + s.memsz : s \in Loads}
           e      == [k \in 1..Len(Segments) |-> Segments[k].vaddr + Segments[k].memsz]
<1>0. f \in Nat
  BY Frame0
<1>1. /\ Len(Segments) \in Nat /\ DOMAIN Segments = 1..Len(Segments)
      /\ \A k \in 1..Len(Segments) :
           Segments[k].vaddr \in Nat /\ Segments[k].memsz \in Nat
  <2> DEFINE H == [type : STRING, vaddr : Nat \ {0}, filesz : Nat, memsz : Nat]
  <2>1. Segments \in Seq(H)
    BY LoaderAssumption DEF LoaderAssumption
  <2>2. \A h \in H : h.vaddr \in Nat /\ h.memsz \in Nat
    OBVIOUS
  <2> HIDE DEF H
  <2>3. Len(Segments) \in Nat /\ DOMAIN Segments = 1..Len(Segments)
    BY <2>1
  <2>4. \A k \in 1..Len(Segments) : Segments[k] \in H
    BY <2>1
  <2> QED
    BY <2>2, <2>3, <2>4
<1>2. e \in Seq(Nat) /\ Len(e) = Len(Segments)
  BY <1>1
<1>3. PICK b \in Nat : \A k \in 1..Len(e) : e[k] <= b
  <2> HIDE DEF e
  <2> QED
    BY <1>2, BoundedSequence
<1>4. ASSUME NEW s \in Loads
      PROVE  \E k \in 1..Len(Segments) : s = Segments[k]
  BY DEF Loads
<1>5. \A s \in Loads : s.vaddr \in Nat /\ s.memsz \in Nat /\ s.vaddr + s.memsz \in 0..b
  <2> SUFFICES ASSUME NEW s \in Loads
               PROVE  s.vaddr \in Nat /\ s.memsz \in Nat /\ s.vaddr + s.memsz \in 0..b
    OBVIOUS
  <2>1. PICK k \in 1..Len(Segments) : s = Segments[k]
    BY <1>4
  <2>2. e[k] <= b /\ e[k] = s.vaddr + s.memsz
    BY <1>2, <1>3, <2>1
  <2> HIDE DEF e
  <2> QED
    BY <1>1, <2>1, <2>2
<1>6. PICK s \in Loads : s.vaddr <= f /\ f < s.vaddr + s.memsz
  BY DEF IsSegment, SegmentAt
<1>7. Min(Starts) \in Starts /\ \A x \in Starts : Min(Starts) <= x
  <2>1. Starts \subseteq Nat /\ Starts # {}
    BY <1>5, <1>6
  <2> HIDE DEF Starts
  <2>2. PICK m \in Starts : \A x \in Starts : m <= x
    BY <2>1, LeastMember
  <2> QED
    BY <2>2 DEF Min
<1>8. Max(Ends) \in Ends /\ \A x \in Ends : Max(Ends) >= x
  <2>1. Ends \subseteq 0..b /\ Ends # {}
    BY <1>5, <1>6
  <2> HIDE DEF Ends
  <2>2. PICK m \in Ends : \A x \in Ends : x <= m
    BY <2>1, GreatestMember
  <2>3. \A x \in Ends : m >= x
    BY <2>1, <2>2
  <2> QED
    BY <2>2, <2>3 DEF Max
<1>9. s.vaddr \in Starts /\ s.vaddr + s.memsz \in Ends
  OBVIOUS
<1>10. CalcLoadAddressRange = Min(Starts)..(Max(Ends) - 1)
  BY DEF CalcLoadAddressRange
<1>11. Starts \subseteq Nat /\ Ends \subseteq Nat
  BY <1>5
<1> HIDE DEF Starts, Ends, e
<1>12. /\ Min(Starts) \in Nat /\ Min(Starts) <= s.vaddr
       /\ Max(Ends) \in Nat /\ s.vaddr + s.memsz <= Max(Ends)
  BY <1>7, <1>8, <1>9, <1>11
<1>13. s.vaddr \in Nat /\ s.memsz \in Nat
  BY <1>5
<1> DEFINE lo == Min(Starts)
           hi == Max(Ends)
<1> HIDE DEF lo, hi
<1>14. f \in lo..(hi - 1)
  BY <1>0, <1>6, <1>12, <1>13 DEF lo, hi
<1> QED
  BY <1>10, <1>14 DEF lo, hi

-----------------------------------------------------------------------------
(* The inductive invariant of the boot.                                     *)

\* The map has been handed over and is not taken over yet.
Handed == step = "kernel" /\ memoryMap # <<>>

LoaderTypeOK ==
  /\ memory \in [AllFrames -> Types]
  /\ key \in Nat /\ memmap.key \in Int /\ memmap.key <= key
  /\ buffer \subseteq AllFrames /\ volume \subseteq AllFrames
  /\ next \in Nat \ {0} /\ availableEnd \in 0..FrameCount /\ rangeEnd \in 0..FrameCount

\* A map that has been read with the key of now is the map of now.
MapKnown ==
  /\ memmap.key = key => memmap.map = MapOf(memory)
  /\ step = "entry" => memmap.key = key
  /\ memoryMap # <<>> => step = "kernel" /\ memoryMap = MapOf(memory)

Nothing     == {"map", "root", "memmap", "saved", "gop", "file"}
WithFile    == {"pages", "volume", "blocks", "copy", "free"}
WithKernel  == {"volume", "blocks", "copy", "free", "exit", "again", "entry"}
WithVolume  == {"copy", "free", "exit", "again", "entry"}
WithProgram == {"free", "exit", "again", "entry"}

\* The file, the kernel and the volume lie apart, in memory the loader has.
Apart ==
  /\ step \in Nothing \cup {"pages", "volume", "blocks"} => volume = {}
  /\ step \in Nothing => buffer = {}
  /\ step \in WithFile => \A f \in buffer : memory[f] = "loader"
  /\ step \in WithFile \ {"pages"} => \A f \in buffer : ~IsSegment(f) /\ f \notin volume
  /\ step \in WithKernel \/ Handed => \A f \in AllFrames : IsSegment(f) => memory[f] = "loader"
  /\ step \in WithVolume \/ Handed => \A f \in volume : memory[f] = "loader" /\ ~IsSegment(f)

\* They hold what was read.
Written ==
  /\ step \in WithVolume \/ Handed => \A f \in volume : content[f] = "volume"
  /\ step \in WithProgram \/ Handed => \A f \in AllFrames : IsSegment(f) => content[f] = Loaded(f)

\* Nothing of the kernel's has begun before its entry point, and no call before the heap.
InOrder ==
  /\ step # "kernel" => /\ next = 1 /\ availableEnd = 0 /\ bitmap = {}
                        /\ rangeEnd = 0 /\ memoryMap = <<>>
  /\ step # "kernel" \/ memoryMap # <<>> => reserved = {}

\* The loop over the descriptors, up to the end of the last available one.
Scanned ==
  memoryMap # <<>> =>
    /\ \A f \in bitmap : f \in AllFrames /\ ~IsAvailable(memory[f])
    /\ \A f \in AllFrames : f < availableEnd /\ ~IsAvailable(memory[f]) => f \in bitmap
    /\ \A k \in 1..Len(memoryMap) :
         /\ k < next /\ IsAvailable(memoryMap[k].type) => memoryMap[k].end <= availableEnd
         /\ k >= next => availableEnd <= memoryMap[k].start
    /\ rangeEnd > 0 => next > Len(memoryMap) /\ rangeEnd = availableEnd

BootInv == LoaderTypeOK /\ MapKnown /\ Apart /\ Written /\ InOrder /\ Scanned

LEMMA BootInit == Init => BootInv
<1> SUFFICES ASSUME Init PROVE BootInv
  OBVIOUS
<1> USE DEF Init, LoaderInit
<1>1. LoaderTypeOK
  <2>1. memory \in [AllFrames -> Types]
    BY DEF Types
  <2> QED
    BY <2>1, Frame0 DEF LoaderTypeOK, NoMap
<1>2. MapKnown
  BY DEF MapKnown, NoMap
<1>3. Apart /\ Written
  BY DEF Apart, Written, Handed, Nothing, WithFile, WithKernel, WithVolume, WithProgram
<1>4. InOrder /\ Scanned
  BY DEF InOrder, Scanned
<1> QED
  BY <1>1, <1>2, <1>3, <1>4 DEF BootInv

kernelVars == <<mapVars, bitmap, bootVars, callVars>>

\* A step of the loader leaves what is the kernel's as it is.
LEMMA LoaderFrame ==
  ASSUME BootInv, step # "kernel", step' # "kernel", UNCHANGED kernelVars,
         LoaderTypeOK', Apart', Written',
         memmap'.key = key' => memmap'.map = MapOf(memory'),
         step' = "entry" => memmap'.key = key'
  PROVE  BootInv'
<1> USE DEF kernelVars, mapVars, bootVars
<1>1. memoryMap = <<>> /\ memoryMap' = <<>>
  BY DEF BootInv, InOrder
<1>2. MapKnown'
  BY <1>1 DEF MapKnown
<1>3. InOrder' /\ Scanned'
  BY <1>1 DEF BootInv, InOrder, Scanned
<1> QED
  BY <1>2, <1>3 DEF BootInv

\* The loader goes on, and the firmware's memory stays as it is.
LEMMA QuietStep ==
  ASSUME BootInv, UNCHANGED kernelVars, UNCHANGED <<memory, key, memmap, buffer, volume, content>>,
         NEW from, NEW to, step = from, step' = to, to # "kernel", from # "kernel",
         \/ from = "map" /\ to = "root"
         \/ from = "root" /\ to = "memmap"
         \/ from = "memmap" /\ to \in {"saved", "gop"}
         \/ from = "saved" /\ to = "gop"
         \/ from = "gop" /\ to = "file"
         \/ from = "volume" /\ to = "blocks"
         \/ from \in {"exit", "again"} /\ to = "entry" /\ memmap.key = key
         \/ to = "halt"
  PROVE  BootInv'
<1> USE DEF kernelVars, mapVars, bootVars
<1>0. step # "kernel" /\ step' # "kernel"
  OBVIOUS
<1>1. LoaderTypeOK'
  BY DEF BootInv, LoaderTypeOK
<1>2. Apart'
  BY DEF BootInv, Apart, Handed, Nothing, WithFile, WithKernel, WithVolume
<1>3. Written'
  BY DEF BootInv, Written, Handed, WithVolume, WithProgram
<1>4. (memmap'.key = key' => memmap'.map = MapOf(memory')) /\ (step' = "entry" => memmap'.key = key')
  BY DEF BootInv, MapKnown
<1> HIDE DEF kernelVars, mapVars, bootVars
<1> QED
  BY <1>0, <1>1, <1>2, <1>3, <1>4, LoaderFrame

\* A map is read.
LEMMA MapStep ==
  ASSUME BootInv, UNCHANGED kernelVars, UNCHANGED <<memory, key, buffer, volume, content>>, GetMemoryMap,
         NEW from, NEW to, step = from, step' = to,
         \/ from = "map" /\ to = "root"
         \/ from = "exit" /\ to = "again"
  PROVE  BootInv'
<1> USE DEF kernelVars, mapVars, bootVars
<1>0. step # "kernel" /\ step' # "kernel"
  OBVIOUS
<1>1. LoaderTypeOK'
  BY DEF BootInv, LoaderTypeOK, GetMemoryMap
<1>2. Apart'
  BY DEF BootInv, Apart, Handed, Nothing, WithFile, WithKernel, WithVolume
<1>3. Written'
  BY DEF BootInv, Written, Handed, WithVolume, WithProgram
<1>4. (memmap'.key = key' => memmap'.map = MapOf(memory')) /\ (step' = "entry" => memmap'.key = key')
  BY DEF GetMemoryMap
<1> HIDE DEF kernelVars, mapVars, bootVars
<1> QED
  BY <1>0, <1>1, <1>2, <1>3, <1>4, LoaderFrame

\* Memory changes hands.
LEMMA MemoryStep ==
  ASSUME BootInv, UNCHANGED kernelVars, NEW frames, NEW type \in Types, Become(frames, type),
         UNCHANGED memmap, buffer' \subseteq AllFrames, volume' \subseteq AllFrames,
         step \notin {"kernel", "entry"}, step' \notin {"kernel", "entry"},
         Apart', Written'
  PROVE  BootInv'
<1> USE DEF kernelVars, mapVars, bootVars
<1>1. LoaderTypeOK' /\ memmap'.key # key'
  <2>1. key' \in Nat /\ memmap'.key <= key' /\ memmap'.key # key' /\ memmap'.key \in Int
    BY DEF BootInv, LoaderTypeOK, Become
  <2>2. memory' \in [AllFrames -> Types]
    BY DEF BootInv, LoaderTypeOK, Become
  <2> QED
    BY <2>1, <2>2 DEF BootInv, LoaderTypeOK
<1> HIDE DEF kernelVars, mapVars, bootVars
<1> QED
  BY <1>1, LoaderFrame

LEMMA ConventionalFacts ==
  ASSUME LoaderTypeOK
  PROVE  /\ Conventional \subseteq AllFrames
         /\ \A f \in Conventional : memory[f] = "conventional"
BY DEF Conventional

LEMMA FirmwareAllocatesStep ==
  ASSUME BootInv, UNCHANGED kernelVars, FirmwareAllocates
  PROVE  BootInv'
<1>1. PICK f \in Conventional : Become({f}, "boot")
  BY DEF FirmwareAllocates
<1>2. step \notin {"kernel", "entry"} /\ UNCHANGED <<step, memmap, buffer, volume, content>>
  BY DEF FirmwareAllocates, Running
<1>3. f \in AllFrames /\ memory[f] = "conventional"
  BY ConventionalFacts DEF BootInv
<1>4. \A g \in AllFrames : memory[g] = "loader" => memory'[g] = "loader"
  BY <1>1, <1>3 DEF Become
<1>5. buffer \subseteq AllFrames /\ volume \subseteq AllFrames
  BY DEF BootInv, LoaderTypeOK
<1>6. Apart'
  <2>1. \A g \in buffer \cup volume : memory[g] = "loader" => memory'[g] = "loader"
    BY <1>4, <1>5
  <2> QED
    BY <1>2, <1>4, <2>1 DEF BootInv, Apart, Handed
<1>7. Written'
  BY <1>2 DEF BootInv, Written, Handed
<1> QED
  BY <1>1, <1>2, <1>5, <1>6, <1>7, MemoryStep DEF Types

LEMMA ReadKernelStep ==
  ASSUME BootInv, UNCHANGED kernelVars, ReadKernel
  PROVE  BootInv'
<1>1. /\ step = "file" /\ step' = "pages" /\ UNCHANGED <<memmap, volume, content>>
      /\ Become(buffer', "loader") /\ buffer' \subseteq Conventional
  BY DEF ReadKernel, AllocatePool
<1>2. buffer' \subseteq AllFrames /\ volume = {}
  BY <1>1, ConventionalFacts DEF BootInv, Apart, Nothing
<1>3. Apart'
  BY <1>1, <1>2 DEF BootInv, Apart, Handed, Nothing, WithFile, WithKernel, WithVolume, Become
<1>4. Written'
  BY <1>1 DEF Written, Handed, WithVolume, WithProgram
<1> QED
  BY <1>1, <1>2, <1>3, <1>4, MemoryStep DEF Types

LEMMA AllocateKernelStep ==
  ASSUME BootInv, UNCHANGED kernelVars, AllocateKernel
  PROVE  BootInv'
<1>1. /\ step = "pages" /\ step' = "volume" /\ UNCHANGED <<memmap, buffer, volume, content>>
      /\ Become(CalcLoadAddressRange, "loader")
      /\ \A f \in CalcLoadAddressRange : f \in AllFrames /\ memory[f] = "conventional"
  BY ConventionalFacts DEF AllocateKernel, BootInv
<1>2. /\ buffer \subseteq AllFrames /\ volume = {}
      /\ \A f \in buffer : memory[f] = "loader"
  BY <1>1 DEF BootInv, LoaderTypeOK, Apart, WithFile
<1>3. \A f \in buffer : ~IsSegment(f) /\ memory'[f] = "loader"
  <2> SUFFICES ASSUME NEW f \in buffer PROVE ~IsSegment(f) /\ memory'[f] = "loader"
    OBVIOUS
  <2>1. f \in AllFrames /\ memory[f] = "loader"
    BY <1>2
  <2>2. f \notin CalcLoadAddressRange
    BY <2>1, <1>1
  <2> QED
    BY <2>1, <2>2, <1>1, SegmentsInRange DEF Become
<1>4. \A f \in AllFrames : IsSegment(f) => memory'[f] = "loader"
  BY <1>1, SegmentsInRange DEF Become
<1>5. Apart'
  BY <1>1, <1>2, <1>3, <1>4 DEF Apart, Handed, Nothing, WithFile, WithKernel, WithVolume
<1>6. Written'
  BY <1>1 DEF Written, Handed, WithVolume, WithProgram
<1> QED
  BY <1>1, <1>2, <1>5, <1>6, MemoryStep DEF Types

LEMMA ReadVolumeStep ==
  ASSUME BootInv, UNCHANGED kernelVars, NEW from \in {"volume", "blocks"}, NEW n, ReadVolume(from, n)
  PROVE  BootInv'
<1>1. /\ step = from /\ step' = "copy" /\ UNCHANGED <<memmap, buffer>>
      /\ Become(volume', "loader") /\ volume' \subseteq Conventional
      /\ content' = [f \in AllFrames |-> IF f \in volume' THEN "volume" ELSE content[f]]
  BY DEF ReadVolume, AllocatePool
<1>2. /\ \A f \in volume' : f \in AllFrames /\ memory[f] = "conventional"
      /\ buffer \subseteq AllFrames
  BY <1>1, ConventionalFacts DEF BootInv, LoaderTypeOK
<1>3. /\ \A f \in buffer : memory[f] = "loader" /\ ~IsSegment(f)
      /\ \A f \in AllFrames : IsSegment(f) => memory[f] = "loader"
  BY <1>1 DEF BootInv, Apart, WithFile, WithKernel
<1>4. \A f \in AllFrames : memory[f] = "loader" => memory'[f] = "loader" /\ f \notin volume'
  BY <1>1, <1>2 DEF Become
<1>5. \A f \in volume' : memory'[f] = "loader" /\ ~IsSegment(f) /\ content'[f] = "volume"
  BY <1>1, <1>2, <1>3 DEF Become
<1>6. \A f \in buffer : memory'[f] = "loader" /\ ~IsSegment(f) /\ f \notin volume'
  BY <1>2, <1>3, <1>4
<1>7. Apart'
  BY <1>1, <1>3, <1>4, <1>5, <1>6 DEF Apart, Handed, Nothing, WithFile, WithKernel, WithVolume
<1>8. Written'
  BY <1>1, <1>5 DEF Written, Handed, WithVolume, WithProgram
<1>9. volume' \subseteq AllFrames /\ buffer' \subseteq AllFrames
  BY <1>1, <1>2
<1> QED
  BY <1>1, <1>7, <1>8, <1>9, MemoryStep DEF Types

LEMMA CopyLoadSegmentsStep ==
  ASSUME BootInv, UNCHANGED kernelVars, CopyLoadSegments
  PROVE  BootInv'
<1>1. /\ step = "copy" /\ step' = "free" /\ UNCHANGED <<memory, key, memmap, buffer, volume>>
      /\ content' = [f \in AllFrames |-> IF IsSegment(f) THEN Loaded(f) ELSE content[f]]
  BY DEF CopyLoadSegments, IsSegment
<1>2. LoaderTypeOK'
  BY <1>1 DEF BootInv, LoaderTypeOK, kernelVars, mapVars, bootVars
<1>3. Apart'
  BY <1>1 DEF BootInv, Apart, Handed, Nothing, WithFile, WithKernel, WithVolume
<1>4. Written'
  <2>1. \A f \in volume : f \in AllFrames /\ ~IsSegment(f) /\ content[f] = "volume"
    BY <1>1 DEF BootInv, LoaderTypeOK, Apart, Written, WithVolume
  <2>2. \A f \in volume' : content'[f] = "volume"
    BY <1>1, <2>1
  <2>3. \A f \in AllFrames : IsSegment(f) => content'[f] = Loaded(f)
    BY <1>1
  <2> QED
    BY <1>1, <2>2, <2>3 DEF Written
<1>5. memmap'.key = key' => memmap'.map = MapOf(memory')
  BY <1>1 DEF BootInv, MapKnown
<1> QED
  BY <1>1, <1>2, <1>3, <1>4, <1>5, LoaderFrame

LEMMA FreePoolStep ==
  ASSUME BootInv, UNCHANGED kernelVars, FreePool
  PROVE  BootInv'
<1>1. /\ step = "free" /\ step' = "exit" /\ UNCHANGED <<memmap, volume, content>>
      /\ Become(buffer, "conventional") /\ buffer' = {}
  BY DEF FreePool
<1>2. /\ \A f \in buffer : ~IsSegment(f) /\ f \notin volume
      /\ \A f \in AllFrames : IsSegment(f) => memory[f] = "loader"
      /\ \A f \in volume : f \in AllFrames /\ memory[f] = "loader" /\ ~IsSegment(f)
  BY <1>1 DEF BootInv, LoaderTypeOK, Apart, WithFile, WithKernel, WithVolume
<1>3. /\ \A f \in AllFrames : IsSegment(f) => memory'[f] = "loader"
      /\ \A f \in volume : memory'[f] = "loader"
  BY <1>1, <1>2 DEF Become
<1>4. Apart'
  BY <1>1, <1>2, <1>3 DEF Apart, Handed, Nothing, WithFile, WithKernel, WithVolume
<1>5. Written'
  BY <1>1 DEF BootInv, Written, Handed, WithVolume, WithProgram
<1>6. volume' \subseteq AllFrames /\ buffer' \subseteq AllFrames
  BY <1>1, <1>2
<1> QED
  BY <1>1, <1>4, <1>5, <1>6, MemoryStep DEF Types

LEMMA LoaderStep ==
  ASSUME BootInv, LoaderNext, UNCHANGED kernelVars
  PROVE  BootInv'
<1>1. CASE FirstMap \/ ReadMapAgain
  <2>1. /\ UNCHANGED <<memory, key, buffer, volume, content>> /\ GetMemoryMap
        /\ \/ step = "map" /\ step' = "root"
           \/ step = "exit" /\ step' = "again"
    BY <1>1 DEF FirstMap, ReadMapAgain
  <2> QED
    BY <2>1, MapStep
<1>2. CASE OpenRootDir \/ SaveMemoryMap \/ NoMemmapFile \/ CloseMemmap \/ OpenGOP
           \/ OpenBlockIoProtocolForLoadedImage
  BY <1>2, QuietStep
     DEF OpenRootDir, SaveMemoryMap, NoMemmapFile, CloseMemmap, OpenGOP,
         OpenBlockIoProtocolForLoadedImage, Goes
<1>3. CASE ExitBootServices("exit") \/ ExitBootServices("again")
  BY <1>3, QuietStep DEF ExitBootServices, Refused, Goes
<1>4. CASE Fails
  BY <1>4, QuietStep DEF Fails, Running
<1>5. CASE ReadVolumeFile \/ ReadBlocks
  BY <1>5, ReadVolumeStep DEF ReadVolumeFile, ReadBlocks
<1> QED
  BY <1>1, <1>2, <1>3, <1>4, <1>5, ReadKernelStep, AllocateKernelStep, CopyLoadSegmentsStep,
     FreePoolStep, FirmwareAllocatesStep DEF LoaderNext

-----------------------------------------------------------------------------
(* The kernel takes the map over.                                           *)

\* What a step of the kernel needs of the loader's invariant, and leaves as it is.
LEMMA KernelFrame ==
  ASSUME BootInv, UNCHANGED loaderVars, step = "kernel", memoryMap # <<>>, UNCHANGED memoryMap,
         next' \in Nat \ {0}, availableEnd' \in 0..FrameCount, rangeEnd' \in 0..FrameCount,
         UNCHANGED reserved, Scanned'
  PROVE  BootInv'
<1> USE DEF loaderVars
<1>1. LoaderTypeOK'
  BY DEF BootInv, LoaderTypeOK
<1>2. MapKnown'
  BY DEF BootInv, MapKnown
<1>3. Apart'
  BY DEF BootInv, Apart, Handed
<1>4. Written'
  BY DEF BootInv, Written, Handed
<1>5. InOrder'
  BY DEF BootInv, InOrder
<1> QED
  BY <1>1, <1>2, <1>3, <1>4, <1>5 DEF BootInv

LEMMA HandedMap ==
  ASSUME BootInv, memoryMap # <<>>
  PROVE  /\ Describes(memoryMap, memory) /\ step = "kernel" /\ reserved = {}
         /\ FrameCount \in Nat /\ Len(memoryMap) \in Nat
<1>1. Describes(memoryMap, memory) /\ step = "kernel" /\ reserved = {}
  BY MapDescribes DEF BootInv, LoaderTypeOK, MapKnown, InOrder
<1> QED
  BY <1>1, Frame0 DEF Describes

LEMMA EntryPointStep ==
  ASSUME BootInv, EntryPoint
  PROVE  BootInv'
<1>1. /\ step = "entry" /\ step' = "kernel" /\ memoryMap' = memmap.map
      /\ UNCHANGED <<memory, key, memmap, buffer, volume, content>>
      /\ UNCHANGED <<next, availableEnd, bitmap, rangeEnd, reserved>>
  BY DEF EntryPoint, bootVars
<1>2. /\ next = 1 /\ availableEnd = 0 /\ bitmap = {} /\ rangeEnd = 0 /\ reserved = {}
  BY <1>1 DEF BootInv, InOrder
<1>3. memoryMap' = MapOf(memory)
  BY <1>1 DEF BootInv, MapKnown
<1>4. LoaderTypeOK'
  BY <1>1 DEF BootInv, LoaderTypeOK
<1>5. MapKnown'
  BY <1>1, <1>3 DEF BootInv, MapKnown
<1>6. Apart'
  BY <1>1 DEF BootInv, Apart, Handed, Nothing, WithFile, WithKernel, WithVolume
<1>7. Written'
  BY <1>1 DEF BootInv, Written, Handed, WithVolume, WithProgram
<1>8. InOrder'
  BY <1>1, <1>2 DEF InOrder
<1>9. Scanned'
  <2>1. Describes(memoryMap', memory)
    BY <1>3, MapDescribes DEF BootInv, LoaderTypeOK
  <2>2. \A k \in 1..Len(memoryMap') : k >= 1 /\ ~(k < 1) /\ 0 <= memoryMap'[k].start
    <3> SUFFICES ASSUME NEW k \in 1..Len(memoryMap')
                 PROVE  k >= 1 /\ ~(k < 1) /\ 0 <= memoryMap'[k].start
      OBVIOUS
    <3>1. memoryMap'[k] \in Descriptors
      BY <2>1 DEF Describes
    <3>2. memoryMap'[k].start \in Nat
      BY <3>1, Frame0 DEF Descriptors
    <3> QED
      BY <3>2
  <2>3. \A f \in AllFrames : ~(f < 0)
    BY Frame0
  <2> QED
    BY <1>1, <1>2, <2>2, <2>3 DEF Scanned
<1> QED
  BY <1>4, <1>5, <1>6, <1>7, <1>8, <1>9 DEF BootInv

LEMMA ScanDescriptorStep ==
  ASSUME BootInv, ScanDescriptor
  PROVE  BootInv'
<1> DEFINE m == memoryMap
           n == next
           a == availableEnd
           Bad(f) == f \in AllFrames /\ ~IsAvailable(memory[f])
<1>1. /\ m # <<>> /\ next <= Len(m) /\ next' = next + 1
      /\ UNCHANGED <<memoryMap, rangeEnd, reserved>> /\ UNCHANGED loaderVars /\ UNCHANGED memory
  BY DEF ScanDescriptor, bootVars, loaderVars
<1>2. Describes(m, memory) /\ step = "kernel" /\ FrameCount \in Nat /\ Len(m) \in Nat
  BY <1>1, HandedMap
<1>3. n \in 1..Len(m) /\ next \in Nat \ {0} /\ a \in 0..FrameCount /\ a \in Nat
  BY <1>1, <1>2 DEF BootInv, LoaderTypeOK
<1>4. /\ \A f \in bitmap : Bad(f)
      /\ \A f \in AllFrames : f < a /\ ~IsAvailable(memory[f]) => f \in bitmap
      /\ \A k \in 1..Len(m) :
           /\ k < n /\ IsAvailable(m[k].type) => m[k].end <= a
           /\ k >= n => a <= m[k].start
      /\ rangeEnd > 0 => n > Len(m)
  BY <1>1 DEF BootInv, Scanned
<1>5. \A k \in 1..Len(m) : /\ m[k].start \in AllFrames /\ m[k].start \in Nat /\ m[k].start < FrameCount
                           /\ m[k].end \in 1..FrameCount /\ m[k].end \in Nat
                           /\ m[k].start < m[k].end
                           /\ \A f \in Described(m[k]) : f \in AllFrames /\ memory[f] = m[k].type
  <2> SUFFICES ASSUME NEW k \in 1..Len(m)
               PROVE  /\ m[k].start \in AllFrames /\ m[k].start \in Nat /\ m[k].start < FrameCount
                      /\ m[k].end \in 1..FrameCount /\ m[k].end \in Nat
                      /\ m[k].start < m[k].end
                      /\ \A f \in Described(m[k]) : f \in AllFrames /\ memory[f] = m[k].type
    OBVIOUS
  <2>1. m[k] \in Descriptors
    BY <1>2 DEF Describes
  <2>2. m[k].start \in AllFrames /\ m[k].end \in 1..FrameCount
    BY <2>1 DEF Descriptors
  <2>3. m[k].start \in Nat /\ m[k].start < FrameCount
    BY <2>2, <1>2, Frame0 DEF AllFrames
  <2> QED
    BY <2>2, <2>3, <1>2 DEF Describes
<1>6. \A k, l \in 1..Len(m) : k < l => m[k].end <= m[l].start
  BY <1>2 DEF Describes
<1>7. \A f \in AllFrames : f \in Nat /\ f < FrameCount
  BY <1>2, Frame0 DEF AllFrames
\* A frame between two available descriptors is not available.
<1>8. ASSUME NEW f \in AllFrames, IsAvailable(memory[f]), f < m[n].start PROVE f < a
  <2>1. memory[f] # "none"
    BY <1>8 DEF IsAvailable
  <2>2. PICK k \in 1..Len(m) : f \in Described(m[k])
    BY <1>2, <2>1 DEF Describes
  <2>3. IsAvailable(m[k].type) /\ m[k].start <= f /\ f < m[k].end
    BY <1>5, <1>7, <1>8, <2>2 DEF Described
  <2>4. k < n
    <3>1. CASE k = n
      BY <3>1, <1>3, <1>5, <1>7, <1>8, <2>3
    <3>2. CASE n < k
      <4>1. m[n].end <= m[k].start /\ m[n].start < m[n].end
        BY <3>2, <1>3, <1>5, <1>6
      <4> DEFINE p == m[n].start
                 q == m[n].end
                 r == m[k].start
      <4>2. p \in Nat /\ q \in Nat /\ r \in Nat /\ f \in Nat /\ p < q /\ q <= r /\ r <= f /\ f < p
        BY <4>1, <1>3, <1>5, <1>7, <1>8, <2>3
      <4> HIDE DEF p, q, r
      <4> QED
        BY <4>2
    <3> QED
      BY <3>1, <3>2, <1>3
  <2>5. m[k].end <= a
    BY <1>4, <2>3, <2>4
  <2> DEFINE e == m[k].end
  <2>6. e \in Nat /\ e <= a /\ f < e /\ f \in Nat
    BY <2>3, <2>5, <1>5, <1>7
  <2> HIDE DEF e
  <2> QED
    BY <2>6, <1>3
<1>9. \A f \in Hole : Bad(f)
  <2> SUFFICES ASSUME NEW f \in Hole PROVE Bad(f)
    OBVIOUS
  <2>1. f \in AllFrames /\ a <= f /\ f < m[n].start
    BY DEF Hole, Iter
  <2>2. ~(f < a)
    BY <2>1, <1>3, <1>7
  <2> QED
    BY <2>1, <2>2, <1>8
<1>10. \A k \in 1..Len(m) : k >= n + 1 => m[n].end <= m[k].start
  BY <1>3, <1>6
<1>11. Iter = m[n]
  BY DEF Iter
<1> DEFINE lo == m[n].start
           hi == m[n].end
<1>12. lo \in Nat /\ hi \in Nat /\ lo < hi /\ hi \in 0..FrameCount /\ a <= lo
  BY <1>3, <1>4, <1>5
<1>13. Hole = {f \in AllFrames : a <= f /\ f < lo} /\ Described(Iter) = lo..(hi - 1)
  BY <1>11 DEF Hole, Described
<1>14. \A f \in lo..(hi - 1) : f \in AllFrames /\ memory[f] = m[n].type
  BY <1>3, <1>5 DEF Described
<1>15. CASE IsAvailable(m[n].type)
  <2>1. bitmap' = bitmap \cup Hole /\ availableEnd' = hi
    BY <1>11, <1>15 DEF ScanDescriptor
  <2>2. \A f \in bitmap' : Bad(f)
    BY <1>4, <1>9, <2>1
  <2>3. ASSUME NEW f \in AllFrames, f < hi, ~IsAvailable(memory[f]) PROVE f \in bitmap'
    <3>1. CASE f < a
      BY <3>1, <2>1, <2>3, <1>4
    <3>2. CASE ~(f < a) /\ f < lo
      BY <3>2, <2>1, <1>3, <1>7, <1>13
    <3>3. CASE ~(f < lo)
      <4>1. f \in lo..(hi - 1)
        BY <3>3, <2>3, <1>7, <1>12
      <4> QED
        BY <4>1, <1>14, <1>15, <2>3
    <3> QED
      BY <3>1, <3>2, <3>3
  <2>4. ASSUME NEW k \in 1..Len(m), k < n + 1, IsAvailable(m[k].type) PROVE m[k].end <= hi
    <3>1. CASE k = n
      BY <3>1, <1>12
    <3>2. CASE k < n
      <4> DEFINE e == m[k].end
      <4>1. e <= a /\ e \in Nat
        BY <3>2, <2>4, <1>4, <1>5
      <4> HIDE DEF e, lo, hi
      <4>2. e <= hi
        BY <4>1, <1>3, <1>12
      <4> QED
        BY <4>2 DEF e, hi
    <3> QED
      BY <3>1, <3>2, <2>4, <1>3
  <2>5. Scanned'
    <3>1. rangeEnd' > 0 => FALSE
      BY <1>1, <1>3, <1>4
    <3> HIDE DEF lo
    <3> QED
      BY <2>1, <2>2, <2>3, <2>4, <3>1, <1>1, <1>10 DEF Scanned
  <2> QED
    BY <2>1, <2>5, <1>1, <1>2, <1>3, <1>12, KernelFrame DEF BootInv, LoaderTypeOK
<1>16. CASE ~IsAvailable(m[n].type)
  <2>1. bitmap' = bitmap \cup Hole \cup Described(Iter) /\ availableEnd' = a
    BY <1>11, <1>16 DEF ScanDescriptor
  <2>2. \A f \in bitmap' : Bad(f)
    BY <1>4, <1>9, <1>13, <1>14, <1>16, <2>1
  <2>3. \A f \in AllFrames : f < a /\ ~IsAvailable(memory[f]) => f \in bitmap'
    BY <1>4, <2>1
  <2>4. \A k \in 1..Len(m) : k < n + 1 /\ IsAvailable(m[k].type) => m[k].end <= a
    <3> SUFFICES ASSUME NEW k \in 1..Len(m), k < n + 1, IsAvailable(m[k].type) PROVE m[k].end <= a
      OBVIOUS
    <3>1. k < n
      BY <1>3, <1>16
    <3> QED
      BY <3>1, <1>4
  <2>5. \A k \in 1..Len(m) : k >= n + 1 => a <= m[k].start
    BY <1>3, <1>4
  <2>6. Scanned'
    <3>1. rangeEnd' > 0 => FALSE
      BY <1>1, <1>3, <1>4
    <3> QED
      BY <2>1, <2>2, <2>3, <2>4, <2>5, <3>1, <1>1 DEF Scanned
  <2> QED
    BY <2>1, <2>6, <1>1, <1>2, <1>3, KernelFrame DEF BootInv, LoaderTypeOK
<1> QED
  BY <1>15, <1>16

LEMMA SetMemoryRangeStep ==
  ASSUME BootInv, SetMemoryRange
  PROVE  BootInv'
<1>1. /\ memoryMap # <<>> /\ next > Len(memoryMap) /\ rangeEnd' = availableEnd
      /\ UNCHANGED <<memoryMap, next, availableEnd, bitmap, reserved>> /\ UNCHANGED loaderVars
      /\ UNCHANGED memory
  BY DEF SetMemoryRange, mapVars, EndOfRange, loaderVars
<1>2. step = "kernel"
  BY <1>1, HandedMap
<1>3. Scanned'
  BY <1>1 DEF BootInv, Scanned
<1> QED
  BY <1>1, <1>2, <1>3, KernelFrame DEF BootInv, LoaderTypeOK

LEMMA InitializeHeapStep ==
  ASSUME BootInv, InitializeHeap
  PROVE  BootInv'
<1>1. /\ memoryMap' = <<>> /\ next' = 1 /\ availableEnd' = 0 /\ step' = step /\ buffer' = buffer
      /\ memory' = [f \in AllFrames |-> "none"] /\ key' = 0 /\ memmap' = NoMap /\ volume' = {}
      /\ rangeEnd' = rangeEnd /\ memoryMap # <<>>
  BY DEF InitializeHeap
<1>2. step = "kernel"
  BY <1>1, HandedMap
<1>3. LoaderTypeOK'
  <2>1. memory' \in [AllFrames -> Types]
    BY <1>1 DEF Types
  <2> QED
    BY <2>1, <1>1, Frame0 DEF BootInv, LoaderTypeOK, NoMap
<1>4. MapKnown'
  BY <1>1, <1>2 DEF MapKnown, NoMap
<1>5. Apart' /\ Written'
  BY <1>1, <1>2 DEF Apart, Written, Handed, Nothing, WithFile, WithKernel, WithVolume, WithProgram
<1>6. InOrder' /\ Scanned'
  BY <1>1, <1>2 DEF InOrder, Scanned
<1> QED
  BY <1>3, <1>4, <1>5, <1>6 DEF BootInv

\* When the tasks run there is no map any more.
LEMMA CallsLaterStep ==
  ASSUME BootInv, reserved # {}, UNCHANGED <<mapVars, loaderVars, bootVars>>
  PROVE  BootInv'
<1> USE DEF mapVars, loaderVars, bootVars
<1>1. step = "kernel" /\ memoryMap = <<>>
  BY DEF BootInv, InOrder
<1>2. LoaderTypeOK' /\ MapKnown'
  BY DEF BootInv, LoaderTypeOK, MapKnown
<1>3. Apart' /\ Written'
  BY <1>1 DEF BootInv, Apart, Written, Handed, Nothing, WithFile, WithKernel, WithVolume, WithProgram
<1>4. InOrder' /\ Scanned'
  BY <1>1 DEF InOrder, Scanned
<1> QED
  BY <1>2, <1>3, <1>4 DEF BootInv

LEMMA BootStep ==
  ASSUME BootInv, [Next]_vars
  PROVE  BootInv'
<1>1. CASE Boot
  BY <1>1, LoaderStep, EntryPointStep, ScanDescriptorStep, SetMemoryRangeStep, InitializeHeapStep
     DEF Boot, kernelVars
<1>2. CASE \E c \in Callers : Serve(c)
  BY <1>2, CallsLaterStep DEF Serve, Step
<1>3. CASE UNCHANGED vars
  BY <1>3 DEF vars, loaderVars, bootVars, mapVars, BootInv, LoaderTypeOK, MapKnown, Apart, Written,
     InOrder, Scanned, Handed
<1> QED
  BY <1>1, <1>2, <1>3 DEF Next

LEMMA BootInvImplies ==
  ASSUME BootInv
  PROVE  FreeIsAvailable
<1> SUFFICES ASSUME memoryMap # <<>>, rangeEnd > 0 PROVE FreeIsAvailable
  BY DEF FreeIsAvailable
<1> DEFINE m == memoryMap
           a == availableEnd
<1>1. Describes(m, memory) /\ step = "kernel" /\ Handed /\ FrameCount \in Nat
  BY HandedMap DEF Handed
<1>2. /\ \A f \in bitmap : f \in AllFrames /\ ~IsAvailable(memory[f])
      /\ \A f \in AllFrames : f < a /\ ~IsAvailable(memory[f]) => f \in bitmap
      /\ \A k \in 1..Len(m) : k < next /\ IsAvailable(m[k].type) => m[k].end <= a
      /\ next > Len(m) /\ rangeEnd = a
  BY DEF BootInv, Scanned
<1>3. a \in 0..FrameCount /\ next \in Nat /\ Len(m) \in Nat
  BY HandedMap DEF BootInv, LoaderTypeOK
<1>4. AllFrames = 0..(FrameCount - 1) /\ Frames = 1..(a - 1)
  BY <1>2 DEF AllFrames, Frames, RangeBegin
<1>5. ASSUME NEW f \in AllFrames, IsAvailable(memory[f]) PROVE f < a
  <2>1. memory[f] # "none"
    BY <1>5 DEF IsAvailable
  <2>2. PICK k \in 1..Len(m) : f \in Described(m[k])
    BY <1>1, <2>1 DEF Describes
  <2>3. IsAvailable(m[k].type) /\ m[k] \in Descriptors
    BY <1>1, <1>5, <2>2 DEF Describes
  <2>4. k < next
    BY <1>2, <1>3
  <2> DEFINE e == m[k].end
  <2>5. e <= a /\ e \in 1..FrameCount /\ f <= e - 1
    BY <1>2, <2>2, <2>3, <2>4 DEF Descriptors, Described
  <2> HIDE DEF e
  <2> QED
    BY <2>5, <1>1, <1>3, <1>4
<1>6. Frames \ bitmap = {f \in AllFrames : IsAvailable(memory[f])} \ {0}
  <2>1. ASSUME NEW f \in Frames, f \notin bitmap
        PROVE  f \in AllFrames /\ IsAvailable(memory[f]) /\ f # 0
    <3>1. f \in AllFrames /\ f < a /\ f # 0
      BY <1>1, <1>3, <1>4
    <3> QED
      BY <3>1, <2>1, <1>2
  <2>2. ASSUME NEW f \in AllFrames, IsAvailable(memory[f]), f # 0
        PROVE  f \in Frames /\ f \notin bitmap
    <3>1. f < a
      BY <2>2, <1>5
    <3>2. f \in Frames
      BY <2>2, <3>1, <1>1, <1>3, <1>4
    <3> QED
      BY <3>2, <2>2, <1>2
  <2> QED
    BY <2>1, <2>2
<1>7. \A f \in volume : f \in AllFrames /\ memory[f] = "loader" /\ ~IsSegment(f) /\ content[f] = "volume"
  BY <1>1 DEF BootInv, LoaderTypeOK, Apart, Written
<1>8. \A f \in AllFrames : IsSegment(f) => memory[f] = "loader" /\ content[f] = Loaded(f)
  BY <1>1 DEF BootInv, Apart, Written
<1>9. UsedByKernel = volume \cup {f \in AllFrames : IsSegment(f)}
  BY DEF UsedByKernel, IsSegment
<1>10. \A f \in UsedByKernel : ~IsAvailable(memory[f])
  BY <1>7, <1>8, <1>9 DEF IsAvailable
<1>11. UsedByKernel \cap (Frames \ bitmap) = {}
  BY <1>6, <1>10
<1>12. \A f \in UsedByKernel : content[f] = IF f \in volume THEN "volume" ELSE Loaded(f)
  BY <1>7, <1>8, <1>9
<1> QED
  BY <1>6, <1>11, <1>12 DEF FreeIsAvailable

(***************************************************************************)
(* For every memory, kernel and volume, whatever the firmware allocates in  *)
(* between: the bitmap that InitializeMemoryManager makes of the map leaves *)
(* free what the firmware has left and nothing else, and the kernel and its *)
(* volume are where the loader put them.  The invariant that carries it:    *)
(* the map that was accepted with its key describes the memory as it is.    *)
(***************************************************************************)
THEOREM MapIsTakenOver == Spec => []FreeIsAvailable
<1>1. Init => BootInv
  BY BootInit
<1>2. BootInv /\ [Next]_vars => BootInv'
  BY BootStep
<1>3. BootInv => FreeIsAvailable
  BY BootInvImplies
<1> QED
  BY <1>1, <1>2, <1>3, PTL DEF Spec

-----------------------------------------------------------------------------
(* The inductive invariant of the calls, when they come one at a time.      *)

CallTypeOK ==
  /\ pc \in [Callers -> {"idle", "scan", "mark", "free"}]
  /\ start \in [Callers -> Nat] /\ i \in [Callers -> Nat] /\ num \in [Callers -> Nat]
  /\ owned \in [Callers -> SUBSET (Nat \X Nat)]

Idles(c) == pc[c] = "idle"

OneCall == \A c, d \in Callers : c = d \/ Idles(c) \/ Idles(d)

\* Before there is a heap there are no calls.
NoCallsYet == reserved = {} => \A c \in Callers : Idles(c) /\ owned[c] = {}

Busy(c) == num[c] > 0 /\ i[c] <= num[c] /\ start[c] >= RangeBegin

\* The region that a call has found or is giving up, and no one else has.
Own(c) == Region(start[c], num[c])

Secured(c) == Own(c) \subseteq Frames /\ Own(c) \cap InUse = {}

Scans(c) ==
  /\ Busy(c) /\ bitmap = InUse
  /\ start[c] + i[c] <= rangeEnd \/ i[c] = 0
  /\ Region(start[c], i[c]) \cap bitmap = {}
  /\ \A s \in Frames : s < start[c] => ~FreeRegion(s, num[c])

Marks(c) == Busy(c) /\ Secured(c) /\ bitmap = InUse \cup Region(start[c], i[c])

Frees(c) == Busy(c) /\ Secured(c) /\ bitmap = InUse \cup ((start[c] + i[c])..(start[c] + num[c] - 1))

CallOK(c) ==
  /\ pc[c] = "scan" => Scans(c)
  /\ pc[c] = "mark" => Marks(c)
  /\ pc[c] = "free" => Frees(c)

CallInv ==
  /\ CallTypeOK /\ OneCall /\ NoCallsYet
  /\ Exclusive /\ BitmapTrue /\ refused
  /\ \A c \in Callers : CallOK(c)

LEMMA CallInit == Init => CallInv
<1> SUFFICES ASSUME Init PROVE CallInv
  OBVIOUS
<1>1. /\ pc = [c \in Callers |-> "idle"] /\ owned = [c \in Callers |-> {}]
      /\ start = [c \in Callers |-> 0] /\ i = [c \in Callers |-> 0] /\ num = [c \in Callers |-> 0]
      /\ refused = TRUE /\ reserved = {}
  BY DEF Init, NoCalls
<1>2. CallTypeOK
  BY <1>1 DEF CallTypeOK
<1>3. OneCall /\ NoCallsYet /\ refused /\ \A c \in Callers : CallOK(c)
  BY <1>1 DEF OneCall, NoCallsYet, Idles, CallOK
<1>4. Regions = {}
  BY <1>1 DEF Regions
<1>5. Exclusive /\ BitmapTrue
  BY <1>1, <1>4 DEF Exclusive, BitmapTrue
<1> QED
  BY <1>2, <1>3, <1>5 DEF CallInv

\* The steps of the boot leave the calls alone: there are none.
LEMMA BootKeepsCalls ==
  ASSUME BootInv, CallInv, Boot
  PROVE  CallInv'
<1>1. UNCHANGED callVars
  BY DEF Boot, EntryPoint, ScanDescriptor, SetMemoryRange, InitializeHeap
<1>2. reserved # {} => UNCHANGED <<bitmap, rangeEnd, reserved>>
  <2> SUFFICES ASSUME reserved # {} PROVE UNCHANGED <<bitmap, rangeEnd, reserved>>
    OBVIOUS
  <2>1. step = "kernel" /\ memoryMap = <<>>
    BY DEF BootInv, InOrder
  <2> QED
    BY <2>1 DEF Boot, EntryPoint, ScanDescriptor, SetMemoryRange, InitializeHeap, bootVars
<1>3. reserved = {} => \/ UNCHANGED reserved
                       \/ bitmap' = reserved'
  BY DEF Boot, EntryPoint, ScanDescriptor, SetMemoryRange, InitializeHeap, bootVars
<1>4. CASE reserved # {}
  <2>1. UNCHANGED <<bitmap, rangeEnd, reserved>> /\ UNCHANGED callVars
    BY <1>1, <1>2, <1>4
  <2> USE DEF callVars
  <2>2. CallTypeOK' /\ OneCall' /\ NoCallsYet' /\ refused'
    BY <2>1 DEF CallInv, CallTypeOK, OneCall, NoCallsYet, Idles
  <2>3. Regions' = Regions /\ Frames' = Frames /\ InUse' = InUse
    BY <2>1 DEF Regions, Frames, InUse
  <2>4. Exclusive'
    BY <2>1, <2>3 DEF CallInv, Exclusive
  <2>5. BitmapTrue'
    BY <2>1, <2>3 DEF CallInv, BitmapTrue
  <2>6. ASSUME NEW c \in Callers PROVE CallOK(c)'
    BY <2>1, <2>3 DEF CallInv, CallOK, Scans, Marks, Frees, Busy, Secured, Own, FreeRegion
  <2> QED
    BY <2>2, <2>4, <2>5, <2>6 DEF CallInv
<1>5. CASE reserved = {}
  <2>1. \A c \in Callers : pc'[c] = "idle" /\ owned'[c] = {}
    BY <1>1, <1>5 DEF CallInv, NoCallsYet, Idles, callVars
  <2>2. CallTypeOK' /\ refused'
    BY <1>1 DEF CallInv, CallTypeOK, callVars
  <2>3. OneCall' /\ NoCallsYet' /\ \A c \in Callers : CallOK(c)'
    BY <2>1 DEF OneCall, NoCallsYet, Idles, CallOK
  <2>4. Regions' = {}
    BY <2>1 DEF Regions
  <2>5. Exclusive'
    BY <2>4 DEF Exclusive
  <2>6. InUse' = reserved'
    BY <2>4 DEF InUse
  <2>7. BitmapTrue'
    BY <1>3, <1>5, <2>6 DEF BitmapTrue
  <2> QED
    BY <2>2, <2>3, <2>5, <2>7 DEF CallInv
<1> QED
  BY <1>4, <1>5

-----------------------------------------------------------------------------
(* A step of a call.                                                        *)

\* The state in which caller c takes a step.
Ready(c) ==
  /\ BootInv /\ CallInv /\ reserved # {} /\ c \in Callers /\ Alone(c)
  /\ UNCHANGED bootVars

LEMMA ReadyFacts ==
  ASSUME NEW c, Ready(c)
  PROVE  /\ rangeEnd \in Nat /\ rangeEnd' = rangeEnd /\ reserved' = reserved
         /\ Frames' = Frames /\ Frames \subseteq Nat
         /\ start[c] \in Nat /\ i[c] \in Nat /\ num[c] \in Nat /\ owned[c] \subseteq Nat \X Nat
         /\ refused /\ Exclusive /\ CallTypeOK
         /\ \A d \in Callers \ {c} : Idles(d)
         /\ Idles(c) => bitmap = InUse
         /\ CallOK(c)
<1>1. rangeEnd \in Nat /\ rangeEnd' = rangeEnd /\ reserved' = reserved
  BY Frame0 DEF Ready, BootInv, LoaderTypeOK, bootVars
<1>2. Frames' = Frames /\ Frames \subseteq Nat
  BY <1>1 DEF Frames, RangeBegin
<1>3. /\ start[c] \in Nat /\ i[c] \in Nat /\ num[c] \in Nat /\ owned[c] \subseteq Nat \X Nat
      /\ refused /\ Exclusive /\ CallTypeOK /\ CallOK(c)
  BY DEF Ready, CallInv, CallTypeOK
<1>4. \A d \in Callers \ {c} : Idles(d)
  BY DEF Ready, Alone, Idles
<1>5. Idles(c) => bitmap = InUse
  BY <1>4 DEF Ready, CallInv, BitmapTrue, Idles
<1> QED
  BY <1>1, <1>2, <1>3, <1>4, <1>5

LEMMA CallFrame ==
  ASSUME NEW c, Ready(c), CallTypeOK', \A d \in Callers \ {c} : pc'[d] = pc[d],
         refused', Exclusive', Idles(c)' => bitmap' = InUse', CallOK(c)'
  PROVE  CallInv'
<1>1. \A d \in Callers \ {c} : pc'[d] = "idle"
  BY ReadyFacts DEF Idles
<1>2. OneCall'
  BY <1>1 DEF OneCall, Idles
<1>3. NoCallsYet'
  BY ReadyFacts DEF Ready, NoCallsYet
<1>4. BitmapTrue'
  BY DEF Ready, BitmapTrue, Idles
<1>5. ASSUME NEW d \in Callers PROVE CallOK(d)'
  BY <1>1 DEF CallOK
<1> QED
  BY <1>2, <1>3, <1>4, <1>5 DEF CallInv

\* As long as no region changes hands.
LEMMA SameOwners ==
  ASSUME NEW c, Ready(c), UNCHANGED owned
  PROVE  Regions' = Regions /\ InUse' = InUse /\ Exclusive'
<1>1. Regions' = Regions
  BY DEF Regions
<1>2. InUse' = InUse
  BY <1>1, ReadyFacts DEF InUse
<1>3. Exclusive'
  BY <1>1, ReadyFacts DEF Exclusive
<1> QED
  BY <1>1, <1>2, <1>3

LEMMA EmptyRegion == ASSUME NEW s \in Nat PROVE Region(s, 0) = {}
BY DEF Region

LEMMA LongerRegion ==
  ASSUME NEW s \in Nat, NEW k \in Nat
  PROVE  Region(s, k + 1) = Region(s, k) \cup {s + k}
BY DEF Region

LEMMA AllocateStep ==
  ASSUME NEW c, Ready(c), NEW n \in Sizes, Allocate(c, n)
  PROVE  CallInv'
<1> USE ReadyFacts DEF Allocate, Idles
<1>0. n \in Nat /\ n > 0
  BY FrameAllocatorAssumption DEF FrameAllocatorAssumption
<1>1. CallTypeOK'
  BY <1>0 DEF CallTypeOK, RangeBegin
<1>2. /\ pc'[c] = "scan" /\ num'[c] = n /\ start'[c] = 1 /\ i'[c] = 0
      /\ \A d \in Callers \ {c} : pc'[d] = pc[d]
  BY DEF CallTypeOK, Ready, RangeBegin
<1>3. bitmap' = bitmap /\ bitmap = InUse /\ InUse' = InUse /\ Exclusive' /\ refused'
  BY SameOwners
<1>4. \A f \in Frames : ~(f < 1)
  BY DEF Frames, RangeBegin
<1>5. Scans(c)'
  <2>1. Region(1, 0) = {}
    BY EmptyRegion
  <2>2. Busy(c)'
    BY <1>0, <1>2 DEF Busy, RangeBegin
  <2> QED
    BY <1>2, <1>3, <1>4, <2>1, <2>2 DEF Scans
<1>6. CallOK(c)'
  BY <1>2, <1>5 DEF CallOK
<1> QED
  BY <1>1, <1>2, <1>3, <1>6, CallFrame

\* The state of a caller whose call is over.
LEMMA Returned ==
  ASSUME NEW c, Ready(c), Return(c), owned' \in [Callers -> SUBSET (Nat \X Nat)]
  PROVE  /\ CallTypeOK' /\ pc'[c] = "idle" /\ CallOK(c)'
         /\ \A d \in Callers \ {c} : pc'[d] = pc[d]
<1>1. CallTypeOK
  BY ReadyFacts
<1>2. pc'[c] = "idle" /\ \A d \in Callers \ {c} : pc'[d] = pc[d]
  BY <1>1 DEF Return, CallTypeOK, Ready
<1>3. CallTypeOK'
  BY <1>1 DEF Return, CallTypeOK
<1> QED
  BY <1>2, <1>3 DEF CallOK

LEMMA NoEnoughMemoryStep ==
  ASSUME NEW c, Ready(c), NoEnoughMemory(c)
  PROVE  CallInv'
<1>1. /\ pc[c] = "scan" /\ i[c] < num[c] /\ start[c] + i[c] >= rangeEnd
      /\ Return(c) /\ UNCHANGED <<bitmap, owned>>
      /\ refused' = ~\E s \in Frames : FreeRegion(s, num[c])
  BY DEF NoEnoughMemory, Beyond, Frame, At
<1>2. Scans(c)
  BY <1>1, ReadyFacts DEF CallOK
<1>3. bitmap' = InUse' /\ Exclusive'
  BY <1>1, <1>2, SameOwners DEF Scans
<1>4. refused'
  <2> SUFFICES ASSUME NEW s \in Frames, FreeRegion(s, num[c]) PROVE FALSE
    BY <1>1
  <2> DEFINE n == num[c]
             a == start[c]
             k == i[c]
  <2>1. ~(s < a)
    BY <1>2 DEF Scans
  <2>2. s \in Nat /\ n \in Nat /\ a \in Nat /\ k \in Nat /\ rangeEnd \in Nat /\ k < n
    BY <1>1, ReadyFacts
  <2>3. Region(s, n) \subseteq Frames
    BY DEF FreeRegion
  <2>4. s + n - 1 \in s..(s + n - 1)
    <3> HIDE DEF n, a, k
    <3> QED
      BY <2>2
  <2>5. s + n - 1 \in Frames
    BY <2>3, <2>4 DEF Region
  <2>6. s + n - 1 <= rangeEnd - 1
    <3> HIDE DEF n, a, k
    <3> QED
      BY <2>2, <2>5 DEF Frames, RangeBegin
  <2>7. a + k >= rangeEnd
    BY <1>1
  <2> HIDE DEF n, a, k
  <2> QED
    BY <2>1, <2>2, <2>6, <2>7
<1>5. owned' \in [Callers -> SUBSET (Nat \X Nat)]
  BY <1>1, ReadyFacts DEF CallTypeOK
<1> QED
  BY <1>1, <1>3, <1>4, <1>5, Returned, CallFrame

LEMMA FrameIsFreeStep ==
  ASSUME NEW c, Ready(c), FrameIsFree(c)
  PROVE  CallInv'
<1> DEFINE n == num[c]
           a == start[c]
           k == i[c]
<1>1. /\ pc[c] = "scan" /\ k < n /\ ~(a + k >= rangeEnd) /\ a + k \notin bitmap
      /\ i' = [i EXCEPT ![c] = i[c] + 1] /\ UNCHANGED <<bitmap, pc, start, num, owned, refused>>
  BY DEF FrameIsFree, Beyond, Frame, At
<1>2. n \in Nat /\ a \in Nat /\ k \in Nat /\ rangeEnd \in Nat
  BY ReadyFacts
<1>3. Scans(c)
  BY <1>1, ReadyFacts DEF CallOK
<1>4. CallTypeOK' /\ i'[c] = k + 1 /\ refused'
  BY <1>1, <1>2, ReadyFacts DEF CallTypeOK, Ready
<1>5. InUse' = InUse /\ Exclusive' /\ bitmap' = bitmap /\ Frames' = Frames
  BY <1>1, SameOwners, ReadyFacts
<1>6. Region(a, k + 1) \cap bitmap = {}
  BY <1>1, <1>2, <1>3, LongerRegion DEF Scans
<1>7. k + 1 <= n /\ n > 0 /\ a + (k + 1) <= rangeEnd
  BY <1>1, <1>2
<1>8. Scans(c)'
  <2>1. Busy(c)'
    BY <1>1, <1>3, <1>4, <1>7 DEF Scans, Busy, RangeBegin
  <2>2. \A s \in Frames' : s < start'[c] => ~FreeRegion(s, num[c])'
    BY <1>1, <1>3, <1>5 DEF Scans, FreeRegion
  <2>3. a + i'[c] <= rangeEnd /\ Region(a, i'[c]) \cap bitmap = {} /\ start'[c] = a
    BY <1>1, <1>4, <1>6, <1>7
  <2> QED
    BY <1>1, <1>3, <1>5, <2>1, <2>2, <2>3, ReadyFacts DEF Scans
<1>9. CallOK(c)'
  BY <1>1, <1>8 DEF CallOK
<1> QED
  BY <1>1, <1>4, <1>5, <1>9, CallFrame DEF Idles

LEMMA FrameIsTakenStep ==
  ASSUME NEW c, Ready(c), FrameIsTaken(c)
  PROVE  CallInv'
<1> DEFINE n == num[c]
           a == start[c]
           k == i[c]
<1>1. /\ pc[c] = "scan" /\ k < n /\ a + k \in bitmap
      /\ start' = [start EXCEPT ![c] = a + k + 1] /\ i' = [i EXCEPT ![c] = 0]
      /\ UNCHANGED <<bitmap, pc, num, owned, refused>>
  BY DEF FrameIsTaken, Frame, NextCandidate, At
<1>2. n \in Nat /\ a \in Nat /\ k \in Nat
  BY ReadyFacts
<1>3. Scans(c)
  BY <1>1, ReadyFacts DEF CallOK
<1>4. CallTypeOK' /\ start'[c] = a + k + 1 /\ i'[c] = 0 /\ refused'
  BY <1>1, <1>2, ReadyFacts DEF CallTypeOK, Ready
<1>5. InUse' = InUse /\ Exclusive' /\ bitmap' = bitmap /\ Frames' = Frames
  BY <1>1, SameOwners, ReadyFacts
<1>6. ASSUME NEW s \in Frames, s < a + k + 1, FreeRegion(s, n) PROVE FALSE
  <2>1. s \in Nat /\ ~(s < a)
    BY <1>3, <1>6, ReadyFacts DEF Scans
  <2>2. a + k \in Region(s, n)
    BY <1>1, <1>2, <1>6, <2>1 DEF Region
  <2> QED
    BY <1>1, <1>6, <2>2 DEF FreeRegion
<1>7. Scans(c)'
  <2>1. n > 0 /\ a + k + 1 >= 1
    BY <1>1, <1>2
  <2>2. Busy(c)'
    BY <1>1, <1>2, <1>4, <2>1 DEF Busy, RangeBegin
  <2>3. \A s \in Frames' : s < start'[c] => ~FreeRegion(s, num[c])'
    BY <1>1, <1>4, <1>5, <1>6 DEF FreeRegion
  <2>4. Region(start[c], i[c])' = {}
    <3>1. a + k + 1 \in Nat
      BY <1>2
    <3> QED
      BY <3>1, <1>4, EmptyRegion
  <2> QED
    BY <1>3, <1>4, <1>5, <2>2, <2>3, <2>4 DEF Scans
<1>8. CallOK(c)'
  BY <1>1, <1>7 DEF CallOK
<1> QED
  BY <1>1, <1>4, <1>5, <1>8, CallFrame DEF Idles

LEMMA FoundStep ==
  ASSUME NEW c, Ready(c), Found(c)
  PROVE  CallInv'
<1> DEFINE n == num[c]
           a == start[c]
<1>1. /\ pc[c] = "scan" /\ i[c] = n /\ i' = [i EXCEPT ![c] = 0] /\ pc' = [pc EXCEPT ![c] = "mark"]
      /\ UNCHANGED <<bitmap, start, num, owned, refused>>
  BY DEF Found, At
<1>2. n \in Nat /\ a \in Nat /\ rangeEnd \in Nat
  BY ReadyFacts
<1>3. Scans(c)
  BY <1>1, ReadyFacts DEF CallOK
<1>4. /\ CallTypeOK' /\ i'[c] = 0 /\ pc'[c] = "mark" /\ refused'
      /\ \A d \in Callers \ {c} : pc'[d] = pc[d]
  BY <1>1, <1>2, ReadyFacts DEF CallTypeOK, Ready
<1>5. InUse' = InUse /\ Exclusive' /\ bitmap' = bitmap /\ Frames' = Frames /\ bitmap = InUse
  BY <1>1, <1>3, SameOwners, ReadyFacts DEF Scans
<1>6. n > 0 /\ a >= 1 /\ a + n <= rangeEnd /\ Region(a, n) \cap bitmap = {}
  BY <1>1, <1>2, <1>3 DEF Scans, Busy, RangeBegin
<1>7. Region(a, n) \subseteq Frames
  BY <1>2, <1>6 DEF Region, Frames, RangeBegin
<1>8. Marks(c)'
  <2>1. Busy(c)'
    BY <1>1, <1>2, <1>4, <1>6 DEF Busy, RangeBegin
  <2>2. Secured(c)'
    BY <1>1, <1>5, <1>6, <1>7 DEF Secured, Own
  <2>3. Region(a, 0) = {}
    BY <1>2, EmptyRegion
  <2> QED
    BY <1>1, <1>4, <1>5, <2>1, <2>2, <2>3 DEF Marks
<1>9. CallOK(c)'
  BY <1>4, <1>8 DEF CallOK
<1> QED
  BY <1>4, <1>5, <1>9, CallFrame DEF Idles

LEMMA MarkAllocatedStep ==
  ASSUME NEW c, Ready(c), MarkAllocated(c)
  PROVE  CallInv'
<1> DEFINE n == num[c]
           a == start[c]
           k == i[c]
<1>1. /\ pc[c] = "mark" /\ k < n /\ bitmap' = bitmap \cup {a + k} /\ i' = [i EXCEPT ![c] = k + 1]
      /\ UNCHANGED <<pc, start, num, owned, refused>>
  BY DEF MarkAllocated, At, Frame
<1>2. n \in Nat /\ a \in Nat /\ k \in Nat
  BY ReadyFacts
<1>3. Marks(c)
  BY <1>1, ReadyFacts DEF CallOK
<1>4. CallTypeOK' /\ i'[c] = k + 1 /\ refused'
  BY <1>1, <1>2, ReadyFacts DEF CallTypeOK, Ready
<1>5. InUse' = InUse /\ Exclusive' /\ Frames' = Frames
  BY <1>1, SameOwners, ReadyFacts
<1>6. Marks(c)'
  <2>1. k + 1 <= n
    BY <1>1, <1>2
  <2>2. Busy(c)'
    BY <1>1, <1>3, <1>4, <2>1 DEF Marks, Busy
  <2>3. Secured(c)'
    BY <1>1, <1>3, <1>5 DEF Marks, Secured, Own
  <2>4. Region(a, k + 1) = Region(a, k) \cup {a + k}
    BY <1>2, LongerRegion
  <2> QED
    BY <1>1, <1>3, <1>4, <1>5, <2>2, <2>3, <2>4 DEF Marks
<1>7. CallOK(c)'
  BY <1>1, <1>6 DEF CallOK
<1> QED
  BY <1>1, <1>4, <1>5, <1>7, CallFrame DEF Idles

LEMMA AllocatedStep ==
  ASSUME NEW c, Ready(c), Allocated(c)
  PROVE  CallInv'
<1> DEFINE n == num[c]
           a == start[c]
           r == <<a, n>>
<1>1. /\ pc[c] = "mark" /\ i[c] = n /\ owned' = [owned EXCEPT ![c] = owned[c] \cup {r}]
      /\ Return(c) /\ UNCHANGED <<bitmap, refused>>
  BY DEF Allocated, At
<1>2. n \in Nat /\ a \in Nat
  BY ReadyFacts
<1>3. Marks(c)
  BY <1>1, ReadyFacts DEF CallOK
<1>4. owned \in [Callers -> SUBSET (Nat \X Nat)] /\ c \in Callers
  BY ReadyFacts DEF CallTypeOK, Ready
<1>5. owned' \in [Callers -> SUBSET (Nat \X Nat)]
  BY <1>1, <1>2, <1>4
<1>6. Regions' = Regions \cup {<<c, r>>}
  <2>1. ASSUME NEW x \in Regions' PROVE x \in Regions \cup {<<c, r>>}
    <3>1. PICK d \in Callers : \E q \in owned'[d] : x = <<d, q>>
      BY DEF Regions
    <3>2. PICK q \in owned'[d] : x = <<d, q>>
      BY <3>1
    <3>3. q \in owned[d] \/ (d = c /\ q = r)
      BY <1>1, <1>4
    <3> QED
      BY <3>2, <3>3 DEF Regions
  <2>2. ASSUME NEW x \in Regions PROVE x \in Regions'
    <3>1. PICK d \in Callers : \E q \in owned[d] : x = <<d, q>>
      BY DEF Regions
    <3>2. PICK q \in owned[d] : x = <<d, q>>
      BY <3>1
    <3>3. q \in owned'[d]
      BY <1>1, <1>4
    <3> QED
      BY <3>2, <3>3 DEF Regions
  <2>3. <<c, r>> \in Regions'
    <3>1. r \in owned'[c]
      BY <1>1, <1>4
    <3> QED
      BY <3>1, <1>4 DEF Regions
  <2> QED
    BY <2>1, <2>2, <2>3
<1>7. FramesOf(<<c, r>>[2]) = Own(c)
  BY DEF FramesOf, Own
<1>8. InUse' = InUse \cup Own(c)
  BY <1>6, <1>7, ReadyFacts DEF InUse
<1>9. Own(c) \subseteq Frames /\ Own(c) \cap InUse = {} /\ bitmap = InUse \cup Own(c)
  BY <1>1, <1>3 DEF Marks, Secured, Own
<1>10. Exclusive'
  <2>1. \A x \in Regions : FramesOf(x[2]) \subseteq InUse /\ FramesOf(x[2]) \subseteq Frames \ reserved
    BY ReadyFacts DEF InUse, Exclusive
  <2>2. Own(c) \subseteq Frames \ reserved
    BY <1>9 DEF InUse
  <2>3. \A x \in Regions' : FramesOf(x[2]) \subseteq Frames \ reserved
    BY <1>6, <1>7, <2>1, <2>2
  <2>4. ASSUME NEW x \in Regions', NEW y \in Regions', x # y
        PROVE  FramesOf(x[2]) \cap FramesOf(y[2]) = {}
    <3>1. CASE x \in Regions /\ y \in Regions
      BY <3>1, <2>4, ReadyFacts DEF Exclusive
    <3>2. CASE x = <<c, r>> /\ y \in Regions
      BY <3>2, <1>7, <1>9, <2>1
    <3>3. CASE x \in Regions /\ y = <<c, r>>
      BY <3>3, <1>7, <1>9, <2>1
    <3> QED
      BY <3>1, <3>2, <3>3, <1>6, <2>4
  <2> QED
    BY <2>3, <2>4, ReadyFacts DEF Exclusive
<1>11. bitmap' = InUse' /\ refused'
  BY <1>1, <1>8, <1>9, ReadyFacts
<1> QED
  BY <1>1, <1>5, <1>10, <1>11, Returned, CallFrame

LEMMA FreeStep ==
  ASSUME NEW c, Ready(c), NEW s \in Frames, NEW n \in Sizes, Free(c, s, n)
  PROVE  CallInv'
<1> DEFINE r == <<s, n>>
<1>1. /\ pc[c] = "idle" /\ r \in owned[c] /\ owned' = [owned EXCEPT ![c] = owned[c] \ {r}]
      /\ num' = [num EXCEPT ![c] = n] /\ start' = [start EXCEPT ![c] = s] /\ i' = [i EXCEPT ![c] = 0]
      /\ pc' = [pc EXCEPT ![c] = "free"] /\ UNCHANGED <<bitmap, refused>>
  BY DEF Free
<1>2. n \in Nat /\ n > 0 /\ s \in Nat /\ s >= 1
  BY FrameAllocatorAssumption, ReadyFacts DEF FrameAllocatorAssumption, Frames, RangeBegin
<1>3. CallTypeOK /\ c \in Callers
  BY ReadyFacts DEF Ready
<1>4. /\ CallTypeOK' /\ pc'[c] = "free" /\ start'[c] = s /\ num'[c] = n /\ i'[c] = 0 /\ refused'
      /\ \A d \in Callers \ {c} : pc'[d] = pc[d]
  BY <1>1, <1>2, <1>3, ReadyFacts DEF CallTypeOK
<1>5. owned \in [Callers -> SUBSET (Nat \X Nat)]
  BY <1>3 DEF CallTypeOK
<1>6. Regions' = Regions \ {<<c, r>>} /\ <<c, r>> \in Regions
  <2>1. ASSUME NEW x \in Regions' PROVE x \in Regions /\ x # <<c, r>>
    <3>1. PICK d \in Callers : \E q \in owned'[d] : x = <<d, q>>
      BY DEF Regions
    <3>2. PICK q \in owned'[d] : x = <<d, q>>
      BY <3>1
    <3>3. q \in owned[d] /\ ~(d = c /\ q = r)
      BY <1>1, <1>3, <1>5
    <3> QED
      BY <3>2, <3>3 DEF Regions
  <2>2. ASSUME NEW x \in Regions, x # <<c, r>> PROVE x \in Regions'
    <3>1. PICK d \in Callers : \E q \in owned[d] : x = <<d, q>>
      BY DEF Regions
    <3>2. PICK q \in owned[d] : x = <<d, q>>
      BY <3>1
    <3>3. q \in owned'[d]
      BY <1>1, <1>3, <1>5, <2>2, <3>2
    <3> QED
      BY <3>2, <3>3 DEF Regions
  <2>3. <<c, r>> \in Regions
    BY <1>1, <1>3 DEF Regions
  <2> QED
    BY <2>1, <2>2, <2>3
<1> DEFINE O == Region(s, n)
<1>7. FramesOf(<<c, r>>[2]) = O
  BY DEF FramesOf
<1>8. O \subseteq Frames \ reserved
  BY <1>6, <1>7, ReadyFacts DEF Exclusive
<1>9. \A x \in Regions' : FramesOf(x[2]) \cap O = {}
  BY <1>6, <1>7, ReadyFacts DEF Exclusive
<1>10. InUse' \cap O = {} /\ InUse = InUse' \cup O
  <2> HIDE DEF O
  <2>1. InUse' = reserved \cup UNION {FramesOf(x[2]) : x \in Regions'}
    BY ReadyFacts DEF InUse
  <2>2. InUse' \cap O = {}
    BY <2>1, <1>8, <1>9
  <2>3. InUse = InUse' \cup O
    BY <2>1, <1>6, <1>7 DEF InUse
  <2> QED
    BY <2>2, <2>3
<1>11. Exclusive'
  BY <1>6, ReadyFacts DEF Exclusive
<1>12. bitmap = InUse
  BY <1>1, ReadyFacts DEF Idles
<1>13. Frees(c)'
  <2>1. Busy(c)'
    BY <1>2, <1>4 DEF Busy, RangeBegin
  <2>2. Secured(c)'
    BY <1>4, <1>8, <1>10, ReadyFacts DEF Secured, Own
  <2>3. O = (s + 0)..(s + n - 1)
    BY <1>2 DEF Region
  <2> QED
    BY <1>1, <1>4, <1>10, <1>12, <2>1, <2>2, <2>3 DEF Frees
<1>14. CallOK(c)'
  BY <1>4, <1>13 DEF CallOK
<1> QED
  BY <1>4, <1>11, <1>14, CallFrame DEF Idles

LEMMA ClearBitStep ==
  ASSUME NEW c, Ready(c), ClearBit(c)
  PROVE  CallInv'
<1> DEFINE n == num[c]
           a == start[c]
           k == i[c]
<1>1. /\ pc[c] = "free" /\ k < n /\ bitmap' = bitmap \ {a + k} /\ i' = [i EXCEPT ![c] = k + 1]
      /\ UNCHANGED <<pc, start, num, owned, refused>>
  BY DEF ClearBit, LastFreed, At, Frame
<1>2. n \in Nat /\ a \in Nat /\ k \in Nat
  BY ReadyFacts
<1>3. Frees(c)
  BY <1>1, ReadyFacts DEF CallOK
<1>4. CallTypeOK' /\ i'[c] = k + 1 /\ refused'
  BY <1>1, <1>2, ReadyFacts DEF CallTypeOK, Ready
<1>5. InUse' = InUse /\ Exclusive' /\ Frames' = Frames
  BY <1>1, SameOwners, ReadyFacts
<1>6. a + k \notin InUse
  <2>1. a + k \in Own(c)
    BY <1>1, <1>2 DEF Own, Region
  <2> QED
    BY <2>1, <1>3 DEF Frees, Secured
<1>7. (a + (k + 1))..(a + n - 1) = ((a + k)..(a + n - 1)) \ {a + k}
  BY <1>2
<1>8. Frees(c)'
  <2>1. k + 1 <= n
    BY <1>1, <1>2
  <2>2. Busy(c)'
    BY <1>1, <1>3, <1>4, <2>1 DEF Frees, Busy
  <2>3. Secured(c)'
    BY <1>1, <1>3, <1>5 DEF Frees, Secured, Own
  <2> QED
    BY <1>1, <1>3, <1>4, <1>5, <1>6, <1>7, <2>2, <2>3 DEF Frees
<1>9. CallOK(c)'
  BY <1>1, <1>8 DEF CallOK
<1> QED
  BY <1>1, <1>4, <1>5, <1>9, CallFrame DEF Idles

LEMMA FreedStep ==
  ASSUME NEW c, Ready(c), Freed(c)
  PROVE  CallInv'
<1>1. /\ pc[c] = "free" /\ i[c] = num[c] /\ Return(c) /\ UNCHANGED <<bitmap, owned, refused>>
  BY DEF Freed, LastFreed, At
<1>2. Frees(c)
  BY <1>1, ReadyFacts DEF CallOK
<1>3. (start[c] + num[c])..(start[c] + num[c] - 1) = {}
  BY ReadyFacts
<1>4. bitmap' = InUse' /\ Exclusive' /\ refused'
  BY <1>1, <1>2, <1>3, SameOwners, ReadyFacts DEF Frees
<1>5. owned' \in [Callers -> SUBSET (Nat \X Nat)]
  BY <1>1, ReadyFacts DEF CallTypeOK
<1> QED
  BY <1>1, <1>4, <1>5, Returned, CallFrame

LEMMA CallStep ==
  ASSUME BootInv, CallInv, NEW c \in Callers, Alone(c), Serve(c)
  PROVE  CallInv'
<1>1. Ready(c) /\ Step(c)
  BY DEF Ready, Serve, Step
<1> QED
  BY <1>1, AllocateStep, NoEnoughMemoryStep, FrameIsFreeStep, FrameIsTakenStep, FoundStep,
     MarkAllocatedStep, AllocatedStep, FreeStep, ClearBitStep, FreedStep DEF Step

-----------------------------------------------------------------------------
SerialNext == Boot \/ \E c \in Callers : Alone(c) /\ Serve(c)

LEMMA SerialStep ==
  ASSUME BootInv, CallInv, [SerialNext]_vars
  PROVE  BootInv' /\ CallInv'
<1>1. BootInv'
  BY BootStep DEF SerialNext, Next
<1>2. CASE Boot
  BY <1>1, <1>2, BootKeepsCalls
<1>3. CASE \E c \in Callers : Alone(c) /\ Serve(c)
  BY <1>1, <1>3, CallStep
<1>4. CASE UNCHANGED vars
  <2> USE <1>4 DEF vars, callVars, bootVars
  <2>1. CallTypeOK' /\ OneCall' /\ NoCallsYet' /\ refused'
    BY DEF CallInv, CallTypeOK, OneCall, NoCallsYet, Idles
  <2>2. Regions' = Regions /\ Frames' = Frames /\ InUse' = InUse
    BY DEF Regions, Frames, InUse
  <2>3. Exclusive' /\ BitmapTrue'
    BY <2>2 DEF CallInv, Exclusive, BitmapTrue
  <2>4. ASSUME NEW c \in Callers PROVE CallOK(c)'
    BY <2>2 DEF CallInv, CallOK, Scans, Marks, Frees, Busy, Secured, Own, FreeRegion
  <2> QED
    BY <1>1, <2>1, <2>3, <2>4 DEF CallInv
<1> QED
  BY <1>2, <1>3, <1>4 DEF SerialNext

(***************************************************************************)
(* When calls come one at a time, for every number of callers and every     *)
(* size of memory: what Allocate returns belongs to its caller alone, lies  *)
(* in the range and not in a frame that was taken at boot.                  *)
(***************************************************************************)
THEOREM FramesAreExclusive == SerialSpec => []Exclusive
<1>1. Init => BootInv /\ CallInv
  BY BootInit, CallInit
<1>2. BootInv /\ CallInv /\ [SerialNext]_vars => BootInv' /\ CallInv'
  BY SerialStep
<1>3. BootInv /\ CallInv => Exclusive
  BY DEF CallInv
<1> QED
  BY <1>1, <1>2, <1>3, PTL DEF SerialSpec, SerialNext

(***************************************************************************)
(* Between calls the bitmap has exactly the frames that are in use: nothing *)
(* that was freed is lost, nothing that is owned can be handed out.         *)
(***************************************************************************)
THEOREM BitmapIsTrue == SerialSpec => []BitmapTrue
<1>1. Init => BootInv /\ CallInv
  BY BootInit, CallInit
<1>2. BootInv /\ CallInv /\ [SerialNext]_vars => BootInv' /\ CallInv'
  BY SerialStep
<1>3. BootInv /\ CallInv => BitmapTrue
  BY DEF CallInv
<1> QED
  BY <1>1, <1>2, <1>3, PTL DEF SerialSpec, SerialNext

(***************************************************************************)
(* Allocate passes no region that would do and reports too little memory    *)
(* only when there is no such region.                                       *)
(***************************************************************************)
THEOREM AllocatesFirstFit == SerialSpec => []FirstFit
<1>1. Init => BootInv /\ CallInv
  BY BootInit, CallInit
<1>2. BootInv /\ CallInv /\ [SerialNext]_vars => BootInv' /\ CallInv'
  BY SerialStep
<1>3. BootInv /\ CallInv => FirstFit
  BY DEF CallInv, CallOK, Scans, FirstFit
<1> QED
  BY <1>1, <1>2, <1>3, PTL DEF SerialSpec, SerialNext
=============================================================================
