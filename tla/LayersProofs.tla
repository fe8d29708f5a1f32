---------------------------- MODULE LayersProofs -----------------------------
(***************************************************************************)
(* Layers for every screen, every number of windows and every place where   *)
(* they are opened.                                                         *)
(***************************************************************************)
EXTENDS Layers, SequenceTheorems, WellFoundedInduction, TLAPS

-----------------------------------------------------------------------------
(* The record of LayerManager.                                             *)

Fields == {"stack", "pos", "look", "back", "screen"}

Looks == [active : BOOLEAN, ink : {0, 1}]

\* What is on the screen aside.
Layered(m) == /\ DOMAIN m = Fields
              /\ m.stack \in Seq(LayerIds)
              /\ m.pos \in [LayerIds -> Int \X Int]
              /\ m.look \in [LayerIds -> Looks]

\* Two managers that differ in what is drawn only.
Redrawn(m, n) == DOMAIN n = DOMAIN m /\ n.stack = m.stack /\ n.pos = m.pos /\ n.look = m.look

LEMMA PutStack ==
  ASSUME NEW m, DOMAIN m = Fields, NEW x, NEW n, n = [m EXCEPT !.stack = x]
  PROVE  DOMAIN n = Fields /\ n.stack = x /\ n.pos = m.pos /\ n.look = m.look
         /\ n.back = m.back /\ n.screen = m.screen
BY DEF Fields

LEMMA PutPos ==
  ASSUME NEW m, DOMAIN m = Fields, NEW id, NEW x, NEW n, n = [m EXCEPT !.pos[id] = x]
  PROVE  DOMAIN n = Fields /\ n.stack = m.stack /\ n.pos = [m.pos EXCEPT ![id] = x]
         /\ n.look = m.look /\ n.back = m.back /\ n.screen = m.screen
BY DEF Fields

LEMMA PutActive ==
  ASSUME NEW m, Layered(m), NEW id \in LayerIds, NEW on \in BOOLEAN, NEW n, n = SetActive(m, id, on)
  PROVE  /\ Layered(n) /\ n.stack = m.stack /\ n.pos = m.pos /\ n.back = m.back /\ n.screen = m.screen
         /\ n.look = [m.look EXCEPT ![id] = [m.look[id] EXCEPT !.active = on]]
BY DEF Fields, SetActive, Layered, Looks

LEMMA Copied ==
  ASSUME NEW m, DOMAIN m = Fields, NEW area
  PROVE  Redrawn(m, Copy(m, area)) /\ Copy(m, area).back = m.back
BY DEF Fields, Redrawn, Copy

LEMMA Painted ==
  ASSUME NEW m, DOMAIN m = Fields, NEW from, NEW area
  PROVE  Redrawn(m, Paint(m, from, area)) /\ Paint(m, from, area).screen = m.screen
BY DEF Fields, Redrawn, Paint

LEMMA DrawnSame ==
  ASSUME NEW m, DOMAIN m = Fields, NEW area
  PROVE  Redrawn(m, Draw(m, area))
<1> DEFINE n == Paint(m, 0, area)
<1>1. Redrawn(m, n)
  BY Painted
<1>2. DOMAIN n = Fields
  BY <1>1 DEF Redrawn
<1> HIDE DEF n
<1>3. Redrawn(n, Copy(n, area))
  BY <1>2, Copied
<1> QED
  BY <1>1, <1>3 DEF Redrawn, Draw, n

LEMMA DrawnLayerSame ==
  ASSUME NEW m, DOMAIN m = Fields, NEW id, NEW area, NEW junk
  PROVE  Redrawn(m, DrawLayer(m, id, area, junk))
<1> DEFINE w == Extent(m, id) \cap area
           n == Paint(m, HeightOf(m, id), w)
<1>1. Redrawn(m, n)
  BY Painted
<1>2. DOMAIN n = Fields
  BY <1>1 DEF Redrawn
<1>3. Redrawn(m, Copy(m, junk))
  BY Copied
<1>4. DrawLayer(m, id, area, junk) \in {Copy(n, w), Copy(m, junk)}
  BY DEF DrawLayer
<1> HIDE DEF n, w
<1>5. Redrawn(n, Copy(n, w))
  BY <1>2, Copied
<1> QED
  BY <1>1, <1>3, <1>4, <1>5 DEF Redrawn

LEMMA MovedSame ==
  ASSUME NEW m, DOMAIN m = Fields, NEW id, NEW new, NEW junk
  PROVE  LET n == Move(m, id, new, junk)
         IN  DOMAIN n = Fields /\ n.stack = m.stack /\ n.look = m.look /\ n.pos = [m.pos EXCEPT ![id] = new]
<1> DEFINE there == [m EXCEPT !.pos[id] = new]
           a == Draw(there, Extent(m, id))
           b == DrawLayer(a, id, Extent(there, id), junk)
<1>1. /\ DOMAIN there = Fields /\ there.stack = m.stack /\ there.look = m.look
      /\ there.pos = [m.pos EXCEPT ![id] = new]
  BY PutPos
<1> HIDE DEF there
<1>2. Redrawn(there, a)
  BY <1>1, DrawnSame
<1>3. DOMAIN a = Fields
  BY <1>1, <1>2 DEF Redrawn
<1> HIDE DEF a
<1>4. Redrawn(a, b)
  BY <1>3, DrawnLayerSame
<1>5. Move(m, id, new, junk) = b
  BY DEF Move, a, there
<1> HIDE DEF b
<1> QED
  BY <1>1, <1>2, <1>4, <1>5 DEF Redrawn

-----------------------------------------------------------------------------
(* The stack.                                                              *)

\* r is s without its j-th element, or with an element more.
IsWithout(r, s, j) ==
  /\ Len(r) = Len(s) - 1 /\ DOMAIN r = 1..(Len(s) - 1)
  /\ \A i \in 1..(Len(s) - 1) : r[i] = IF i < j THEN s[i] ELSE s[i + 1]

IsWith(r, s, j, e) ==
  /\ Len(r) = Len(s) + 1 /\ DOMAIN r = 1..(Len(s) + 1)
  /\ \A i \in 1..(Len(s) + 1) : r[i] = IF i < j THEN s[i] ELSE IF i = j THEN e ELSE s[i - 1]

LEMMA RemoveAtFacts ==
  ASSUME NEW S, NEW s \in Seq(S), NEW j \in 1..Len(s), NEW r, r = RemoveAt(s, j)
  PROVE  r \in Seq(S) /\ IsWithout(r, s, j)
<1> DEFINE a == SubSeq(s, 1, j - 1)
           b == SubSeq(s, j + 1, Len(s))
<1>1. Len(s) \in Nat /\ j \in Nat /\ 1 <= j /\ j <= Len(s)
  OBVIOUS
<1>2. a \in Seq(S) /\ Len(a) = j - 1 /\ \A i \in 1..(j - 1) : a[i] = s[i]
  <2>1. \A i \in 1..(j - 1) : i \in 1..Len(s)
    BY <1>1
  <2> QED
    BY <1>1, <2>1, SubSeqProperties
<1>3. b \in Seq(S) /\ Len(b) = Len(s) - j /\ \A i \in 1..(Len(s) - j) : b[i] = s[j + i]
  <2>1. \A i \in (j + 1)..Len(s) : i \in 1..Len(s)
    BY <1>1
  <2>2. b \in Seq(S) /\ Len(b) = IF j + 1 <= Len(s) THEN Len(s) - (j + 1) + 1 ELSE 0
    BY <1>1, <2>1, SubSeqProperties
  <2>3. \A i \in 1..(Len(s) - j) : b[i] = s[(j + 1) + i - 1] /\ (j + 1) + i - 1 = j + i
    BY <1>1, <2>1, SubSeqProperties
  <2> QED
    BY <1>1, <2>2, <2>3
<1>4. r = a \o b
  BY DEF RemoveAt
<1> HIDE DEF a, b
<1>5. r \in Seq(S) /\ Len(r) = Len(a) + Len(b)
      /\ \A i \in 1..(Len(a) + Len(b)) : r[i] = IF i <= Len(a) THEN a[i] ELSE b[i - Len(a)]
  <2>1. a \in Seq(S) /\ b \in Seq(S)
    BY <1>2, <1>3
  <2> QED
    BY <2>1, <1>4, ConcatProperties
<1>6. Len(r) = Len(s) - 1 /\ DOMAIN r = 1..(Len(s) - 1)
  BY <1>1, <1>2, <1>3, <1>5
<1>7. ASSUME NEW i \in 1..(Len(s) - 1) PROVE r[i] = IF i < j THEN s[i] ELSE s[i + 1]
  <2>1. CASE i < j
    <3>1. i \in 1..(j - 1) /\ i <= Len(a) /\ i \in 1..(Len(a) + Len(b))
      BY <1>1, <1>2, <1>3, <2>1
    <3> QED
      BY <1>2, <1>5, <2>1, <3>1
  <2>2. CASE ~(i < j)
    <3>1. /\ i - (j - 1) \in 1..(Len(s) - j) /\ ~(i <= j - 1) /\ i \in 1..(Len(a) + Len(b))
          /\ j + (i - (j - 1)) = i + 1
      BY <1>1, <1>2, <1>3, <2>2
    <3> QED
      BY <1>2, <1>3, <1>5, <2>2, <3>1
  <2> QED
    BY <2>1, <2>2
<1> QED
  BY <1>5, <1>6, <1>7 DEF IsWithout

LEMMA InsertAtFacts ==
  ASSUME NEW S, NEW s \in Seq(S), NEW j \in 1..(Len(s) + 1), NEW e \in S, NEW r, r = InsertAt(s, j, e)
  PROVE  r \in Seq(S) /\ IsWith(r, s, j, e)
<1> DEFINE a == SubSeq(s, 1, j - 1)
           b == SubSeq(s, j, Len(s))
           c == a \o <<e>>
<1>1. Len(s) \in Nat /\ j \in Nat /\ 1 <= j /\ j <= Len(s) + 1
  OBVIOUS
<1>2. a \in Seq(S) /\ Len(a) = j - 1 /\ \A i \in 1..(j - 1) : a[i] = s[i]
  <2>1. \A i \in 1..(j - 1) : i \in 1..Len(s)
    BY <1>1
  <2> QED
    BY <1>1, <2>1, SubSeqProperties
<1>3. b \in Seq(S) /\ Len(b) = Len(s) - j + 1 /\ \A i \in 1..(Len(s) - j + 1) : b[i] = s[j + i - 1]
  <2>1. \A i \in j..Len(s) : i \in 1..Len(s)
    BY <1>1
  <2>2. b \in Seq(S) /\ Len(b) = IF j <= Len(s) THEN Len(s) - j + 1 ELSE 0
    BY <1>1, <2>1, SubSeqProperties
  <2>3. \A i \in 1..(Len(s) - j + 1) : b[i] = s[j + i - 1]
    BY <1>1, <2>1, SubSeqProperties
  <2> QED
    BY <1>1, <2>2, <2>3
<1>4. r = c \o b
  BY DEF InsertAt
<1> HIDE DEF a, b
<1>5. c \in Seq(S) /\ Len(c) = j /\ c[j] = e /\ \A i \in 1..(j - 1) : c[i] = s[i]
  <2>1. <<e>> \in Seq(S) /\ Len(<<e>>) = 1 /\ <<e>>[1] = e
    OBVIOUS
  <2>2. /\ c \in Seq(S) /\ Len(c) = Len(a) + 1
        /\ \A i \in 1..(Len(a) + 1) : c[i] = IF i <= Len(a) THEN a[i] ELSE <<e>>[i - Len(a)]
    BY <1>2, <2>1, ConcatProperties
  <2>3. Len(c) = j /\ j \in 1..(Len(a) + 1) /\ ~(j <= Len(a)) /\ j - Len(a) = 1
    BY <1>1, <1>2, <2>2
  <2>4. c[j] = e
    BY <2>1, <2>2, <2>3
  <2>5. ASSUME NEW i \in 1..(j - 1) PROVE c[i] = s[i]
    <3>1. i \in 1..(Len(a) + 1) /\ i <= Len(a)
      BY <1>1, <1>2
    <3> QED
      BY <1>2, <2>2, <3>1
  <2> QED
    BY <2>2, <2>3, <2>4, <2>5
<1> HIDE DEF c
<1>6. r \in Seq(S) /\ Len(r) = Len(c) + Len(b)
      /\ \A i \in 1..(Len(c) + Len(b)) : r[i] = IF i <= Len(c) THEN c[i] ELSE b[i - Len(c)]
  <2>1. c \in Seq(S) /\ b \in Seq(S)
    BY <1>3, <1>5
  <2> QED
    BY <2>1, <1>4, ConcatProperties
<1>7. Len(r) = Len(s) + 1 /\ DOMAIN r = 1..(Len(s) + 1)
  BY <1>1, <1>3, <1>5, <1>6
<1>8. ASSUME NEW i \in 1..(Len(s) + 1)
      PROVE  r[i] = IF i < j THEN s[i] ELSE IF i = j THEN e ELSE s[i - 1]
  <2>1. CASE i < j
    <3>1. i \in 1..(j - 1) /\ i <= Len(c) /\ i \in 1..(Len(c) + Len(b))
      BY <1>1, <1>3, <1>5, <2>1
    <3> QED
      BY <1>5, <1>6, <2>1, <3>1
  <2>2. CASE i = j
    <3>1. i <= Len(c) /\ i \in 1..(Len(c) + Len(b))
      BY <1>1, <1>3, <1>5, <2>2
    <3> QED
      BY <1>1, <1>5, <1>6, <2>2, <3>1
  <2>3. CASE i > j
    <3>1. /\ i - j \in 1..(Len(s) - j + 1) /\ ~(i <= Len(c)) /\ i \in 1..(Len(c) + Len(b))
          /\ j + (i - j) - 1 = i - 1
      BY <1>1, <1>3, <1>5, <2>3
    <3>2. r[i] = b[i - j] /\ b[i - j] = s[i - 1]
      BY <1>3, <1>5, <1>6, <3>1
    <3> QED
      BY <1>1, <2>3, <3>2
  <2> QED
    BY <1>1, <2>1, <2>2, <2>3
<1> QED
  BY <1>6, <1>7, <1>8 DEF IsWith

\* Nothing is in the stack twice.
Once(s) == \A i, j \in DOMAIN s : s[i] = s[j] => i = j

\* x lies below y.
Under(s, x, y) == \E i, j \in DOMAIN s : i < j /\ s[i] = x /\ s[j] = y

\* r has what s has but for e (or and e), lying as it does there.
LiesLess(r, s, e) ==
  /\ Once(r)
  /\ \A x : (\E i \in DOMAIN r : r[i] = x) <=> (\E i \in DOMAIN s : s[i] = x) /\ x # e
  /\ \A x, y : Under(r, x, y) => Under(s, x, y)

LiesMore(r, s, e) ==
  /\ Once(r)
  /\ \A x : (\E i \in DOMAIN r : r[i] = x) <=> (\E i \in DOMAIN s : s[i] = x) \/ x = e
  /\ \A x, y : x # e /\ y # e /\ Under(r, x, y) => Under(s, x, y)

LEMMA RemoveAtOrder ==
  ASSUME NEW S, NEW s \in Seq(S), NEW j \in 1..Len(s), NEW r, r = RemoveAt(s, j), Once(s)
  PROVE  LiesLess(r, s, s[j])
<1>0. /\ DOMAIN r = 1..(Len(s) - 1)
      /\ \A i \in 1..(Len(s) - 1) : r[i] = IF i < j THEN s[i] ELSE s[i + 1]
  <2>1. IsWithout(r, s, j)
    BY RemoveAtFacts
  <2> QED
    BY <2>1 DEF IsWithout
<1> DEFINE was == [i \in 1..(Len(s) - 1) |-> IF i < j THEN i ELSE i + 1]
<1>1. /\ Len(s) \in Nat /\ j \in Nat /\ 1 <= j /\ j <= Len(s) /\ DOMAIN s = 1..Len(s)
      /\ DOMAIN r = 1..(Len(s) - 1)
  BY <1>0
<1>2. \A i \in DOMAIN r : r[i] = IF i < j THEN s[i] ELSE s[i + 1]
  BY <1>0
<1>3. \A i \in DOMAIN r : was[i] \in DOMAIN s /\ was[i] # j /\ r[i] = s[was[i]]
  BY <1>1, <1>2
<1>4. \A i, k \in DOMAIN r : (i < k => was[i] < was[k]) /\ (was[i] = was[k] => i = k)
  BY <1>1
<1>5. ASSUME NEW i \in DOMAIN s, i # j PROVE \E k \in DOMAIN r : was[k] = i
  <2>1. CASE i < j
    <3>1. i \in DOMAIN r /\ was[i] = i
      BY <1>1, <2>1
    <3> QED
      BY <3>1
  <2>2. CASE ~(i < j)
    <3>1. i - 1 \in DOMAIN r /\ was[i - 1] = i
      BY <1>1, <1>5, <2>2
    <3> QED
      BY <3>1
  <2> QED
    BY <2>1, <2>2
<1> HIDE DEF was
<1>6. Once(r)
  BY <1>3, <1>4 DEF Once
<1>7. ASSUME NEW x
      PROVE  (\E i \in DOMAIN r : r[i] = x) <=> (\E i \in DOMAIN s : s[i] = x) /\ x # s[j]
  <2>1. ASSUME NEW i \in DOMAIN r, r[i] = x PROVE (\E k \in DOMAIN s : s[k] = x) /\ x # s[j]
    BY <1>1, <1>3, <2>1 DEF Once
  <2>2. ASSUME NEW i \in DOMAIN s, s[i] = x, x # s[j] PROVE \E k \in DOMAIN r : r[k] = x
    BY <1>3, <1>5, <2>2
  <2> QED
    BY <2>1, <2>2
<1>8. ASSUME NEW x, NEW y, Under(r, x, y) PROVE Under(s, x, y)
  <2>1. PICK i, k \in DOMAIN r : i < k /\ r[i] = x /\ r[k] = y
    BY <1>8 DEF Under
  <2>2. was[i] \in DOMAIN s /\ was[k] \in DOMAIN s /\ was[i] < was[k] /\ s[was[i]] = x /\ s[was[k]] = y
    BY <1>3, <1>4, <2>1
  <2> QED
    BY <2>2 DEF Under
<1> QED
  BY <1>6, <1>7, <1>8 DEF LiesLess

LEMMA InsertAtOrder ==
  ASSUME NEW S, NEW s \in Seq(S), NEW j \in 1..(Len(s) + 1), NEW e \in S, NEW r, r = InsertAt(s, j, e),
         Once(s), \A i \in DOMAIN s : s[i] # e
  PROVE  LiesMore(r, s, e)
<1>0. /\ DOMAIN r = 1..(Len(s) + 1)
      /\ \A i \in 1..(Len(s) + 1) : r[i] = IF i < j THEN s[i] ELSE IF i = j THEN e ELSE s[i - 1]
  <2>1. IsWith(r, s, j, e)
    BY InsertAtFacts
  <2> QED
    BY <2>1 DEF IsWith
<1> DEFINE was == [i \in 1..(Len(s) + 1) |-> IF i < j THEN i ELSE i - 1]
<1>1. /\ Len(s) \in Nat /\ j \in Nat /\ 1 <= j /\ j <= Len(s) + 1 /\ DOMAIN s = 1..Len(s)
      /\ DOMAIN r = 1..(Len(s) + 1) /\ j \in DOMAIN r
  BY <1>0
<1>2. \A i \in DOMAIN r : r[i] = IF i < j THEN s[i] ELSE IF i = j THEN e ELSE s[i - 1]
  BY <1>0
<1>3. r[j] = e
  BY <1>1, <1>2
<1>4. \A i \in DOMAIN r : i # j => was[i] \in DOMAIN s /\ r[i] = s[was[i]]
  BY <1>1, <1>2
<1>5. \A i, k \in DOMAIN r : i # j /\ k # j => (i < k => was[i] < was[k]) /\ (was[i] = was[k] => i = k)
  BY <1>1
<1>6. ASSUME NEW i \in DOMAIN s PROVE \E k \in DOMAIN r : k # j /\ was[k] = i
  <2>1. CASE i < j
    <3>1. i \in DOMAIN r /\ i # j /\ was[i] = i
      BY <1>1, <2>1
    <3> QED
      BY <3>1
  <2>2. CASE ~(i < j)
    <3>1. i + 1 \in DOMAIN r /\ i + 1 # j /\ was[i + 1] = i
      BY <1>1, <2>2
    <3> QED
      BY <3>1
  <2> QED
    BY <2>1, <2>2
<1> HIDE DEF was
<1>7. Once(r)
  BY <1>3, <1>4, <1>5 DEF Once
<1>8. ASSUME NEW x
      PROVE  (\E i \in DOMAIN r : r[i] = x) <=> (\E i \in DOMAIN s : s[i] = x) \/ x = e
  <2>1. ASSUME NEW i \in DOMAIN r, r[i] = x PROVE (\E k \in DOMAIN s : s[k] = x) \/ x = e
    BY <1>3, <1>4, <2>1
  <2>2. ASSUME NEW i \in DOMAIN s, s[i] = x PROVE \E k \in DOMAIN r : r[k] = x
    BY <1>4, <1>6, <2>2
  <2> QED
    BY <1>1, <1>3, <2>1, <2>2
<1>9. ASSUME NEW x, NEW y, x # e, y # e, Under(r, x, y) PROVE Under(s, x, y)
  <2>1. PICK i, k \in DOMAIN r : i < k /\ r[i] = x /\ r[k] = y
    BY <1>9 DEF Under
  <2>2. i # j /\ k # j
    BY <1>3, <1>9, <2>1
  <2>3. was[i] \in DOMAIN s /\ was[k] \in DOMAIN s /\ was[i] < was[k] /\ s[was[i]] = x /\ s[was[k]] = y
    BY <1>4, <1>5, <2>1, <2>2
  <2> QED
    BY <2>3 DEF Under
<1> QED
  BY <1>7, <1>8, <1>9 DEF LiesMore

LEMMA RemoveInserted ==
  ASSUME NEW S, NEW s \in Seq(S), NEW j \in 1..(Len(s) + 1), NEW e \in S
  PROVE  RemoveAt(InsertAt(s, j, e), j) = s
<1> DEFINE r == InsertAt(s, j, e)
           q == RemoveAt(r, j)
<1>1. Len(s) \in Nat /\ j \in Nat /\ 1 <= j /\ j <= Len(s) + 1
  OBVIOUS
<1>2. /\ r \in Seq(S) /\ Len(r) = Len(s) + 1
      /\ \A i \in 1..(Len(s) + 1) : r[i] = IF i < j THEN s[i] ELSE IF i = j THEN e ELSE s[i - 1]
  <2>1. r = InsertAt(s, j, e)
    OBVIOUS
  <2> HIDE DEF r
  <2>2. r \in Seq(S) /\ IsWith(r, s, j, e)
    BY <2>1, InsertAtFacts
  <2> QED
    BY <2>2 DEF IsWith
<1> HIDE DEF r
<1>3. j \in 1..Len(r) /\ Len(r) - 1 = Len(s)
  BY <1>1, <1>2
<1>4. /\ q \in Seq(S) /\ Len(q) = Len(s)
      /\ \A i \in 1..Len(s) : q[i] = IF i < j THEN r[i] ELSE r[i + 1]
  <2>1. q = RemoveAt(r, j)
    OBVIOUS
  <2> HIDE DEF q
  <2>2. q \in Seq(S) /\ IsWithout(q, r, j)
    BY <1>2, <1>3, <2>1, RemoveAtFacts
  <2> QED
    BY <1>3, <2>2 DEF IsWithout
<1> HIDE DEF q
<1>5. ASSUME NEW i \in 1..Len(s) PROVE q[i] = s[i]
  <2>1. i \in Nat /\ i \in 1..(Len(s) + 1) /\ i + 1 \in 1..(Len(s) + 1) /\ (i + 1) - 1 = i
    BY <1>1
  <2>2. CASE i < j
    BY <1>2, <1>4, <2>1, <2>2
  <2>3. CASE ~(i < j)
    <3>1. ~(i + 1 < j) /\ i + 1 # j
      BY <1>1, <2>1, <2>3
    <3> QED
      BY <1>2, <1>4, <2>1, <2>3, <3>1
  <2> QED
    BY <2>2, <2>3
<1>6. q = s
  BY <1>4, <1>5, SeqEqual
<1> QED
  BY <1>6 DEF q, r

LEMMA HeightFacts ==
  ASSUME NEW m, Layered(m), NEW id, InStack(m, id)
  PROVE  /\ HeightOf(m, id) + 1 \in DOMAIN m.stack /\ m.stack[HeightOf(m, id) + 1] = id
         /\ HeightOf(m, id) \in Nat
         /\ Once(m.stack) => \A i \in DOMAIN m.stack : m.stack[i] = id => HeightOf(m, id) = i - 1
<1> DEFINE c == CHOOSE i \in DOMAIN m.stack : m.stack[i] = id
<1>1. c \in DOMAIN m.stack /\ m.stack[c] = id
  BY DEF InStack
<1>2. DOMAIN m.stack = 1..Len(m.stack) /\ Len(m.stack) \in Nat
  BY DEF Layered
<1>3. HeightOf(m, id) = c - 1
  BY DEF HeightOf
<1> HIDE DEF c
<1>4. c \in Nat /\ c >= 1
  BY <1>1, <1>2
<1> QED
  BY <1>1, <1>3, <1>4 DEF Once

\* What Hide and UpDown leave as it is.
SameDrawing(m, n) == /\ DOMAIN n = DOMAIN m /\ n.pos = m.pos /\ n.look = m.look
                     /\ n.back = m.back /\ n.screen = m.screen

LEMMA HiddenFacts ==
  ASSUME NEW m, Layered(m), NEW id \in LayerIds, Once(m.stack), NEW n, n = Hide(m, id)
  PROVE  /\ Layered(n) /\ SameDrawing(m, n) /\ Once(n.stack)
         /\ \A x : InStack(n, x) <=> InStack(m, x) /\ x # id
         /\ \A x, y : Under(n.stack, x, y) => Under(m.stack, x, y)
         /\ \A j \in DOMAIN m.stack : m.stack[j] = id => n.stack = RemoveAt(m.stack, j)
         /\ ~ InStack(m, id) => n = m
<1>1. CASE ~ InStack(m, id)
  <2>1. n = m
    BY <1>1 DEF Hide
  <2> QED
    BY <1>1, <2>1 DEF InStack, SameDrawing
<1>2. CASE InStack(m, id)
  <2> DEFINE s == m.stack
             j == HeightOf(m, id) + 1
             r == RemoveAt(s, j)
  <2>1. s \in Seq(LayerIds) /\ DOMAIN s = 1..Len(s) /\ DOMAIN m = Fields
    BY DEF Layered
  <2>2. j \in DOMAIN s /\ s[j] = id /\ \A i \in DOMAIN s : s[i] = id => i = j
    BY <1>2, HeightFacts DEF Once
  <2>3. n = [m EXCEPT !.stack = r]
    BY <1>2 DEF Hide
  <2> HIDE DEF j, r
  <2>4. DOMAIN n = Fields /\ n.stack = r /\ SameDrawing(m, n)
    BY <2>1, <2>3, PutStack DEF SameDrawing
  <2>5. r = RemoveAt(s, j) /\ j \in 1..Len(s)
    BY <2>1, <2>2 DEF r
  <2>6. r \in Seq(LayerIds)
    BY <2>1, <2>5, RemoveAtFacts
  <2>7. /\ Once(r)
        /\ \A x : (\E i \in DOMAIN r : r[i] = x) <=> (\E i \in DOMAIN s : s[i] = x) /\ x # s[j]
        /\ \A x, y : Under(r, x, y) => Under(s, x, y)
    <3>1. Once(s)
      OBVIOUS
    <3> HIDE DEF s
    <3>2. LiesLess(r, s, s[j])
      BY <2>1, <2>5, <3>1, RemoveAtOrder
    <3> QED
      BY <3>2 DEF LiesLess
  <2>8. Layered(n)
    BY <2>1, <2>4, <2>6 DEF Layered, SameDrawing
  <2>9. \A x : InStack(n, x) <=> InStack(m, x) /\ x # id
    BY <2>2, <2>4, <2>7 DEF InStack
  <2>10. \A k \in DOMAIN s : s[k] = id => r = RemoveAt(s, k)
    BY <2>2, <2>5
  <2> QED
    BY <1>2, <2>4, <2>7, <2>8, <2>9, <2>10
<1> QED
  BY <1>1, <1>2

LEMMA UpDownFacts ==
  ASSUME NEW m, Layered(m), NEW id \in LayerIds, Once(m.stack), NEW height \in Nat,
         NEW h, h = Hide(m, id).stack, NEW n, n = UpDown(m, id, height)
  PROVE  /\ Layered(n) /\ SameDrawing(m, n) /\ Len(h) \in Nat
         /\ n.stack = InsertAt(h, (IF height > Len(h) THEN Len(h) ELSE height) + 1, id)
<1> DEFINE s == m.stack
           top == Len(s)
           new == IF height > top THEN top ELSE height
           k == (IF height > Len(h) THEN Len(h) ELSE height) + 1
           r == InsertAt(h, k, id)
<1>1. s \in Seq(LayerIds) /\ top \in Nat /\ DOMAIN m = Fields
  BY DEF Layered
<1>2. h \in Seq(LayerIds)
  BY HiddenFacts DEF Layered
<1>3. Len(h) \in Nat
  BY <1>2
<1>4. k \in 1..(Len(h) + 1)
  BY <1>3
<1>5. n = [m EXCEPT !.stack = r]
  <2>1. CASE ~ InStack(m, id)
    <3>1. h = s
      BY <2>1 DEF Hide
    <3>2. new + 1 = k
      BY <3>1
    <3>3. n = [m EXCEPT !.stack = InsertAt(s, new + 1, id)]
      BY <2>1 DEF UpDown
    <3> HIDE DEF new, k, s
    <3> QED
      BY <3>1, <3>2, <3>3
  <2>2. CASE InStack(m, id)
    <3>1. PICK j \in DOMAIN s : s[j] = id
      BY <2>2 DEF InStack
    <3>2. h = RemoveAt(s, j) /\ j \in 1..Len(s)
      <4>1. h = RemoveAt(s, j)
        BY <3>1, HiddenFacts
      <4> QED
        BY <1>1, <3>1, <4>1
    <3>3. IsWithout(h, s, j)
      BY <1>1, <3>2, RemoveAtFacts
    <3>4. Len(h) = top - 1
      BY <3>3 DEF IsWithout
    <3>5. (IF new = top THEN top - 1 ELSE new) + 1 = k
      BY <1>1, <3>4
    <3>6. n = [m EXCEPT !.stack = InsertAt(h, (IF new = top THEN top - 1 ELSE new) + 1, id)]
      BY <2>2 DEF UpDown
    <3> HIDE DEF new, k, s, top
    <3> QED
      BY <3>5, <3>6
  <2> QED
    BY <2>1, <2>2
<1>6. r \in Seq(LayerIds)
  <2>1. r = InsertAt(h, k, id)
    OBVIOUS
  <2> HIDE DEF r, k
  <2> QED
    BY <1>2, <1>4, <2>1, InsertAtFacts
<1> HIDE DEF r
<1>7. DOMAIN n = Fields /\ n.stack = r /\ SameDrawing(m, n)
  BY <1>1, <1>5, PutStack DEF SameDrawing
<1>8. Layered(n)
  BY <1>6, <1>7 DEF Layered, SameDrawing
<1> QED
  BY <1>3, <1>7, <1>8 DEF r

\* The desktop below all others, the cursor above.
Ends(s) == Len(s) >= 2 /\ s[1] = Back /\ s[Len(s)] = Cursor

\* The layers of A, and no others, are in the stack.
Stacked(m, A) == /\ Layered(m) /\ Once(m.stack) /\ Ends(m.stack)
                 /\ \A x \in LayerIds : InStack(m, x) <=> x \in A

LEMMA HiddenStacked ==
  ASSUME NEW m, NEW A, Stacked(m, A), NEW id \in Toplevels, NEW n, n = Hide(m, id)
  PROVE  Stacked(n, A \ {id})
<1> DEFINE s == m.stack
           r == n.stack
<1>1. Layered(m) /\ Once(s) /\ Ends(s) /\ id \in LayerIds /\ id # Back /\ id # Cursor
  BY Distinct DEF Stacked, LayerIds, Toplevels, Windows
<1>2. /\ Layered(n) /\ Once(r)
      /\ \A x : InStack(n, x) <=> InStack(m, x) /\ x # id
      /\ \A j \in DOMAIN s : s[j] = id => r = RemoveAt(s, j)
      /\ ~ InStack(m, id) => n = m
  BY <1>1, HiddenFacts
<1>3. Ends(r)
  <2>1. CASE ~ InStack(m, id)
    BY <1>1, <1>2, <2>1
  <2>2. CASE InStack(m, id)
    <3>0. s \in Seq(LayerIds) /\ Len(s) \in Nat /\ DOMAIN s = 1..Len(s)
      BY <1>1 DEF Layered
    <3>1. PICK j \in 1..Len(s) : s[j] = id
      BY <2>2, <3>0 DEF InStack
    <3>2. j # 1 /\ j # Len(s) /\ Len(s) >= 2
      BY <1>1, <3>1 DEF Ends
    <3>3. IsWithout(r, s, j)
      <4>1. r = RemoveAt(s, j)
        BY <1>2, <3>0, <3>1
      <4> HIDE DEF r, s
      <4> QED
        BY <3>0, <3>1, <4>1, RemoveAtFacts
    <3>4. Len(r) = Len(s) - 1 /\ 1 \in 1..(Len(s) - 1) /\ Len(s) - 1 \in 1..(Len(s) - 1) /\ Len(r) >= 2
      BY <3>0, <3>1, <3>2, <3>3 DEF IsWithout
    <3>5. 1 < j /\ ~(Len(s) - 1 < j) /\ (Len(s) - 1) + 1 = Len(s)
      BY <3>0, <3>1, <3>2
    <3>6. r[1] = s[1] /\ r[Len(s) - 1] = s[Len(s)]
      BY <3>3, <3>4, <3>5 DEF IsWithout
    <3> QED
      BY <1>1, <3>4, <3>6 DEF Ends
  <2> QED
    BY <2>1, <2>2
<1> HIDE DEF r, s
<1>4. \A x \in LayerIds : InStack(n, x) <=> x \in A \ {id}
  BY <1>2 DEF Stacked
<1> QED
  BY <1>2, <1>3, <1>4 DEF Stacked, r

\* The window right below the cursor.
OnTop(m, id) == m.stack[Len(m.stack) - 1] = id

\* The others lie in r as they do in s.
OthersLie(r, s, id) == \A x, y : x # id /\ y # id /\ Under(r, x, y) => Under(s, x, y)

\* A window is put into a stack without it, right below the cursor.
LEMMA InsertedStacked ==
  ASSUME NEW m, NEW A, Stacked(m, A), NEW id \in Toplevels, id \notin A, NEW n, Layered(n),
         n.stack = InsertAt(m.stack, Len(m.stack), id)
  PROVE  /\ Stacked(n, A \cup {id}) /\ OnTop(n, id)
         /\ OthersLie(n.stack, m.stack, id)
<1> DEFINE s == m.stack
           r == n.stack
           k == Len(s)
<1>1. /\ s \in Seq(LayerIds) /\ Len(s) \in Nat /\ DOMAIN s = 1..Len(s) /\ k \in 1..(Len(s) + 1)
      /\ id \in LayerIds /\ r = InsertAt(s, k, id) /\ Once(s) /\ Ends(s) /\ 2 <= k /\ k <= Len(s)
      /\ k = Len(s) /\ k \in Nat
  BY DEF Stacked, Layered, LayerIds, Ends
<1>2. \A i \in DOMAIN s : s[i] # id
  BY <1>1 DEF Stacked, InStack
<1> HIDE DEF s, r, k
<1>3. IsWith(r, s, k, id)
  BY <1>1, InsertAtFacts
<1>4. /\ Once(r)
      /\ \A x : (\E i \in DOMAIN r : r[i] = x) <=> (\E i \in DOMAIN s : s[i] = x) \/ x = id
      /\ \A x, y : x # id /\ y # id /\ Under(r, x, y) => Under(s, x, y)
  <2>1. LiesMore(r, s, id)
    BY <1>1, <1>2, InsertAtOrder
  <2> QED
    BY <2>1 DEF LiesMore
<1>5. Len(r) = Len(s) + 1 /\ r[k] = id /\ r[1] = s[1] /\ r[Len(s) + 1] = s[Len(s)]
  <2>1. /\ 1 \in 1..(Len(s) + 1) /\ Len(s) + 1 \in 1..(Len(s) + 1) /\ 1 < k
        /\ ~(Len(s) + 1 < k) /\ Len(s) + 1 # k /\ (Len(s) + 1) - 1 = Len(s) /\ ~(k < k)
    <3>1. Len(s) \in Nat /\ k = Len(s) /\ 2 <= k
      BY <1>1
    <3> QED
      BY <3>1
  <2> QED
    BY <1>1, <1>3, <2>1 DEF IsWith
<1>6. Ends(r)
  BY <1>1, <1>5 DEF Ends
<1>7. \A x \in LayerIds : InStack(n, x) <=> x \in A \cup {id}
  BY <1>4 DEF Stacked, InStack, r, s
<1> QED
  BY <1>1, <1>4, <1>5, <1>6, <1>7 DEF Stacked, OthersLie, OnTop, r, s

\* UpDown to the bottom, then to right below the cursor.
LEMMA Raised ==
  ASSUME NEW m, NEW A, Stacked(m, A), NEW id \in Toplevels, NEW n, n = Raise(m, id)
  PROVE  /\ Stacked(n, A \cup {id}) /\ SameDrawing(m, n) /\ OnTop(n, id)
         /\ OthersLie(n.stack, m.stack, id)
<1>d. PICK d : d = UpDown(m, id, 0) /\ n = UpDown(d, id, HeightOf(d, Cursor) - 1)
  BY DEF Raise
<1> DEFINE e == Hide(m, id)
           h == e.stack
<1>1. Layered(m) /\ Once(m.stack) /\ id \in LayerIds
  BY DEF Stacked, LayerIds
<1>2. Stacked(e, A \ {id}) /\ id \in Toplevels \ (A \ {id})
  BY HiddenStacked
<1>3. /\ Layered(e) /\ SameDrawing(m, e)
      /\ \A x, y : Under(h, x, y) => Under(m.stack, x, y)
  BY <1>1, HiddenFacts
<1>4. /\ h \in Seq(LayerIds) /\ Len(h) \in Nat /\ DOMAIN h = 1..Len(h) /\ Len(h) >= 2
      /\ Once(h) /\ h[Len(h)] = Cursor /\ \A i \in DOMAIN h : h[i] # id
  <2>1. ~ InStack(e, id)
    BY <1>1, <1>2 DEF Stacked
  <2>2. h \in Seq(LayerIds) /\ Once(h) /\ Ends(h)
    BY <1>2 DEF Stacked, Layered
  <2>3. \A i \in DOMAIN h : h[i] # id
    BY <2>1 DEF InStack
  <2> HIDE DEF h
  <2> QED
    BY <2>2, <2>3 DEF Ends
<1>5. Layered(d) /\ SameDrawing(m, d) /\ d.stack = InsertAt(h, 1, id)
  <2>1. /\ Layered(d) /\ SameDrawing(m, d)
        /\ d.stack = InsertAt(h, (IF 0 > Len(h) THEN Len(h) ELSE 0) + 1, id)
    BY <1>1, <1>d, UpDownFacts
  <2>2. (IF 0 > Len(h) THEN Len(h) ELSE 0) + 1 = 1
    BY <1>4
  <2> QED
    BY <2>1, <2>2
<1> HIDE DEF h, e
<1>6. IsWith(d.stack, h, 1, id) /\ LiesMore(d.stack, h, id) /\ 1 \in 1..(Len(h) + 1)
  <2>1. 1 \in 1..(Len(h) + 1)
    BY <1>4
  <2> QED
    BY <1>1, <1>4, <1>5, <2>1, InsertAtFacts, InsertAtOrder
<1>7. /\ Once(d.stack) /\ DOMAIN d.stack = 1..(Len(h) + 1) /\ d.stack[1] = id
      /\ d.stack[Len(h) + 1] = Cursor
  <2>1. /\ Len(h) + 1 \in 1..(Len(h) + 1) /\ 1 \in 1..(Len(h) + 1) /\ ~(Len(h) + 1 < 1)
        /\ Len(h) + 1 # 1 /\ (Len(h) + 1) - 1 = Len(h) /\ ~(1 < 1)
    BY <1>4
  <2> QED
    BY <1>4, <1>6, <2>1 DEF IsWith, LiesMore
<1>8. HeightOf(d, Cursor) = Len(h)
  <2>1. Len(h) + 1 \in DOMAIN d.stack /\ InStack(d, Cursor)
    BY <1>4, <1>7 DEF InStack
  <2>2. HeightOf(d, Cursor) = (Len(h) + 1) - 1
    BY <1>5, <1>7, <2>1, HeightFacts
  <2> QED
    BY <1>4, <2>2
<1>9. Hide(d, id).stack = h
  <2>1. 1 \in DOMAIN d.stack
    BY <1>4, <1>7
  <2>2. Hide(d, id).stack = RemoveAt(d.stack, 1)
    BY <1>1, <1>5, <1>7, <2>1, HiddenFacts
  <2> QED
    BY <1>1, <1>4, <1>5, <1>6, <2>2, RemoveInserted
<1>10. /\ Layered(n) /\ SameDrawing(d, n)
       /\ n.stack = InsertAt(h, Len(h), id)
  <2> DEFINE top == Len(h) - 1
  <2>1. top \in Nat /\ ~(top > Len(h)) /\ top + 1 = Len(h) /\ n = UpDown(d, id, top)
    BY <1>4, <1>8, <1>d
  <2> HIDE DEF top
  <2>2. /\ Layered(n) /\ SameDrawing(d, n)
        /\ n.stack = InsertAt(h, (IF top > Len(h) THEN Len(h) ELSE top) + 1, id)
    BY <1>1, <1>5, <1>7, <1>9, <2>1, UpDownFacts
  <2> QED
    BY <2>1, <2>2
<1>11. /\ Stacked(n, (A \ {id}) \cup {id}) /\ OnTop(n, id)
       /\ OthersLie(n.stack, h, id)
  <2>1. h = e.stack
    BY DEF h
  <2>2. n.stack = InsertAt(e.stack, Len(e.stack), id)
    BY <1>4, <1>10, <2>1
  <2>3. Stacked(e, A \ {id}) /\ id \notin A \ {id} /\ Layered(n)
    BY <1>2, <1>10
  <2>4. /\ Stacked(n, (A \ {id}) \cup {id}) /\ OnTop(n, id)
        /\ OthersLie(n.stack, e.stack, id)
    BY <2>2, <2>3, InsertedStacked
  <2> QED
    BY <2>1, <2>4
<1>12. Stacked(n, A \cup {id})
  BY <1>11 DEF Stacked
<1> QED
  BY <1>3, <1>5, <1>10, <1>11, <1>12 DEF SameDrawing, OthersLie

LEMMA RedrawnStacked ==
  ASSUME NEW m, NEW A, Stacked(m, A), NEW n, Redrawn(m, n)
  PROVE  Stacked(n, A)
BY DEF Stacked, Redrawn, Layered, InStack

LEMMA WholeSame ==
  ASSUME NEW m, NEW A, Stacked(m, A), NEW id
  PROVE  Redrawn(m, DrawWhole(m, id)) /\ Stacked(DrawWhole(m, id), A)
<1>1. Redrawn(m, DrawWhole(m, id))
  BY DrawnLayerSame DEF DrawWhole, Stacked, Layered
<1> QED
  BY <1>1, RedrawnStacked

\* What Activate makes of the looks.
LooksActive(m, n, old, id) ==
  \A x \in LayerIds :
    /\ n.look[x].ink = m.look[x].ink
    /\ n.look[x].active = IF old = id THEN m.look[x].active
                          ELSE IF x = id THEN TRUE
                          ELSE IF x = old THEN FALSE ELSE m.look[x].active

LooksSet(m, n, id, on) ==
  \A x \in LayerIds : /\ n.look[x].ink = m.look[x].ink
                      /\ n.look[x].active = IF x = id THEN on ELSE m.look[x].active

LEMMA ActiveSet ==
  ASSUME NEW m, NEW A, Stacked(m, A), NEW id \in Toplevels, NEW on \in BOOLEAN, NEW n, n = SetActive(m, id, on)
  PROVE  /\ Stacked(n, A) /\ n.stack = m.stack /\ n.pos = m.pos
         /\ n.back = m.back /\ n.screen = m.screen
         /\ LooksSet(m, n, id, on)
<1>1. Layered(m) /\ id \in LayerIds
  BY DEF Stacked, LayerIds
<1>2. /\ Layered(n) /\ n.stack = m.stack /\ n.pos = m.pos /\ n.back = m.back /\ n.screen = m.screen
      /\ n.look = [m.look EXCEPT ![id] = [m.look[id] EXCEPT !.active = on]]
  BY <1>1, PutActive
<1>3. LooksSet(m, n, id, on)
  BY <1>1, <1>2 DEF Layered, Looks, LooksSet
<1> QED
  BY <1>2, <1>3 DEF Stacked, InStack

LEMMA ActivatedFacts ==
  ASSUME NEW m, NEW A, Stacked(m, A), NEW old \in Toplevels \cup {None}, NEW id \in Toplevels \cup {None},
         NEW n, n = Activated(m, old, id), old = id => id = None \/ OnTop(m, id),
         old = id => id \in A \cup {None}
  PROVE  /\ Stacked(n, A \cup ({id} \ {None})) /\ n.pos = m.pos /\ LooksActive(m, n, old, id)
         /\ id = None => n.stack = m.stack
         /\ id # None => OnTop(n, id)
<1> DEFINE off0 == SetActive(m, old, FALSE)
           off == IF old = None THEN m ELSE DrawWhole(off0, old)
           on == SetActive(off, id, TRUE)
           down == UpDown(on, id, 0)
           up == UpDown(down, id, HeightOf(down, Cursor) - 1)
<1>0. None \notin Toplevels /\ None \notin LayerIds
  BY Distinct DEF LayerIds
<1>1. n = IF old = id THEN m ELSE IF id = None THEN off ELSE DrawWhole(up, id)
  BY DEF Activated, Deactivated, BroughtUp, Raise
<1>2. CASE old = id
  <2>1. n = m
    BY <1>1, <1>2
  <2>2. Stacked(n, A \cup ({id} \ {None}))
    BY <1>2, <2>1 DEF Stacked
  <2> QED
    BY <1>2, <2>1, <2>2 DEF LooksActive
<1>3. CASE old # id
  <2>0. Stacked(m, A)
    OBVIOUS
  <2>1. /\ Stacked(off, A) /\ off.pos = m.pos /\ off.stack = m.stack
        /\ LooksSet(m, off, old, FALSE)
    <3>1. CASE old = None
      <4>1. off = m /\ \A x \in LayerIds : x # old
        BY <1>0, <3>1
      <4> HIDE DEF off
      <4> QED
        BY <2>0, <4>1 DEF LooksSet
    <3>2. CASE old # None
      <4>1. /\ Stacked(off0, A) /\ off0.pos = m.pos /\ off0.stack = m.stack
            /\ LooksSet(m, off0, old, FALSE)
        <5>1. off0 = SetActive(m, old, FALSE) /\ old \in Toplevels
          BY <3>2
        <5> HIDE DEF off0
        <5>2. Stacked(off0, A)
          BY <5>1, ActiveSet
        <5>3. off0.pos = m.pos
          BY <5>1, ActiveSet, ZenonT(40)
        <5>4. off0.stack = m.stack
          BY <5>1, ActiveSet, ZenonT(40)
        <5>5. LooksSet(m, off0, old, FALSE)
          BY <5>1, ActiveSet
        <5> QED
          BY <5>2, <5>3, <5>4, <5>5
      <4>2. off = DrawWhole(off0, old)
        BY <3>2
      <4> HIDE DEF off0, off
      <4>3. Redrawn(off0, off) /\ Stacked(off, A)
        BY <4>1, <4>2, WholeSame
      <4> QED
        BY <4>1, <4>3 DEF Redrawn, LooksSet
    <3> QED
      BY <3>1, <3>2
  <2>2. CASE id = None
    <3>1. n = off /\ A \cup ({id} \ {None}) = A
      BY <1>1, <1>3, <2>2
    <3> HIDE DEF off
    <3>2. LooksActive(m, n, old, id)
      BY <1>0, <1>3, <2>1, <2>2, <3>1 DEF LooksActive, LooksSet
    <3> QED
      BY <2>1, <2>2, <3>1, <3>2
  <2>3. CASE id # None
    <3>1. n = DrawWhole(up, id)
      BY <1>1, <1>3, <2>3
    <3>2. on = SetActive(off, id, TRUE) /\ id \in Toplevels
      BY <2>3
    <3>3. up = Raise(on, id)
      BY DEF Raise
    <3> HIDE DEF off, on, down, up
    <3>4. /\ Stacked(on, A) /\ on.pos = off.pos /\ on.stack = off.stack
          /\ LooksSet(off, on, id, TRUE)
      <4>1. Stacked(off, A)
        BY <2>1
      <4>2. on = SetActive(off, id, TRUE)
        BY <3>2
      <4>3. id \in Toplevels
        BY <3>2
      <4>4. Stacked(on, A)
        BY <4>1, <4>2, <4>3, ActiveSet
      <4>5. on.pos = off.pos
        BY <4>1, <4>2, <4>3, ActiveSet, ZenonT(40)
      <4>6. on.stack = off.stack
        BY <4>1, <4>2, <4>3, ActiveSet, ZenonT(40)
      <4>7. LooksSet(off, on, id, TRUE)
        BY <4>1, <4>2, <4>3, ActiveSet
      <4> QED
        BY <4>4, <4>5, <4>6, <4>7
    <3>5. Stacked(up, A \cup {id}) /\ SameDrawing(on, up) /\ OnTop(up, id)
      BY <3>2, <3>3, <3>4, Raised
    <3>6. Redrawn(up, n) /\ Stacked(n, A \cup {id})
      BY <3>1, <3>5, WholeSame
    <3>7. LooksActive(m, n, old, id)
      BY <1>3, <2>1, <3>4, <3>5, <3>6, ZenonT(40) DEF LooksActive, LooksSet, Redrawn, SameDrawing
    <3>8. A \cup ({id} \ {None}) = A \cup {id}
      BY <2>3
    <3> QED
      BY <2>1, <2>3, <3>4, <3>5, <3>6, <3>7, <3>8 DEF Redrawn, SameDrawing, OnTop
  <2> QED
    BY <2>2, <2>3
<1> QED
  BY <1>2, <1>3

LEMMA ActivatedPlaces ==
  ASSUME NEW m, NEW A, Stacked(m, A), NEW old \in Toplevels \cup {None}, NEW id \in Toplevels \cup {None},
         NEW n, n = Activated(m, old, id), old = id => id = None \/ OnTop(m, id),
         old = id => id \in A \cup {None}
  PROVE  n.pos = m.pos
<1>1. /\ Stacked(n, A \cup ({id} \ {None})) /\ n.pos = m.pos /\ LooksActive(m, n, old, id)
      /\ id = None => n.stack = m.stack
      /\ id # None => OnTop(n, id)
  BY ActivatedFacts
<1> QED
  BY <1>1

LEMMA MovedStacked ==
  ASSUME NEW m, NEW A, Stacked(m, A), NEW id \in LayerIds, NEW new \in Int \X Int, NEW junk,
         NEW n, n = Move(m, id, new, junk)
  PROVE  /\ Stacked(n, A) /\ n.stack = m.stack /\ n.look = m.look
         /\ n.pos = [m.pos EXCEPT ![id] = new]
<1>1. DOMAIN m = Fields
  BY DEF Stacked, Layered
<1>2. DOMAIN n = Fields /\ n.stack = m.stack /\ n.look = m.look /\ n.pos = [m.pos EXCEPT ![id] = new]
  BY <1>1, MovedSame
<1> QED
  BY <1>2 DEF Stacked, Layered, InStack

-----------------------------------------------------------------------------
(* The topmost layer at a place.                                           *)

LEMMA LeastMember ==
  ASSUME NEW S, S \subseteq Nat, S # {}
  PROVE  \E m \in S : \A x \in S : m <= x
<1> DEFINE R == OpToRel(<, Nat)
<1>1. IsWellFoundedOn(R, Nat)
  BY NatLessThanWellFounded
<1>2. PICK m \in S : \A x \in S : ~(<<x, m>> \in R)
  <2> HIDE DEF R
  <2> QED
    BY <1>1, WFMin
<1>3. \A x \in S : ~(x < m)
  BY <1>2 DEF OpToRel
<1> QED
  BY <1>3

LEMMA GreatestMember ==
  ASSUME NEW S, NEW n \in Nat, S \subseteq 0..n, S # {}
  PROVE  \E m \in S : \A x \in S : x <= m
<1> DEFINE D == {k \in Nat : \A x \in S : x <= k}
<1>1. D \subseteq Nat /\ n \in D
  OBVIOUS
<1>2. PICK k \in D : \A j \in D : k <= j
  <2> HIDE DEF D
  <2> QED
    BY <1>1, LeastMember
<1>3. ASSUME k \notin S PROVE FALSE
  <2>1. \A x \in S : x <= k - 1
    BY <1>3
  <2>2. PICK x \in S : TRUE
    OBVIOUS
  <2>3. k - 1 \in Nat
    BY <2>1, <2>2
  <2>4. k - 1 \in D
    BY <2>1, <2>3
  <2> QED
    BY <1>2, <2>4
<1> QED
  BY <1>3

\* The layer that FindLayerByPosition finds is in the stack.
LEMMA FoundInStack ==
  ASSUME NEW m, Layered(m), NEW p
  PROVE  \/ FindLayerByPosition(m, p) = None
         \/ FindLayerByPosition(m, p) \in LayerIds /\ InStack(m, FindLayerByPosition(m, p))
<1> DEFINE at == {i \in DOMAIN m.stack : m.stack[i] # Cursor /\ p \in Extent(m, m.stack[i])}
           top == CHOOSE i \in at : \A j \in at : j <= i
<1>1. m.stack \in Seq(LayerIds) /\ DOMAIN m.stack = 1..Len(m.stack) /\ Len(m.stack) \in Nat
  BY DEF Layered
<1>2. FindLayerByPosition(m, p) = IF at = {} THEN None ELSE m.stack[top]
  BY DEF FindLayerByPosition
<1>3. CASE at # {}
  <2>1. at \subseteq 0..Len(m.stack)
    BY <1>1
  <2>2. \E i \in at : \A j \in at : j <= i
    <3> HIDE DEF at
    <3> QED
      BY <1>1, <1>3, <2>1, GreatestMember
  <2>3. top \in at
    <3> HIDE DEF at
    <3> QED
      BY <2>2
  <2> QED
    <3>1. top \in DOMAIN m.stack
      BY <2>3
    <3> HIDE DEF top, at
    <3>2. FindLayerByPosition(m, p) = m.stack[top]
      BY <1>2, <1>3
    <3>3. m.stack[top] \in LayerIds
      BY <1>1, <3>1
    <3> QED
      BY <3>1, <3>2, <3>3 DEF InStack
<1> QED
  BY <1>2, <1>3

-----------------------------------------------------------------------------
(* What is shown at a pixel.                                               *)

\* The layer on top at pixel p.
IsTop(m, x, p) == /\ InStack(m, x) /\ p \in Inked(m, x)
                  /\ \A y : Under(m.stack, x, y) => p \notin Inked(m, y)

\* c is what should be seen there.
Fresh(m, c, p) == \E x : IsTop(m, x, p) /\ c = Picture(m, x, p)

\* c may be seen there: with D the windows whose ink is not drawn yet, G the ones that have
\* left remains, and mv if the cursor is drawn.
Shows(m, c, p, D, G, mv) ==
  \/ c[1] \in G
  \/ \E x : /\ IsTop(m, x, p)
            /\ \/ c = Picture(m, x, p)
               \/ x \in D /\ Sub(p, m.pos[x]) = InkAt /\ c \in {<<x, "ink", 0>>, <<x, "ink", 1>>}
               \/ ~ mv /\ x = Cursor

\* DrawLayer copies from back_buffer_ what it has not painted: that has to be right too.
FreshAt(m, p) == Fresh(m, m.back[p], p) /\ Fresh(m, m.screen[p], p)
RightAt(m, p, D, G, mv) == Shows(m, m.back[p], p, D, G, mv) /\ Shows(m, m.screen[p], p, D, G, mv)
Composed(m, D, G, mv) == \A p \in Pixels : RightAt(m, p, D, G, mv)

\* The desktop is everywhere, and nothing lies on the cursor.
CursorLast(s) == \A i \in DOMAIN s : s[i] = Cursor => i = Len(s)
Grounded(m) == /\ Layered(m) /\ Once(m.stack) /\ CursorLast(m.stack)
               /\ InStack(m, Back) /\ m.pos[Back] = <<0, 0>>

\* A layer from height `from' up has ink there.
Covered(m, from, p) == \E i \in DOMAIN m.stack : from < i /\ p \in Inked(m, m.stack[i])

LEMMA PaintAt ==
  ASSUME NEW m, Grounded(m), NEW from \in Nat, NEW area, NEW p \in Pixels, NEW n, n = Paint(m, from, area)
  PROVE  /\ n.back[p] = m.back[p] \/ Fresh(m, n.back[p], p)
         /\ p \in area /\ Covered(m, from, p) => Fresh(m, n.back[p], p)
<1> DEFINE s == m.stack
           c == {i \in from + 1 .. Len(s) : /\ p \in Inked(m, s[i])
                                            /\ p \in area \/ s[i] = Cursor}
           t == CHOOSE i \in c : \A j \in c : j <= i
<1>1. s \in Seq(LayerIds) /\ DOMAIN s = 1..Len(s) /\ Len(s) \in Nat /\ Once(s) /\ CursorLast(s) /\ DOMAIN m = Fields
  BY DEF Grounded, Layered
<1>2. n.back[p] = IF c = {} THEN m.back[p] ELSE Picture(m, s[t], p)
  BY <1>1 DEF Paint, Fields
<1>3. ASSUME c # {} PROVE Fresh(m, n.back[p], p)
  <2>1. c \subseteq 0..Len(s)
    BY <1>1
  <2>2. \E i \in c : \A j \in c : j <= i
    <3> HIDE DEF c
    <3> QED
      BY <1>1, <1>3, <2>1, GreatestMember
  <2>3. t \in c /\ \A j \in c : j <= t
    <3> HIDE DEF c
    <3> QED
      BY <2>2
  <2> HIDE DEF t
  <2>4. t \in DOMAIN s /\ from < t /\ p \in Inked(m, s[t]) /\ (p \in area \/ s[t] = Cursor)
    BY <1>1, <2>3
  <2>5. ASSUME NEW y, Under(s, s[t], y), p \in Inked(m, y) PROVE FALSE
    <3>1. PICK i, j \in DOMAIN s : i < j /\ s[i] = s[t] /\ s[j] = y
      BY <2>5 DEF Under
    <3>2. i = t
      BY <1>1, <2>4, <3>1 DEF Once
    <3>3. t \in Nat /\ j \in Nat /\ j <= Len(s) /\ t < j
      BY <1>1, <2>4, <3>1, <3>2
    <3>4. CASE p \in area
      <4>1. j \in c
        BY <1>1, <2>4, <2>5, <3>1, <3>3, <3>4
      <4>2. j <= t
        <5> HIDE DEF c
        <5> QED
          BY <2>3, <4>1
      <4> QED
        BY <3>3, <4>2
    <3>5. CASE p \notin area
      <4>1. t = Len(s)
        BY <1>1, <2>4, <3>5 DEF CursorLast
      <4> QED
        BY <1>1, <3>3, <4>1
    <3> QED
      BY <3>4, <3>5
  <2>6. IsTop(m, s[t], p)
    BY <2>4, <2>5 DEF IsTop, InStack
  <2>7. n.back[p] = Picture(m, s[t], p)
    <3> HIDE DEF c
    <3> QED
      BY <1>2, <1>3
  <2> QED
    BY <2>6, <2>7 DEF Fresh
<1>4. p \in area /\ Covered(m, from, p) => c # {}
  <2> SUFFICES ASSUME p \in area, Covered(m, from, p) PROVE c # {}
    OBVIOUS
  <2>1. PICK i \in DOMAIN s : from < i /\ p \in Inked(m, s[i])
    BY DEF Covered
  <2>2. i \in from + 1 .. Len(s)
    BY <1>1, <2>1
  <2>3. i \in c
    BY <2>1, <2>2
  <2> QED
    BY <2>3
<1>5. c = {} => n.back[p] = m.back[p]
  <2> HIDE DEF c
  <2> QED
    BY <1>2
<1> QED
  BY <1>3, <1>4, <1>5

LEMMA CopyAt ==
  ASSUME NEW m, DOMAIN m = Fields, NEW area, NEW p \in Pixels, NEW n, n = Copy(m, area)
  PROVE  n.back[p] = m.back[p] /\ n.screen[p] = IF p \in area THEN m.back[p] ELSE m.screen[p]
BY DEF Copy, Fields

LEMMA TopSame ==
  ASSUME NEW m, NEW n, Redrawn(m, n), NEW x, NEW p
  PROVE  (IsTop(m, x, p) <=> IsTop(n, x, p)) /\ Picture(m, x, p) = Picture(n, x, p)
BY DEF Redrawn, IsTop, Picture, Inked, InStack

LEMMA FreshSame ==
  ASSUME NEW m, NEW n, Redrawn(m, n), NEW c, NEW p, Fresh(m, c, p)
  PROVE  Fresh(n, c, p)
<1>1. PICK x : IsTop(m, x, p) /\ c = Picture(m, x, p)
  BY DEF Fresh
<1>2. IsTop(n, x, p) /\ c = Picture(n, x, p)
  BY <1>1, TopSame
<1> QED
  BY <1>2 DEF Fresh

LEMMA GroundedSame ==
  ASSUME NEW m, NEW n, Redrawn(m, n), Grounded(m)
  PROVE  Grounded(n)
BY DEF Redrawn, Grounded, Layered, InStack

\* From m to n nothing becomes worse at a pixel.
Better(m, n, p) == /\ n.back[p] \in {m.back[p], m.screen[p]} \/ Fresh(n, n.back[p], p)
                   /\ n.screen[p] \in {m.back[p], m.screen[p]} \/ Fresh(n, n.screen[p], p)

\* Painting and copying an area.
LEMMA PaintCopyAt ==
  ASSUME NEW m, Grounded(m), NEW from \in Nat, NEW area, NEW p \in Pixels,
         NEW n, n = Copy(Paint(m, from, area), area)
  PROVE  /\ Redrawn(m, n) /\ Grounded(n) /\ Better(m, n, p)
         /\ p \in area /\ Covered(m, from, p) => FreshAt(n, p)
<1>0. DOMAIN m = Fields
  BY DEF Grounded, Layered
<1> PICK a : a = Paint(m, from, area)
  OBVIOUS
<1>1. Redrawn(m, a) /\ a.screen = m.screen
  BY <1>0, Painted
<1>2. DOMAIN a = Fields /\ n = Copy(a, area)
  BY <1>0, <1>1 DEF Redrawn
<1>3. Redrawn(a, n)
  BY <1>2, Copied
<1>4. Redrawn(m, n)
  BY <1>1, <1>3 DEF Redrawn
<1>5. Grounded(n)
  BY <1>4, GroundedSame
<1>6. n.back[p] = a.back[p] /\ n.screen[p] = IF p \in area THEN a.back[p] ELSE m.screen[p]
  <2>1. n.back[p] = a.back[p] /\ n.screen[p] = IF p \in area THEN a.back[p] ELSE a.screen[p]
    BY <1>2, CopyAt
  <2> QED
    BY <1>1, <2>1
<1>7. a.back[p] = m.back[p] \/ Fresh(m, a.back[p], p)
  BY PaintAt
<1>8. p \in area /\ Covered(m, from, p) => Fresh(m, a.back[p], p)
  BY PaintAt
<1>9. Fresh(m, a.back[p], p) => Fresh(n, a.back[p], p)
  BY <1>4, FreshSame
<1>10. Better(m, n, p)
  BY <1>6, <1>7, <1>9 DEF Better
<1>11. p \in area /\ Covered(m, from, p) => FreshAt(n, p)
  BY <1>6, <1>8, <1>9 DEF FreshAt
<1> QED
  BY <1>4, <1>5, <1>10, <1>11

LEMMA DrawAt ==
  ASSUME NEW m, Grounded(m), NEW area, NEW p \in Pixels, NEW n, n = Draw(m, area)
  PROVE  /\ Redrawn(m, n) /\ Grounded(n) /\ Better(m, n, p)
         /\ p \in area => FreshAt(n, p)
<1>1. Covered(m, 0, p)
  <2>1. PICK i \in DOMAIN m.stack : m.stack[i] = Back
    BY DEF Grounded, InStack
  <2>2. 0 < i
    BY DEF Grounded, Layered
  <2>3. Inked(m, Back) = Pixels
    BY Distinct DEF Grounded, Inked, Size, Pixels
  <2> QED
    BY <2>1, <2>2, <2>3 DEF Covered
<1>2. n = Copy(Paint(m, 0, area), area) /\ 0 \in Nat
  BY DEF Draw
<1>3. /\ Redrawn(m, n) /\ Grounded(n) /\ Better(m, n, p)
      /\ p \in area /\ Covered(m, 0, p) => FreshAt(n, p)
  BY <1>2, PaintCopyAt
<1> QED
  BY <1>1, <1>3

LEMMA InkedInExtent ==
  ASSUME NEW m, Layered(m), NEW id \in LayerIds
  PROVE  Inked(m, id) \subseteq Extent(m, id) /\ (id # Cursor => Inked(m, id) = Extent(m, id))
<1>1. CASE id # Cursor
  BY <1>1 DEF Inked, Extent
<1>2. CASE id = Cursor
  <2>1. Size(id) = <<2, 1>> /\ m.pos[id] \in Int \X Int
    BY <1>2, Distinct DEF Size, Layered
  <2>2. Rect(m.pos[id], <<1, 1>>) \subseteq Rect(m.pos[id], <<2, 1>>)
    BY <2>1 DEF Rect
  <2> QED
    BY <1>2, <2>1, <2>2 DEF Inked, Extent, CursorInk
<1> QED
  BY <1>1, <1>2

LEMMA DrawLayerAt ==
  ASSUME NEW m, Grounded(m), NEW id \in LayerIds, NEW area, NEW junk, NEW p \in Pixels,
         NEW n, n = DrawLayer(m, id, area, junk)
  PROVE  /\ Redrawn(m, n) /\ Grounded(n) /\ Better(m, n, p)
         /\ p \in area /\ InStack(m, id) /\ p \in Inked(m, id) => FreshAt(n, p)
<1>0. Layered(m) /\ DOMAIN m = Fields
  BY DEF Grounded, Layered
<1>1. CASE ~ InStack(m, id)
  <2>1. n = Copy(m, junk)
    BY <1>1 DEF DrawLayer
  <2>2. Redrawn(m, n)
    BY <1>0, <2>1, Copied
  <2>3. Grounded(n)
    BY <2>2, GroundedSame
  <2>4. n.back[p] = m.back[p] /\ n.screen[p] = IF p \in junk THEN m.back[p] ELSE m.screen[p]
    BY <1>0, <2>1, CopyAt
  <2> QED
    BY <1>1, <2>2, <2>3, <2>4 DEF Better
<1>2. CASE InStack(m, id)
  <2> PICK w, h : w = Extent(m, id) \cap area /\ h = HeightOf(m, id)
    OBVIOUS
  <2>1. n = Copy(Paint(m, h, w), w)
    BY <1>2 DEF DrawLayer
  <2>2. h \in Nat /\ h + 1 \in DOMAIN m.stack /\ m.stack[h + 1] = id
    BY <1>0, <1>2, HeightFacts
  <2>3. /\ Redrawn(m, n) /\ Grounded(n) /\ Better(m, n, p)
        /\ p \in w /\ Covered(m, h, p) => FreshAt(n, p)
    BY <2>1, <2>2, PaintCopyAt
  <2>4. p \in Inked(m, id) => Covered(m, h, p)
    BY <2>2 DEF Covered
  <2>5. p \in area /\ p \in Inked(m, id) => p \in w
    BY <1>0, InkedInExtent
  <2> QED
    BY <2>3, <2>4, <2>5
<1> QED
  BY <1>1, <1>2

\* The layer on top at p stays there and looks the same.
SameTop(m, n, p) ==
  \A x : IsTop(m, x, p) => IsTop(n, x, p) /\ Picture(n, x, p) = Picture(m, x, p) /\ n.pos[x] = m.pos[x]

LEMMA RedrawnTop ==
  ASSUME NEW m, NEW n, Redrawn(m, n), NEW p
  PROVE  SameTop(m, n, p)
<1> SUFFICES ASSUME NEW x, IsTop(m, x, p)
             PROVE  IsTop(n, x, p) /\ Picture(n, x, p) = Picture(m, x, p) /\ n.pos[x] = m.pos[x]
  BY DEF SameTop
<1>1. n.pos = m.pos
  BY DEF Redrawn
<1> QED
  BY <1>1, TopSame

LEMMA SameTopTransitive ==
  ASSUME NEW a, NEW b, NEW c, NEW p, SameTop(a, b, p), SameTop(b, c, p)
  PROVE  SameTop(a, c, p)
BY DEF SameTop

LEMMA FreshShows ==
  ASSUME NEW m, NEW c, NEW p, NEW D, NEW G, NEW mv, Fresh(m, c, p)
  PROVE  Shows(m, c, p, D, G, mv)
BY DEF Fresh, Shows

LEMMA StillShows ==
  ASSUME NEW m, NEW n, NEW c, NEW p, NEW D, NEW G, NEW mv, SameTop(m, n, p), Shows(m, c, p, D, G, mv)
  PROVE  Shows(n, c, p, D, G, mv)
<1>1. CASE c[1] \in G
  BY <1>1 DEF Shows
<1>2. CASE c[1] \notin G
  <2>1. PICK x : /\ IsTop(m, x, p)
                 /\ \/ c = Picture(m, x, p)
                    \/ x \in D /\ Sub(p, m.pos[x]) = InkAt /\ c \in {<<x, "ink", 0>>, <<x, "ink", 1>>}
                    \/ ~ mv /\ x = Cursor
    BY <1>2 DEF Shows
  <2>2. IsTop(n, x, p) /\ Picture(n, x, p) = Picture(m, x, p) /\ n.pos[x] = m.pos[x]
    BY <2>1 DEF SameTop
  <2> QED
    BY <2>1, <2>2 DEF Shows
<1> QED
  BY <1>1, <1>2

LEMMA StillRight ==
  ASSUME NEW m, NEW n, NEW p, NEW D, NEW G, NEW mv, SameTop(m, n, p), Better(m, n, p), RightAt(m, p, D, G, mv)
  PROVE  RightAt(n, p, D, G, mv)
<1>1. Shows(n, m.back[p], p, D, G, mv) /\ Shows(n, m.screen[p], p, D, G, mv)
  BY StillShows DEF RightAt
<1>2. Shows(n, n.back[p], p, D, G, mv)
  <2>1. CASE Fresh(n, n.back[p], p)
    BY <2>1, FreshShows
  <2>2. CASE ~ Fresh(n, n.back[p], p)
    BY <1>1, <2>2 DEF Better
  <2> QED
    BY <2>1, <2>2
<1>3. Shows(n, n.screen[p], p, D, G, mv)
  <2>1. CASE Fresh(n, n.screen[p], p)
    BY <2>1, FreshShows
  <2>2. CASE ~ Fresh(n, n.screen[p], p)
    BY <1>1, <2>2 DEF Better
  <2> QED
    BY <2>1, <2>2
<1> QED
  BY <1>2, <1>3 DEF RightAt

LEMMA FreshRight ==
  ASSUME NEW m, NEW p, NEW D, NEW G, NEW mv, FreshAt(m, p)
  PROVE  RightAt(m, p, D, G, mv)
BY FreshShows DEF FreshAt, RightAt

\* Where id is on top it is shown as it is: id need not be excepted any more.
LEMMA Cleared ==
  ASSUME NEW m, NEW p, NEW D, NEW G, NEW mv, RightAt(m, p, D, G, mv), NEW id,
         IsTop(m, id, p) => FreshAt(m, p)
  PROVE  RightAt(m, p, D \ {id}, G, mv) /\ (id = Cursor => RightAt(m, p, D, G, TRUE))
<1>1. CASE IsTop(m, id, p)
  <2>1. FreshAt(m, p)
    BY <1>1
  <2>2. RightAt(m, p, D \ {id}, G, mv)
    BY <2>1, FreshRight
  <2>3. RightAt(m, p, D, G, TRUE)
    BY <2>1, FreshRight
  <2> QED
    BY <2>2, <2>3
<1>2. CASE ~ IsTop(m, id, p)
  BY <1>2 DEF RightAt, Shows
<1> QED
  BY <1>1, <1>2

LEMMA GroundedStacked ==
  ASSUME NEW m, NEW A, Stacked(m, A), m.pos[Back] = <<0, 0>>
  PROVE  Grounded(m)
<1>1. Layered(m) /\ Once(m.stack) /\ Ends(m.stack) /\ DOMAIN m.stack = 1..Len(m.stack) /\ Len(m.stack) \in Nat
  BY DEF Stacked, Layered
<1>2. 1 \in DOMAIN m.stack /\ Len(m.stack) \in DOMAIN m.stack
  BY <1>1 DEF Ends
<1> QED
  BY <1>1, <1>2 DEF Grounded, CursorLast, InStack, Ends, Once

\* From m to n only the layer id has been changed, and nothing has been drawn.
OnlyDiffers(m, n, id) ==
  /\ n.back = m.back /\ n.screen = m.screen
  /\ \A x \in LayerIds \ {id} : /\ n.pos[x] = m.pos[x] /\ n.look[x] = m.look[x]
                                /\ InStack(m, x) => InStack(n, x)
  /\ OthersLie(n.stack, m.stack, id)

LEMMA Elsewhere ==
  ASSUME NEW m, NEW n, Layered(m), Layered(n), NEW id, OnlyDiffers(m, n, id), NEW p,
         InStack(m, id) => p \notin Inked(m, id), InStack(n, id) => p \notin Inked(n, id),
         NEW D, NEW G, NEW mv, RightAt(m, p, D, G, mv)
  PROVE  RightAt(n, p, D, G, mv)
<1>1. ASSUME NEW x, IsTop(m, x, p)
      PROVE  IsTop(n, x, p) /\ Picture(n, x, p) = Picture(m, x, p) /\ n.pos[x] = m.pos[x]
  <2>1. x # id /\ x \in LayerIds /\ InStack(m, x)
    BY <1>1 DEF IsTop, InStack, Layered
  <2>2. n.pos[x] = m.pos[x] /\ n.look[x] = m.look[x] /\ InStack(n, x)
    BY <2>1 DEF OnlyDiffers
  <2>3. p \in Inked(n, x)
    BY <1>1, <2>2 DEF IsTop, Inked
  <2>4. ASSUME NEW y, Under(n.stack, x, y), p \in Inked(n, y) PROVE FALSE
    <3>1. InStack(n, y)
      BY <2>4 DEF Under, InStack
    <3>2. y # id /\ y \in LayerIds
      BY <2>4, <3>1 DEF InStack, Layered
    <3>3. Under(m.stack, x, y)
      BY <2>1, <2>4, <3>2 DEF OnlyDiffers, OthersLie
    <3>4. p \in Inked(m, y)
      BY <2>4, <3>2 DEF OnlyDiffers, Inked
    <3> QED
      BY <1>1, <3>3, <3>4 DEF IsTop
  <2>5. Picture(n, x, p) = Picture(m, x, p)
    BY <2>2 DEF Picture
  <2> QED
    BY <2>2, <2>3, <2>4, <2>5 DEF IsTop
<1>2. SameTop(m, n, p)
  BY <1>1 DEF SameTop
<1>3. Better(m, n, p)
  BY DEF OnlyDiffers, Better
<1> QED
  BY <1>2, <1>3, StillRight

\* All is right but where the layer id is.
ComposedBut(m, id, D, G, mv) == \A p \in Pixels \ Inked(m, id) : RightAt(m, p, D, G, mv)

LEMMA WholeComposed ==
  ASSUME NEW m, Grounded(m), NEW id \in LayerIds, InStack(m, id), NEW D, NEW G, NEW mv,
         ComposedBut(m, id, D, G, mv), NEW n, n = DrawWhole(m, id)
  PROVE  Composed(n, D \ {id}, G, mv)
<1> SUFFICES ASSUME NEW p \in Pixels PROVE RightAt(n, p, D \ {id}, G, mv)
  BY DEF Composed
<1> PICK area : area = Extent(m, id)
  OBVIOUS
<1>1. n = DrawLayer(m, id, area, {})
  BY DEF DrawWhole
<1>2. /\ Redrawn(m, n) /\ Better(m, n, p)
      /\ p \in area /\ InStack(m, id) /\ p \in Inked(m, id) => FreshAt(n, p)
  BY <1>1, DrawLayerAt
<1>3. p \in Inked(m, id) => p \in area
  BY InkedInExtent DEF Grounded
<1>4. CASE p \in Inked(m, id)
  <2>1. FreshAt(n, p)
    BY <1>2, <1>3, <1>4
  <2> QED
    BY <2>1, FreshRight
<1>5. CASE p \notin Inked(m, id)
  <2>1. RightAt(m, p, D, G, mv)
    BY <1>5 DEF ComposedBut
  <2>2. SameTop(m, n, p)
    BY <1>2, RedrawnTop
  <2>3. RightAt(n, p, D, G, mv)
    BY <1>2, <2>1, <2>2, StillRight
  <2>4. ~ IsTop(n, id, p)
    BY <1>2, <1>5, TopSame DEF IsTop
  <2> QED
    BY <2>3, <2>4, Cleared
<1> QED
  BY <1>4, <1>5

LEMMA MoveComposed ==
  ASSUME NEW m, Grounded(m), NEW id \in LayerIds \ {Back}, NEW new \in Int \X Int, NEW junk,
         NEW D, NEW G, NEW mv, Composed(m, D, G, mv), NEW n, n = Move(m, id, new, junk)
  PROVE  /\ Grounded(n) /\ Composed(n, D \ {id}, G, mv)
         /\ id = Cursor => Composed(n, D, G, TRUE)
<1> PICK there : there = [m EXCEPT !.pos[id] = new]
  OBVIOUS
<1> PICK a : a = Draw(there, Extent(m, id))
  OBVIOUS
<1>0. n = DrawLayer(a, id, Extent(there, id), junk)
  BY DEF Move
<1>1. Layered(m) /\ DOMAIN m = Fields
  BY DEF Grounded, Layered
<1>2. /\ DOMAIN there = Fields /\ there.stack = m.stack /\ there.look = m.look
      /\ there.pos = [m.pos EXCEPT ![id] = new] /\ there.back = m.back /\ there.screen = m.screen
  BY <1>1, PutPos
<1>3. Grounded(there)
  <2>1. there.pos \in [LayerIds -> Int \X Int] /\ there.pos[Back] = m.pos[Back]
    BY <1>1, <1>2 DEF Layered, LayerIds
  <2> QED
    BY <1>1, <1>2, <2>1 DEF Grounded, Layered, InStack
<1>4. Layered(there) /\ OnlyDiffers(m, there, id)
  <2>1. \A x \in LayerIds \ {id} : there.pos[x] = m.pos[x]
    BY <1>1, <1>2 DEF Layered
  <2> QED
    BY <1>2, <1>3, <2>1 DEF Grounded, OnlyDiffers, OthersLie, InStack
<1>5. Redrawn(there, a) /\ Grounded(a)
  <2>1. <<0, 0>> \in Pixels
    BY Geometry DEF Pixels, Rect, ScreenSize
  <2> QED
    BY <1>3, <2>1, DrawAt
<1>6. Redrawn(a, n)
  BY <1>0, <1>5, DrawnLayerSame DEF Grounded, Layered
<1>7. Grounded(n)
  BY <1>5, <1>6, GroundedSame
<1>8. InStack(m, id) <=> InStack(there, id)
  BY <1>2 DEF InStack
<1>9. InStack(a, id) <=> InStack(there, id)
  BY <1>5 DEF Redrawn, InStack
<1>10. Inked(a, id) = Inked(there, id)
  BY <1>5 DEF Redrawn, Inked
<1>11. ASSUME NEW p \in Pixels
       PROVE  /\ RightAt(n, p, D, G, mv)
              /\ IsTop(n, id, p) => FreshAt(n, p)
  <2>1. /\ Better(there, a, p)
        /\ p \in Extent(m, id) => FreshAt(a, p)
    BY <1>3, DrawAt
  <2>2. /\ Better(a, n, p)
        /\ p \in Extent(there, id) /\ InStack(a, id) /\ p \in Inked(a, id) => FreshAt(n, p)
    BY <1>0, <1>5, DrawLayerAt
  <2>3. SameTop(there, a, p) /\ SameTop(a, n, p)
    BY <1>5, <1>6, RedrawnTop
  <2>4. InStack(a, id) /\ p \in Inked(a, id) => FreshAt(n, p)
    BY <1>4, <1>10, <2>2, InkedInExtent
  <2>5. IsTop(n, id, p) => FreshAt(n, p)
    BY <1>6, <2>4, TopSame DEF IsTop
  <2>6. CASE InStack(m, id) /\ p \in Inked(m, id)
    <3>1. p \in Extent(m, id)
      BY <1>1, <2>6, InkedInExtent
    <3>2. RightAt(a, p, D, G, mv)
      BY <2>1, <3>1, FreshRight
    <3> QED
      BY <2>2, <2>3, <2>5, <3>2, StillRight
  <2>7. CASE InStack(a, id) /\ p \in Inked(a, id)
    BY <2>4, <2>7, FreshRight
  <2>8. CASE ~ (InStack(m, id) /\ p \in Inked(m, id)) /\ ~ (InStack(a, id) /\ p \in Inked(a, id))
    <3>1. RightAt(m, p, D, G, mv)
      BY DEF Composed
    <3>2. RightAt(there, p, D, G, mv)
      BY <1>1, <1>4, <1>9, <1>10, <2>8, <3>1, Elsewhere
    <3>3. RightAt(a, p, D, G, mv)
      BY <2>1, <2>3, <3>2, StillRight
    <3> QED
      BY <2>2, <2>3, <2>5, <3>3, StillRight
  <2> QED
    BY <2>6, <2>7, <2>8
<1>12. ASSUME NEW p \in Pixels
       PROVE  RightAt(n, p, D \ {id}, G, mv) /\ (id = Cursor => RightAt(n, p, D, G, TRUE))
  BY <1>11, Cleared
<1> QED
  BY <1>7, <1>12 DEF Composed

LEMMA NoneNotTop ==
  ASSUME NEW m, Layered(m), NEW p
  PROVE  ~ IsTop(m, None, p)
BY Distinct DEF IsTop, InStack, Layered

LEMMA ActiveDiffers ==
  ASSUME NEW m, NEW A, Stacked(m, A), NEW id \in Toplevels, NEW on \in BOOLEAN, NEW n, n = SetActive(m, id, on)
  PROVE  Stacked(n, A) /\ n.stack = m.stack /\ n.pos = m.pos /\ OnlyDiffers(m, n, id)
<1>1. Layered(m) /\ id \in LayerIds
  BY DEF Stacked, LayerIds
<1>2. /\ Layered(n) /\ n.stack = m.stack /\ n.pos = m.pos /\ n.back = m.back /\ n.screen = m.screen
      /\ n.look = [m.look EXCEPT ![id] = [m.look[id] EXCEPT !.active = on]]
  BY <1>1, PutActive
<1>3. \A x \in LayerIds \ {id} : n.look[x] = m.look[x]
  BY <1>1, <1>2 DEF Layered
<1>4. OnlyDiffers(m, n, id)
  BY <1>2, <1>3 DEF OnlyDiffers, OthersLie, InStack
<1> QED
  BY <1>2, <1>4 DEF Stacked, InStack

LEMMA RaisedDiffers ==
  ASSUME NEW m, NEW A, Stacked(m, A), NEW id \in Toplevels, NEW n, n = Raise(SetActive(m, id, TRUE), id)
  PROVE  Stacked(n, A \cup {id}) /\ n.pos = m.pos /\ OnlyDiffers(m, n, id)
<1> PICK on : on = SetActive(m, id, TRUE)
  OBVIOUS
<1>1. Stacked(on, A) /\ on.stack = m.stack /\ on.pos = m.pos /\ OnlyDiffers(m, on, id)
  BY ActiveDiffers, ZenonT(40)
<1>2. Stacked(n, A \cup {id}) /\ SameDrawing(on, n) /\ OthersLie(n.stack, on.stack, id)
  BY <1>1, Raised
<1>3. \A x \in LayerIds : InStack(m, x) => InStack(n, x)
  BY <1>2 DEF Stacked
<1>4. OnlyDiffers(m, n, id)
  BY <1>1, <1>2, <1>3 DEF OnlyDiffers, SameDrawing
<1> QED
  BY <1>1, <1>2, <1>4 DEF SameDrawing

LEMMA ActivatedComposed ==
  ASSUME NEW m, NEW A, Stacked(m, A), m.pos[Back] = <<0, 0>>,
         NEW old \in (Toplevels \cap A) \cup {None}, NEW id \in Toplevels \cup {None},
         NEW D, NEW G, NEW mv, Composed(m, D, G, mv), NEW n, n = Activated(m, old, id)
  PROVE  Composed(n, IF old = id THEN D ELSE D \ {old, id}, G, mv)
<1>0. /\ Grounded(m) /\ Toplevels \subseteq LayerIds /\ None \notin LayerIds
      /\ Back \notin Toplevels
  BY GroundedStacked, Distinct DEF LayerIds, Toplevels, Windows
<1> PICK off0 : off0 = SetActive(m, old, FALSE)
  OBVIOUS
<1> PICK off : off = IF old = None THEN m ELSE DrawWhole(off0, old)
  OBVIOUS
<1> PICK up : up = Raise(SetActive(off, id, TRUE), id)
  OBVIOUS
<1>1. n = IF old = id THEN m ELSE IF id = None THEN off ELSE DrawWhole(up, id)
  BY DEF Activated, Deactivated, BroughtUp, Raise
<1>2. CASE old = id
  BY <1>1, <1>2
<1>3. Stacked(off, A) /\ off.pos = m.pos /\ Composed(off, D \ {old}, G, mv)
  <2>1. CASE old = None
    <3>1. off = m
      BY <2>1
    <3>2. ASSUME NEW p \in Pixels PROVE RightAt(off, p, D \ {None}, G, mv)
      <4>1. ~ IsTop(m, None, p)
        BY NoneNotTop DEF Stacked
      <4>2. RightAt(m, p, D, G, mv)
        BY DEF Composed
      <4> QED
        BY <3>1, <4>1, <4>2, Cleared
    <3> QED
      BY <2>1, <3>1, <3>2 DEF Composed
  <2>2. CASE old # None
    <3>1. off = DrawWhole(off0, old) /\ old \in Toplevels /\ old \in A /\ old \in LayerIds
      BY <1>0, <2>2
    <3>2. Stacked(off0, A) /\ off0.stack = m.stack /\ off0.pos = m.pos
      BY <3>1, ActiveDiffers, ZenonT(40)
    <3>4. OnlyDiffers(m, off0, old)
      BY <3>1, ActiveDiffers
    <3>5. Grounded(off0)
      BY <3>2, GroundedStacked
    <3>6. InStack(off0, old)
      BY <3>1, <3>2 DEF Stacked
    <3>7. Inked(off0, old) = Inked(m, old)
      BY <3>2 DEF Inked
    <3>8. ComposedBut(off0, old, D, G, mv)
      <4> SUFFICES ASSUME NEW p \in Pixels \ Inked(off0, old) PROVE RightAt(off0, p, D, G, mv)
        BY DEF ComposedBut
      <4>1. RightAt(m, p, D, G, mv) /\ Layered(m) /\ Layered(off0)
        BY <3>2 DEF Composed, Stacked
      <4> QED
        BY <3>4, <3>7, <4>1, Elsewhere
    <3>9. Composed(off, D \ {old}, G, mv)
      BY <3>1, <3>5, <3>6, <3>8, WholeComposed
    <3>10. Redrawn(off0, off) /\ Stacked(off, A)
      BY <3>1, <3>2, WholeSame
    <3> QED
      BY <3>2, <3>9, <3>10 DEF Redrawn
  <2> QED
    BY <2>1, <2>2
<1>4. CASE old # id /\ id = None
  <2>1. n = off
    BY <1>1, <1>4
  <2>2. ASSUME NEW p \in Pixels PROVE RightAt(off, p, (D \ {old}) \ {None}, G, mv)
    <3>1. ~ IsTop(off, None, p)
      BY <1>3, NoneNotTop DEF Stacked
    <3>2. RightAt(off, p, D \ {old}, G, mv)
      BY <1>3 DEF Composed
    <3> QED
      BY <3>1, <3>2, Cleared
  <2>3. (D \ {old}) \ {None} = D \ {old, id}
    BY <1>4
  <2> QED
    BY <1>4, <2>1, <2>2, <2>3 DEF Composed
<1>5. CASE old # id /\ id # None
  <2>1. n = DrawWhole(up, id) /\ id \in Toplevels /\ id \in LayerIds
    BY <1>0, <1>1, <1>5
  <2>2. Stacked(up, A \cup {id}) /\ up.pos = off.pos
    <3>1. Stacked(up, A \cup {id})
      BY <1>3, <2>1, RaisedDiffers
    <3>2. up.pos = off.pos
      BY <1>3, <2>1, RaisedDiffers, ZenonT(40)
    <3> QED
      BY <3>1, <3>2
  <2>3. OnlyDiffers(off, up, id)
    BY <1>3, <2>1, RaisedDiffers
  <2>7. Grounded(up)
    BY <1>3, <2>2, GroundedStacked
  <2>8. InStack(up, id)
    BY <2>1, <2>2 DEF Stacked
  <2>9. Inked(up, id) = Inked(off, id)
    BY <2>2 DEF Inked
  <2>10. ComposedBut(up, id, D \ {old}, G, mv)
    <3> SUFFICES ASSUME NEW p \in Pixels \ Inked(up, id) PROVE RightAt(up, p, D \ {old}, G, mv)
      BY DEF ComposedBut
    <3>1. RightAt(off, p, D \ {old}, G, mv) /\ Layered(off) /\ Layered(up)
      BY <1>3, <2>2 DEF Composed, Stacked
    <3> QED
      BY <2>3, <2>9, <3>1, Elsewhere
  <2>11. Composed(n, (D \ {old}) \ {id}, G, mv)
    BY <2>1, <2>7, <2>8, <2>10, WholeComposed
  <2>12. (D \ {old}) \ {id} = D \ {old, id}
    OBVIOUS
  <2> QED
    BY <1>5, <2>11, <2>12
<1> QED
  BY <1>2, <1>4, <1>5

LEMMA TopUnique ==
  ASSUME NEW m, Layered(m), Once(m.stack), NEW p, NEW x, NEW y, IsTop(m, x, p), IsTop(m, y, p)
  PROVE  x = y
<1>1. PICK i \in DOMAIN m.stack : m.stack[i] = x
  BY DEF IsTop, InStack
<1>2. PICK j \in DOMAIN m.stack : m.stack[j] = y
  BY DEF IsTop, InStack
<1>3. i \in Int /\ j \in Int
  BY DEF Layered
<1>4. ~ (i < j)
  BY <1>1, <1>2 DEF IsTop, Under
<1>5. ~ (j < i)
  BY <1>1, <1>2 DEF IsTop, Under
<1> QED
  BY <1>1, <1>2, <1>3, <1>4, <1>5

\* More windows may be excepted.
LEMMA MoreExcepted ==
  ASSUME NEW m, NEW D, NEW G, NEW mv, Composed(m, D, G, mv), NEW E, NEW H, D \subseteq E, G \subseteq H
  PROVE  Composed(m, E, H, mv)
BY DEF Composed, RightAt, Shows

LEMMA RemovedComposed ==
  ASSUME NEW m, NEW A, Stacked(m, A), m.pos[Back] = <<0, 0>>, NEW w \in Windows, NEW pos,
         NEW D, NEW G, NEW mv, Composed(m, D, G, mv), NEW H, G \subseteq H,
         m.pos[w] = pos \/ w \in H, NEW n, n = Removed(m, w, pos)
  PROVE  Composed(n, D \ {w}, H, mv)
<1>0. /\ w \in Toplevels /\ w \in LayerIds /\ w # Back /\ w # Cursor /\ Layered(m) /\ Once(m.stack)
  BY Distinct DEF Stacked, LayerIds, Toplevels
<1> PICK h : h = Hide(m, w)
  OBVIOUS
<1> PICK r : r = [h EXCEPT !.pos[w] = <<0, 0>>, !.look[w] = NewWindow]
  OBVIOUS
<1>1. Stacked(h, A \ {w})
  BY <1>0, HiddenStacked
<1>2. /\ Layered(h) /\ SameDrawing(m, h)
      /\ \A x : InStack(h, x) <=> InStack(m, x) /\ x # w
      /\ \A x, y : Under(h.stack, x, y) => Under(m.stack, x, y)
  BY <1>0, HiddenFacts
<1>3. /\ DOMAIN r = Fields /\ r.stack = h.stack /\ r.pos = [h.pos EXCEPT ![w] = <<0, 0>>]
      /\ r.look = [h.look EXCEPT ![w] = NewWindow] /\ r.back = h.back /\ r.screen = h.screen
  BY <1>2 DEF Layered, Fields
<1>4. Layered(r)
  <2>1. NewWindow \in Looks /\ <<0, 0>> \in Int \X Int
    BY DEF NewWindow, Looks
  <2> QED
    BY <1>0, <1>2, <1>3, <2>1 DEF Layered
<1>5. Stacked(r, A \ {w})
  BY <1>1, <1>3, <1>4 DEF Stacked, InStack
<1>6. Grounded(r)
  <2>1. r.pos[Back] = <<0, 0>>
    <3>1. h.pos \in [LayerIds -> Int \X Int] /\ h.pos = m.pos /\ Back \in LayerIds
      BY <1>2 DEF Layered, SameDrawing, LayerIds
    <3> QED
      BY <1>0, <1>3, <3>1
  <2> QED
    BY <1>5, <2>1, GroundedStacked
<1>7. OnlyDiffers(h, r, w) /\ ~ InStack(h, w) /\ ~ InStack(r, w)
  <2>1. \A x \in LayerIds \ {w} : r.pos[x] = h.pos[x] /\ r.look[x] = h.look[x]
    BY <1>2, <1>3 DEF Layered
  <2>2. ~ InStack(h, w) /\ ~ InStack(r, w)
    BY <1>2, <1>3 DEF InStack
  <2> QED
    BY <1>3, <2>1, <2>2 DEF OnlyDiffers, OthersLie, InStack
<1> PICK area : area = Rect(pos, Size(w))
  OBVIOUS
<1>8. n = Draw(r, area)
  <2>1. r = RemoveLayer(m, w)
    BY DEF RemoveLayer
  <2> QED
    BY <2>1 DEF Removed
<1>9. ASSUME NEW p \in Pixels PROVE RightAt(n, p, D, H, mv)
  <2>1. /\ Redrawn(r, n) /\ Better(r, n, p)
        /\ p \in area => FreshAt(n, p)
    BY <1>6, <1>8, DrawAt
  <2>2. SameTop(r, n, p)
    BY <2>1, RedrawnTop
  <2>3. RightAt(m, p, D, H, mv)
    BY MoreExcepted DEF Composed
  <2>4. CASE p \in area
    BY <2>1, <2>4, FreshRight
  <2>5. CASE ~ IsTop(m, w, p)
    <3>1. ASSUME NEW x, IsTop(m, x, p)
          PROVE  IsTop(h, x, p) /\ Picture(h, x, p) = Picture(m, x, p) /\ h.pos[x] = m.pos[x]
      <4>1. x # w /\ h.pos = m.pos /\ h.look = m.look
        BY <1>2, <2>5, <3>1 DEF SameDrawing
      <4>2. InStack(h, x) /\ p \in Inked(h, x)
        BY <1>2, <3>1, <4>1 DEF IsTop, Inked
      <4>3. \A y : Under(h.stack, x, y) => p \notin Inked(h, y)
        BY <1>2, <3>1, <4>1 DEF IsTop, Inked
      <4> QED
        BY <4>1, <4>2, <4>3 DEF IsTop, Picture
    <3>2. SameTop(m, h, p)
      BY <3>1 DEF SameTop
    <3>3. Better(m, h, p)
      BY <1>2 DEF SameDrawing, Better
    <3>4. RightAt(h, p, D, H, mv)
      BY <2>3, <3>2, <3>3, StillRight
    <3>5. RightAt(r, p, D, H, mv)
      BY <1>2, <1>4, <1>7, <3>4, Elsewhere
    <3> QED
      BY <2>1, <2>2, <3>5, StillRight
  <2>6. CASE IsTop(m, w, p) /\ p \notin area
    <3>1. w \in H
      <4>1. p \in Rect(m.pos[w], Size(w))
        BY <1>0, <2>6 DEF IsTop, Inked
      <4> QED
        BY <2>6, <4>1
    <3>2. ASSUME NEW c, Shows(m, c, p, D, H, mv) PROVE c[1] \in H
      <4>1. CASE c[1] \in H
        BY <4>1
      <4>2. CASE c[1] \notin H
        <5>1. PICK x : /\ IsTop(m, x, p)
                       /\ \/ c = Picture(m, x, p)
                          \/ /\ x \in D /\ Sub(p, m.pos[x]) = InkAt
                             /\ c \in {<<x, "ink", 0>>, <<x, "ink", 1>>}
                          \/ ~ mv /\ x = Cursor
          BY <3>2, <4>2 DEF Shows
        <5>2. x = w
          BY <1>0, <2>6, <5>1, TopUnique
        <5>3. CASE c = Picture(m, w, p)
          <6>1. c[1] = w
            BY <1>0, <5>3 DEF Picture
          <6> QED
            BY <3>1, <6>1
        <5>4. CASE c \in {<<w, "ink", 0>>, <<w, "ink", 1>>}
          BY <3>1, <5>4
        <5> QED
          BY <1>0, <5>1, <5>2, <5>3, <5>4
      <4> QED
        BY <4>1, <4>2
    <3>3. n.screen[p] = r.screen[p] \/ n.screen[p] = r.back[p] \/ Fresh(n, n.screen[p], p)
      BY <2>1 DEF Better
    <3>4. n.back[p] = r.screen[p] \/ n.back[p] = r.back[p] \/ Fresh(n, n.back[p], p)
      BY <2>1 DEF Better
    <3>5. r.screen = m.screen /\ r.back = m.back
      BY <1>2, <1>3 DEF SameDrawing
    <3>6. m.screen[p][1] \in H /\ m.back[p][1] \in H
      BY <2>3, <3>2 DEF RightAt
    <3>7. Shows(n, n.screen[p], p, D, H, mv)
      <4>1. Fresh(n, n.screen[p], p) => Shows(n, n.screen[p], p, D, H, mv)
        BY FreshShows
      <4> QED
        BY <3>3, <3>5, <3>6, <4>1 DEF Shows
    <3>8. Shows(n, n.back[p], p, D, H, mv)
      <4>1. Fresh(n, n.back[p], p) => Shows(n, n.back[p], p, D, H, mv)
        BY FreshShows
      <4> QED
        BY <3>4, <3>5, <3>6, <4>1 DEF Shows
    <3> QED
      BY <3>7, <3>8 DEF RightAt
  <2> QED
    BY <2>4, <2>5, <2>6
<1>10. ASSUME NEW p \in Pixels PROVE RightAt(n, p, D \ {w}, H, mv)
  <2>1. Redrawn(r, n)
    BY <1>6, <1>8, DrawAt, <1>10
  <2>2. ~ IsTop(n, w, p)
    BY <1>7, <2>1, TopSame DEF IsTop
  <2> QED
    BY <1>9, <2>2, Cleared
<1> QED
  BY <1>10 DEF Composed

\* A task draws into its window: what is shown there is one of the two pictures.
LEMMA InkComposed ==
  ASSUME NEW m, Grounded(m), NEW w \in Windows, NEW D, NEW G, NEW mv, Composed(m, D, G, mv),
         NEW n, n = [m EXCEPT !.look[w].ink = 1 - @]
  PROVE  Composed(n, D \cup {w}, G, mv)
<1>0. w \in Toplevels /\ w \in LayerIds /\ Layered(m) /\ DOMAIN m = Fields /\ m.look[w] \in Looks
  BY DEF LayerIds, Toplevels, Grounded, Layered
<1>1. /\ DOMAIN n = Fields /\ n.stack = m.stack /\ n.pos = m.pos /\ n.back = m.back /\ n.screen = m.screen
      /\ n.look = [m.look EXCEPT ![w] = [m.look[w] EXCEPT !.ink = 1 - m.look[w].ink]]
  BY <1>0 DEF Fields
<1>2. n.look[w].active = m.look[w].active
  BY <1>0, <1>1 DEF Looks, Layered
<1>3. \A x : x # w /\ x \in LayerIds => n.look[x] = m.look[x]
  BY <1>0, <1>1 DEF Layered
<1>4. ASSUME NEW p \in Pixels, NEW c, Shows(m, c, p, D, G, mv)
      PROVE  Shows(n, c, p, D \cup {w}, G, mv)
  <2>1. CASE c[1] \in G
    BY <2>1 DEF Shows
  <2>2. CASE c[1] \notin G
    <3>1. PICK x : /\ IsTop(m, x, p)
                   /\ \/ c = Picture(m, x, p)
                      \/ /\ x \in D /\ Sub(p, m.pos[x]) = InkAt
                         /\ c \in {<<x, "ink", 0>>, <<x, "ink", 1>>}
                      \/ ~ mv /\ x = Cursor
      BY <1>4, <2>2 DEF Shows
    <3>2. IsTop(n, x, p) /\ x \in LayerIds
      BY <1>0, <1>1, <3>1 DEF IsTop, InStack, Inked, Layered
    <3>3. CASE c # Picture(m, x, p)
      BY <1>1, <3>1, <3>2, <3>3 DEF Shows
    <3>4. CASE x # w /\ c = Picture(m, x, p)
      <4>1. Picture(n, x, p) = Picture(m, x, p)
        BY <1>1, <1>3, <3>2, <3>4 DEF Picture
      <4> QED
        BY <3>2, <3>4, <4>1 DEF Shows
    <3>5. CASE x = w /\ c = Picture(m, x, p) /\ Sub(p, m.pos[w]) # InkAt
      <4>1. Picture(n, x, p) = Picture(m, x, p)
        BY <1>1, <1>2, <3>5 DEF Picture
      <4> QED
        BY <3>2, <3>5, <4>1 DEF Shows
    <3>6. CASE x = w /\ c = Picture(m, x, p) /\ Sub(p, m.pos[w]) = InkAt
      <4>1. InkAt[2] = 1 /\ InkAt[2] # 0
        BY DEF InkAt
      <4>2. c = <<w, "ink", m.look[w].ink>>
        BY <1>0, <3>6, <4>1 DEF Picture
      <4>3. m.look[w].ink \in {0, 1}
        BY <1>0 DEF Looks
      <4>4. c \in {<<w, "ink", 0>>, <<w, "ink", 1>>}
        BY <4>2, <4>3
      <4> QED
        BY <1>1, <3>2, <3>6, <4>4 DEF Shows
    <3> QED
      BY <3>3, <3>4, <3>5, <3>6
  <2> QED
    BY <2>1, <2>2
<1> QED
  BY <1>1, <1>4 DEF Composed, RightAt

\* The one pixel a task draws is shown.
LEMMA InkShown ==
  ASSUME NEW m, Grounded(m), NEW w \in Windows, NEW D, NEW G, NEW mv, Composed(m, D, G, mv), NEW junk,
         NEW n, n = DrawLayer(m, w, Rect(Add(m.pos[w], InkAt), <<1, 1>>), junk)
  PROVE  Composed(n, D \ {w}, G, mv)
<1>0. /\ w \in LayerIds /\ DOMAIN m = Fields /\ m.pos[w] \in Int \X Int
      /\ <<0, 0>> \in Pixels
  BY Geometry DEF LayerIds, Toplevels, Grounded, Layered, Pixels, Rect, ScreenSize
<1> PICK area : area = Rect(Add(m.pos[w], InkAt), <<1, 1>>)
  OBVIOUS
<1>1. n = DrawLayer(m, w, area, junk)
  OBVIOUS
<1>2. Redrawn(m, n)
  BY <1>0, <1>1, DrawnLayerSame
<1>3. ASSUME NEW p \in Pixels PROVE RightAt(n, p, D \ {w}, G, mv)
  <2>1. /\ Better(m, n, p)
        /\ p \in area /\ InStack(m, w) /\ p \in Inked(m, w) => FreshAt(n, p)
    BY <1>0, <1>1, DrawLayerAt
  <2>2. SameTop(m, n, p)
    BY <1>2, RedrawnTop
  <2>3. RightAt(n, p, D, G, mv)
    BY <2>1, <2>2, StillRight DEF Composed
  <2>4. CASE IsTop(n, w, p) /\ Sub(p, m.pos[w]) = InkAt
    <3>1. p \in area
      <4>1. PICK a \in Int, b \in Int : m.pos[w] = <<a, b>>
        BY <1>0
      <4>2. PICK c \in Int, d \in Int : p = <<c, d>>
        BY Geometry DEF Pixels, Rect, ScreenSize
      <4>3. c - a = 0 /\ d - b = 1
        BY <2>4, <4>1, <4>2 DEF Sub, InkAt
      <4>4. Add(m.pos[w], InkAt) = <<a, b + 1>> /\ p = <<a, b + 1>>
        BY <4>1, <4>2, <4>3 DEF Add, InkAt
      <4> QED
        BY <4>4 DEF Rect
    <3>2. InStack(m, w) /\ p \in Inked(m, w)
      BY <1>2, <2>4, TopSame DEF IsTop
    <3> QED
      BY <2>1, <3>1, <3>2, FreshRight
  <2>5. CASE ~ (IsTop(n, w, p) /\ Sub(p, m.pos[w]) = InkAt)
    <3>1. n.pos = m.pos
      BY <1>2 DEF Redrawn
    <3> QED
      BY <2>3, <2>5, <3>1 DEF RightAt, Shows
  <2> QED
    BY <2>4, <2>5
<1> QED
  BY <1>2, <1>3 DEF Composed

-----------------------------------------------------------------------------
(* The inductive invariant, what is on the screen aside.                   *)

Lifetimes == /\ opened \subseteq Windows /\ closed \subseteq opened
             /\ DOMAIN closing = Windows
             /\ \A w \in Windows : closing[w] # None => w \in opened \ closed

ActiveShown == /\ active \in (Toplevels \cap Alive) \cup {None}
               /\ active # None => OnTop(manager, active)
               /\ \A id \in Toplevels \cap Alive : manager.look[id].active = (id = active)

\* No terminal is mistaken about whether `act' is its window.
Answers == {"active", "inactive", "unsure"}
Knows(f, act) == /\ f \in [Terminals -> Answers]
                 /\ \A t \in Terminals : f[t] = "active" => act = t
                 /\ \A t \in Terminals : f[t] = "inactive" => act # t
Informed == Knows(told, active)

\* Nobody is in the middle of Activate.
Quiet == /\ opening \in [Terminals -> {"no", "made", "placed", "named"}]
         /\ \A t \in Terminals : opening[t] = "made" => t \notin opened
         /\ \A t \in Terminals : opening[t] \notin {"placed", "named"}

Gripped == /\ pressed \in BOOLEAN
           /\ drag \in {None, Main} \cup opened
           /\ drag # None => pressed
           /\ drag # None /\ drag \in Alive =>
                GetWindowRegion(Sub(manager.pos[Cursor], manager.pos[drag])) = "TitleBar"

IInv == /\ Stacked(manager, Alive)
        /\ Lifetimes
        /\ ActiveShown
        /\ Informed
        /\ Gripped
        /\ Quiet
        /\ lost \in {"no", "drag"}

LEMMA AliveFacts ==
  ASSUME Lifetimes
  PROVE  /\ LayerTasks = Alive \cap Windows /\ Alive \subseteq LayerIds /\ Cursor \in Alive /\ Main \in Alive
         /\ Cursor \in LayerIds /\ Cursor \notin Toplevels /\ Back \notin Toplevels /\ None \notin LayerIds
         /\ Windows \subseteq Toplevels /\ Toplevels \subseteq LayerIds /\ Main \notin Windows
         /\ Terminals \subseteq Windows /\ Apps \subseteq Windows
BY Distinct DEF Lifetimes, LayerTasks, Alive, LayerIds, Toplevels, Windows

\* What Activate brings about, beginning with layers m.
NowActive(m, id) ==
  /\ Stacked(manager', Alive \cup ({id} \ {None})) /\ manager'.pos = m.pos
  /\ active' = id /\ lost' = lost
  /\ id # None => OnTop(manager', id)
  /\ \A x \in Toplevels \cap (Alive \cup {id}) : manager'.look[x].active = (x = id)
  /\ Knows(told', id)

\* Whoever is sure after SendWindowActiveMessage has been told, or was sure before.
LEMMA SentFacts ==
  ASSUME NEW off, NEW on, NEW tasks, told \in [Terminals -> Answers], SendWindowActive(off, on, tasks)
  PROVE  /\ told' \in [Terminals -> Answers]
         /\ \A t \in Terminals :
              told'[t] = "active" => t = on \/ (told[t] = "active" /\ t \notin {off, on} \cap tasks)
         /\ \A t \in Terminals : told'[t] = "inactive" /\ t = on => t \notin tasks
<1>1. PICK missed : told' = [t \in Terminals |->
                 IF missed[t] THEN "unsure"
                 ELSE IF t \in {off, on} \cap tasks
                      THEN (IF t = on THEN "active" ELSE "inactive") ELSE told[t]]
  <2> DEFINE Missed(t) == IF t \in commands THEN Apps \cup {t} ELSE IF t = on THEN {} ELSE Apps
             missed == [t \in Terminals |-> ({off, on} \cap tasks) \cap Missed(t) # {}]
  <2>1. told' = [t \in Terminals |->
                 IF ({off, on} \cap tasks) \cap Missed(t) # {} THEN "unsure"
                 ELSE IF t \in {off, on} \cap tasks
                      THEN (IF t = on THEN "active" ELSE "inactive") ELSE told[t]]
    BY DEF SendWindowActive
  <2>2. \A t \in Terminals : missed[t] = (({off, on} \cap tasks) \cap Missed(t) # {})
    OBVIOUS
  <2> HIDE DEF Missed, missed
  <2>3. told' = [t \in Terminals |->
                 IF missed[t] THEN "unsure"
                 ELSE IF t \in {off, on} \cap tasks
                      THEN (IF t = on THEN "active" ELSE "inactive") ELSE told[t]]
    BY <2>1, <2>2
  <2> QED
    BY <2>3
<1>2. told' \in [Terminals -> Answers]
  BY <1>1 DEF Answers
<1>3. ASSUME NEW t \in Terminals
      PROVE  /\ told'[t] = "active" => t = on \/ (told[t] = "active" /\ t \notin {off, on} \cap tasks)
             /\ told'[t] = "inactive" /\ t = on => t \notin tasks
  BY <1>1
<1> QED
  BY <1>2, <1>3

LEMMA ActivateFacts ==
  ASSUME IInv, NEW m, Stacked(m, Alive), m.stack = manager.stack, m.look = manager.look,
         NEW id \in Toplevels \cup {None}, NEW tasks \in {LayerTasks, LayerTasks \cup {id}},
         id \in Terminals => id \in tasks, Activate(m, id, tasks)
  PROVE  NowActive(m, id)
<1>0. /\ LayerTasks = Alive \cap Windows /\ Toplevels \subseteq LayerIds /\ None \notin Toplevels
      /\ Windows \subseteq Toplevels /\ Terminals \subseteq Windows
  BY AliveFacts DEF IInv
<1>1. active \in (Toplevels \cap Alive) \cup {None}
  BY DEF IInv, ActiveShown
<1>2. manager' = Activated(m, active, id) /\ lost' = lost /\ active' = id
  BY <1>1 DEF Activate
<1>3. active = id => (id = None \/ OnTop(m, id)) /\ id \in Alive \cup {None}
  BY <1>1 DEF IInv, ActiveShown, OnTop
<1>4. /\ Stacked(manager', Alive \cup ({id} \ {None})) /\ manager'.pos = m.pos
      /\ LooksActive(m, manager', active, id)
      /\ id # None => OnTop(manager', id)
  BY <1>1, <1>2, <1>3, ActivatedFacts
<1>5. ASSUME NEW x \in Toplevels \cap (Alive \cup {id}) PROVE manager'.look[x].active = (x = id)
  <2>1. manager'.look[x].active = IF active = id THEN m.look[x].active
                                  ELSE IF x = id THEN TRUE
                                  ELSE IF x = active THEN FALSE ELSE m.look[x].active
    BY <1>0, <1>4 DEF LooksActive
  <2>2. x \in Alive => m.look[x].active = (x = active)
    BY DEF IInv, ActiveShown
  <2>3. CASE active = id
    <3>1. x \in Alive
      BY <1>0, <1>1, <2>3
    <3> QED
      BY <2>1, <2>2, <2>3, <3>1
  <2>4. CASE active # id
    BY <2>1, <2>2, <2>4
  <2> QED
    BY <2>3, <2>4
<1>6. CASE active = id
  <2>1. told' = told
    BY <1>6 DEF Activate
  <2> QED
    BY <1>2, <1>4, <1>5, <1>6, <2>1 DEF IInv, Informed, NowActive
<1>7. CASE active # id
  <2>1. SendWindowActive(active, id, tasks)
    BY <1>7 DEF Activate
  <2>2. told \in [Terminals -> Answers] /\ \A t \in Terminals : told[t] = "active" => active = t
    BY DEF IInv, Informed, Knows
  <2>3. told' \in [Terminals -> Answers]
    BY <2>1, <2>2, SentFacts
  <2>4. ASSUME NEW t \in Terminals, told'[t] = "active" PROVE id = t
    <3>1. t = id \/ (told[t] = "active" /\ t \notin {active, id} \cap tasks)
      BY <2>1, <2>2, <2>4, SentFacts
    <3>2. told[t] = "active" => t = active /\ t \in LayerTasks
      BY <1>0, <1>1, <2>2, Distinct DEF LayerIds, Toplevels
    <3> QED
      BY <3>1, <3>2
  <2>5. ASSUME NEW t \in Terminals, told'[t] = "inactive" PROVE id # t
    BY <2>1, <2>2, <2>5, SentFacts
  <2> QED
    BY <1>2, <1>4, <1>5, <2>3, <2>4, <2>5 DEF NowActive, Knows
<1> QED
  BY <1>6, <1>7

-----------------------------------------------------------------------------
(* The initial states.                                                     *)

\* A layer that is not in the stack comes to its top.
LEMMA PutOnTop ==
  ASSUME NEW m, Layered(m), Once(m.stack), NEW id \in LayerIds, ~ InStack(m, id),
         NEW height \in Nat, Len(m.stack) <= height, NEW n, n = UpDown(m, id, height)
  PROVE  /\ Layered(n) /\ SameDrawing(m, n) /\ Len(m.stack) \in Nat /\ Once(n.stack)
         /\ IsWith(n.stack, m.stack, Len(m.stack) + 1, id)
         /\ \A x : InStack(n, x) <=> InStack(m, x) \/ x = id
         /\ OthersLie(n.stack, m.stack, id)
<1> DEFINE s == m.stack
           k == Len(s) + 1
<1>1. s \in Seq(LayerIds) /\ Len(s) \in Nat /\ k \in 1..(Len(s) + 1) /\ s = Hide(m, id).stack
  BY DEF Layered, Hide
<1>2. /\ Layered(n) /\ SameDrawing(m, n)
      /\ n.stack = InsertAt(s, (IF height > Len(s) THEN Len(s) ELSE height) + 1, id)
  BY <1>1, UpDownFacts
<1>3. (IF height > Len(s) THEN Len(s) ELSE height) + 1 = k
  BY <1>1
<1>4. n.stack = InsertAt(s, k, id) /\ Once(s) /\ \A i \in DOMAIN s : s[i] # id
  BY <1>2, <1>3 DEF InStack
<1>5. IsWith(n.stack, s, k, id) /\ LiesMore(n.stack, s, id)
  <2> HIDE DEF s, k
  <2> QED
    BY <1>1, <1>4, InsertAtFacts, InsertAtOrder
<1> QED
  BY <1>1, <1>2, <1>5 DEF LiesMore, InStack, OthersLie

LEMMA Start ==
  ASSUME Init
  PROVE  /\ Stacked(manager, {Back, Main, Cursor}) /\ \A x \in LayerIds : manager.look[x] = NewWindow
         /\ manager.pos[Back] = <<0, 0>> /\ Composed(manager, {}, {}, FALSE)
<1>0. /\ {Back, Main, Cursor} \subseteq LayerIds /\ Back # Main /\ Back # Cursor /\ Main # Cursor
      /\ MainAt \in Int \X Int /\ CursorAt \in Int \X Int
  BY Geometry, Distinct DEF LayerIds, Toplevels
<1>i. INT_MAX \in Nat /\ INT_MAX > 3
  BY SMT DEF INT_MAX
<1>m0. PICK m0 : m0 = NewManager
  OBVIOUS
<1>2. PICK m1 : m1 = UpDown(m0, Back, 0)
  OBVIOUS
<1>5. PICK m2 : m2 = [m1 EXCEPT !.pos[Main] = MainAt]
  OBVIOUS
<1>7. PICK m3 : m3 = UpDown(m2, Main, INT_MAX)
  OBVIOUS
<1>m4. PICK m4 : m4 = Draw(m3, Pixels)
  OBVIOUS
<1>a. PICK junk : manager = UpDown(Move(m4, Cursor, CursorAt, junk), Cursor, INT_MAX)
  <2>1. m4 = InitializeMainWindow(InitializeLayer)
    BY <1>m0, <1>2, <1>5, <1>7, <1>m4 DEF InitializeLayer, InitializeMainWindow
  <2> QED
    BY <2>1 DEF Init, InitializeMouse
<1>m5. PICK m5 : m5 = Move(m4, Cursor, CursorAt, junk)
  OBVIOUS
<1>1. /\ Layered(m0) /\ m0.stack = << >> /\ Len(m0.stack) = 0 /\ Once(m0.stack)
      /\ (\A x : ~ InStack(m0, x)) /\ m0.look = [x \in LayerIds |-> NewWindow]
  BY <1>m0 DEF NewManager, Layered, Fields, Looks, NewWindow, Once, InStack
<1>3. /\ Layered(m1) /\ SameDrawing(m0, m1) /\ Once(m1.stack) /\ IsWith(m1.stack, m0.stack, 1, Back)
      /\ \A x : InStack(m1, x) <=> x = Back
  <2>1. Len(m0.stack) <= 0 /\ 0 \in Nat /\ ~ InStack(m0, Back) /\ Len(m0.stack) + 1 = 1
    BY <1>1
  <2> QED
    BY <1>0, <1>1, <1>2, <2>1, PutOnTop
<1>4. m1.look = m0.look /\ Len(m1.stack) = 1 /\ m1.stack[1] = Back
  BY <1>1, <1>3 DEF SameDrawing, IsWith
<1>6. DOMAIN m2 = Fields /\ m2.stack = m1.stack /\ m2.look = m1.look /\ m2.pos = [m1.pos EXCEPT ![Main] = MainAt]
  <2>1. DOMAIN m1 = Fields
    BY <1>3 DEF Layered
  <2> QED
    BY <2>1, <1>5, PutPos
<1>8. Layered(m2) /\ Once(m2.stack) /\ \A x : InStack(m2, x) <=> x = Back
  BY <1>0, <1>3, <1>6 DEF Layered, InStack
<1>9. /\ Layered(m3) /\ SameDrawing(m2, m3) /\ Once(m3.stack) /\ IsWith(m3.stack, m2.stack, 2, Main)
      /\ \A x : InStack(m3, x) <=> x \in {Back, Main}
  <2>1. INT_MAX \in Nat /\ Len(m2.stack) <= INT_MAX /\ ~ InStack(m2, Main) /\ Len(m2.stack) + 1 = 2
    <3>1. Len(m2.stack) = 1
      BY <1>4, <1>6
    <3>2. ~ InStack(m2, Main)
      BY <1>0, <1>8
    <3> QED
      BY <1>i, <3>1, <3>2
  <2>2. /\ Layered(m3) /\ SameDrawing(m2, m3) /\ Once(m3.stack)
        /\ IsWith(m3.stack, m2.stack, Len(m2.stack) + 1, Main)
        /\ \A x : InStack(m3, x) <=> InStack(m2, x) \/ x = Main
    BY <1>0, <1>7, <1>8, <2>1, PutOnTop
  <2> QED
    BY <1>8, <2>1, <2>2
<1>10. Len(m3.stack) = 2 /\ m3.stack[1] = Back /\ m3.look = m0.look
  BY <1>4, <1>6, <1>9 DEF SameDrawing, IsWith
<1>11. Redrawn(m3, m4)
  BY <1>9, <1>m4, DrawnSame DEF Layered
<1>12. /\ DOMAIN m4 = Fields /\ Layered(m4) /\ m4.stack = m3.stack /\ m4.look = m3.look
  BY <1>9, <1>11 DEF Redrawn, Layered
<1>13. /\ DOMAIN m5 = Fields /\ m5.stack = m3.stack /\ m5.look = m0.look
       /\ m5.pos = [m4.pos EXCEPT ![Cursor] = CursorAt]
  BY <1>10, <1>12, <1>m5, MovedSame
<1>14. manager = UpDown(m5, Cursor, INT_MAX)
  BY <1>a, <1>m5
<1>15. Layered(m5) /\ Once(m5.stack) /\ \A x : InStack(m5, x) <=> x \in {Back, Main}
  <2>1. m5.stack = m3.stack /\ DOMAIN m5 = Fields
    BY <1>13
  <2>2. m5.pos \in [LayerIds -> Int \X Int]
    <3>1. m4.pos \in [LayerIds -> Int \X Int]
      BY <1>12 DEF Layered
    <3> QED
      BY <1>0, <1>13, <3>1
  <2>3. m5.look \in [LayerIds -> Looks]
    BY <1>1, <1>13 DEF Layered
  <2>4. Layered(m5)
    BY <1>9, <2>1, <2>2, <2>3 DEF Layered
  <2>5. \A x : InStack(m5, x) <=> InStack(m3, x)
    BY <2>1 DEF InStack
  <2> QED
    BY <1>9, <2>1, <2>4, <2>5
<1>16. /\ Layered(manager) /\ SameDrawing(m5, manager) /\ Once(manager.stack)
       /\ IsWith(manager.stack, m5.stack, 3, Cursor)
       /\ \A x : InStack(manager, x) <=> x \in {Back, Main, Cursor}
  <2>1. INT_MAX \in Nat /\ Len(m5.stack) <= INT_MAX /\ ~ InStack(m5, Cursor) /\ Len(m5.stack) + 1 = 3
    <3>1. Len(m5.stack) = 2
      BY <1>10, <1>13
    <3>2. ~ InStack(m5, Cursor)
      BY <1>0, <1>15
    <3> QED
      BY <1>i, <3>1, <3>2
  <2>2. /\ Layered(manager) /\ SameDrawing(m5, manager) /\ Once(manager.stack)
        /\ IsWith(manager.stack, m5.stack, Len(m5.stack) + 1, Cursor)
        /\ \A x : InStack(manager, x) <=> InStack(m5, x) \/ x = Cursor
    BY <1>0, <1>14, <1>15, <2>1, PutOnTop
  <2> QED
    BY <1>15, <2>1, <2>2
<1>17. Len(manager.stack) = 3 /\ manager.stack[1] = Back /\ manager.stack[3] = Cursor
  <2>1. Len(m5.stack) = 2 /\ m5.stack[1] = Back
    BY <1>10, <1>13
  <2>2. /\ Len(manager.stack) = 2 + 1
        /\ \A i \in 1..(2 + 1) : manager.stack[i] = IF i < 3 THEN m5.stack[i]
                                                   ELSE IF i = 3 THEN Cursor ELSE m5.stack[i - 1]
    BY <1>16, <2>1 DEF IsWith
  <2> QED
    BY <2>1, <2>2
<1>18. Ends(manager.stack)
  BY <1>17 DEF Ends
<1>19. manager.look = [x \in LayerIds |-> NewWindow]
  BY <1>1, <1>13, <1>16 DEF SameDrawing
<1>20. Grounded(m3)
  <2>1. CursorLast(m3.stack)
    BY <1>0, <1>9 DEF CursorLast, InStack
  <2>2. m2.pos[Back] = <<0, 0>>
    <3>1. m0.pos = [l \in LayerIds |-> <<0, 0>>] /\ m1.pos = m0.pos
      BY <1>m0, <1>3 DEF NewManager, SameDrawing
    <3> QED
      BY <1>0, <1>6, <3>1
  <2> QED
    BY <1>9, <2>1, <2>2 DEF Grounded, SameDrawing
<1>21. Grounded(m4) /\ Composed(m4, {}, {}, FALSE)
  <2>1. Grounded(m4)
    BY <1>11, <1>20, GroundedSame
  <2>2. ASSUME NEW p \in Pixels PROVE RightAt(m4, p, {}, {}, FALSE)
    <3>1. FreshAt(m4, p)
      BY <1>m4, <1>20, DrawAt
    <3> QED
      BY <3>1, FreshRight
  <2> QED
    BY <2>1, <2>2 DEF Composed
<1>22. Grounded(m5) /\ Composed(m5, {}, {}, FALSE)
  <2>1. Cursor \in LayerIds \ {Back}
    BY <1>0
  <2>2. Grounded(m5)
    BY <1>0, <1>21, <1>m5, <2>1, MoveComposed
  <2>3. Composed(m5, {} \ {Cursor}, {}, FALSE)
    BY <1>0, <1>21, <1>m5, <2>1, MoveComposed
  <2>4. {} \ {Cursor} = {}
    OBVIOUS
  <2> QED
    BY <2>2, <2>3, <2>4
<1>23. manager.pos[Back] = <<0, 0>>
  BY <1>16, <1>22 DEF SameDrawing, Grounded
<1>24. OnlyDiffers(m5, manager, Cursor) /\ ~ InStack(m5, Cursor)
  <2>1. OthersLie(manager.stack, m5.stack, Cursor)
    <3>1. INT_MAX \in Nat /\ Len(m5.stack) <= INT_MAX /\ ~ InStack(m5, Cursor) /\ Cursor \in LayerIds
      <4>1. Len(m5.stack) = 2
        BY <1>10, <1>13
      <4> QED
        BY <1>i, <1>0, <1>15, <4>1
    <3> QED
      BY <1>14, <1>15, <3>1, PutOnTop
  <2> QED
    BY <1>0, <1>15, <1>16, <2>1 DEF OnlyDiffers, SameDrawing
<1>25. ASSUME NEW p \in Pixels PROVE RightAt(manager, p, {}, {}, FALSE)
  <2>1. RightAt(m5, p, {}, {}, FALSE)
    BY <1>22 DEF Composed
  <2>2. CASE p \notin Inked(manager, Cursor)
    BY <1>15, <1>16, <1>24, <2>1, <2>2, Elsewhere
  <2>3. CASE p \in Inked(manager, Cursor)
    <3>1. ASSUME NEW y, Under(manager.stack, Cursor, y) PROVE FALSE
      <4>1. PICK i, j \in DOMAIN manager.stack : i < j /\ manager.stack[i] = Cursor
        BY <3>1 DEF Under
      <4>2. DOMAIN manager.stack = 1..3 /\ 3 \in DOMAIN manager.stack
        <5>1. DOMAIN manager.stack = 1..Len(manager.stack)
          BY <1>16 DEF Layered
        <5> QED
          BY <1>17, <5>1
      <4>3. i = 3
        BY <1>16, <1>17, <4>1, <4>2 DEF Once
      <4> QED
        BY <4>1, <4>2, <4>3
    <3>2. IsTop(manager, Cursor, p)
      BY <1>16, <2>3, <3>1 DEF IsTop
    <3> QED
      BY <3>2 DEF RightAt, Shows
  <2> QED
    BY <2>2, <2>3
<1>26. Composed(manager, {}, {}, FALSE)
  BY <1>25 DEF Composed
<1> QED
  BY <1>0, <1>16, <1>18, <1>19, <1>23, <1>26 DEF Stacked

LEMMA InitIInv == Init => IInv
<1> SUFFICES ASSUME Init PROVE IInv
  OBVIOUS
<1>1. Alive = {Back, Main, Cursor}
  BY DEF Init, Alive
<1>2. Stacked(manager, Alive) /\ \A x \in LayerIds : manager.look[x] = NewWindow
  BY <1>1, Start
<1>3. Lifetimes
  BY DEF Init, Lifetimes
<1>4. /\ Toplevels \subseteq LayerIds /\ None \notin LayerIds /\ Terminals \subseteq Windows
  BY <1>3, AliveFacts
<1>5. ActiveShown
  <2>1. active = None
    BY DEF Init
  <2>2. ASSUME NEW id \in Toplevels PROVE manager.look[id].active = (id = active)
    <3>1. manager.look[id].active = FALSE
      BY <1>2, <1>4 DEF NewWindow
    <3>2. id # active
      BY <1>4, <2>1
    <3> QED
      BY <3>1, <3>2
  <2> QED
    BY <2>1, <2>2 DEF ActiveShown
<1>6. Informed
  BY <1>4 DEF Init, Informed, Knows, Answers, Toplevels, LayerIds, Windows
<1>7. Gripped /\ Quiet
  BY DEF Init, Gripped, Quiet
<1> QED
  BY <1>2, <1>3, <1>5, <1>6, <1>7 DEF Init, IInv

-----------------------------------------------------------------------------
(* Every action keeps the invariant.                                       *)

LEMMA Pairs ==
  ASSUME NEW a \in Int \X Int, NEW b \in Int \X Int
  PROVE  /\ Add(a, b) \in Int \X Int /\ Sub(a, b) \in Int \X Int
         /\ ElementMin(a, b) \in Int \X Int /\ ElementMax(a, b) \in Int \X Int
         /\ Add(a, b)[1] = a[1] + b[1] /\ Add(a, b)[2] = a[2] + b[2]
         /\ Sub(a, b)[1] = a[1] - b[1] /\ Sub(a, b)[2] = a[2] - b[2]
BY DEF Add, Sub, ElementMin, ElementMax

\* One layer has another position.
PutAt(m, n, id, new) == n.pos[id] = new /\ \A x : x # id => n.pos[x] = m.pos[x]

LEMMA CursorGoes ==
  ASSUME IInv, NEW d \in Displacements, NEW m, m = CursorMoved(d)
  PROVE  /\ Stacked(m, Alive) /\ m.stack = manager.stack /\ m.look = manager.look
         /\ m.pos = [manager.pos EXCEPT ![Cursor] = Clamped(d)]
         /\ PutAt(manager, m, Cursor, Clamped(d))
         /\ Clamped(d) \in Int \X Int /\ PosDiff(d) \in Int \X Int
<1>1. Stacked(manager, Alive) /\ manager.pos \in [LayerIds -> Int \X Int] /\ Cursor \in LayerIds
  BY DEF IInv, Stacked, Layered, LayerIds
<1>2. d \in Int \X Int /\ ScreenSize \in Int \X Int /\ <<1, 1>> \in Int \X Int /\ <<0, 0>> \in Int \X Int
  BY Geometry DEF ScreenSize
<1>3. manager.pos[Cursor] \in Int \X Int
  BY <1>1
<1>4. Add(manager.pos[Cursor], d) \in Int \X Int /\ Sub(ScreenSize, <<1, 1>>) \in Int \X Int
  BY <1>2, <1>3, Pairs
<1>5. ElementMin(Add(manager.pos[Cursor], d), Sub(ScreenSize, <<1, 1>>)) \in Int \X Int
  BY <1>4, Pairs
<1>6. Clamped(d) \in Int \X Int
  BY <1>2, <1>5, Pairs DEF Clamped
<1>7. PosDiff(d) \in Int \X Int
  BY <1>3, <1>6, Pairs DEF PosDiff
<1>8. /\ Stacked(m, Alive) /\ m.stack = manager.stack /\ m.look = manager.look
      /\ m.pos = [manager.pos EXCEPT ![Cursor] = Clamped(d)]
  BY <1>1, <1>6, MovedStacked DEF CursorMoved
<1> QED
  BY <1>1, <1>6, <1>7, <1>8 DEF PutAt

\* Nothing but pictures has changed.
LEMMA PicturesOnly ==
  ASSUME IInv, Stacked(manager', Alive), manager'.stack = manager.stack, manager'.pos = manager.pos,
         \A x \in LayerIds : manager'.look[x].active = manager.look[x].active,
         UNCHANGED <<active, told, drag, pressed, opened, closed, lost>>, Lifetimes', Quiet'
  PROVE  IInv'
<1>1. Alive' = Alive /\ Toplevels \subseteq LayerIds
  BY DEF Alive, LayerIds
<1>2. ActiveShown'
  BY <1>1 DEF IInv, ActiveShown, OnTop
<1>3. Informed'
  BY DEF IInv, Informed
<1>4. Gripped'
  BY <1>1 DEF IInv, Gripped
<1> QED
  BY <1>1, <1>2, <1>3, <1>4 DEF IInv

LEMMA InkOnly ==
  ASSUME IInv, NEW w \in Windows, Draws(w), UNCHANGED <<active, told, drag, pressed, opened, closed, lost>>,
         Lifetimes', Quiet'
  PROVE  IInv'
<1>1. Stacked(manager, Alive) /\ Layered(manager) /\ w \in LayerIds
  BY DEF IInv, Stacked, LayerIds, Toplevels
<1>2. /\ DOMAIN manager' = Fields /\ manager'.stack = manager.stack /\ manager'.pos = manager.pos
      /\ manager'.look = [manager.look EXCEPT ![w] = [manager.look[w] EXCEPT !.ink = 1 - manager.look[w].ink]]
  BY <1>1 DEF Draws, Layered, Fields
<1>3. manager.look[w] \in Looks /\ manager.look \in [LayerIds -> Looks]
  BY <1>1 DEF Layered
<1>4. /\ manager'.look \in [LayerIds -> Looks]
      /\ \A x \in LayerIds : manager'.look[x].active = manager.look[x].active
  BY <1>1, <1>2, <1>3 DEF Looks
<1>5. Stacked(manager', Alive)
  BY <1>1, <1>2, <1>4 DEF Stacked, Layered, InStack
<1> QED
  BY <1>2, <1>4, <1>5, PicturesOnly

LEMMA RedrawOnly ==
  ASSUME IInv, Redrawn(manager, manager'), UNCHANGED <<active, told, drag, pressed, opened, closed, lost>>,
         Lifetimes', Quiet'
  PROVE  IInv'
<1>1. Stacked(manager', Alive)
  BY RedrawnStacked DEF IInv
<1> QED
  BY <1>1, PicturesOnly DEF Redrawn

LEMMA StepWindowPictures ==
  ASSUME IInv, NEW w \in Windows, WinFunc(w) \/ WinRedraw(w) \/ BlinkCursor(w) \/ ProcessLayerMessage(w)
  PROVE  IInv'
<1>1. UNCHANGED <<active, told, drag, pressed, opened, closed, lost>> /\ Lifetimes' /\ Quiet'
  BY DEF IInv, Lifetimes, Quiet, taskVars, WinFunc, WinRedraw, BlinkCursor, ProcessLayerMessage
<1>2. CASE WinFunc(w) \/ BlinkCursor(w)
  BY <1>1, <1>2, InkOnly DEF WinFunc, BlinkCursor
<1>3. CASE WinRedraw(w) \/ ProcessLayerMessage(w)
  <2>1. DOMAIN manager = Fields
    BY DEF IInv, Stacked, Layered
  <2>2. \E id, area, junk : manager' = DrawLayer(manager, id, area, junk)
    BY <1>3 DEF WinRedraw, ProcessLayerMessage, DrawWhole
  <2>3. Redrawn(manager, manager')
    BY <2>1, <2>2, DrawnLayerSame
  <2> QED
    BY <1>1, <2>3, RedrawOnly
<1> QED
  BY <1>2, <1>3

LEMMA StepDrawMain ==
  ASSUME IInv, DrawMain
  PROVE  IInv'
<1>1. UNCHANGED <<active, told, drag, pressed, opened, closed, lost>> /\ Lifetimes' /\ Quiet'
  BY DEF IInv, Lifetimes, Quiet, taskVars, DrawMain
<1>2. Redrawn(manager, manager')
  BY WholeSame DEF IInv, DrawMain
<1> QED
  BY <1>1, <1>2, RedrawOnly

LEMMA StepBeginClose ==
  ASSUME IInv, NEW w \in Windows, BeginClose(w)
  PROVE  IInv'
<1>1. UNCHANGED <<manager, active, told, drag, pressed, opened, closed, lost>>
  BY DEF BeginClose
<1>2. Lifetimes' /\ Quiet'
  BY DEF IInv, Lifetimes, Quiet, taskVars, BeginClose, Working
<1> QED
  BY <1>1, <1>2, RedrawOnly DEF Redrawn

LEMMA StepPress ==
  ASSUME IInv, NEW d \in Displacements, Press(d)
  PROVE  IInv'
<1> PICK m, under : /\ m = CursorMoved(d) /\ under = FindLayerByPosition(m, Clamped(d))
                    /\ Activate(m, IF under \in Toplevels THEN under ELSE None, LayerTasks)
                    /\ pressed' = TRUE /\ ~ pressed
                    /\ drag' # drag => /\ under \in Toplevels /\ drag' = under
                                       /\ GetWindowRegion(Sub(Clamped(d), m.pos[under])) = "TitleBar"
                    /\ UNCHANGED <<opened, closing, closed, opening>>
  BY DEF Press, taskVars
<1> DEFINE id == IF under \in Toplevels THEN under ELSE None
<1>1. /\ Stacked(m, Alive) /\ m.stack = manager.stack /\ m.look = manager.look /\ Layered(m)
      /\ m.pos[Cursor] = Clamped(d) /\ \A x : x # Cursor => m.pos[x] = manager.pos[x]
  <2>1. Stacked(m, Alive) /\ m.stack = manager.stack /\ m.look = manager.look
    BY CursorGoes
  <2>2. PutAt(manager, m, Cursor, Clamped(d))
    BY CursorGoes
  <2> QED
    BY <2>1, <2>2 DEF Stacked, PutAt
<1>2. /\ Alive' = Alive /\ LayerTasks = Alive \cap Windows /\ None \notin LayerIds /\ Cursor \notin Toplevels
      /\ Terminals \subseteq Windows /\ Toplevels \subseteq LayerIds /\ Windows \subseteq Toplevels
  BY AliveFacts DEF IInv, Alive
<1>3. id \in (Toplevels \cap Alive) \cup {None}
  <2>1. under \in Toplevels => under \in Alive
    BY <1>1, <1>2, FoundInStack DEF Stacked
  <2> QED
    BY <2>1
<1> HIDE DEF id
<1>4. /\ Stacked(manager', Alive \cup ({id} \ {None})) /\ manager'.pos = m.pos
      /\ active' = id /\ lost' = lost
      /\ id # None => OnTop(manager', id)
      /\ \A x \in Toplevels \cap (Alive \cup {id}) : manager'.look[x].active = (x = id)
      /\ Knows(told', id)
  <2>1. Activate(m, id, LayerTasks)
    BY DEF id
  <2>2. id \in Terminals => id \in LayerTasks
    BY <1>2, <1>3
  <2>3. id \in Toplevels \cup {None} /\ LayerTasks \in {LayerTasks, LayerTasks \cup {id}}
    BY <1>3
  <2> QED
    <3>1. NowActive(m, id)
      BY <1>1, <2>1, <2>2, <2>3, ActivateFacts
    <3> QED
      BY <3>1 DEF NowActive
<1>5. Stacked(manager', Alive')
  <2>1. Alive \cup ({id} \ {None}) = Alive
    BY <1>3
  <2> QED
    BY <1>2, <1>4, <2>1
<1>6. Lifetimes' /\ Quiet'
  BY DEF IInv, Lifetimes, Quiet
<1>7. ActiveShown'
  BY <1>2, <1>3, <1>4 DEF ActiveShown
<1>8. Informed'
  BY <1>4 DEF Informed
<1>9. Gripped'
  <2>1. CASE drag' = drag
    BY <2>1 DEF IInv, Gripped
  <2>2. CASE drag' # drag
    <3>1. under \in Toplevels /\ drag' = under /\ under = id
      BY <2>2 DEF id
    <3>2. GetWindowRegion(Sub(manager'.pos[Cursor], manager'.pos[drag'])) = "TitleBar"
      BY <1>1, <1>4, <2>2, <3>1
    <3>3. under \in {None, Main} \cup opened'
      <4>1. under \in Alive
        BY <1>2, <1>3, <3>1
      <4>2. under # Back /\ under # Cursor
        BY <1>2, <3>1, Distinct DEF Toplevels
      <4> QED
        BY <4>1, <4>2 DEF Alive
    <3> QED
      BY <3>1, <3>2, <3>3 DEF Gripped
  <2> QED
    BY <2>1, <2>2
<1> QED
  BY <1>4, <1>5, <1>6, <1>7, <1>8, <1>9 DEF IInv

LEMMA GripGoesAlong ==
  ASSUME NEW a \in Int \X Int, NEW b \in Int \X Int, NEW c \in Int \X Int
  PROVE  Sub(b, Add(c, Sub(b, a))) = Sub(a, c)
BY DEF Sub, Add

LEMMA StepDrag ==
  ASSUME IInv, NEW d \in Displacements, Drag(d)
  PROVE  IInv'
<1>0. pressed /\ UNCHANGED <<active, told, drag, pressed, opened, closing, closed, opening>>
  BY DEF Drag, taskVars
<1> PICK m : /\ m = CursorMoved(d)
             /\ IF drag = None THEN manager' = m /\ UNCHANGED <<dirty, ghosts, lost>>
                ELSE MoveRelative(m, drag, PosDiff(d))
  BY DEF Drag
<1>1. /\ Stacked(m, Alive) /\ m.stack = manager.stack /\ m.look = manager.look
      /\ PosDiff(d) \in Int \X Int /\ Clamped(d) \in Int \X Int
  BY CursorGoes
<1>2. PutAt(manager, m, Cursor, Clamped(d))
  BY CursorGoes
<1>3. /\ Alive' = Alive /\ Cursor \in LayerIds /\ Alive \subseteq LayerIds
      /\ drag \in {None, Main} \cup Windows /\ Cursor # drag
      /\ None \notin LayerIds
  <2>1. /\ Alive' = Alive /\ Alive \subseteq LayerIds /\ Cursor \in LayerIds /\ None \notin LayerIds
        /\ Main \in Toplevels /\ Windows \subseteq Toplevels /\ Cursor \notin Toplevels
    BY <1>0, AliveFacts DEF IInv, Alive, Toplevels
  <2>2. drag \in {None, Main} \cup Windows
    BY DEF IInv, Gripped, Lifetimes
  <2> QED
    BY <2>1, <2>2
<1>4. /\ Stacked(manager', Alive) /\ manager'.stack = manager.stack /\ manager'.look = manager.look
      /\ manager'.pos[Cursor] = Clamped(d)
      /\ drag \in Alive => manager'.pos[drag] = Add(manager.pos[drag], PosDiff(d))
      /\ lost' \in {"no", "drag"}
  <2>1. CASE drag \notin Alive
    <3>1. manager' = m /\ lost' \in {lost, "drag"}
      BY <2>1 DEF MoveRelative
    <3> QED
      BY <1>1, <1>2, <2>1, <3>1 DEF PutAt, IInv
  <2>2. CASE drag \in Alive
    <3>1. drag # None /\ drag \in LayerIds
      BY <1>3, <2>2
    <3>2. manager' = Move(m, drag, Add(m.pos[drag], PosDiff(d)), {}) /\ lost' = lost
      BY <2>2, <3>1 DEF MoveRelative
    <3>3. m.pos \in [LayerIds -> Int \X Int] /\ m.pos[drag] \in Int \X Int
      BY <1>1, <3>1 DEF Stacked, Layered
    <3>4. Add(m.pos[drag], PosDiff(d)) \in Int \X Int
      BY <1>1, <3>3, Pairs
    <3>5. /\ Stacked(manager', Alive) /\ manager'.stack = m.stack /\ manager'.look = m.look
          /\ manager'.pos = [m.pos EXCEPT ![drag] = Add(m.pos[drag], PosDiff(d))]
      BY <1>1, <3>1, <3>2, <3>4, MovedStacked
    <3>6. m.pos[drag] = manager.pos[drag] /\ m.pos[Cursor] = Clamped(d)
      BY <1>2, <1>3 DEF PutAt
    <3>7. manager'.pos[Cursor] = Clamped(d) /\ manager'.pos[drag] = Add(manager.pos[drag], PosDiff(d))
      BY <1>3, <3>1, <3>3, <3>5, <3>6
    <3> QED
      BY <1>1, <3>2, <3>5, <3>7 DEF IInv
  <2> QED
    BY <2>1, <2>2
<1>5. Lifetimes' /\ Quiet'
  BY <1>0 DEF IInv, Lifetimes, Quiet
<1>6. ActiveShown'
  BY <1>0, <1>3, <1>4 DEF IInv, ActiveShown, OnTop
<1>7. Informed'
  BY <1>0 DEF IInv, Informed
<1>8. Gripped'
  <2>1. ASSUME drag # None, drag \in Alive
        PROVE  GetWindowRegion(Sub(manager'.pos[Cursor], manager'.pos[drag])) = "TitleBar"
    <3>1. manager.pos[Cursor] \in Int \X Int /\ manager.pos[drag] \in Int \X Int
      BY <1>3, <2>1 DEF IInv, Stacked, Layered
    <3>2. Sub(manager'.pos[Cursor], manager'.pos[drag]) = Sub(manager.pos[Cursor], manager.pos[drag])
      BY <1>1, <1>4, <2>1, <3>1, GripGoesAlong DEF PosDiff
    <3> QED
      BY <2>1, <3>2 DEF IInv, Gripped
  <2> QED
    BY <1>0, <1>3, <2>1 DEF IInv, Gripped
<1> QED
  BY <1>3, <1>4, <1>5, <1>6, <1>7, <1>8 DEF IInv

LEMMA StepRelease ==
  ASSUME IInv, NEW d \in Displacements, Release(d)
  PROVE  IInv'
<1>0. /\ UNCHANGED <<active, told, opened, closing, closed, opening, lost>> /\ manager' = CursorMoved(d)
      /\ pressed' = FALSE /\ drag' = None
  BY DEF IInv, Gripped, Release, taskVars
<1>1. Stacked(manager', Alive) /\ manager'.stack = manager.stack /\ manager'.look = manager.look
  BY <1>0, CursorGoes
<1>2. Alive' = Alive
  BY <1>0 DEF Alive
<1>3. Lifetimes' /\ Informed' /\ Gripped' /\ Quiet'
  BY <1>0 DEF IInv, Lifetimes, Informed, Gripped, Quiet
<1>4. ActiveShown'
  BY <1>0, <1>1, <1>2 DEF IInv, ActiveShown, OnTop
<1> QED
  BY <1>0, <1>1, <1>2, <1>3, <1>4 DEF IInv

\* A window that is opened becomes active where it has been put.
LEMMA Opened ==
  ASSUME IInv, NEW w \in Windows \ opened, NEW at \in Int \X Int, NEW m, Stacked(m, Alive),
         m.stack = manager.stack, m.look = manager.look, m.pos = [manager.pos EXCEPT ![w] = at],
         NEW tasks \in {LayerTasks, LayerTasks \cup {w}}, w \in Terminals => w \in tasks,
         Activate(m, w, tasks), opened' = opened \cup {w}, UNCHANGED <<drag, pressed, closing, closed>>,
         Quiet'
  PROVE  IInv'
<1>1. /\ w \in Toplevels /\ w \in LayerIds /\ w # None /\ w # Cursor /\ Cursor \in LayerIds
      /\ Alive' = Alive \cup {w} /\ w # Main /\ Terminals \subseteq Windows /\ Alive \subseteq LayerIds
  <2>1. Alive' = Alive \cup {w}
    BY DEF IInv, Lifetimes, Alive
  <2> QED
    BY <2>1, AliveFacts DEF IInv
<1>2. NowActive(m, w)
  <2>1. w \in Toplevels \cup {None}
    BY <1>1
  <2> QED
    BY <2>1, ActivateFacts, ZenonT(40)
<1>3. Stacked(manager', Alive')
  <2>1. Alive \cup ({w} \ {None}) = Alive \cup {w}
    BY <1>1
  <2> QED
    BY <1>1, <1>2, <2>1 DEF NowActive
<1>4. Lifetimes'
  BY DEF IInv, Lifetimes
<1>5. ActiveShown'
  BY <1>1, <1>2 DEF NowActive, ActiveShown
<1>6. Informed'
  BY <1>2 DEF NowActive, Informed
<1>7. Gripped'
  <2>1. drag # w
    BY <1>1 DEF IInv, Gripped
  <2>2. \A x \in LayerIds : x # w => manager'.pos[x] = manager.pos[x]
    BY <1>2 DEF NowActive, IInv, Stacked, Layered
  <2>3. drag \in Alive' => /\ drag \in Alive /\ manager'.pos[drag] = manager.pos[drag]
                           /\ manager'.pos[Cursor] = manager.pos[Cursor]
    BY <1>1, <2>1, <2>2
  <2>4. pressed' = pressed /\ drag' = drag
    OBVIOUS
  <2> QED
    BY <2>3, <2>4 DEF IInv, Gripped
<1> QED
  BY <1>2, <1>3, <1>4, <1>5, <1>6, <1>7 DEF IInv, NowActive

LEMMA StepOpenWindow ==
  ASSUME IInv, NEW w \in Windows, OpenWindow(w)
  PROVE  IInv'
<1> PICK at \in OpenAt : Activate([manager EXCEPT !.pos[w] = at], w, LayerTasks)
  BY DEF OpenWindow
<1> DEFINE m == [manager EXCEPT !.pos[w] = at]
<1>1. w \in Apps \ opened /\ opened' = opened \cup {w} /\ UNCHANGED <<drag, pressed, closing, closed, opening>>
  BY DEF OpenWindow, taskVars
<1>q. Quiet'
  BY <1>1, Distinct DEF IInv, Quiet
<1>2. at \in Int \X Int /\ w \in LayerIds /\ Stacked(manager, Alive) /\ w \notin Terminals
  BY <1>1, Geometry, Distinct DEF IInv, LayerIds, Toplevels
<1>3. Activate(m, w, LayerTasks) /\ m = [manager EXCEPT !.pos[w] = at]
  OBVIOUS
<1> HIDE DEF m
<1>4. /\ DOMAIN m = Fields /\ m.stack = manager.stack /\ m.look = manager.look
      /\ m.pos = [manager.pos EXCEPT ![w] = at]
  BY <1>2, <1>3, PutPos DEF Stacked, Layered
<1>5. Stacked(m, Alive)
  BY <1>2, <1>4 DEF Stacked, Layered, InStack
<1> QED
  BY <1>1, <1>q, <1>2, <1>3, <1>4, <1>5, Opened

LEMMA StepOpenTerminal ==
  ASSUME IInv, NEW t \in Terminals, OpenTerminal(t)
  PROVE  IInv'
<1> PICK junk, m : m = Move(manager, t, TerminalAt, junk) /\ Activate(m, t, LayerTasks \cup {t})
  BY DEF OpenTerminal
<1>1. t \in Windows \ opened /\ opened' = opened \cup {t} /\ UNCHANGED <<drag, pressed, closing, closed>>
  BY DEF OpenTerminal, IInv, Quiet, Windows
<1>q. Quiet'
  BY DEF OpenTerminal, IInv, Quiet
<1>2. TerminalAt \in Int \X Int /\ t \in LayerIds /\ Stacked(manager, Alive)
  BY Geometry DEF IInv, LayerIds, Toplevels, Windows
<1>3. /\ Stacked(m, Alive) /\ m.stack = manager.stack /\ m.look = manager.look
      /\ m.pos = [manager.pos EXCEPT ![t] = TerminalAt]
  BY <1>2, MovedStacked
<1> QED
  BY <1>1, <1>q, <1>2, <1>3, Opened

\* The other layers are where they were, and look as they did.
OthersSame(m, n, w) == \A x \in LayerIds : x # w => n.pos[x] = m.pos[x] /\ n.look[x] = m.look[x]

LEMMA RemovedStacked ==
  ASSUME NEW m, NEW A, Stacked(m, A), NEW w \in Windows, NEW pos, NEW n, n = Removed(m, w, pos)
  PROVE  Stacked(n, A \ {w}) /\ OthersSame(m, n, w)
<1>0. w \in Toplevels /\ w \in LayerIds /\ Layered(m) /\ Once(m.stack)
  BY DEF Stacked, LayerIds, Toplevels
<1> PICK h : h = Hide(m, w)
  OBVIOUS
<1>1. Stacked(h, A \ {w})
  BY <1>0, HiddenStacked
<1>2. SameDrawing(m, h)
  BY <1>0, HiddenFacts
<1> PICK r : r = [h EXCEPT !.pos[w] = <<0, 0>>, !.look[w] = NewWindow]
  OBVIOUS
<1>3. Layered(h)
  BY <1>1 DEF Stacked
<1>4. /\ DOMAIN r = Fields /\ r.stack = h.stack /\ r.pos = [h.pos EXCEPT ![w] = <<0, 0>>]
      /\ r.look = [h.look EXCEPT ![w] = NewWindow]
  BY <1>3 DEF Layered, Fields
<1>5. NewWindow \in Looks /\ <<0, 0>> \in Int \X Int
  BY DEF NewWindow, Looks
<1>6. Layered(r)
  BY <1>0, <1>3, <1>4, <1>5 DEF Layered
<1>7. Stacked(r, A \ {w})
  BY <1>1, <1>4, <1>6 DEF Stacked, InStack
<1>8. Redrawn(r, n)
  <2>1. r = RemoveLayer(m, w)
    BY DEF RemoveLayer
  <2>2. n = Draw(r, Rect(pos, Size(w)))
    BY <2>1 DEF Removed
  <2>3. DOMAIN r = Fields
    BY <1>4
  <2>4. Redrawn(r, Draw(r, Rect(pos, Size(w))))
    BY <2>3, DrawnSame
  <2> QED
    BY <2>2, <2>4
<1>9. Stacked(n, A \ {w})
  BY <1>7, <1>8, RedrawnStacked
<1>10. ASSUME NEW x \in LayerIds, x # w PROVE n.pos[x] = m.pos[x] /\ n.look[x] = m.look[x]
  BY <1>2, <1>3, <1>4, <1>8, <1>10 DEF SameDrawing, Redrawn, Layered
<1> QED
  BY <1>9, <1>10 DEF OthersSame

LEMMA StepEndClose ==
  ASSUME IInv, NEW w \in Windows, EndClose(w)
  PROVE  IInv'
<1>0. /\ active' = None /\ closing[w] # None
      /\ IF active = None THEN told' = told ELSE SendWindowActive(active, None, LayerTasks)
      /\ closed' = closed \cup {w} /\ closing' = [closing EXCEPT ![w] = None]
      /\ UNCHANGED <<drag, pressed, opened, opening>>
  BY DEF EndClose, taskVars
<1>1. /\ LayerTasks = Alive \cap Windows /\ Toplevels \subseteq LayerIds /\ None \notin LayerIds
      /\ Cursor \in LayerIds /\ Alive \subseteq LayerIds /\ w \in Toplevels /\ w # Cursor /\ w # Main
      /\ Terminals \subseteq Windows
  BY AliveFacts DEF IInv
<1>2. active \in (Toplevels \cap Alive) \cup {None} /\ Stacked(manager, Alive) /\ lost \in {"no", "drag"}
  BY DEF IInv, ActiveShown
<1> PICK m : m = Activated(manager, active, None)
  OBVIOUS
<1>3. manager' = Removed(m, w, closing[w]) /\ lost' = lost
  BY <1>2 DEF EndClose
<1>4. Stacked(m, Alive) /\ m.pos = manager.pos /\ LooksActive(manager, m, active, None)
  <2>1. active \in Toplevels \cup {None} /\ None \in Toplevels \cup {None} /\ None \in Alive \cup {None}
    BY <1>2
  <2>2. /\ Stacked(m, Alive \cup ({None} \ {None})) /\ m.pos = manager.pos
        /\ LooksActive(manager, m, active, None)
    BY <1>2, <2>1, ActivatedFacts
  <2>3. Alive \cup ({None} \ {None}) = Alive
    OBVIOUS
  <2> QED
    BY <2>2, <2>3
<1>5. w \in opened \ closed
  BY <1>0 DEF IInv, Lifetimes
<1>6. Alive' = Alive \ {w}
  <2>1. w \notin {Back, Cursor, Main}
    BY Distinct
  <2> QED
    BY <1>0, <1>5, <2>1 DEF Alive
<1>7. Stacked(manager', Alive')
  BY <1>3, <1>4, <1>6, RemovedStacked
<1>8. \A x \in LayerIds : x # w => manager'.pos[x] = m.pos[x] /\ manager'.look[x] = m.look[x]
  <2>1. OthersSame(m, manager', w)
    BY <1>3, <1>4, RemovedStacked
  <2> QED
    BY <2>1 DEF OthersSame
<1>9. Lifetimes' /\ Quiet'
  BY <1>0, <1>5 DEF IInv, Lifetimes, Quiet
<1>10. ActiveShown'
  <2>1. ASSUME NEW x \in Toplevels \cap Alive' PROVE manager'.look[x].active = (x = active')
    <3>1. x \in LayerIds /\ x # w /\ x \in Alive /\ x # None
      BY <1>1, <1>6
    <3>2. manager'.look[x].active = m.look[x].active
      BY <1>8, <3>1
    <3>3. m.look[x].active = IF active = None THEN manager.look[x].active
                             ELSE IF x = active THEN FALSE ELSE manager.look[x].active
      BY <1>4, <3>1 DEF LooksActive
    <3>4. manager.look[x].active = (x = active)
      BY <3>1 DEF IInv, ActiveShown
    <3> QED
      BY <1>0, <3>1, <3>2, <3>3, <3>4
  <2> QED
    BY <1>0, <2>1 DEF ActiveShown
<1>11. Informed'
  <2>1. CASE active = None
    BY <1>0, <2>1 DEF IInv, Informed
  <2>2. CASE active # None
    <3>1. SendWindowActive(active, None, LayerTasks)
      BY <1>0, <2>2
    <3>2. told \in [Terminals -> Answers] /\ \A t \in Terminals : told[t] = "active" => active = t
      BY DEF IInv, Informed, Knows
    <3>3. told' \in [Terminals -> Answers]
      BY <3>1, <3>2, SentFacts
    <3>4. ASSUME NEW t \in Terminals PROVE told'[t] # "active" /\ t # None
      <4>1. t # None
        BY <1>1 DEF LayerIds, Toplevels
      <4>2. told'[t] = "active" => told[t] = "active" /\ t \notin {active, None} \cap LayerTasks
        BY <3>1, <3>2, <4>1, SentFacts
      <4>3. told[t] = "active" => t = active /\ t \in LayerTasks
        BY <1>1, <1>2, <3>2, <4>1
      <4> QED
        BY <4>1, <4>2, <4>3
    <3> QED
      BY <1>0, <3>3, <3>4 DEF Informed, Knows
  <2> QED
    BY <2>1, <2>2
<1>12. Gripped'
  <2>1. drag \in Alive' => /\ drag \in Alive /\ manager'.pos[drag] = manager.pos[drag]
                           /\ manager'.pos[Cursor] = manager.pos[Cursor]
    BY <1>1, <1>4, <1>6, <1>8
  <2> QED
    BY <1>0, <2>1 DEF IInv, Gripped
<1> QED
  BY <1>2, <1>3, <1>7, <1>9, <1>10, <1>11, <1>12 DEF IInv

LEMMA StepTerminals ==
  ASSUME IInv, NEW t \in Terminals, CreateTerminal(t) \/ BeginCommand(t) \/ EndCommand(t)
  PROVE  IInv'
<1>1. UNCHANGED <<manager, active, told, drag, pressed, opened, closing, closed, lost>>
  BY DEF CreateTerminal, BeginCommand, EndCommand
<1>2. Lifetimes'
  BY <1>1 DEF IInv, Lifetimes
<1>3. Quiet'
  <2>1. CASE CreateTerminal(t)
    BY <2>1 DEF IInv, Quiet, CreateTerminal, Begun
  <2>2. CASE BeginCommand(t) \/ EndCommand(t)
    BY <2>2 DEF IInv, Quiet, BeginCommand, EndCommand
  <2> QED
    BY <2>1, <2>2
<1>4. DOMAIN manager' = DOMAIN manager
  BY <1>1
<1> QED
  BY <1>1, <1>2, <1>3, <1>4, RedrawOnly DEF Redrawn

LEMMA StepIInv == IInv /\ [Next]_vars => IInv' \/ interrupted'
<1> SUFFICES ASSUME IInv, [Next]_vars PROVE IInv' \/ interrupted'
  OBVIOUS
<1>1. CASE UNCHANGED vars
  BY <1>1 DEF vars, taskVars, IInv, Lifetimes, ActiveShown, Informed, Gripped, Quiet, Stacked, Layered,
              Alive, OnTop, InStack
<1>2. CASE OnInterrupt
  <2>1. PICK d \in Displacements : Press(d) \/ Drag(d) \/ Release(d)
    BY <1>2 DEF OnInterrupt
  <2> QED
    BY <2>1, StepPress, StepDrag, StepRelease
<1>3. CASE DrawMain
  BY <1>3, StepDrawMain
<1>4. ASSUME NEW w \in Windows,
             \/ OpenWindow(w) \/ BeginClose(w) \/ EndClose(w)
             \/ WinFunc(w) \/ WinRedraw(w) \/ BlinkCursor(w) \/ ProcessLayerMessage(w)
      PROVE  IInv'
  BY <1>4, StepOpenWindow, StepBeginClose, StepEndClose, StepWindowPictures
<1>5. ASSUME NEW t \in Terminals, CreateTerminal(t) \/ OpenTerminal(t) \/ BeginCommand(t) \/ EndCommand(t)
      PROVE  IInv'
  BY <1>5, StepOpenTerminal, StepTerminals
<1>6. ASSUME NEW t \in Terminals, PlaceTerminal(t) \/ NameTerminal(t) \/ ShowTerminal(t)
      PROVE  interrupted'
  BY <1>6 DEF IInv, Quiet, PlaceTerminal, NameTerminal, ShowTerminal
<1> QED
  BY <1>1, <1>2, <1>3, <1>4, <1>5, <1>6 DEF Next

-----------------------------------------------------------------------------
(* What is on the screen.                                                  *)

\* Everywhere in back_buffer_ and on the screen is what should be seen, with the
\* exceptions of ScreenIsComposition; and CloseLayer draws where the window still is,
\* if it leaves no remains.
Shown == /\ manager.pos[Back] = <<0, 0>>
         /\ dirty \subseteq Windows
         /\ Composed(manager, dirty, ghosts \cap closed, moved)
         /\ \A w \in Windows : closing[w] # None /\ w \notin ghosts => manager.pos[w] = closing[w]

LEMMA InitShown == Init => Shown
<1> SUFFICES ASSUME Init PROVE Shown
  OBVIOUS
<1>1. manager.pos[Back] = <<0, 0>> /\ Composed(manager, {}, {}, FALSE)
  BY Start
<1>2. /\ dirty = {} /\ ghosts \cap closed = {} /\ moved = FALSE
      /\ \A w \in Windows : closing[w] = None
  BY DEF Init
<1>3. Composed(manager, dirty, ghosts \cap closed, moved)
  BY <1>1, <1>2
<1> QED
  BY <1>1, <1>2, <1>3 DEF Shown

LEMMA WindowFacts ==
  ASSUME IInv, Shown
  PROVE  /\ Grounded(manager) /\ Stacked(manager, Alive) /\ manager.pos \in [LayerIds -> Int \X Int]
         /\ Windows \subseteq LayerIds /\ Toplevels \subseteq LayerIds /\ Windows \subseteq Toplevels
         /\ Back \notin Toplevels /\ Cursor \notin Toplevels /\ Back # Cursor
         /\ Back \in LayerIds /\ Cursor \in LayerIds /\ Main \in Toplevels
         /\ None \notin LayerIds
<1>1. Grounded(manager) /\ Stacked(manager, Alive)
  BY GroundedStacked DEF IInv, Shown
<1>2. manager.pos \in [LayerIds -> Int \X Int]
  BY <1>1 DEF Stacked, Layered
<1>3. /\ Windows \subseteq LayerIds /\ Toplevels \subseteq LayerIds /\ Windows \subseteq Toplevels
      /\ Back \notin Toplevels /\ Cursor \notin Toplevels /\ Back # Cursor
      /\ Back \in LayerIds /\ Cursor \in LayerIds /\ Main \in Toplevels
      /\ None \notin LayerIds
  BY Distinct DEF LayerIds, Toplevels, Windows
<1> QED
  BY <1>1, <1>2, <1>3

\* Activate leaves everything right that was.
LEMMA ActivateShows ==
  ASSUME IInv, Shown, NEW m, Stacked(m, Alive), m.pos[Back] = <<0, 0>>, NEW G, NEW mv, Composed(m, dirty, G, mv),
         NEW id \in Toplevels \cup {None}, NEW tasks, Activate(m, id, tasks)
  PROVE  Composed(manager', dirty', G, mv) /\ dirty' \subseteq Windows
<1>1. active \in (Toplevels \cap Alive) \cup {None}
  BY DEF IInv, ActiveShown
<1>2. manager' = Activated(m, active, id)
  BY <1>1 DEF Activate
<1>3. dirty' = IF active = id THEN dirty ELSE dirty \ {active, id}
  BY DEF Activate
<1>4. Composed(manager', IF active = id THEN dirty ELSE dirty \ {active, id}, G, mv)
  BY <1>1, <1>2, ActivatedComposed
<1> QED
  BY <1>3, <1>4 DEF Shown

\* Only the cursor has been moved, or nothing.
LEMMA PlacesKept ==
  ASSUME Shown, \A x \in LayerIds \ {Cursor} : manager'.pos[x] = manager.pos[x],
         UNCHANGED <<closing, ghosts>>, dirty' \subseteq Windows,
         Composed(manager', dirty', ghosts \cap closed', moved')
  PROVE  Shown'
<1>1. \A x \in Windows : manager'.pos[x] = manager.pos[x]
  BY Distinct DEF LayerIds, Toplevels
<1>2. manager'.pos[Back] = manager.pos[Back]
  BY Distinct DEF LayerIds
<1> QED
  BY <1>1, <1>2 DEF Shown

\* The cursor is drawn where it goes.
LEMMA CursorComposed ==
  ASSUME IInv, Shown, NEW d \in Displacements, NEW m, m = CursorMoved(d)
  PROVE  Composed(m, dirty, ghosts \cap closed, TRUE) /\ Grounded(m)
<1>1. Clamped(d) \in Int \X Int /\ m = Move(manager, Cursor, Clamped(d), {})
  BY CursorGoes DEF CursorMoved
<1>2. Grounded(manager) /\ Cursor \in LayerIds \ {Back}
  BY WindowFacts
<1>3. Composed(manager, dirty, ghosts \cap closed, moved)
  BY DEF Shown
<1>4. Grounded(m)
  BY <1>1, <1>2, <1>3, MoveComposed
<1>5. Composed(m, dirty, ghosts \cap closed, TRUE)
  BY <1>1, <1>2, <1>3, MoveComposed
<1> QED
  BY <1>4, <1>5

LEMMA ShownMouse ==
  ASSUME IInv, Shown, NEW d \in Displacements, Press(d) \/ Release(d), moved' = TRUE
  PROVE  Shown'
<1> PICK m : m = CursorMoved(d)
  OBVIOUS
<1>1. Stacked(m, Alive)
  BY CursorGoes
<1>2. PutAt(manager, m, Cursor, Clamped(d))
  BY CursorGoes
<1>3. Composed(m, dirty, ghosts \cap closed, TRUE) /\ Grounded(m)
  BY CursorComposed
<1>4. CASE Press(d)
  <2>1. PICK id \in Toplevels \cup {None} : Activate(m, id, LayerTasks)
    BY <1>4 DEF Press
  <2>2. UNCHANGED <<closing, closed, ghosts>>
    BY <1>4 DEF Press
  <2>3. m.pos[Back] = <<0, 0>>
    BY <1>3 DEF Grounded
  <2>4. Composed(manager', dirty', ghosts \cap closed, TRUE) /\ dirty' \subseteq Windows
    BY <1>1, <1>3, <2>1, <2>3, ActivateShows
  <2>5. manager'.pos = m.pos
    <3>1. manager' = Activated(m, active, id) /\ active \in (Toplevels \cap Alive) \cup {None}
      BY <2>1 DEF IInv, ActiveShown, Activate
    <3>2. m.stack = manager.stack
      BY CursorGoes
    <3>3. active = id => (id = None \/ OnTop(m, id)) /\ id \in Alive \cup {None}
      BY <3>1, <3>2 DEF IInv, ActiveShown, OnTop
    <3>4. active \in Toplevels \cup {None}
      BY <3>1
    <3> QED
      BY <1>1, <3>1, <3>3, <3>4, ActivatedPlaces
  <2> QED
    BY <1>2, <2>2, <2>4, <2>5, PlacesKept DEF PutAt
<1>5. CASE Release(d)
  <2>1. manager' = m /\ UNCHANGED <<closing, closed, ghosts, dirty>>
    BY <1>5 DEF Release
  <2> QED
    BY <1>2, <1>3, <2>1, PlacesKept DEF PutAt, Shown
<1> QED
  BY <1>4, <1>5

LEMMA ShownDrag ==
  ASSUME IInv, Shown, NEW d \in Displacements, Drag(d), moved' = TRUE
  PROVE  Shown'
<1> PICK m : /\ m = CursorMoved(d)
             /\ IF drag = None THEN manager' = m /\ UNCHANGED <<dirty, ghosts, lost>>
                ELSE MoveRelative(m, drag, PosDiff(d))
  BY DEF Drag
<1>0. UNCHANGED <<closing, closed>>
  BY DEF Drag
<1>1. Stacked(m, Alive) /\ PosDiff(d) \in Int \X Int
  BY CursorGoes
<1>2. PutAt(manager, m, Cursor, Clamped(d))
  BY CursorGoes
<1>3. Composed(m, dirty, ghosts \cap closed, TRUE) /\ Grounded(m)
  BY CursorComposed
<1>4. CASE drag \notin Alive
  <2>1. manager' = m /\ UNCHANGED <<dirty, ghosts>>
    BY <1>4 DEF MoveRelative
  <2> QED
    BY <1>0, <1>2, <1>3, <2>1, PlacesKept DEF PutAt, Shown
<1>5. CASE drag \in Alive
  <2>1. /\ drag \in LayerIds \ {Back} /\ drag # Cursor /\ drag # None
        /\ manager.pos[drag] \in Int \X Int /\ m.pos[drag] = manager.pos[drag]
    <3>1. drag \in {None, Main} \cup Windows /\ drag \in LayerIds
      BY <1>5, AliveFacts DEF IInv, Gripped, Lifetimes
    <3>2. drag # None /\ drag # Cursor /\ drag # Back
      BY <3>1, WindowFacts
    <3>3. manager.pos \in [LayerIds -> Int \X Int]
      BY WindowFacts
    <3> QED
      BY <1>2, <3>1, <3>2, <3>3 DEF PutAt
  <2> PICK new : new = Add(m.pos[drag], PosDiff(d))
    OBVIOUS
  <2>2. /\ manager' = Move(m, drag, new, {})
        /\ dirty' = dirty \ {drag}
        /\ ghosts' = IF drag \in Windows /\ closing[drag] # None /\ PosDiff(d) # <<0, 0>>
                     THEN ghosts \cup {drag} ELSE ghosts
    BY <1>5, <2>1 DEF MoveRelative
  <2>3. new \in Int \X Int
    BY <1>1, <2>1, Pairs
  <2>4. Grounded(manager')
    BY <1>3, <2>1, <2>2, <2>3, MoveComposed
  <2>5. Composed(manager', dirty \ {drag}, ghosts \cap closed, TRUE)
    BY <1>3, <2>1, <2>2, <2>3, MoveComposed
  <2>6. Composed(manager', dirty', ghosts' \cap closed', moved')
    <3>1. ghosts \cap closed \subseteq ghosts' \cap closed'
      BY <1>0, <2>2
    <3>2. Composed(manager', dirty', ghosts' \cap closed', TRUE)
      BY <2>2, <2>5, <3>1, MoreExcepted
    <3> QED
      BY <3>2
  <2>7. manager'.pos = [m.pos EXCEPT ![drag] = new] /\ m.pos \in [LayerIds -> Int \X Int]
    <3>1. m.pos \in [LayerIds -> Int \X Int]
      BY <1>1 DEF Stacked, Layered
    <3>2. drag \in LayerIds
      BY <2>1
    <3>3. manager'.pos = [m.pos EXCEPT ![drag] = new]
      BY <1>1, <2>2, <2>3, <3>2, MovedStacked
    <3> QED
      BY <3>1, <3>3
  <2>8. ASSUME NEW w \in Windows, closing'[w] # None, w \notin ghosts' PROVE manager'.pos[w] = closing'[w]
    <3>1. w \notin ghosts /\ closing[w] # None /\ manager.pos[w] = closing[w]
      BY <1>0, <2>2, <2>8 DEF Shown
    <3>2. w \in LayerIds /\ w # Cursor
      BY WindowFacts, <2>8
    <3>3. CASE w = drag
      <4>1. PosDiff(d) = <<0, 0>>
        BY <1>0, <2>2, <2>8, <3>3
      <4>2. new = m.pos[drag]
        BY <2>1, <4>1 DEF Add
      <4> QED
        BY <1>0, <2>1, <2>7, <3>1, <3>3, <4>2
    <3>4. CASE w # drag
      <4>1. manager'.pos[w] = m.pos[w]
        BY <2>7, <3>2, <3>4
      <4> QED
        BY <1>0, <1>2, <3>1, <3>2, <4>1 DEF PutAt
    <3> QED
      BY <3>3, <3>4
  <2>9. manager'.pos[Back] = <<0, 0>> /\ dirty' \subseteq Windows
    BY <2>2, <2>4 DEF Grounded, Shown
  <2> QED
    BY <2>6, <2>8, <2>9 DEF Shown
<1> QED
  BY <1>4, <1>5

LEMMA ShownOpened ==
  ASSUME IInv, Shown, NEW w \in Windows \ opened, NEW at, NEW m, Stacked(m, Alive), m.stack = manager.stack,
         m.pos = [manager.pos EXCEPT ![w] = at],
         Composed(m, dirty, ghosts \cap closed, moved), NEW tasks, Activate(m, w, tasks),
         UNCHANGED <<closing, closed, ghosts, moved>>
  PROVE  Shown'
<1>0. /\ w # Back /\ w \in Toplevels /\ w # None /\ manager.pos \in [LayerIds -> Int \X Int]
      /\ Windows \subseteq LayerIds /\ Back \in LayerIds
  BY WindowFacts
<1>1. m.pos[Back] = <<0, 0>>
  BY <1>0 DEF Shown
<1>2. Composed(manager', dirty', ghosts \cap closed, moved) /\ dirty' \subseteq Windows
  BY <1>0, <1>1, ActivateShows
<1>3. Composed(manager', dirty', ghosts' \cap closed', moved')
  BY <1>2
<1>4. manager'.pos = m.pos
  <2>1. manager' = Activated(m, active, w) /\ active \in (Toplevels \cap Alive) \cup {None}
    BY DEF IInv, ActiveShown, Activate
  <2>2. active # w
    BY <1>0, <2>1, Distinct DEF Alive, Toplevels, LayerIds
  <2>3. active \in Toplevels \cup {None} /\ w \in Toplevels \cup {None}
    BY <1>0, <2>1
  <2> QED
    BY <2>1, <2>2, <2>3, ActivatedPlaces
<1>5. \A x \in Windows : x # w => manager'.pos[x] = manager.pos[x]
  BY <1>0, <1>4
<1>6. closing[w] = None
  BY DEF IInv, Lifetimes
<1>7. \A x \in Windows : closing'[x] # None /\ x \notin ghosts' => manager'.pos[x] = closing'[x]
  BY <1>5, <1>6 DEF Shown
<1> QED
  BY <1>1, <1>2, <1>3, <1>4, <1>7 DEF Shown

LEMMA ShownOpen ==
  ASSUME IInv, Shown, NEW w \in Windows, OpenWindow(w) \/ (w \in Terminals /\ OpenTerminal(w))
  PROVE  Shown'
<1>0. w \in Windows \ opened /\ UNCHANGED <<closing, closed, ghosts, moved>>
  BY DEF OpenWindow, OpenTerminal, IInv, Quiet
<1>1. /\ Grounded(manager) /\ Stacked(manager, Alive) /\ w \in LayerIds \ {Back}
      /\ manager.pos \in [LayerIds -> Int \X Int]
  BY WindowFacts
<1>2. Composed(manager, dirty, ghosts \cap closed, moved)
  BY DEF Shown
<1>3. CASE OpenWindow(w)
  <2> PICK at \in OpenAt : Activate([manager EXCEPT !.pos[w] = at], w, LayerTasks)
    BY <1>3 DEF OpenWindow
  <2> PICK m : m = [manager EXCEPT !.pos[w] = at]
    OBVIOUS
  <2>1. at \in Int \X Int
    BY Geometry
  <2>2. /\ DOMAIN m = Fields /\ m.stack = manager.stack /\ m.look = manager.look
        /\ m.pos = [manager.pos EXCEPT ![w] = at]
        /\ m.back = manager.back /\ m.screen = manager.screen
    BY <1>1, PutPos DEF Stacked, Layered
  <2>3. Stacked(m, Alive) /\ Layered(m) /\ Layered(manager)
    BY <1>1, <2>1, <2>2 DEF Stacked, Layered, InStack
  <2>4. ~ InStack(manager, w) /\ ~ InStack(m, w)
    <3>1. w \notin Alive
      BY <1>0, Distinct DEF Alive
    <3> QED
      BY <1>1, <2>3, <3>1 DEF Stacked
  <2>5. OnlyDiffers(manager, m, w)
    BY <1>1, <2>2 DEF OnlyDiffers, OthersLie, InStack
  <2>6. Composed(m, dirty, ghosts \cap closed, moved)
    <3> SUFFICES ASSUME NEW p \in Pixels PROVE RightAt(m, p, dirty, ghosts \cap closed, moved)
      BY DEF Composed
    <3>1. RightAt(manager, p, dirty, ghosts \cap closed, moved)
      BY <1>2 DEF Composed
    <3> QED
      BY <2>3, <2>4, <2>5, <3>1, Elsewhere
  <2> QED
    BY <1>0, <2>2, <2>3, <2>6, ShownOpened
<1>4. CASE OpenTerminal(w)
  <2> PICK junk, m : m = Move(manager, w, TerminalAt, junk) /\ Activate(m, w, LayerTasks \cup {w})
    BY <1>4 DEF OpenTerminal
  <2>1. TerminalAt \in Int \X Int
    BY Geometry
  <2>2. /\ Stacked(m, Alive) /\ m.stack = manager.stack
        /\ m.pos = [manager.pos EXCEPT ![w] = TerminalAt]
    BY <1>1, <2>1, MovedStacked
  <2>3. Composed(m, dirty \ {w}, ghosts \cap closed, moved)
    BY <1>1, <1>2, <2>1, MoveComposed
  <2>4. Composed(m, dirty, ghosts \cap closed, moved)
    BY <2>3, MoreExcepted
  <2> QED
    BY <1>0, <2>2, <2>4, ShownOpened
<1> QED
  BY <1>3, <1>4

LEMMA ShownPictures ==
  ASSUME IInv, Shown, NEW w \in Windows, WinFunc(w) \/ WinRedraw(w) \/ BlinkCursor(w) \/ ProcessLayerMessage(w)
  PROVE  Shown'
<1>0. UNCHANGED <<closing, closed, ghosts, moved>> /\ dirty' \subseteq Windows
  <2>1. dirty \subseteq Windows
    BY DEF Shown
  <2>2. CASE WinFunc(w)
    BY <2>1, <2>2 DEF WinFunc, Draws
  <2>3. CASE WinRedraw(w)
    BY <2>1, <2>3 DEF WinRedraw
  <2>4. CASE BlinkCursor(w)
    BY <2>1, <2>4 DEF BlinkCursor, Draws
  <2>5. CASE ProcessLayerMessage(w)
    BY <2>1, <2>5 DEF ProcessLayerMessage
  <2> QED
    BY <2>2, <2>3, <2>4, <2>5
<1>1. Grounded(manager) /\ Stacked(manager, Alive) /\ w \in LayerIds
  BY WindowFacts
<1>2. Composed(manager, dirty, ghosts \cap closed, moved)
  BY DEF Shown
<1>3. manager'.pos = manager.pos /\ Composed(manager', dirty', ghosts \cap closed, moved)
  <2>1. CASE WinFunc(w) \/ BlinkCursor(w)
    <3>1. dirty' = dirty \cup {w} /\ manager' = [manager EXCEPT !.look[w].ink = 1 - @]
      BY <2>1 DEF WinFunc, BlinkCursor, Draws
    <3>2. DOMAIN manager = Fields
      BY <1>1 DEF Stacked, Layered
    <3>3. manager'.pos = manager.pos
      BY <3>1, <3>2 DEF Fields
    <3>4. Composed(manager', dirty \cup {w}, ghosts \cap closed, moved)
      BY <1>1, <1>2, <3>1, InkComposed
    <3> QED
      BY <3>1, <3>3, <3>4
  <2>2. CASE WinRedraw(w)
    <3>1. manager' = DrawWhole(manager, w) /\ dirty' = dirty \ {w}
      BY <2>2 DEF WinRedraw
    <3>2. InStack(manager, w)
      <4>1. w \in Alive
        BY <2>2 DEF WinRedraw, Working, Alive
      <4> QED
        BY <1>1, <4>1 DEF Stacked
    <3>3. ComposedBut(manager, w, dirty, ghosts \cap closed, moved)
      BY <1>2 DEF Composed, ComposedBut
    <3>4. Composed(manager', dirty \ {w}, ghosts \cap closed, moved)
      BY <1>1, <3>1, <3>2, <3>3, WholeComposed
    <3>5. manager'.pos = manager.pos
      BY <1>1, <3>1, WholeSame DEF Redrawn
    <3> QED
      BY <3>1, <3>4, <3>5
  <2>3. CASE ProcessLayerMessage(w)
    <3>1. PICK junk : manager' = DrawLayer(manager, w, Rect(Add(manager.pos[w], InkAt), <<1, 1>>), junk)
      BY <2>3 DEF ProcessLayerMessage
    <3>2. dirty' = dirty \ {w}
      BY <2>3 DEF ProcessLayerMessage
    <3>3. Redrawn(manager, manager')
      BY <1>1, <3>1, DrawnLayerSame DEF Grounded, Layered
    <3>4. Composed(manager', dirty \ {w}, ghosts \cap closed, moved)
      BY <1>1, <1>2, <3>1, InkShown
    <3> QED
      BY <3>2, <3>3, <3>4 DEF Redrawn
  <2> QED
    BY <2>1, <2>2, <2>3
<1> QED
  BY <1>0, <1>3, PlacesKept

LEMMA ShownMain ==
  ASSUME IInv, Shown, DrawMain
  PROVE  Shown'
<1>0. UNCHANGED <<closing, closed, ghosts, moved, dirty>> /\ manager' = DrawWhole(manager, Main)
  BY DEF DrawMain
<1>1. Grounded(manager) /\ Stacked(manager, Alive) /\ Main \in LayerIds
  BY WindowFacts
<1>2. InStack(manager, Main)
  BY <1>1 DEF Stacked, Alive
<1>3. ComposedBut(manager, Main, dirty, ghosts \cap closed, moved)
  BY DEF Shown, Composed, ComposedBut
<1>4. Composed(manager', dirty \ {Main}, ghosts \cap closed, moved)
  BY <1>0, <1>1, <1>2, <1>3, WholeComposed
<1>5. Composed(manager', dirty, ghosts \cap closed, moved)
  BY <1>4, MoreExcepted
<1>6. manager'.pos = manager.pos
  BY <1>0, <1>1, WholeSame DEF Redrawn
<1> QED
  BY <1>0, <1>5, <1>6, PlacesKept DEF Shown

LEMMA ShownBeginClose ==
  ASSUME IInv, Shown, NEW w \in Windows, BeginClose(w)
  PROVE  Shown'
<1>1. UNCHANGED <<manager, closed, dirty, ghosts, moved>> /\ closing' = [closing EXCEPT ![w] = manager.pos[w]]
  BY DEF BeginClose
<1>2. DOMAIN closing = Windows
  BY DEF IInv, Lifetimes
<1> QED
  BY <1>1, <1>2 DEF Shown

LEMMA ShownEndClose ==
  ASSUME IInv, Shown, NEW w \in Windows, EndClose(w)
  PROVE  Shown'
<1>0. /\ closing[w] # None /\ closed' = closed \cup {w} /\ closing' = [closing EXCEPT ![w] = None]
      /\ UNCHANGED <<ghosts, moved>> /\ dirty' = dirty \ {active, w}
  BY DEF EndClose
<1>1. /\ active \in (Toplevels \cap Alive) \cup {None} /\ Stacked(manager, Alive)
      /\ manager.pos[Back] = <<0, 0>> /\ Windows \subseteq LayerIds
      /\ Back \in LayerIds /\ None \notin LayerIds /\ w # Back
  BY WindowFacts DEF IInv, ActiveShown, Shown
<1> PICK m : m = Activated(manager, active, None)
  OBVIOUS
<1>2. manager' = Removed(m, w, closing[w])
  BY <1>1 DEF EndClose
<1>3. active \in Toplevels \cup {None} /\ None \in Toplevels \cup {None} /\ None \in Alive \cup {None}
  BY <1>1
<1>4. /\ Stacked(m, Alive \cup ({None} \ {None})) /\ m.pos = manager.pos
      /\ LooksActive(manager, m, active, None)
  BY <1>1, <1>3, ActivatedFacts
<1>5. Stacked(m, Alive)
  <2>1. Alive \cup ({None} \ {None}) = Alive
    OBVIOUS
  <2> QED
    BY <1>4, <2>1
<1>6. Composed(m, IF active = None THEN dirty ELSE dirty \ {active, None}, ghosts \cap closed, moved)
  BY <1>1, ActivatedComposed DEF Shown
<1>7. (IF active = None THEN dirty ELSE dirty \ {active, None}) \subseteq dirty \ {active}
  <2>1. None \notin dirty
    BY <1>1 DEF Shown
  <2> QED
    BY <2>1
<1>8. Composed(m, dirty \ {active}, ghosts \cap closed, moved)
  BY <1>6, <1>7, MoreExcepted
<1>9. Composed(manager', (dirty \ {active}) \ {w}, ghosts \cap (closed \cup {w}), moved)
  <2> PICK D, G, H, pos : /\ D = dirty \ {active} /\ G = ghosts \cap closed
                          /\ H = ghosts \cap (closed \cup {w}) /\ pos = closing[w]
    OBVIOUS
  <2>1. G \subseteq H
    OBVIOUS
  <2>2. m.pos[w] = pos \/ w \in H
    BY <1>0, <1>4 DEF Shown
  <2>3. Composed(m, D, G, moved) /\ m.pos[Back] = <<0, 0>> /\ manager' = Removed(m, w, pos)
    BY <1>1, <1>2, <1>4, <1>8
  <2>4. Composed(manager', D \ {w}, H, moved)
    BY <1>5, <2>1, <2>2, <2>3, RemovedComposed
  <2> QED
    BY <2>4
<1>10. Composed(manager', dirty', ghosts' \cap closed', moved')
  <2>1. (dirty \ {active}) \ {w} = dirty'
    BY <1>0
  <2> QED
    BY <1>0, <1>9, <2>1
<1>11. \A x \in LayerIds : x # w => manager'.pos[x] = manager.pos[x]
  <2>1. OthersSame(m, manager', w)
    BY <1>2, <1>5, RemovedStacked
  <2> QED
    BY <1>4, <2>1 DEF OthersSame
<1>12. \A x \in Windows : closing'[x] # None /\ x \notin ghosts' => manager'.pos[x] = closing'[x]
  <2>1. DOMAIN closing = Windows
    BY DEF IInv, Lifetimes
  <2> QED
    BY <1>0, <1>1, <1>11, <2>1 DEF Shown
<1>13. dirty' \subseteq Windows /\ manager'.pos[Back] = <<0, 0>>
  BY <1>0, <1>1, <1>11 DEF Shown
<1> QED
  BY <1>10, <1>12, <1>13 DEF Shown

LEMMA ShownTerminals ==
  ASSUME IInv, Shown, NEW t \in Terminals, CreateTerminal(t) \/ BeginCommand(t) \/ EndCommand(t)
  PROVE  Shown'
<1>1. UNCHANGED <<manager, closing, closed, dirty, ghosts, moved>>
  BY DEF CreateTerminal, BeginCommand, EndCommand
<1> QED
  BY <1>1 DEF Shown

LEMMA StepShown == IInv /\ Shown /\ [Next]_vars => Shown' \/ interrupted'
<1> SUFFICES ASSUME IInv, Shown, [Next]_vars PROVE Shown' \/ interrupted'
  OBVIOUS
<1>1. CASE UNCHANGED vars
  BY <1>1 DEF vars, Shown
<1>2. CASE OnInterrupt
  <2>1. PICK d \in Displacements : (Press(d) \/ Drag(d) \/ Release(d)) /\ moved' = TRUE
    BY <1>2 DEF OnInterrupt
  <2> QED
    BY <2>1, ShownMouse, ShownDrag
<1>3. CASE DrawMain
  BY <1>3, ShownMain
<1>4. ASSUME NEW w \in Windows,
             \/ OpenWindow(w) \/ BeginClose(w) \/ EndClose(w)
             \/ WinFunc(w) \/ WinRedraw(w) \/ BlinkCursor(w) \/ ProcessLayerMessage(w)
      PROVE  Shown'
  BY <1>4, ShownOpen, ShownBeginClose, ShownEndClose, ShownPictures
<1>5. ASSUME NEW t \in Terminals, CreateTerminal(t) \/ OpenTerminal(t) \/ BeginCommand(t) \/ EndCommand(t)
      PROVE  Shown'
  <2>1. t \in Windows
    BY DEF Windows
  <2> QED
    BY <1>5, <2>1, ShownOpen, ShownTerminals
<1>6. ASSUME NEW t \in Terminals, PlaceTerminal(t) \/ NameTerminal(t) \/ ShowTerminal(t)
      PROVE  interrupted'
  BY <1>6 DEF IInv, Quiet, PlaceTerminal, NameTerminal, ShowTerminal
<1> QED
  BY <1>1, <1>2, <1>3, <1>4, <1>5, <1>6 DEF Next

-----------------------------------------------------------------------------
(* What is true of the layers even if terminals have been interrupted.     *)

\* The stack is a list of layers of A, of each at most one.
Loose(m, A) == Layered(m) /\ Once(m.stack) /\ \A x : InStack(m, x) => x \in A

LEMMA LooseRedrawn ==
  ASSUME NEW m, NEW A, Loose(m, A), NEW n, Redrawn(m, n)
  PROVE  Loose(n, A) /\ n.pos = m.pos
BY DEF Loose, Redrawn, Layered, InStack

LEMMA LooseMore ==
  ASSUME NEW m, NEW A, NEW B, Loose(m, A), A \subseteq B
  PROVE  Loose(m, B)
BY DEF Loose

LEMMA LooseActive ==
  ASSUME NEW m, NEW A, Loose(m, A), NEW id \in LayerIds, NEW on \in BOOLEAN, NEW n, n = SetActive(m, id, on)
  PROVE  Loose(n, A) /\ n.pos = m.pos
<1>1. Layered(m)
  BY DEF Loose
<1>2. /\ Layered(n) /\ n.stack = m.stack /\ n.pos = m.pos /\ n.back = m.back /\ n.screen = m.screen
      /\ n.look = [m.look EXCEPT ![id] = [m.look[id] EXCEPT !.active = on]]
  BY <1>1, PutActive
<1> QED
  BY <1>2 DEF Loose, InStack

LEMMA LooseHidden ==
  ASSUME NEW m, NEW A, Loose(m, A), NEW id \in LayerIds, NEW n, n = Hide(m, id)
  PROVE  Loose(n, A) /\ n.pos = m.pos
<1>1. Layered(m) /\ Once(m.stack)
  BY DEF Loose
<1>2. Layered(n) /\ SameDrawing(m, n) /\ Once(n.stack)
  BY <1>1, HiddenFacts
<1>3. \A x : InStack(n, x) => InStack(m, x)
  BY <1>1, HiddenFacts
<1> QED
  BY <1>2, <1>3 DEF Loose, SameDrawing

LEMMA LooseUpDown ==
  ASSUME NEW m, NEW A, Loose(m, A), NEW id \in LayerIds, NEW height \in Int, NEW n, n = UpDown(m, id, height)
  PROVE  Loose(n, A \cup {id}) /\ n.pos = m.pos
<1>1. CASE height < 0
  <2>1. n = Hide(m, id)
    BY <1>1 DEF UpDown
  <2>2. Loose(n, A) /\ n.pos = m.pos
    BY <2>1, LooseHidden
  <2> QED
    BY <2>2, LooseMore
<1>2. CASE ~ height < 0
  <2> PICK e, h : e = Hide(m, id) /\ h = e.stack
    OBVIOUS
  <2>0. Layered(m) /\ Once(m.stack)
    BY DEF Loose
  <2>1. Layered(e) /\ Once(h) /\ \A x : InStack(e, x) <=> InStack(m, x) /\ x # id
    BY <2>0, HiddenFacts
  <2>2. h \in Seq(LayerIds) /\ Len(h) \in Nat
    BY <2>1 DEF Layered
  <2> PICK k : k = (IF height > Len(h) THEN Len(h) ELSE height) + 1
    OBVIOUS
  <2>3. height \in Nat
    BY <1>2
  <2>4. k \in 1..(Len(h) + 1)
    BY <2>2, <2>3
  <2>5. Layered(n) /\ SameDrawing(m, n) /\ n.stack = InsertAt(h, k, id)
    BY <2>0, <2>3, UpDownFacts
  <2>6. \A i \in DOMAIN h : h[i] # id
    BY <2>1 DEF InStack
  <2>7. LiesMore(n.stack, h, id)
    BY <2>1, <2>2, <2>4, <2>5, <2>6, InsertAtOrder
  <2>8. Once(n.stack) /\ \A x : InStack(n, x) => InStack(e, x) \/ x = id
    BY <2>7 DEF LiesMore, InStack
  <2> QED
    BY <2>1, <2>5, <2>8 DEF Loose, SameDrawing
<1> QED
  BY <1>1, <1>2

\* Layers n lie where layers m do, and are loosely those of A.
Keeps(n, m, A) == Loose(n, A) /\ n.pos = m.pos

LEMMA UpDownKeeps ==
  ASSUME NEW m, NEW A, Loose(m, A), NEW id \in LayerIds, NEW height \in Int
  PROVE  Keeps(UpDown(m, id, height), m, A \cup {id})
<1> PICK n : n = UpDown(m, id, height)
  OBVIOUS
<1>1. Loose(n, A \cup {id}) /\ n.pos = m.pos
  BY LooseUpDown
<1> QED
  BY <1>1 DEF Keeps

LEMMA LooseHeight ==
  ASSUME NEW m, NEW A, Loose(m, A), NEW id
  PROVE  HeightOf(m, id) \in Int
<1>1. CASE InStack(m, id)
  BY <1>1, HeightFacts DEF Loose
<1>2. CASE ~ InStack(m, id)
  BY <1>2 DEF HeightOf
<1> QED
  BY <1>1, <1>2

LEMMA LooseWhole ==
  ASSUME NEW m, NEW A, Loose(m, A), NEW id
  PROVE  Loose(DrawWhole(m, id), A) /\ DrawWhole(m, id).pos = m.pos
<1>1. Redrawn(m, DrawWhole(m, id))
  BY DrawnLayerSame DEF DrawWhole, Loose, Layered
<1> QED
  BY <1>1, LooseRedrawn

LEMMA LooseDeactivated ==
  ASSUME NEW m, NEW A, Loose(m, A), NEW old \in Toplevels \cup {None}
  PROVE  Loose(Deactivated(m, old), A) /\ Deactivated(m, old).pos = m.pos
<1>1. CASE old = None
  BY <1>1 DEF Deactivated
<1>2. CASE old # None
  <2> PICK off : off = SetActive(m, old, FALSE)
    OBVIOUS
  <2>1. old \in LayerIds
    BY <1>2 DEF LayerIds
  <2>2. Loose(off, A) /\ off.pos = m.pos
    BY <2>1, LooseActive
  <2>3. Deactivated(m, old) = DrawWhole(off, old)
    BY <1>2 DEF Deactivated
  <2>4. Loose(DrawWhole(off, old), A)
    BY <2>2, LooseWhole
  <2>5. DrawWhole(off, old).pos = off.pos
    BY <2>2, LooseWhole
  <2> QED
    BY <2>2, <2>3, <2>4, <2>5
<1> QED
  BY <1>1, <1>2

LEMMA RaiseKeeps ==
  ASSUME NEW m, NEW A, Loose(m, A), NEW id \in LayerIds
  PROVE  Keeps(Raise(m, id), m, A \cup {id})
<1> PICK down : down = UpDown(m, id, 0)
  OBVIOUS
<1> PICK height : height = HeightOf(down, Cursor) - 1
  OBVIOUS
<1>1. Keeps(UpDown(m, id, 0), m, A \cup {id})
  BY UpDownKeeps
<1>2. Loose(down, A \cup {id}) /\ down.pos = m.pos
  BY <1>1 DEF Keeps
<1>3. HeightOf(down, Cursor) \in Int
  BY <1>2, LooseHeight
<1>4. height \in Int
  BY <1>3
<1>5. Keeps(UpDown(down, id, height), down, (A \cup {id}) \cup {id})
  BY <1>2, <1>4, UpDownKeeps
<1>6. Raise(m, id) = UpDown(down, id, height)
  BY DEF Raise
<1>7. (A \cup {id}) \cup {id} = A \cup {id}
  OBVIOUS
<1> QED
  BY <1>2, <1>5, <1>6, <1>7 DEF Keeps

LEMMA LooseBroughtUp ==
  ASSUME NEW m, NEW A, Loose(m, A), NEW id \in Toplevels
  PROVE  Loose(BroughtUp(m, id), A \cup {id}) /\ BroughtUp(m, id).pos = m.pos
<1> PICK on : on = SetActive(m, id, TRUE)
  OBVIOUS
<1> PICK up : up = Raise(on, id)
  OBVIOUS
<1>1. id \in LayerIds
  BY DEF LayerIds
<1>2. Loose(on, A) /\ on.pos = m.pos
  BY <1>1, LooseActive
<1>3. Keeps(Raise(on, id), on, A \cup {id})
  BY <1>1, <1>2, RaiseKeeps
<1>4. Loose(up, A \cup {id}) /\ up.pos = on.pos
  BY <1>3 DEF Keeps
<1>5. BroughtUp(m, id) = DrawWhole(up, id)
  BY DEF BroughtUp
<1>6. Loose(DrawWhole(up, id), A \cup {id})
  BY <1>4, LooseWhole
<1>7. DrawWhole(up, id).pos = up.pos
  BY <1>4, LooseWhole
<1> QED
  BY <1>2, <1>4, <1>5, <1>6, <1>7

LEMMA LooseActivated ==
  ASSUME NEW m, NEW A, Loose(m, A), NEW old \in Toplevels \cup {None}, NEW id \in Toplevels \cup {None},
         id # None => id \in A
  PROVE  Loose(Activated(m, old, id), A) /\ Activated(m, old, id).pos = m.pos
<1> PICK off : off = Deactivated(m, old)
  OBVIOUS
<1>1. Loose(off, A) /\ off.pos = m.pos
  BY LooseDeactivated
<1>2. CASE old = id \/ id = None
  BY <1>1, <1>2 DEF Activated
<1>3. CASE old # id /\ id # None
  <2>1. Loose(BroughtUp(off, id), A \cup {id}) /\ BroughtUp(off, id).pos = off.pos
    BY <1>1, <1>3, LooseBroughtUp
  <2>2. Activated(m, old, id) = BroughtUp(off, id)
    BY <1>3 DEF Activated
  <2> QED
    BY <1>1, <1>3, <2>1, <2>2, LooseMore
<1> QED
  BY <1>2, <1>3

LEMMA LooseMoved ==
  ASSUME NEW m, NEW A, Loose(m, A), NEW id \in LayerIds, NEW new \in Int \X Int, NEW junk,
         NEW n, n = Move(m, id, new, junk)
  PROVE  Loose(n, A) /\ n.pos = [m.pos EXCEPT ![id] = new]
<1>1. DOMAIN m = Fields
  BY DEF Loose, Layered
<1>2. DOMAIN n = Fields /\ n.stack = m.stack /\ n.look = m.look /\ n.pos = [m.pos EXCEPT ![id] = new]
  BY <1>1, MovedSame
<1> QED
  BY <1>2 DEF Loose, Layered, InStack

LEMMA LooseRemoved ==
  ASSUME NEW m, NEW A, Loose(m, A), NEW w \in LayerIds, NEW pos
  PROVE  Loose(Removed(m, w, pos), A) /\ \A x \in LayerIds : x # w => Removed(m, w, pos).pos[x] = m.pos[x]
<1> PICK h : h = Hide(m, w)
  OBVIOUS
<1> PICK g : g = [h EXCEPT !.pos[w] = <<0, 0>>, !.look[w] = NewWindow]
  OBVIOUS
<1>1. Loose(h, A) /\ h.pos = m.pos
  BY LooseHidden
<1>2. Layered(h)
  BY <1>1 DEF Loose
<1>3. /\ DOMAIN g = Fields /\ g.stack = h.stack /\ g.pos = [h.pos EXCEPT ![w] = <<0, 0>>]
      /\ g.look = [h.look EXCEPT ![w] = NewWindow]
  BY <1>2 DEF Layered, Fields
<1>4. NewWindow \in Looks /\ <<0, 0>> \in Int \X Int
  BY DEF NewWindow, Looks
<1>5. Layered(g)
  BY <1>2, <1>3, <1>4 DEF Layered
<1>6. Loose(g, A)
  BY <1>1, <1>3, <1>5 DEF Loose, InStack
<1>7. Removed(m, w, pos) = Draw(g, Rect(pos, Size(w)))
  BY DEF Removed, RemoveLayer
<1>8. Redrawn(g, Draw(g, Rect(pos, Size(w))))
  BY <1>3, DrawnSame
<1>9. Loose(Removed(m, w, pos), A) /\ Removed(m, w, pos).pos = g.pos
  BY <1>6, <1>7, <1>8, LooseRedrawn
<1>10. \A x \in LayerIds : x # w => g.pos[x] = m.pos[x]
  BY <1>1, <1>2, <1>3 DEF Layered
<1> QED
  BY <1>9, <1>10

Known == {Back, Cursor, Main} \cup opened

Openings == /\ opening \in [Terminals -> {"no", "made", "placed", "named"}]
            /\ \A t \in Terminals : opening[t] = "made" => t \notin opened

LInv == /\ Loose(manager, Known)
        /\ Lifetimes
        /\ active \in Toplevels \cup {None}
        /\ Openings
        /\ Gripped

LEMMA KnownFacts ==
  ASSUME LInv
  PROVE  /\ Known \subseteq LayerIds /\ Alive \subseteq Known /\ Back \in LayerIds /\ Cursor \in LayerIds
         /\ Cursor \notin Toplevels /\ Toplevels \cap Known = {Main} \cup opened /\ None \notin Known
         /\ Windows \subseteq LayerIds /\ Toplevels \subseteq LayerIds /\ Windows \subseteq Toplevels
         /\ Terminals \subseteq Windows /\ Apps \subseteq Windows /\ Main \notin Windows /\ None \notin LayerIds
BY Distinct DEF LInv, Lifetimes, Known, Alive, LayerIds, Toplevels, Windows

\* A window keeps its place under the cursor, if both stay where they are.
LEMMA StillGripped ==
  ASSUME Gripped, UNCHANGED <<drag, pressed>>, opened \subseteq opened', drag \in Alive' => drag \in Alive,
         drag \in Alive' => manager'.pos[drag] = manager.pos[drag],
         manager'.pos[Cursor] = manager.pos[Cursor]
  PROVE  Gripped'
BY DEF Gripped

LEMMA NothingMoves ==
  ASSUME LInv, Loose(manager', Known), manager'.pos = manager.pos, UNCHANGED <<drag, pressed, opened, closed>>,
         Lifetimes', active' \in Toplevels \cup {None}, Openings'
  PROVE  LInv'
<1>1. Alive' = Alive /\ Known' = Known
  BY DEF Alive, Known
<1>2. Gripped'
  BY <1>1, StillGripped DEF LInv
<1> QED
  BY <1>1, <1>2 DEF LInv

LEMMA InitLInv == Init => LInv
<1> SUFFICES ASSUME Init PROVE LInv
  OBVIOUS
<1>1. IInv /\ Alive = Known
  BY InitIInv DEF Init, Alive, Known
<1>2. Loose(manager, Known)
  <2>1. Layered(manager) /\ Once(manager.stack) /\ \A x \in LayerIds : InStack(manager, x) <=> x \in Known
    BY <1>1 DEF IInv, Stacked
  <2>2. ASSUME NEW x, InStack(manager, x) PROVE x \in LayerIds
    <3>1. PICK i \in DOMAIN manager.stack : manager.stack[i] = x
      BY <2>2 DEF InStack
    <3> QED
      BY <2>1, <3>1 DEF Layered
  <2> QED
    BY <2>1, <2>2 DEF Loose
<1>3. active \in Toplevels \cup {None}
  BY <1>1 DEF IInv, ActiveShown
<1>4. Openings
  BY <1>1 DEF IInv, Quiet, Openings
<1>5. Lifetimes /\ Gripped
  BY <1>1 DEF IInv
<1> QED
  BY <1>2, <1>3, <1>4, <1>5 DEF LInv

LEMMA LoosePictures ==
  ASSUME LInv, NEW w \in Windows, WinFunc(w) \/ WinRedraw(w) \/ BlinkCursor(w) \/ ProcessLayerMessage(w)
  PROVE  LInv'
<1>1. UNCHANGED <<active, drag, pressed, opened, closing, closed, opening>>
  BY DEF taskVars, WinFunc, WinRedraw, BlinkCursor, ProcessLayerMessage
<1>2. Lifetimes' /\ Openings' /\ active' \in Toplevels \cup {None}
  BY <1>1 DEF LInv, Lifetimes, Openings
<1>3. Loose(manager', Known) /\ manager'.pos = manager.pos
  <2>1. CASE WinFunc(w) \/ BlinkCursor(w)
    <3>1. Layered(manager) /\ w \in LayerIds
      BY KnownFacts DEF LInv, Loose
    <3>2. manager' = [manager EXCEPT !.look[w].ink = 1 - @]
      BY <2>1 DEF WinFunc, BlinkCursor, Draws
    <3>3. /\ DOMAIN manager' = Fields /\ manager'.stack = manager.stack /\ manager'.pos = manager.pos
          /\ manager'.look = [manager.look EXCEPT ![w] = [manager.look[w] EXCEPT !.ink = 1 - manager.look[w].ink]]
      BY <3>1, <3>2 DEF Layered, Fields
    <3>4. manager.look[w] \in Looks /\ manager.look \in [LayerIds -> Looks]
      BY <3>1 DEF Layered
    <3>5. manager'.look \in [LayerIds -> Looks]
      BY <3>1, <3>3, <3>4 DEF Looks
    <3> QED
      BY <3>1, <3>3, <3>5 DEF LInv, Loose, Layered, InStack
  <2>2. CASE WinRedraw(w) \/ ProcessLayerMessage(w)
    <3>1. DOMAIN manager = Fields /\ Loose(manager, Known)
      BY DEF LInv, Loose, Layered
    <3>2. \E id, area, junk : manager' = DrawLayer(manager, id, area, junk)
      BY <2>2 DEF WinRedraw, ProcessLayerMessage, DrawWhole
    <3>3. Redrawn(manager, manager')
      BY <3>1, <3>2, DrawnLayerSame
    <3> QED
      BY <3>1, <3>3, LooseRedrawn
  <2> QED
    BY <2>1, <2>2
<1> QED
  BY <1>1, <1>2, <1>3, NothingMoves

\* Steps that leave the layers alone.
LEMMA LooseIdle ==
  ASSUME LInv,
         \/ \E w \in Windows : BeginClose(w)
         \/ \E t \in Terminals : CreateTerminal(t) \/ BeginCommand(t) \/ EndCommand(t)
  PROVE  LInv'
<1>1. UNCHANGED <<manager, active, drag, pressed, opened, closed>>
  BY DEF BeginClose, CreateTerminal, BeginCommand, EndCommand
<1>2. Lifetimes'
  <2>1. CASE \E w \in Windows : BeginClose(w)
    BY <2>1 DEF LInv, Lifetimes, BeginClose, Working
  <2>2. CASE \E t \in Terminals : CreateTerminal(t) \/ BeginCommand(t) \/ EndCommand(t)
    BY <2>2 DEF LInv, Lifetimes, CreateTerminal, BeginCommand, EndCommand
  <2> QED
    BY <2>1, <2>2
<1>3. Openings'
  <2>1. CASE \E w \in Windows : BeginClose(w)
    BY <2>1 DEF LInv, Openings, BeginClose, taskVars
  <2>2. CASE \E t \in Terminals : CreateTerminal(t)
    BY <2>2 DEF LInv, Openings, CreateTerminal, Begun
  <2>3. CASE \E t \in Terminals : BeginCommand(t) \/ EndCommand(t)
    BY <2>3 DEF LInv, Openings, BeginCommand, EndCommand
  <2> QED
    BY <2>1, <2>2, <2>3
<1>4. Loose(manager', Known) /\ manager'.pos = manager.pos /\ active' \in Toplevels \cup {None}
  BY <1>1 DEF LInv
<1> QED
  BY <1>1, <1>2, <1>3, <1>4, NothingMoves

LEMMA LooseMain ==
  ASSUME LInv, DrawMain
  PROVE  LInv'
<1>1. UNCHANGED <<active, drag, pressed, opened, closing, closed, opening>> /\ manager' = DrawWhole(manager, Main)
  BY DEF DrawMain, taskVars
<1>2. Lifetimes' /\ Openings' /\ active' \in Toplevels \cup {None}
  BY <1>1 DEF LInv, Lifetimes, Openings
<1>3. Loose(manager', Known)
  BY <1>1, LooseWhole DEF LInv
<1>4. manager'.pos = manager.pos
  BY <1>1, LooseWhole DEF LInv
<1> QED
  BY <1>1, <1>2, <1>3, <1>4, NothingMoves

\* What Activate does to layers m, whether it follows a null pointer or not.
LEMMA LooseActivate ==
  ASSUME LInv, NEW m, NEW A, Loose(m, A), NEW id \in Toplevels \cup {None}, id # None => id \in A,
         NEW tasks, Activate(m, id, tasks)
  PROVE  Loose(manager', A) /\ manager'.pos = m.pos /\ active' = id
<1>1. active' = id /\ manager' \in {m, Activated(m, active, id)} /\ active \in Toplevels \cup {None}
  BY DEF Activate, LInv
<1>2. Loose(Activated(m, active, id), A)
  BY <1>1, LooseActivated
<1>3. Activated(m, active, id).pos = m.pos
  BY <1>1, LooseActivated
<1> QED
  BY <1>1, <1>2, <1>3

LEMMA LooseCursor ==
  ASSUME LInv, NEW d \in Displacements, NEW m, m = CursorMoved(d)
  PROVE  /\ Loose(m, Known) /\ m.pos = [manager.pos EXCEPT ![Cursor] = Clamped(d)]
         /\ PutAt(manager, m, Cursor, Clamped(d))
         /\ Clamped(d) \in Int \X Int /\ PosDiff(d) \in Int \X Int
<1>1. Loose(manager, Known) /\ manager.pos \in [LayerIds -> Int \X Int] /\ Cursor \in LayerIds
  BY DEF LInv, Loose, Layered, LayerIds
<1>2. d \in Int \X Int /\ ScreenSize \in Int \X Int /\ <<1, 1>> \in Int \X Int /\ <<0, 0>> \in Int \X Int
  BY Geometry DEF ScreenSize
<1>3. manager.pos[Cursor] \in Int \X Int
  BY <1>1
<1>4. Add(manager.pos[Cursor], d) \in Int \X Int /\ Sub(ScreenSize, <<1, 1>>) \in Int \X Int
  BY <1>2, <1>3, Pairs
<1>5. ElementMin(Add(manager.pos[Cursor], d), Sub(ScreenSize, <<1, 1>>)) \in Int \X Int
  BY <1>4, Pairs
<1>6. Clamped(d) \in Int \X Int
  BY <1>2, <1>5, Pairs DEF Clamped
<1>7. PosDiff(d) \in Int \X Int
  BY <1>3, <1>6, Pairs DEF PosDiff
<1>8. Loose(m, Known) /\ m.pos = [manager.pos EXCEPT ![Cursor] = Clamped(d)]
  BY <1>1, <1>6, LooseMoved DEF CursorMoved
<1> QED
  BY <1>1, <1>6, <1>7, <1>8 DEF PutAt

LEMMA LoosePress ==
  ASSUME LInv, NEW d \in Displacements, Press(d)
  PROVE  LInv'
<1> PICK m, under : /\ m = CursorMoved(d) /\ under = FindLayerByPosition(m, Clamped(d))
                    /\ Activate(m, IF under \in Toplevels THEN under ELSE None, LayerTasks)
                    /\ pressed' = TRUE /\ ~ pressed
                    /\ drag' # drag => /\ under \in Toplevels /\ drag' = under
                                       /\ GetWindowRegion(Sub(Clamped(d), m.pos[under])) = "TitleBar"
                    /\ UNCHANGED <<opened, closing, closed, opening>>
  BY DEF Press, taskVars
<1>1. Loose(m, Known) /\ PutAt(manager, m, Cursor, Clamped(d))
  BY LooseCursor
<1>2. under \in Toplevels => under \in Known
  <2>1. Layered(m) /\ None \notin Toplevels
    BY <1>1, KnownFacts DEF Loose
  <2>2. under = None \/ InStack(m, under)
    BY <2>1, FoundInStack
  <2> QED
    BY <1>1, <2>1, <2>2 DEF Loose
<1> PICK id : id = IF under \in Toplevels THEN under ELSE None
  OBVIOUS
<1>3. id \in Toplevels \cup {None} /\ (id # None => id \in Known) /\ Activate(m, id, LayerTasks)
  BY <1>2
<1>4. Loose(manager', Known) /\ manager'.pos = m.pos /\ active' = id
  BY <1>1, <1>3, LooseActivate
<1>5. Known' = Known /\ Alive' = Alive
  BY DEF Known, Alive
<1>6. Lifetimes' /\ Openings'
  BY DEF LInv, Lifetimes, Openings
<1>7. Gripped'
  <2>1. CASE drag' = drag
    <3>1. drag = None
      BY DEF LInv, Gripped
    <3> QED
      BY <2>1, <3>1 DEF Gripped
  <2>2. CASE drag' # drag
    <3>1. under \in Toplevels /\ drag' = under
      BY <2>2
    <3>2. under \in {Main} \cup opened /\ under # Cursor
      BY <1>2, <3>1, KnownFacts
    <3>3. GetWindowRegion(Sub(manager'.pos[Cursor], manager'.pos[drag'])) = "TitleBar"
      BY <1>1, <1>4, <2>2, <3>1 DEF PutAt
    <3> QED
      BY <3>1, <3>2, <3>3 DEF Gripped
  <2> QED
    BY <2>1, <2>2
<1> QED
  BY <1>3, <1>4, <1>5, <1>6, <1>7 DEF LInv

LEMMA LooseDrag ==
  ASSUME LInv, NEW d \in Displacements, Drag(d)
  PROVE  LInv'
<1>0. pressed /\ UNCHANGED <<active, drag, pressed, opened, closing, closed, opening>>
  BY DEF Drag, taskVars
<1> PICK m : /\ m = CursorMoved(d)
             /\ IF drag = None THEN manager' = m /\ UNCHANGED <<dirty, ghosts, lost>>
                ELSE MoveRelative(m, drag, PosDiff(d))
  BY DEF Drag
<1>1. /\ Loose(m, Known) /\ PutAt(manager, m, Cursor, Clamped(d))
      /\ Clamped(d) \in Int \X Int /\ PosDiff(d) \in Int \X Int
  BY LooseCursor
<1>2. /\ Alive' = Alive /\ Known' = Known /\ drag \in {None} \cup LayerIds /\ drag # Cursor
      /\ Cursor \in LayerIds /\ None \notin Alive
  <2>1. Alive' = Alive /\ Known' = Known
    BY <1>0 DEF Alive, Known
  <2>2. drag \in {None, Main} \cup opened /\ opened \subseteq Windows
    BY DEF LInv, Gripped, Lifetimes
  <2> QED
    BY <2>1, <2>2, KnownFacts DEF Toplevels
<1>3. Lifetimes' /\ Openings' /\ active' \in Toplevels \cup {None}
  BY <1>0 DEF LInv, Lifetimes, Openings
<1>4. CASE drag \notin Alive
  <2>1. manager' = m
    BY <1>4 DEF MoveRelative
  <2>2. Gripped'
    BY <1>0, <1>2, <1>4 DEF LInv, Gripped
  <2> QED
    BY <1>1, <1>2, <1>3, <2>1, <2>2 DEF LInv
<1>5. CASE drag \in Alive
  <2> PICK new : new = Add(m.pos[drag], PosDiff(d))
    OBVIOUS
  <2>1. drag # None /\ drag \in LayerIds /\ manager' = Move(m, drag, new, {})
    BY <1>2, <1>5 DEF MoveRelative
  <2>2. m.pos \in [LayerIds -> Int \X Int] /\ m.pos[drag] \in Int \X Int
    BY <1>1, <2>1 DEF Loose, Layered
  <2>3. new \in Int \X Int
    BY <1>1, <2>2, Pairs
  <2>4. Loose(manager', Known) /\ manager'.pos = [m.pos EXCEPT ![drag] = new]
    BY <1>1, <2>1, <2>3, LooseMoved
  <2>5. m.pos[drag] = manager.pos[drag] /\ m.pos[Cursor] = Clamped(d)
    BY <1>1, <1>2 DEF PutAt
  <2>6. manager'.pos[Cursor] = Clamped(d) /\ manager'.pos[drag] = Add(manager.pos[drag], PosDiff(d))
    BY <1>2, <2>1, <2>2, <2>4, <2>5
  <2>7. manager.pos[Cursor] \in Int \X Int /\ manager.pos[drag] \in Int \X Int
    BY <1>2, <2>1 DEF LInv, Loose, Layered
  <2>8. Sub(manager'.pos[Cursor], manager'.pos[drag]) = Sub(manager.pos[Cursor], manager.pos[drag])
    BY <1>1, <2>6, <2>7, GripGoesAlong DEF PosDiff
  <2>9. Gripped'
    BY <1>0, <1>2, <1>5, <2>1, <2>8 DEF LInv, Gripped
  <2> QED
    BY <1>2, <1>3, <2>4, <2>9 DEF LInv
<1> QED
  BY <1>4, <1>5

LEMMA LooseRelease ==
  ASSUME LInv, NEW d \in Displacements, Release(d)
  PROVE  LInv'
<1>0. /\ UNCHANGED <<active, opened, closing, closed, opening>> /\ manager' = CursorMoved(d)
      /\ pressed' = FALSE /\ drag' = None
  BY DEF LInv, Gripped, Release, taskVars
<1>1. Loose(manager', Known) /\ Known' = Known
  BY <1>0, LooseCursor DEF Known
<1>2. Lifetimes' /\ Openings' /\ Gripped'
  BY <1>0 DEF LInv, Lifetimes, Openings, Gripped
<1> QED
  BY <1>0, <1>1, <1>2 DEF LInv

\* A window gets its place.
LEMMA LooseOpened ==
  ASSUME LInv, NEW w \in Windows \ opened, NEW at, Loose(manager', Known \cup {w}),
         manager'.pos = [manager.pos EXCEPT ![w] = at], active' \in Toplevels \cup {None},
         opened' = opened \cup {w}, UNCHANGED <<drag, pressed, closing, closed>>, Openings'
  PROVE  LInv'
<1>1. Known' = Known \cup {w} /\ w # Cursor /\ w # Main /\ w # None /\ Alive' \subseteq Alive \cup {w}
      /\ Alive \subseteq LayerIds /\ Cursor \in LayerIds
  BY KnownFacts DEF Known, Alive
<1>2. Lifetimes'
  BY DEF LInv, Lifetimes
<1>3. drag # w
  BY <1>1 DEF LInv, Gripped
<1>4. \A x \in LayerIds : x # w => manager'.pos[x] = manager.pos[x]
  BY DEF LInv, Loose, Layered
<1>5. Gripped'
  <2>1. drag \in Alive' => drag \in Alive
    BY <1>1, <1>3
  <2>2. drag \in Alive' => manager'.pos[drag] = manager.pos[drag]
    BY <1>1, <1>3, <1>4, <2>1
  <2>3. manager'.pos[Cursor] = manager.pos[Cursor]
    BY <1>1, <1>4
  <2> QED
    BY <2>1, <2>2, <2>3, StillGripped DEF LInv
<1> QED
  BY <1>1, <1>2, <1>5 DEF LInv

LEMMA LooseOpenWindow ==
  ASSUME LInv, NEW w \in Windows, OpenWindow(w)
  PROVE  LInv'
<1> PICK at \in OpenAt : Activate([manager EXCEPT !.pos[w] = at], w, LayerTasks)
  BY DEF OpenWindow
<1> PICK m : m = [manager EXCEPT !.pos[w] = at]
  OBVIOUS
<1>1. w \in Apps \ opened /\ opened' = opened \cup {w} /\ UNCHANGED <<drag, pressed, closing, closed, opening>>
  BY DEF OpenWindow, taskVars
<1>2. at \in Int \X Int /\ w \in LayerIds /\ Layered(manager) /\ w \in Toplevels
  BY Geometry, KnownFacts DEF LInv, Loose
<1>3. DOMAIN m = Fields /\ m.stack = manager.stack /\ m.look = manager.look /\ m.pos = [manager.pos EXCEPT ![w] = at]
  BY <1>2, PutPos DEF Layered
<1>4. Loose(m, Known \cup {w})
  BY <1>2, <1>3 DEF LInv, Loose, Layered, InStack
<1>5. Loose(manager', Known \cup {w}) /\ manager'.pos = m.pos /\ active' = w
  <2>1. w \in Toplevels \cup {None} /\ w \in Known \cup {w} /\ Activate(m, w, LayerTasks)
    BY <1>2
  <2>2. Loose(manager', Known \cup {w})
    BY <1>4, <2>1, LooseActivate
  <2>3. manager'.pos = m.pos
    BY <1>4, <2>1, LooseActivate
  <2>4. active' = w
    BY <2>1 DEF Activate
  <2> QED
    BY <2>2, <2>3, <2>4
<1>6. Openings'
  BY <1>1, Distinct DEF LInv, Openings
<1> QED
  BY <1>1, <1>2, <1>3, <1>5, <1>6, LooseOpened

LEMMA LooseTerminal ==
  ASSUME LInv, NEW t \in Terminals, OpenTerminal(t) \/ PlaceTerminal(t)
  PROVE  LInv'
<1>1. /\ t \in Windows \ opened /\ opened' = opened \cup {t} /\ UNCHANGED <<drag, pressed, closing, closed>>
      /\ t \in LayerIds /\ t \in Toplevels
  BY KnownFacts DEF OpenTerminal, PlaceTerminal, LInv, Openings
<1>2. Openings'
  BY DEF OpenTerminal, PlaceTerminal, LInv, Openings
<1> PICK junk, m : /\ m = Move(manager, t, TerminalAt, junk)
                   /\ \/ Activate(m, t, LayerTasks \cup {t})
                      \/ manager' = m /\ active' = active
  BY DEF OpenTerminal, PlaceTerminal
<1>3. TerminalAt \in Int \X Int /\ Loose(manager, Known \cup {t})
  BY Geometry, LooseMore DEF LInv
<1>4. Loose(m, Known \cup {t}) /\ m.pos = [manager.pos EXCEPT ![t] = TerminalAt]
  BY <1>1, <1>3, LooseMoved
<1>5. Loose(manager', Known \cup {t}) /\ manager'.pos = m.pos /\ active' \in {t, active}
  <2>1. CASE manager' = m /\ active' = active
    BY <1>4, <2>1
  <2>2. CASE Activate(m, t, LayerTasks \cup {t})
    BY <1>1, <1>4, <2>2, LooseActivate
  <2> QED
    BY <2>1, <2>2
<1>6. active' \in Toplevels \cup {None}
  BY <1>1, <1>5 DEF LInv
<1> QED
  BY <1>1, <1>2, <1>4, <1>5, <1>6, LooseOpened

\* The halves of Activate.
LEMMA LooseHalves ==
  ASSUME LInv, NEW t \in Terminals, NameTerminal(t) \/ ShowTerminal(t)
  PROVE  LInv'
<1>1. UNCHANGED <<drag, pressed, opened, closing, closed>> /\ active' \in {t, active}
  BY DEF NameTerminal, ShowTerminal
<1>2. Lifetimes' /\ active' \in Toplevels \cup {None}
  BY <1>1, KnownFacts DEF LInv, Lifetimes
<1>3. Openings'
  BY <1>1 DEF NameTerminal, ShowTerminal, LInv, Openings
<1>4. active \in Toplevels \cup {None} /\ Loose(manager, Known)
  BY DEF LInv
<1>5. Loose(manager', Known) /\ manager'.pos = manager.pos
  <2>1. CASE manager' = manager
    BY <1>4, <2>1
  <2>2. CASE manager' = Deactivated(manager, active)
    <3>1. Loose(manager', Known)
      BY <1>4, <2>2, LooseDeactivated
    <3>2. manager'.pos = manager.pos
      BY <1>4, <2>2, LooseDeactivated
    <3> QED
      BY <3>1, <3>2
  <2>3. ASSUME NEW id \in {t, active}, id \in Alive, manager' = BroughtUp(manager, id)
        PROVE  Loose(manager', Known) /\ manager'.pos = manager.pos
    <3>1. id \in Toplevels /\ id \in Known
      BY <1>4, <2>3, KnownFacts
    <3>2. Loose(manager', Known \cup {id})
      BY <1>4, <2>3, <3>1, LooseBroughtUp
    <3>3. manager'.pos = manager.pos
      BY <1>4, <2>3, <3>1, LooseBroughtUp
    <3>4. Known \cup {id} \subseteq Known
      BY <3>1
    <3> QED
      BY <3>2, <3>3, <3>4, LooseMore
  <2>4. \/ manager' = manager \/ manager' = Deactivated(manager, active)
        \/ \E id \in {t, active} : id \in Alive /\ manager' = BroughtUp(manager, id)
    BY DEF NameTerminal, ShowTerminal
  <2> QED
    BY <2>1, <2>2, <2>3, <2>4
<1> QED
  BY <1>1, <1>2, <1>3, <1>5, NothingMoves

LEMMA LooseEndClose ==
  ASSUME LInv, NEW w \in Windows, EndClose(w)
  PROVE  LInv'
<1>0. /\ active' = None /\ closed' = closed \cup {w} /\ closing' = [closing EXCEPT ![w] = None]
      /\ closing[w] # None /\ UNCHANGED <<drag, pressed, opened, opening>>
  BY DEF EndClose, taskVars
<1>1. w \in opened \ closed /\ w \in LayerIds /\ w # Cursor
  BY <1>0, KnownFacts DEF LInv, Lifetimes
<1>2. Lifetimes' /\ Openings' /\ Known' = Known
  BY <1>0, <1>1 DEF LInv, Lifetimes, Openings, Known
<1>3. Alive' = Alive \ {w} /\ Alive \subseteq LayerIds /\ Cursor \in LayerIds
  <2>1. w \notin {Back, Cursor, Main}
    BY Distinct
  <2> QED
    BY <1>0, <1>1, <2>1, KnownFacts DEF Alive
<1>4. Loose(manager', Known) /\ \A x \in LayerIds : x # w => manager'.pos[x] = manager.pos[x]
  <2>1. CASE manager' = manager
    BY <2>1 DEF LInv
  <2>2. CASE manager' # manager
    <3> PICK m, pos : m = Activated(manager, active, None) /\ manager' = Removed(m, w, pos)
      BY <2>2 DEF EndClose
    <3>1. Loose(manager, Known) /\ active \in Toplevels \cup {None} /\ None \in Toplevels \cup {None}
      BY DEF LInv
    <3>2. Loose(m, Known)
      BY <3>1, LooseActivated
    <3>3. m.pos = manager.pos
      BY <3>1, LooseActivated
    <3>4. Loose(manager', Known) /\ \A x \in LayerIds : x # w => manager'.pos[x] = m.pos[x]
      BY <1>1, <3>2, LooseRemoved
    <3> QED
      BY <3>3, <3>4
  <2> QED
    BY <2>1, <2>2
<1>5. Gripped'
  <2>1. drag \in Alive' => drag \in Alive /\ manager'.pos[drag] = manager.pos[drag]
    BY <1>3, <1>4
  <2>2. manager'.pos[Cursor] = manager.pos[Cursor]
    BY <1>1, <1>3, <1>4
  <2> QED
    BY <1>0, <2>1, <2>2, StillGripped DEF LInv
<1> QED
  BY <1>0, <1>2, <1>4, <1>5 DEF LInv

LEMMA StepLInv == LInv /\ [Next]_vars => LInv'
<1> SUFFICES ASSUME LInv, [Next]_vars PROVE LInv'
  OBVIOUS
<1>1. CASE UNCHANGED vars
  BY <1>1 DEF vars, taskVars, LInv, Known, Lifetimes, Openings, Gripped, Loose, Layered, Once, Alive, InStack
<1>2. CASE OnInterrupt
  <2>1. PICK d \in Displacements : Press(d) \/ Drag(d) \/ Release(d)
    BY <1>2 DEF OnInterrupt
  <2> QED
    BY <2>1, LoosePress, LooseDrag, LooseRelease
<1>3. CASE DrawMain
  BY <1>3, LooseMain
<1>4. ASSUME NEW w \in Windows,
             \/ OpenWindow(w) \/ BeginClose(w) \/ EndClose(w)
             \/ WinFunc(w) \/ WinRedraw(w) \/ BlinkCursor(w) \/ ProcessLayerMessage(w)
      PROVE  LInv'
  BY <1>4, LooseOpenWindow, LooseIdle, LooseEndClose, LoosePictures
<1>5. ASSUME NEW t \in Terminals,
             \/ CreateTerminal(t) \/ BeginCommand(t) \/ EndCommand(t)
             \/ OpenTerminal(t) \/ PlaceTerminal(t) \/ NameTerminal(t) \/ ShowTerminal(t)
      PROVE  LInv'
  BY <1>5, LooseIdle, LooseTerminal, LooseHalves
<1> QED
  BY <1>1, <1>2, <1>3, <1>4, <1>5 DEF Next

-----------------------------------------------------------------------------
(* The theorems.                                                           *)

\* Once a terminal has been interrupted, that stays true.
LEMMA StaysInterrupted == interrupted /\ [Next]_vars => interrupted'
<1> SUFFICES ASSUME interrupted, [Next]_vars PROVE interrupted'
  OBVIOUS
<1>1. CASE UNCHANGED vars
  BY <1>1 DEF vars, taskVars
<1>2. CASE OnInterrupt
  BY <1>2 DEF OnInterrupt, Press, Drag, Release, taskVars
<1>3. CASE DrawMain
  BY <1>3 DEF DrawMain, taskVars
<1>4. ASSUME NEW w \in Windows,
             \/ OpenWindow(w) \/ BeginClose(w) \/ EndClose(w)
             \/ WinFunc(w) \/ WinRedraw(w) \/ BlinkCursor(w) \/ ProcessLayerMessage(w)
      PROVE  interrupted'
  BY <1>4 DEF OpenWindow, BeginClose, EndClose, WinFunc, WinRedraw, BlinkCursor, ProcessLayerMessage, taskVars
<1>5. ASSUME NEW t \in Terminals,
             \/ CreateTerminal(t) \/ OpenTerminal(t) \/ BeginCommand(t) \/ EndCommand(t)
             \/ PlaceTerminal(t) \/ NameTerminal(t) \/ ShowTerminal(t)
      PROVE  interrupted'
  BY <1>5 DEF CreateTerminal, OpenTerminal, BeginCommand, EndCommand, PlaceTerminal, NameTerminal, ShowTerminal
<1> QED
  BY <1>1, <1>2, <1>3, <1>4, <1>5 DEF Next

(***************************************************************************)
(* As long as no other task comes in while a terminal places or activates   *)
(* its window, whatever the mouse, the tasks and the main loop do, and in   *)
(* whatever order: the stack of LayerManager holds each window once, a      *)
(* layer is alive when its task says so, and the active layer is in the     *)
(* stack and alone drawn as active.                                         *)
(***************************************************************************)
THEOREM Invariance == Spec => [](IInv \/ interrupted)
BY InitIInv, StepIInv, StaysInterrupted, PTL DEF Spec

(***************************************************************************)
(* Even then the stack of LayerManager is a list of layers, of each at most *)
(* one, and the mouse holds a window where it gripped it.                   *)
(***************************************************************************)
THEOREM LooseInvariance == Spec => []LInv
BY InitLInv, StepLInv, PTL DEF Spec

(***************************************************************************)
(* The window that gets the keys lies right below the cursor and alone is   *)
(* drawn as active, and a terminal whose messages no command has taken      *)
(* knows whether it is the one (ActiveLayer::Activate, CloseLayer); as long *)
(* as no terminal has been interrupted while it activates its window.       *)
(***************************************************************************)
THEOREM SafeActiveOnTop == Spec => []ActiveOnTop
<1>1. IInv \/ interrupted => ActiveOnTop
  <2>7. interrupted => ActiveOnTop
    BY DEF ActiveOnTop
  <2> SUFFICES ASSUME IInv PROVE ActiveOnTop
    BY <2>7
  <2>0. /\ Alive \subseteq LayerIds /\ Windows \subseteq Toplevels
        /\ Terminals \subseteq Windows /\ Apps \subseteq Windows
    BY AliveFacts DEF IInv
  <2>1. manager.stack[1] = Back /\ manager.stack[Len(manager.stack)] = Cursor
    BY DEF IInv, Stacked, Ends
  <2>2. active # None => active \in Alive /\ manager.stack[Len(manager.stack) - 1] = active
    BY DEF IInv, ActiveShown, OnTop
  <2>3. \A id \in Toplevels \cap Alive : manager.look[id].active = (id = active)
    BY DEF IInv, ActiveShown
  <2>4. ASSUME NEW t \in Terminals, told[t] # "unsure" PROVE (told[t] = "active") = (active = t)
    <3>1. told[t] \in Answers /\ (told[t] = "active" => active = t) /\ (told[t] = "inactive" => active # t)
      BY <2>4 DEF IInv, Informed, Knows
    <3> QED
      BY <2>4, <3>1 DEF Answers
  <2>6. ASSUME NEW id \in LayerIds PROVE InStack(manager, id) = (id \in Alive)
    <3>1. InStack(manager, id) \in BOOLEAN
      BY DEF InStack
    <3> QED
      BY <3>1 DEF IInv, Stacked
  <2> QED
    BY <2>1, <2>2, <2>3, <2>4, <2>6 DEF ActiveOnTop
<1> QED
  BY <1>1, Invariance, PTL

(***************************************************************************)
(* A window that is dragged stays under the cursor, at the edges of the     *)
(* screen and after an interrupted terminal too (Mouse::OnInterrupt).       *)
(***************************************************************************)
THEOREM SafeDragKeepsGrip == Spec => []DragKeepsGrip
<1>1. LInv => DragKeepsGrip
  BY DEF LInv, Gripped, DragKeepsGrip
<1> QED
  BY <1>1, LooseInvariance, PTL

(***************************************************************************)
(* The active window is never one that is gone (ActiveLayer::Activate does  *)
(* not look), unless a terminal has been interrupted while it activates its *)
(* window: otherwise only a window closed while it is dragged is still      *)
(* followed.                                                                *)
(***************************************************************************)
THEOREM SafeLostInTwoPlaces == Spec => []LostInTwoPlaces
<1>1. IInv \/ interrupted => LostInTwoPlaces
  BY DEF IInv, LostInTwoPlaces
<1> QED
  BY <1>1, Invariance, PTL


(***************************************************************************)
(* The screen shows the topmost window at every pixel, for windows opened,  *)
(* moved, drawn and closed in any order, though every operation of          *)
(* LayerManager draws only what it thinks has changed; as long as no        *)
(* terminal has been interrupted while it activates its window.             *)
(***************************************************************************)
THEOREM SafeScreenIsComposition == Spec => []ScreenIsComposition
<1>1. IInv /\ Shown => ScreenIsComposition
  <2> SUFFICES ASSUME IInv, Shown, NEW p \in Pixels
               PROVE  \/ manager.screen[p] = Picture(manager, TopAt(p), p)
                      \/ /\ TopAt(p) \in dirty
                         /\ manager.screen[p] \in {<<TopAt(p), "ink", i>> : i \in {0, 1}}
                      \/ ~ moved /\ TopAt(p) = Cursor
                      \/ manager.screen[p][1] \in ghosts \cap closed
    BY DEF ScreenIsComposition
  <2>1. Shows(manager, manager.screen[p], p, dirty, ghosts \cap closed, moved)
    BY DEF Shown, Composed, RightAt
  <2>2. CASE manager.screen[p][1] \in ghosts \cap closed
    BY <2>2
  <2>3. CASE manager.screen[p][1] \notin ghosts \cap closed
    <3>1. PICK x : /\ IsTop(manager, x, p)
                   /\ \/ manager.screen[p] = Picture(manager, x, p)
                      \/ /\ x \in dirty /\ Sub(p, manager.pos[x]) = InkAt
                         /\ manager.screen[p] \in {<<x, "ink", 0>>, <<x, "ink", 1>>}
                      \/ ~ moved /\ x = Cursor
      BY <2>1, <2>3 DEF Shows
    <3>2. TopAt(p) = x
      <4> DEFINE s == manager.stack
                 Is(i) == /\ p \in Inked(manager, s[i])
                          /\ \A j \in i + 1 .. Len(s) : p \notin Inked(manager, s[j])
      <4>1. /\ Layered(manager) /\ Once(s) /\ DOMAIN s = 1..Len(s) /\ Len(s) \in Nat
        BY WindowFacts DEF Grounded, Layered
      <4>2. PICK i \in DOMAIN s : s[i] = x
        BY <3>1 DEF IsTop, InStack
      <4>3. Is(i)
        <5>1. ASSUME NEW j \in i + 1 .. Len(s) PROVE p \notin Inked(manager, s[j])
          <6>1. j \in DOMAIN s /\ i < j
            BY <4>1
          <6>2. Under(s, x, s[j])
            BY <4>2, <6>1 DEF Under
          <6> QED
            BY <3>1, <6>2 DEF IsTop
        <5> QED
          BY <3>1, <4>2, <5>1 DEF IsTop
      <4>4. ASSUME NEW k \in DOMAIN s, Is(k) PROVE k = i
        <5>1. k \in Nat /\ i \in Nat
          BY <4>1
        <5>2. CASE k < i
          <6>1. i \in k + 1 .. Len(s)
            BY <4>1, <5>1, <5>2
          <6> QED
            BY <3>1, <4>2, <4>4, <6>1 DEF IsTop
        <5>3. CASE i < k
          <6>1. k \in i + 1 .. Len(s)
            BY <4>1, <5>1, <5>3
          <6> QED
            BY <4>3, <4>4, <6>1
        <5> QED
          BY <5>1, <5>2, <5>3
      <4>5. TopAt(p) = s[CHOOSE k \in DOMAIN s : Is(k)]
        BY DEF TopAt
      <4> HIDE DEF Is
      <4>6. (CHOOSE k \in DOMAIN s : Is(k)) = i
        BY <4>3, <4>4
      <4> QED
        BY <4>2, <4>5, <4>6
    <3> QED
      BY <3>1, <3>2
  <2> QED
    BY <2>2, <2>3
<1> QED
  <2>1. Init => (IInv /\ Shown) \/ interrupted
    BY InitIInv, InitShown
  <2>2. ((IInv /\ Shown) \/ interrupted) /\ [Next]_vars => ((IInv /\ Shown) \/ interrupted)'
    BY StepIInv, StepShown, StaysInterrupted
  <2>3. (IInv /\ Shown) \/ interrupted => ScreenIsComposition
    BY <1>1 DEF ScreenIsComposition
  <2> QED
    BY <2>1, <2>2, <2>3, PTL DEF Spec
=============================================================================
