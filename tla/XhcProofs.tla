----------------------------- MODULE XhcProofs -----------------------------
(***************************************************************************)
(* The USB host controller and its driver, for every number of ports and    *)
(* slots, every size of the rings, every place of the memory pool and every *)
(* answer of the devices that the assumptions allow:                        *)
(*   - one port is addressed after the other, and neither ring is ever      *)
(*     overrun (AddressedInTurn of PortConfig);                             *)
(*   - the memory the driver allocates for its tables is given once         *)
(*     (PoolOK of Usb);                                                     *)
(*   - the controller runs with the registers and the tables it was set up  *)
(*     with, after the firmware has let go of it (RunsAsSetUp of XhcBoot).  *)
(*                                                                          *)
(* The first part is about the rings alone: what the cycle bits mean, and   *)
(* what is waiting in a ring after either side has moved on.  The second is *)
(* about the jobs under way, the commands that are not completed and the    *)
(* completions that are not processed: a port has at most one of them, and  *)
(* only while it is in the phase that the job is about.  The third is about *)
(* the memory, first of the pool and then of those who ask for it, and the  *)
(* last about the boot: the registers after each of its steps.              *)
(***************************************************************************)
EXTENDS Usb, FiniteSetTheorems, TLAPS

-----------------------------------------------------------------------------
(* Sets of natural numbers.                                                *)

\* A set of natural numbers has a least member.
LEMMA LeastMember ==
  ASSUME NEW S, S \subseteq Nat, S # {}
  PROVE  \E m \in S : \A x \in S : m <= x
<1> DEFINE R == OpToRel(<, Nat)
<1>1. IsWellFoundedOn(R, Nat)
  BY NatLessThanWellFounded
<1>2. PICK m \in S : \A x \in S : ~(<<x, m>> \in R)
  <2> HIDE DEF R
  <2> QED
    BY <1>1, WFMin
<1>3. \A x \in S : ~(x < m)
  BY <1>2 DEF OpToRel
<1> QED
  BY <1>3

-----------------------------------------------------------------------------
(* Rings of n places for TRBs of a set T.  A command ring has one place     *)
(* more, for the link.                                                      *)

Rings(T, last, n) ==
  [buf  : [0..last -> [trb : T, cycle : BOOLEAN]], last : {last},
   write : 0..n - 1, cycle  : BOOLEAN,
   read  : 0..n - 1, expect : BOOLEAN]

After(i, n) == IF i + 1 = n THEN 0 ELSE i + 1

\* The bits of the writer and of the reader differ when the writer is a round ahead.
Sound(r, n) ==
  /\ r.expect = r.cycle <=> r.read <= r.write
  /\ \A i \in 0..n - 1 : r.buf[i].cycle = r.cycle <=> i < r.write

\* The places that are written and not read, and the TRBs in them.
Ahead(r, n) ==
  {i \in 0..n - 1 : IF r.read <= r.write THEN r.read <= i /\ i < r.write
                                          ELSE r.read <= i \/ i < r.write}

Waiting(r, n) == {r.buf[i].trb : i \in Ahead(r, n)}

\* A TRB of D waits in one place only.
Once(r, n, D) ==
  \A i, j \in Ahead(r, n) : r.buf[i].trb \in D /\ r.buf[i].trb = r.buf[j].trb => i = j

\* There is a place that the writer may fill.
Spare(r, n) == After(r.write, n) # r.read

-----------------------------------------------------------------------------
(* The jobs.                                                                *)

CommandTrbs == [type : {"enableSlot", "addressDevice", "configureEndpoint"}, n : 0..NumPorts]
PortTrbs    == [type : {"port"}, n : Ports]
SlotTrbs    == [type : {"transfer"}, n : Slots]
Trbs        == CommandTrbs \cup PortTrbs \cup SlotTrbs
AllTrbs     == Trbs \cup {Link, Zeroed.trb}

CommandPlaces == CommandRing - 1

Commands == Waiting(cr, CommandPlaces)
Events   == Waiting(er, EventRing)
Done     == Events \cap CommandTrbs

\* The port that a command or its completion is about.
Owner(c) == IF c.type = "configureEndpoint" THEN context[c.n] ELSE addressing

\* It is in the phase in which the job is done.
Agreed(c) ==
  /\ Owner(c) \in Ports
  /\ c.type = "enableSlot"        => phase[Owner(c)] = "EnablingSlot"
  /\ c.type = "addressDevice"     => /\ phase[Owner(c)] = "AddressingDevice"
                                     /\ c.n \in Slots /\ device[c.n] = Owner(c)
  /\ c.type = "configureEndpoint" => phase[Owner(c)] = "ConfiguringEndpoints" /\ c.n \in Slots

TypeOK ==
  /\ phase \in [Ports -> Phases]
  /\ addressing \in 0..NumPorts
  /\ boot \in 1..NumPorts + 1
  /\ device \in [Slots -> 0..NumPorts]
  /\ connected \in [Ports -> BOOLEAN]
  /\ enabled \in [Ports -> BOOLEAN]
  /\ csc \in [Ports -> BOOLEAN]
  /\ prc \in [Ports -> BOOLEAN]
  /\ context \in [Slots -> 0..NumPorts]

\* A ring of commands and one of events, as they have to be.
CommandsSound(r) ==
  r \in Rings(AllTrbs, CommandRing - 1, CommandPlaces) /\ Sound(r, CommandPlaces) /\ Once(r, CommandPlaces, CommandTrbs)

EventsSound(r) ==
  r \in Rings(AllTrbs, EventRing - 1, EventRing) /\ Sound(r, EventRing) /\ Once(r, EventRing, CommandTrbs)

RingsOK == CommandsSound(cr) /\ EventsSound(er)

JobsOK ==
  /\ Commands \subseteq CommandTrbs /\ Events \subseteq Trbs
  /\ \A c \in Commands \cup Done : Agreed(c)
  /\ \A c \in Done : c.type = "enableSlot" => c.n \in Slots /\ device[c.n] = 0

\* Never two jobs for a port.
Apart ==
  /\ \A c, d \in Commands : Owner(c) = Owner(d) => c = d
  /\ \A c, d \in Done : Owner(c) = Owner(d) => c = d
  /\ \A c \in Commands, d \in Done : Owner(c) # Owner(d)

NoSlotYet == {"NotConnected", "WaitingAddressed", "ResettingPort", "EnablingSlot"}

SlotsOK ==
  /\ \A p \in Ports : phase[p] \in NoSlotYet <=> \A s \in Slots : device[s] # p
  /\ \A s, t \in Slots : device[s] = device[t] /\ device[s] # 0 => s = t
  /\ \A s \in Slots : context[s] \in {0, device[s]}

\* Until the first reset the ring has at most one event of each port.
AtBoot == boot <= NumPorts /\ addressing = 0

QuietOK ==
  AtBoot =>
    /\ Commands = {}
    /\ \A p \in Ports : ~prc[p] /\ phase[p] = "NotConnected"
    /\ Once(er, EventRing, PortTrbs)
    /\ \A e \in Events : e \in PortTrbs /\ csc[e.n]

IInv == TypeOK /\ RingsOK /\ JobsOK /\ Apart /\ OneAddressing /\ SlotsOK /\ QuietOK

-----------------------------------------------------------------------------
(* What the two sides do to a ring, and what is in it then.                 *)

\* A side that is at i in turn c goes on to the next place.
Turn(i, c, n) == IF i + 1 = n THEN ~c ELSE c

\* s is r with trb written.
Puts(r, s, trb, n) ==
  /\ s.read = r.read /\ s.expect = r.expect
  /\ s.write = After(r.write, n) /\ s.cycle = Turn(r.write, r.cycle, n)
  /\ \A i \in 0..n - 1 :
       s.buf[i] = IF i = r.write THEN [trb |-> trb, cycle |-> r.cycle] ELSE r.buf[i]

\* s is r with the TRB at the front read.
Takes(r, s, n) ==
  /\ s.buf = r.buf /\ s.write = r.write /\ s.cycle = r.cycle
  /\ s.read = After(r.read, n) /\ s.expect = Turn(r.read, r.expect, n)

(***************************************************************************)
(* Push of ring.cpp fills the next place, and at the end the link as well.  *)
(***************************************************************************)
LEMMA PushPuts ==
  ASSUME NEW T, NEW last \in Nat, last > 0, NEW r \in Rings(T, last, last), NEW trb \in T, Link \in T
  PROVE  Push(r, trb) \in Rings(T, last, last) /\ Puts(r, Push(r, trb), trb, last)
<1> DEFINE c == CopyToLast(r, trb)
           s == [c EXCEPT !.write = @ + 1]
<1>0. r \in [buf  : [0..last -> [trb : T, cycle : BOOLEAN]], last : {last},
             write : 0..last - 1, cycle  : BOOLEAN, read  : 0..last - 1, expect : BOOLEAN]
  BY DEF Rings
<1>1. /\ c \in Rings(T, last, last)
      /\ c.read = r.read /\ c.expect = r.expect /\ c.write = r.write /\ c.cycle = r.cycle
      /\ c.last = last
      /\ c.buf = [r.buf EXCEPT ![r.write] = [trb |-> trb, cycle |-> r.cycle]]
  BY <1>0 DEF CopyToLast, Rings
<1>5. Push(r, trb) = IF s.write = r.last THEN Wrapped(s) ELSE s
  BY DEF Push
<1> HIDE DEF c
<1>2. /\ s.read = r.read /\ s.expect = r.expect /\ s.write = r.write + 1 /\ s.cycle = r.cycle
      /\ s.last = last /\ s.buf = c.buf
      /\ s = [c EXCEPT !.write = r.write + 1]
  BY <1>1 DEF Rings
<1>3. CASE r.write + 1 # last
  <2>1. Push(r, trb) = s
    BY <1>0, <1>2, <1>3, <1>5
  <2>2. s \in Rings(T, last, last)
    BY <1>0, <1>1, <1>2, <1>3 DEF Rings
  <2> HIDE DEF s
  <2> QED
    BY <2>1, <2>2, <1>0, <1>1, <1>2, <1>3 DEF Puts, After, Turn
<1>4. CASE r.write + 1 = last
  <2> DEFINE b == [c.buf EXCEPT ![last] = [trb |-> Link, cycle |-> r.cycle]]
             w == [s EXCEPT !.buf = b]
             v == [w EXCEPT !.write = 0]
             u == [v EXCEPT !.cycle = ~r.cycle]
  <2>1. Push(r, trb) = Wrapped(s)
    BY <1>0, <1>2, <1>4, <1>5
  <2>2. CopyToLast(s, Link) = w
    BY <1>2, <1>4 DEF CopyToLast
  <2>3. Wrapped(s) = [w EXCEPT !.write = 0, !.cycle = ~@]
    BY <2>2 DEF Wrapped
  <2>4. c.buf \in [0..last -> [trb : T, cycle : BOOLEAN]] /\ b \in [0..last -> [trb : T, cycle : BOOLEAN]]
    <3>1. c.buf \in [0..last -> [trb : T, cycle : BOOLEAN]]
      BY <1>1 DEF Rings
    <3>2. [trb |-> Link, cycle |-> r.cycle] \in [trb : T, cycle : BOOLEAN]
      BY <1>0
    <3> QED
      BY <3>1, <3>2
  <2>5. \A i \in 0..last - 1 : b[i] = c.buf[i]
    BY <2>4
  <2>6. s \in [buf  : [0..last -> [trb : T, cycle : BOOLEAN]], last : {last},
               write : 0..last, cycle  : BOOLEAN, read  : 0..last - 1, expect : BOOLEAN]
    BY <1>1, <1>2, <1>4 DEF Rings
  <2> HIDE DEF b, s
  <2>7. /\ w \in [buf  : [0..last -> [trb : T, cycle : BOOLEAN]], last : {last},
                  write : 0..last, cycle  : BOOLEAN, read  : 0..last - 1, expect : BOOLEAN]
        /\ w.cycle = r.cycle /\ w.buf = b /\ w.read = r.read /\ w.expect = r.expect
    BY <2>4, <2>6, <1>2
  <2> HIDE DEF w
  <2>8. /\ v \in [buf  : [0..last -> [trb : T, cycle : BOOLEAN]], last : {last},
                  write : 0..last - 1, cycle  : BOOLEAN, read  : 0..last - 1, expect : BOOLEAN]
        /\ v.cycle = r.cycle /\ v.buf = b /\ v.read = r.read /\ v.expect = r.expect /\ v.write = 0
    BY <2>7
  <2>9. Wrapped(s) = [v EXCEPT !.cycle = ~@]
    BY <2>3
  <2> HIDE DEF v
  <2>10. Wrapped(s) = u
    BY <2>8, <2>9
  <2>11. /\ u \in Rings(T, last, last)
         /\ u.cycle = ~r.cycle /\ u.buf = b /\ u.read = r.read /\ u.expect = r.expect /\ u.write = 0
    BY <2>8 DEF Rings
  <2> HIDE DEF u
  <2>12. \A i \in 0..last - 1 :
           b[i] = IF i = r.write THEN [trb |-> trb, cycle |-> r.cycle] ELSE r.buf[i]
    BY <2>5, <1>0, <1>1
  <2> QED
    BY <2>1, <2>10, <2>11, <2>12, <1>4 DEF Puts, After, Turn
<1> QED
  BY <1>3, <1>4

(***************************************************************************)
(* Post: the controller writes to the event ring.                           *)
(***************************************************************************)
LEMMA PostPuts ==
  ASSUME NEW T, NEW last \in Nat, NEW r \in Rings(T, last, last + 1), NEW trb \in T
  PROVE  Post(r, trb) \in Rings(T, last, last + 1) /\ Puts(r, Post(r, trb), trb, last + 1)
<1> DEFINE c == CopyToLast(r, trb)
<1>0. /\ r \in [buf  : [0..last -> [trb : T, cycle : BOOLEAN]], last : {last},
                write : 0..last, cycle  : BOOLEAN, read  : 0..last, expect : BOOLEAN]
      /\ (last + 1) - 1 = last
  BY DEF Rings
<1>1. /\ c \in Rings(T, last, last + 1)
      /\ c.read = r.read /\ c.expect = r.expect /\ c.write = r.write /\ c.cycle = r.cycle
      /\ c.buf = [r.buf EXCEPT ![r.write] = [trb |-> trb, cycle |-> r.cycle]]
  BY <1>0 DEF CopyToLast, Rings
<1>5. c \in [buf  : [0..last -> [trb : T, cycle : BOOLEAN]], last : {last},
            write : 0..last, cycle  : BOOLEAN, read  : 0..last, expect : BOOLEAN]
  BY <1>0, <1>1 DEF Rings
<1>2. Post(r, trb) = IF r.write = r.last THEN [c EXCEPT !.write = 0, !.cycle = ~@]
                                          ELSE [c EXCEPT !.write = @ + 1]
  BY DEF Post
<1> HIDE DEF c
<1>3. CASE r.write # last
  <2> DEFINE s == [c EXCEPT !.write = @ + 1]
  <2>1. Post(r, trb) = s
    BY <1>0, <1>2, <1>3
  <2>3. r.write \in 0..last /\ r.write + 1 \in 0..last
    BY <1>0, <1>3
  <2>2. /\ s \in Rings(T, last, last + 1)
        /\ s.read = r.read /\ s.expect = r.expect /\ s.write = r.write + 1 /\ s.cycle = r.cycle
        /\ s.buf = c.buf
    <3>1. /\ s \in [buf  : [0..last -> [trb : T, cycle : BOOLEAN]], last : {last},
                     write : 0..last, cycle  : BOOLEAN, read  : 0..last, expect : BOOLEAN]
          /\ s.read = c.read /\ s.expect = c.expect /\ s.write = c.write + 1 /\ s.cycle = c.cycle
          /\ s.buf = c.buf
      BY <1>1, <1>5, <2>3
    <3> HIDE DEF s
    <3> QED
      BY <1>0, <1>1, <3>1 DEF Rings
  <2> HIDE DEF s
  <2> QED
    BY <2>1, <2>2, <1>0, <1>1, <1>3 DEF Puts, After, Turn
<1>4. CASE r.write = last
  <2> DEFINE v == [c EXCEPT !.write = 0]
             s == [v EXCEPT !.cycle = ~@]
  <2>1. Post(r, trb) = s
    BY <1>0, <1>2, <1>4
  <2>4. /\ v \in [buf  : [0..last -> [trb : T, cycle : BOOLEAN]], last : {last},
                  write : 0..last, cycle  : BOOLEAN, read  : 0..last, expect : BOOLEAN]
        /\ v.read = c.read /\ v.expect = c.expect /\ v.write = 0 /\ v.cycle = c.cycle
        /\ v.buf = c.buf
    BY <1>5
  <2> HIDE DEF v
  <2>2. /\ v \in Rings(T, last, last + 1)
        /\ v.read = r.read /\ v.expect = r.expect /\ v.write = 0 /\ v.cycle = r.cycle
        /\ v.buf = c.buf
    BY <1>0, <1>1, <2>4 DEF Rings
  <2> HIDE DEF v
  <2>3. /\ s \in Rings(T, last, last + 1)
        /\ s.read = r.read /\ s.expect = r.expect /\ s.write = 0 /\ s.cycle = ~r.cycle
        /\ s.buf = c.buf
    BY <2>2, <1>0 DEF Rings
  <2> HIDE DEF s
  <2> QED
    BY <2>1, <2>3, <1>0, <1>1, <1>4 DEF Puts, After, Turn
<1> QED
  BY <1>3, <1>4

(***************************************************************************)
(* Pop: the driver reads the event ring.                                    *)
(***************************************************************************)
LEMMA PopTakes ==
  ASSUME NEW T, NEW last \in Nat, NEW r \in Rings(T, last, last + 1)
  PROVE  Pop(r) \in Rings(T, last, last + 1) /\ Takes(r, Pop(r), last + 1)
<1>0. /\ r \in [buf  : [0..last -> [trb : T, cycle : BOOLEAN]], last : {last},
                write : 0..last, cycle  : BOOLEAN, read  : 0..last, expect : BOOLEAN]
      /\ (last + 1) - 1 = last
  BY DEF Rings
<1>3. CASE r.read # last
  BY <1>0, <1>3 DEF Pop, Rings, Takes, After, Turn
<1>4. CASE r.read = last
  <2> DEFINE v == [r EXCEPT !.read = 0]
             s == [v EXCEPT !.expect = ~@]
  <2>1. Pop(r) = s
    BY <1>0, <1>4 DEF Pop
  <2>2. /\ v \in Rings(T, last, last + 1)
        /\ v.read = 0 /\ v.expect = r.expect /\ v.write = r.write /\ v.cycle = r.cycle
        /\ v.buf = r.buf
    BY <1>0, <1>4 DEF Rings
  <2> HIDE DEF v
  <2>3. /\ s \in Rings(T, last, last + 1)
        /\ s.read = 0 /\ s.expect = ~r.expect /\ s.write = r.write /\ s.cycle = r.cycle
        /\ s.buf = r.buf
    BY <2>2, <1>0 DEF Rings
  <2> HIDE DEF s
  <2> QED
    BY <2>1, <2>3, <1>0, <1>4 DEF Takes, After, Turn
<1> QED
  BY <1>3, <1>4

(***************************************************************************)
(* Fetched: the controller reads a ring with a link.                        *)
(***************************************************************************)
LEMMA FetchedTakes ==
  ASSUME NEW T, NEW last \in Nat, last > 0, NEW r \in Rings(T, last, last)
  PROVE  Fetched(r) \in Rings(T, last, last) /\ Takes(r, Fetched(r), last)
<1>0. r \in [buf  : [0..last -> [trb : T, cycle : BOOLEAN]], last : {last},
             write : 0..last - 1, cycle  : BOOLEAN, read  : 0..last - 1, expect : BOOLEAN]
  BY DEF Rings
<1>3. CASE r.read + 1 # last
  BY <1>0, <1>3 DEF Fetched, Rings, Takes, After, Turn
<1>4. CASE r.read + 1 = last
  <2> DEFINE v == [r EXCEPT !.read = 0]
             s == [v EXCEPT !.expect = ~@]
  <2>1. Fetched(r) = s
    BY <1>0, <1>4 DEF Fetched
  <2>2. /\ v \in Rings(T, last, last)
        /\ v.read = 0 /\ v.expect = r.expect /\ v.write = r.write /\ v.cycle = r.cycle
        /\ v.buf = r.buf
    BY <1>0, <1>4 DEF Rings
  <2> HIDE DEF v
  <2>3. /\ s \in Rings(T, last, last)
        /\ s.read = 0 /\ s.expect = ~r.expect /\ s.write = r.write /\ s.cycle = r.cycle
        /\ s.buf = r.buf
    BY <2>2, <1>0 DEF Rings
  <2> HIDE DEF s
  <2> QED
    BY <2>1, <2>3, <1>0, <1>4 DEF Takes, After, Turn
<1> QED
  BY <1>3, <1>4

(***************************************************************************)
(* A ring is empty when the indices meet; in a sound ring a TRB is at the   *)
(* front unless they do, so that it is never overrun.                       *)
(***************************************************************************)
LEMMA FrontOfSound ==
  ASSUME NEW T, NEW last \in Nat, NEW n \in Nat, NEW r \in Rings(T, last, n), n - 1 <= last, Sound(r, n)
  PROVE  /\ HasFront(r) <=> r.read # r.write
         /\ HasFront(r) => Front(r) \in Waiting(r, n)
         /\ ~Overrun(r)
<1>1. /\ r.read \in 0..n - 1 /\ r.write \in 0..n - 1 /\ r.cycle \in BOOLEAN /\ r.expect \in BOOLEAN
      /\ r.buf[r.read].cycle \in BOOLEAN
  BY DEF Rings
<1>2. HasFront(r) <=> r.read # r.write
  BY <1>1 DEF Sound, HasFront
<1>3. HasFront(r) => r.read \in Ahead(r, n)
  BY <1>1, <1>2 DEF Ahead
<1> QED
  BY <1>2, <1>3 DEF Waiting, Front, Overrun

(***************************************************************************)
(* What is put in a spare place is waiting, and the rest is as it was.      *)
(***************************************************************************)
LEMMA PutWaits ==
  ASSUME NEW T, NEW last \in Nat, NEW n \in Nat, NEW r \in Rings(T, last, n), NEW s \in Rings(T, last, n),
         n - 1 <= last, NEW trb, NEW D, Sound(r, n), Spare(r, n), Puts(r, s, trb, n)
  PROVE  /\ Sound(s, n)
         /\ Waiting(s, n) = Waiting(r, n) \cup {trb}
         /\ Once(r, n, D) /\ (trb \in D => trb \notin Waiting(r, n)) => Once(s, n, D)
<1>1. /\ r.read \in 0..n - 1 /\ r.write \in 0..n - 1 /\ r.cycle \in BOOLEAN /\ r.expect \in BOOLEAN
      /\ s.cycle \in BOOLEAN /\ s.expect \in BOOLEAN /\ s.read \in 0..n - 1 /\ s.write \in 0..n - 1
      /\ \A i \in 0..n - 1 : r.buf[i].cycle \in BOOLEAN /\ s.buf[i].cycle \in BOOLEAN
  BY DEF Rings
<1>2. /\ s.read = r.read /\ s.expect = r.expect
      /\ s.write = After(r.write, n) /\ s.cycle = Turn(r.write, r.cycle, n)
      /\ s.buf[r.write].cycle = r.cycle /\ s.buf[r.write].trb = trb
      /\ \A i \in 0..n - 1 : i # r.write => s.buf[i] = r.buf[i]
  BY <1>1 DEF Puts
<1>3. Sound(s, n)
  BY <1>1, <1>2 DEF Sound, Spare, After, Turn
<1>4. r.write \notin Ahead(r, n) /\ Ahead(s, n) = Ahead(r, n) \cup {r.write}
  BY <1>1, <1>2 DEF Ahead, Spare, After
<1>5. \A i \in Ahead(r, n) : i \in 0..n - 1 /\ s.buf[i].trb = r.buf[i].trb
  BY <1>2, <1>4 DEF Ahead
<1>6. Waiting(s, n) = Waiting(r, n) \cup {trb}
  <2>1. \A x \in Waiting(s, n) : x \in Waiting(r, n) \cup {trb}
    BY <1>2, <1>4, <1>5 DEF Waiting
  <2>2. trb \in Waiting(s, n)
    BY <1>2, <1>4 DEF Waiting
  <2>3. \A x \in Waiting(r, n) : x \in Waiting(s, n)
    BY <1>4, <1>5 DEF Waiting
  <2> QED
    BY <2>1, <2>2, <2>3
<1>7. ASSUME Once(r, n, D), trb \in D => trb \notin Waiting(r, n) PROVE Once(s, n, D)
  <2> SUFFICES ASSUME NEW i \in Ahead(s, n), NEW j \in Ahead(s, n),
                      s.buf[i].trb \in D, s.buf[i].trb = s.buf[j].trb
               PROVE  i = j
    BY DEF Once
  <2>1. \A k \in Ahead(r, n) : r.buf[k].trb \in Waiting(r, n)
    BY DEF Waiting
  <2>2. CASE i \in Ahead(r, n) /\ j \in Ahead(r, n)
    BY <2>2, <1>5, <1>7 DEF Once
  <2>3. CASE i = r.write /\ j \in Ahead(r, n)
    BY <2>1, <2>3, <1>2, <1>5, <1>7
  <2>4. CASE i \in Ahead(r, n) /\ j = r.write
    BY <2>1, <2>4, <1>2, <1>5, <1>7
  <2> QED
    BY <2>2, <2>3, <2>4, <1>4
<1> QED
  BY <1>3, <1>6, <1>7

\* r, whose front was taken, is s: of the TRBs of D no two that wait are the same.
EndedWait(r, s, n, D) ==
  /\ Sound(s, n)
  /\ Spare(s, n)
  /\ Waiting(s, n) \subseteq Waiting(r, n)
  /\ Once(r, n, D) => Once(s, n, D)
  /\ Once(r, n, D) /\ Front(r) \in D => Front(r) \notin Waiting(s, n)
  /\ \A x \in Waiting(r, n) : x = Front(r) \/ x \in Waiting(s, n)

(***************************************************************************)
(* What is taken from the front no longer waits, there is a spare place     *)
(* then, and the rest is as it was.                                         *)
(***************************************************************************)
LEMMA TakeEndsWait ==
  ASSUME NEW T, NEW last \in Nat, NEW n \in Nat, NEW r \in Rings(T, last, n), NEW s \in Rings(T, last, n),
         n - 1 <= last, NEW D, Sound(r, n), HasFront(r), Takes(r, s, n)
  PROVE  EndedWait(r, s, n, D)
<1>1. /\ r.read \in 0..n - 1 /\ r.write \in 0..n - 1 /\ r.cycle \in BOOLEAN /\ r.expect \in BOOLEAN
      /\ \A i \in 0..n - 1 : r.buf[i].cycle \in BOOLEAN
  BY DEF Rings
<1>2. /\ s.buf = r.buf /\ s.write = r.write /\ s.cycle = r.cycle
      /\ s.read = After(r.read, n) /\ s.expect = Turn(r.read, r.expect, n)
  BY DEF Takes
<1>3. r.read # r.write
  BY <1>1 DEF Sound, HasFront
<1>4. Sound(s, n)
  BY <1>1, <1>2, <1>3 DEF Sound, After, Turn
<1>5. Spare(s, n)
  BY <1>1, <1>2, <1>3 DEF Spare, After
<1>6. r.read \in Ahead(r, n) /\ Ahead(s, n) = Ahead(r, n) \ {r.read}
  BY <1>1, <1>2, <1>3 DEF Ahead, After
<1>7. Once(r, n, D) => Once(s, n, D)
  BY <1>2, <1>6 DEF Once
<1>8. Once(r, n, D) /\ Front(r) \in D => Front(r) \notin Waiting(s, n)
  BY <1>2, <1>6 DEF Once, Waiting, Front
<1>9. \A x \in Waiting(r, n) : x = Front(r) \/ x \in Waiting(s, n)
  BY <1>2, <1>6 DEF Waiting, Front
<1>10. Waiting(s, n) \subseteq Waiting(r, n)
  BY <1>2, <1>6 DEF Waiting
<1> QED
  BY <1>4, <1>5, <1>7, <1>8, <1>9, <1>10 DEF EndedWait

(***************************************************************************)
(* When the TRBs that wait are all different and are fewer than the places, *)
(* there is a spare one.                                                    *)
(***************************************************************************)
LEMMA SpareForFew ==
  ASSUME NEW T, NEW last \in Nat, NEW n \in Nat, n > 0, NEW r \in Rings(T, last, n), NEW D, Once(r, n, D),
         Waiting(r, n) \subseteq D, NEW P, IsFiniteSet(P), Cardinality(P) < n - 1,
         NEW f \in [Waiting(r, n) -> P],
         \A c, d \in Waiting(r, n) : f[c] = f[d] => c = d
  PROVE  Spare(r, n)
<1> SUFFICES ASSUME ~Spare(r, n) PROVE FALSE
  OBVIOUS
<1>1. r.read \in 0..n - 1 /\ r.write \in 0..n - 1
  BY DEF Rings
<1>2. Ahead(r, n) = (0..n - 1) \ {r.write}
  BY <1>1 DEF Ahead, Spare, After
<1>3. IsFiniteSet(Ahead(r, n)) /\ Cardinality(Ahead(r, n)) = n - 1
  <2>1. IsFiniteSet(0..n - 1) /\ Cardinality(0..n - 1) = n
    BY FS_Interval
  <2>2. IsFiniteSet((0..n - 1) \ {r.write})
        /\ Cardinality((0..n - 1) \ {r.write}) = Cardinality(0..n - 1) - 1
    BY <1>1, <2>1, FS_RemoveElement
  <2> QED
    BY <1>2, <2>1, <2>2
<1> DEFINE g == [i \in Ahead(r, n) |-> f[r.buf[i].trb]]
<1>4. \A i \in Ahead(r, n) : r.buf[i].trb \in Waiting(r, n)
  BY DEF Waiting
<1>5. g \in [Ahead(r, n) -> P]
  BY <1>4
<1>6. \A i, j \in Ahead(r, n) : g[i] = g[j] => i = j
  BY <1>4 DEF Once
<1>7. \E i, j \in Ahead(r, n) : i # j /\ g[i] = g[j]
  <2> HIDE DEF g
  <2> QED
    BY <1>3, <1>5, FS_PigeonHole
<1> HIDE DEF g
<1> QED
  BY <1>6, <1>7

-----------------------------------------------------------------------------
(* The two rings of the driver.                                             *)

LEMMA Sizes ==
  /\ NumPorts \in Nat /\ NumPorts > 0
  /\ CommandRing - 1 \in Nat /\ CommandPlaces \in Nat /\ CommandPlaces = CommandRing - 1 /\ CommandPlaces > NumPorts
  /\ CommandPlaces - 1 <= CommandRing - 1
  /\ EventRing \in Nat /\ EventRing - 1 \in Nat /\ (EventRing - 1) + 1 = EventRing /\ EventRing > NumPorts + 1
  /\ IsFiniteSet(Ports) /\ Cardinality(Ports) = NumPorts
<1>1. IsFiniteSet(1..NumPorts) /\ Cardinality(1..NumPorts) = NumPorts
  BY PortConfigAssumption, FS_Interval
<1> QED
  BY <1>1, PortConfigAssumption DEF CommandPlaces, Ports

(***************************************************************************)
(* What every OnEvent begins with.                                          *)
(***************************************************************************)
LEMMA FrontPopped ==
  ASSUME EventsSound(er), HasFront(er)
  PROVE  /\ EventsSound(Pop(er)) /\ Spare(Pop(er), EventRing)
         /\ Front(er) \in Events
         /\ Waiting(Pop(er), EventRing) \subseteq Events
         /\ Front(er) \in CommandTrbs => Front(er) \notin Waiting(Pop(er), EventRing)
         /\ \A x \in Events : x = Front(er) \/ x \in Waiting(Pop(er), EventRing)
<1> DEFINE s == Pop(er)
<1>1. s \in Rings(AllTrbs, EventRing - 1, EventRing) /\ Takes(er, s, EventRing)
  BY Sizes, PopTakes DEF EventsSound
<1>2. HasFront(er) => Front(er) \in Events
  BY Sizes, FrontOfSound DEF EventsSound, Events
<1> HIDE DEF s
<1>3. EndedWait(er, s, EventRing, CommandTrbs)
  <2>1. PICK last \in Nat : last = EventRing - 1 /\ EventRing - 1 <= last
    BY Sizes
  <2>2. /\ er \in Rings(AllTrbs, last, EventRing) /\ s \in Rings(AllTrbs, last, EventRing)
        /\ Sound(er, EventRing) /\ EventRing \in Nat
    BY <1>1, <2>1, Sizes DEF EventsSound
  <2> QED
    BY <1>1, <2>1, <2>2, TakeEndsWait
<1> QED
  BY <1>1, <1>2, <1>3 DEF EventsSound, Events, EndedWait, s

(***************************************************************************)
(* The controller posts an event for which there is a place.                *)
(***************************************************************************)
LEMMA EventPosted ==
  ASSUME NEW r, EventsSound(r), Spare(r, EventRing), NEW e \in AllTrbs,
         e \in CommandTrbs => e \notin Waiting(r, EventRing)
  PROVE  /\ EventsSound(Post(r, e)) /\ Waiting(Post(r, e), EventRing) = Waiting(r, EventRing) \cup {e}
         /\ Once(r, EventRing, PortTrbs) /\ e \notin Waiting(r, EventRing) => Once(Post(r, e), EventRing, PortTrbs)
<1> DEFINE s == Post(r, e)
<1>1. s \in Rings(AllTrbs, EventRing - 1, EventRing) /\ Puts(r, s, e, EventRing)
  <2>1. PICK last \in Nat : last = EventRing - 1 /\ last + 1 = EventRing
    BY Sizes
  <2>2. Post(r, e) \in Rings(AllTrbs, last, last + 1) /\ Puts(r, Post(r, e), e, last + 1)
    BY <2>1, PostPuts DEF EventsSound
  <2> QED
    BY <2>1, <2>2
<1> HIDE DEF s
<1>2. /\ Sound(s, EventRing)
      /\ Waiting(s, EventRing) = Waiting(r, EventRing) \cup {e}
      /\ Once(r, EventRing, CommandTrbs) /\ (e \in CommandTrbs => e \notin Waiting(r, EventRing))
           => Once(s, EventRing, CommandTrbs)
  <2>1. /\ r \in Rings(AllTrbs, EventRing - 1, EventRing) /\ Sound(r, EventRing)
        /\ EventRing \in Nat /\ EventRing - 1 \in Nat /\ EventRing - 1 <= EventRing - 1
    BY Sizes DEF EventsSound
  <2> QED
    BY <1>1, <2>1, PutWaits
<1>3. Once(r, EventRing, PortTrbs) /\ (e \in PortTrbs => e \notin Waiting(r, EventRing))
        => Once(s, EventRing, PortTrbs)
  <2>1. /\ r \in Rings(AllTrbs, EventRing - 1, EventRing) /\ Sound(r, EventRing)
        /\ EventRing \in Nat /\ EventRing - 1 \in Nat /\ EventRing - 1 <= EventRing - 1
    BY Sizes DEF EventsSound
  <2> QED
    BY <1>1, <2>1, PutWaits
<1> QED
  BY <1>1, <1>2, <1>3 DEF EventsSound, s

(***************************************************************************)
(* The controller reads a command.                                          *)
(***************************************************************************)
LEMMA CommandFetched ==
  ASSUME CommandsSound(cr), HasFront(cr)
  PROVE  /\ CommandsSound(Fetched(cr))
         /\ Front(cr) \in Commands
         /\ Waiting(Fetched(cr), CommandPlaces) \subseteq Commands
         /\ Front(cr) \in CommandTrbs => Front(cr) \notin Waiting(Fetched(cr), CommandPlaces)
<1> DEFINE s == Fetched(cr)
<1>1. s \in Rings(AllTrbs, CommandRing - 1, CommandPlaces) /\ Takes(cr, s, CommandPlaces)
  BY Sizes, FetchedTakes DEF CommandsSound
<1>2. HasFront(cr) => Front(cr) \in Commands
  BY Sizes, FrontOfSound DEF CommandsSound, Commands
<1> HIDE DEF s
<1>3. EndedWait(cr, s, CommandPlaces, CommandTrbs)
  <2>1. PICK last \in Nat : last = CommandRing - 1 /\ CommandPlaces - 1 <= last
    BY Sizes
  <2>2. /\ cr \in Rings(AllTrbs, last, CommandPlaces) /\ s \in Rings(AllTrbs, last, CommandPlaces)
        /\ Sound(cr, CommandPlaces) /\ CommandPlaces \in Nat
    BY <1>1, <2>1, Sizes DEF CommandsSound
  <2> QED
    BY <1>1, <2>1, <2>2, TakeEndsWait
<1> QED
  BY <1>1, <1>2, <1>3 DEF CommandsSound, Commands, EndedWait, s

(***************************************************************************)
(* The driver pushes a command without looking for room.  There is some:    *)
(* every command that waits is about a port of its own, and none is about   *)
(* the port p that this one is for.                                         *)
(***************************************************************************)
LEMMA CommandPushed ==
  ASSUME CommandsSound(cr), Commands \subseteq CommandTrbs, NEW p \in Ports, NEW c \in CommandTrbs,
         \A d \in Commands : Owner(d) \in Ports /\ Owner(d) # p,
         \A d, e \in Commands : Owner(d) = Owner(e) => d = e,
         c \notin Commands
  PROVE  CommandsSound(Push(cr, c)) /\ Waiting(Push(cr, c), CommandPlaces) = Commands \cup {c}
<1> DEFINE f == [d \in Commands |-> Owner(d)]
           s == Push(cr, c)
<1>1. Spare(cr, CommandPlaces)
  <2>1. IsFiniteSet(Ports \ {p}) /\ Cardinality(Ports \ {p}) = NumPorts - 1
    BY Sizes, FS_RemoveElement
  <2>2. f \in [Waiting(cr, CommandPlaces) -> Ports \ {p}]
    BY DEF Commands
  <2>3. \A d, e \in Waiting(cr, CommandPlaces) : f[d] = f[e] => d = e
    BY DEF Commands
  <2>4. Cardinality(Ports \ {p}) < CommandPlaces - 1 /\ CommandPlaces > 0
    BY <2>1, Sizes
  <2> HIDE DEF f
  <2> QED
    BY <2>1, <2>2, <2>3, <2>4, Sizes, SpareForFew DEF CommandsSound, Commands
<1>2. c \in AllTrbs /\ Link \in AllTrbs
  BY DEF AllTrbs, Trbs
<1>3. s \in Rings(AllTrbs, CommandRing - 1, CommandPlaces) /\ Puts(cr, s, c, CommandPlaces)
  BY <1>2, Sizes, PushPuts DEF CommandsSound
<1> HIDE DEF s
<1>4. /\ Sound(s, CommandPlaces)
      /\ Waiting(s, CommandPlaces) = Waiting(cr, CommandPlaces) \cup {c}
      /\ Once(cr, CommandPlaces, CommandTrbs) /\ (c \in CommandTrbs => c \notin Waiting(cr, CommandPlaces))
           => Once(s, CommandPlaces, CommandTrbs)
  <2>1. /\ cr \in Rings(AllTrbs, CommandRing - 1, CommandPlaces) /\ Sound(cr, CommandPlaces)
        /\ CommandPlaces \in Nat /\ CommandRing - 1 \in Nat /\ CommandPlaces - 1 <= CommandRing - 1
    BY Sizes DEF CommandsSound
  <2> QED
    BY <1>1, <1>3, <2>1, PutWaits
<1> QED
  BY <1>3, <1>4 DEF CommandsSound, Commands, s

-----------------------------------------------------------------------------
(* The jobs, step by step.                                                  *)

LEMMA TrbKinds ==
  /\ \A e \in Trbs : /\ e \in CommandTrbs <=> e.type \in {"enableSlot", "addressDevice", "configureEndpoint"}
                     /\ e.type = "port" => e \in PortTrbs
                     /\ e.type = "transfer" => e.n \in Slots
                     /\ e \in AllTrbs
  /\ \A e \in CommandTrbs : /\ e.type \in {"enableSlot", "addressDevice", "configureEndpoint"}
                            /\ e.n \in 0..NumPorts /\ e \in Trbs /\ e \in AllTrbs
                            /\ e = Trb(e.type, e.n)
  /\ \A e \in PortTrbs : e.type = "port" /\ e.n \in Ports /\ e = PortStatusChange(e.n) /\ e \in Trbs
  /\ \A p \in Ports : /\ PortStatusChange(p) \in PortTrbs /\ PortStatusChange(p) \notin CommandTrbs
                      /\ PortStatusChange(p).n = p
  /\ \A s \in Slots : /\ Trb("transfer", s) \in Trbs /\ Trb("transfer", s) \notin CommandTrbs
                      /\ AddressDeviceCommand(s) \in CommandTrbs
                      /\ ConfigureEndpointCommand(s) \in CommandTrbs
                      /\ Trb("enableSlot", s) \in CommandTrbs
  /\ EnableSlotCommand \in CommandTrbs
<1>1. NumPorts \in Nat
  BY Sizes
<1>2. \A e \in CommandTrbs : /\ e.type \in {"enableSlot", "addressDevice", "configureEndpoint"}
                             /\ e.n \in 0..NumPorts /\ e = Trb(e.type, e.n)
  BY DEF CommandTrbs, Trb
<1>3. \A e \in PortTrbs : e.type = "port" /\ e.n \in Ports /\ e = PortStatusChange(e.n)
  BY DEF PortTrbs, Trb, PortStatusChange
<1>4. \A e \in SlotTrbs : e.type = "transfer" /\ e.n \in Slots
  BY DEF SlotTrbs
<1>5. \A p \in Ports : PortStatusChange(p) \in PortTrbs /\ PortStatusChange(p).n = p
  BY DEF PortTrbs, Trb, PortStatusChange
<1>6. \A s \in Slots : /\ Trb("transfer", s) \in SlotTrbs
                       /\ AddressDeviceCommand(s) \in CommandTrbs
                       /\ ConfigureEndpointCommand(s) \in CommandTrbs
                       /\ Trb("enableSlot", s) \in CommandTrbs
  BY <1>1 DEF SlotTrbs, CommandTrbs, Trb, AddressDeviceCommand, ConfigureEndpointCommand, Slots
<1>7. EnableSlotCommand \in CommandTrbs
  BY <1>1 DEF CommandTrbs, Trb, EnableSlotCommand
<1> QED
  BY <1>2, <1>3, <1>4, <1>5, <1>6, <1>7 DEF Trbs, AllTrbs

\* The job c of another port than p goes on as it was.
Else(c, p) == Owner(c) # p /\ Owner(c)' = Owner(c) /\ Agreed(c)'

(***************************************************************************)
(* A job goes on when nothing that it is about is changed.                  *)
(***************************************************************************)
LEMMA GoesOn ==
  ASSUME NEW c, NEW p, Agreed(c), Owner(c) # p, Owner(c)' = Owner(c),
         \A q \in Ports : q # p /\ phase[q] \in {"EnablingSlot", "AddressingDevice", "ConfiguringEndpoints"}
           => phase'[q] = phase[q],
         c.type = "addressDevice" => device'[c.n] = device[c.n]
  PROVE  Else(c, p)
<1>1. phase'[Owner(c)] = phase[Owner(c)]
        \/ (c.type # "enableSlot" /\ c.type # "addressDevice" /\ c.type # "configureEndpoint")
  BY DEF Agreed
<1>2. Agreed(c)'
  BY <1>1 DEF Agreed
<1> QED
  BY <1>2 DEF Else

(***************************************************************************)
(* A step takes jobs away, and brings at most one: for the port p, which    *)
(* has no other.                                                            *)
(***************************************************************************)
LEMMA JobsStep ==
  ASSUME Apart, NEW p, NEW c, NEW new \in {"command", "done", "none"},
         \A x \in Commands' : (x \in Commands /\ Else(x, p)) \/ (new = "command" /\ x = c),
         \A x \in Done' : (x \in Done /\ Else(x, p)) \/ (new = "done" /\ x = c),
         new # "none" => Owner(c)' = p /\ Agreed(c)'
  PROVE  (\A x \in (Commands \cup Done)' : Agreed(x)') /\ Apart'
<1>1. ASSUME NEW x \in (Commands \cup Done)' PROVE Agreed(x)'
  BY DEF Else
<1>2. ASSUME NEW x \in Commands', NEW y \in Commands', Owner(x)' = Owner(y)' PROVE x = y
  BY <1>2 DEF Else, Apart
<1>3. ASSUME NEW x \in Done', NEW y \in Done', Owner(x)' = Owner(y)' PROVE x = y
  BY <1>3 DEF Else, Apart
<1>4. ASSUME NEW x \in Commands', NEW y \in Done' PROVE Owner(x)' # Owner(y)'
  BY DEF Else, Apart
<1>5. Apart'
  BY <1>2, <1>3, <1>4 DEF Apart
<1> QED
  BY <1>1, <1>5

(***************************************************************************)
(* Steps that leave the driver alone and bring no job.                      *)
(***************************************************************************)
LEMMA NoJobStep ==
  ASSUME IInv, UNCHANGED <<phase, addressing, device, context, cr>>,
         EventsSound(er)', Events' \subseteq Trbs, Done' \subseteq Done
  PROVE  RingsOK' /\ JobsOK' /\ Apart' /\ OneAddressing' /\ SlotsOK'
<1>1. Commands' = Commands
  BY DEF Commands
<1>2. RingsOK'
  BY DEF IInv, RingsOK, CommandsSound
<1>3. OneAddressing' /\ SlotsOK'
  BY DEF IInv, OneAddressing, SlotsOK
<1>4. \A x \in Commands \cup Done : Else(x, 0)
  <2> TAKE x \in Commands \cup Done
  <2>1. Agreed(x) /\ Owner(x) \in Ports
    BY DEF IInv, JobsOK, Agreed
  <2>2. Owner(x)' = Owner(x) /\ Owner(x) # 0
    BY <2>1, Sizes DEF Owner, Ports
  <2>3. phase' = phase /\ device' = device
    OBVIOUS
  <2> QED
    BY <2>1, <2>2, <2>3, GoesOn
<1>5. (\A x \in (Commands \cup Done)' : Agreed(x)') /\ Apart'
  <2>1. \A x \in Commands' : x \in Commands /\ Else(x, 0)
    BY <1>1, <1>4
  <2>2. \A x \in Done' : x \in Done /\ Else(x, 0)
    BY <1>4
  <2> QED
    BY <2>1, <2>2, JobsStep DEF IInv
<1>6. JobsOK'
  BY <1>1, <1>5 DEF IInv, JobsOK
<1> QED
  BY <1>2, <1>3, <1>5, <1>6

(***************************************************************************)
(* What the driver knows of the event that it processes.                    *)
(***************************************************************************)
LEMMA Arrival ==
  ASSUME IInv, HasFront(er)
  PROVE  /\ EventsSound(Left) /\ Spare(Left, EventRing)
         /\ Waiting(Left, EventRing) \subseteq Events
         /\ Front(er) \in Events /\ Front(er) \in Trbs
         /\ Front(er).type = "port" => Arg \in Ports
         /\ Front(er).type = "transfer" => Arg \in Slots
         /\ Front(er).type \in {"enableSlot", "addressDevice", "configureEndpoint"} =>
              /\ Front(er) \in Done /\ Front(er) \notin Waiting(Left, EventRing)
              /\ Agreed(Front(er)) /\ Owner(Front(er)) \in Ports /\ Arg \in 0..NumPorts
              /\ \A d \in Done : d # Front(er) => Owner(d) # Owner(Front(er))
              /\ \A d \in Commands : Owner(d) # Owner(Front(er))
         /\ Front(er).type = "enableSlot" => Arg \in Slots /\ device[Arg] = 0
<1>1. /\ EventsSound(Left) /\ Spare(Left, EventRing) /\ Front(er) \in Events
      /\ Waiting(Left, EventRing) \subseteq Events
      /\ Front(er) \in CommandTrbs => Front(er) \notin Waiting(Left, EventRing)
  BY FrontPopped DEF IInv, RingsOK, Left
<1>2. Front(er) \in Trbs
  BY <1>1 DEF IInv, JobsOK
<1>3. /\ Front(er).type = "port" => Arg \in Ports
      /\ Front(er).type = "transfer" => Arg \in Slots
  BY <1>2, TrbKinds DEF Arg
<1>4. ASSUME Front(er).type \in {"enableSlot", "addressDevice", "configureEndpoint"}
      PROVE  /\ Front(er) \in Done /\ Front(er) \notin Waiting(Left, EventRing)
             /\ Agreed(Front(er)) /\ Owner(Front(er)) \in Ports /\ Arg \in 0..NumPorts
             /\ \A d \in Done : d # Front(er) => Owner(d) # Owner(Front(er))
             /\ \A d \in Commands : Owner(d) # Owner(Front(er))
             /\ Front(er).type = "enableSlot" => Arg \in Slots /\ device[Arg] = 0
  <2>1. Front(er) \in CommandTrbs /\ Arg \in 0..NumPorts
    BY <1>2, <1>4, TrbKinds DEF Arg
  <2>2. Front(er) \in Done /\ Front(er) \notin Waiting(Left, EventRing)
    BY <1>1, <2>1 DEF Done
  <2>3. Agreed(Front(er)) /\ Owner(Front(er)) \in Ports
    BY <2>2 DEF IInv, JobsOK, Agreed
  <2>4. /\ \A d \in Done : d # Front(er) => Owner(d) # Owner(Front(er))
        /\ \A d \in Commands : Owner(d) # Owner(Front(er))
    BY <2>2 DEF IInv, Apart
  <2>5. Front(er).type = "enableSlot" => Arg \in Slots /\ device[Arg] = 0
    BY <2>2 DEF IInv, JobsOK, Arg
  <2> QED
    BY <2>1, <2>2, <2>3, <2>4, <2>5
<1> QED
  BY <1>1, <1>2, <1>3, <1>4

(***************************************************************************)
(* An event is dropped.                                                     *)
(***************************************************************************)
LEMMA DropStep ==
  ASSUME IInv, boot > NumPorts, HasFront(er), er' = Left, UNCHANGED <<driverVars, context, cr>>,
         UNCHANGED <<connected, enabled, csc, prc>>
  PROVE  IInv'
<1>1. EventsSound(er)' /\ Events' \subseteq Events
  BY Arrival DEF Events, EventsSound
<1>2. Events' \subseteq Trbs /\ Done' \subseteq Done
  BY <1>1 DEF IInv, JobsOK, Done
<1>3. TypeOK'
  BY DEF IInv, TypeOK, driverVars
<1>4. QuietOK'
  BY Sizes DEF IInv, TypeOK, QuietOK, AtBoot, driverVars
<1>5. RingsOK' /\ JobsOK' /\ Apart' /\ OneAddressing' /\ SlotsOK'
  BY <1>1, <1>2, NoJobStep DEF driverVars
<1> QED
  BY <1>3, <1>4, <1>5 DEF IInv

(***************************************************************************)
(* ResetPort of a port that is not in use, with or without its effect.      *)
(***************************************************************************)
LEMMA ResetPortStep ==
  ASSUME IInv, NEW p \in Ports, phase[p] = "NotConnected", NEW left, EventsSound(left),
         Waiting(left, EventRing) \subseteq Events, MayReset /\ connected[p] => Spare(left, EventRing),
         ResetPort(p, left), boot' \in 1..NumPorts + 1, UNCHANGED <<device, connected, context, cr>>
  PROVE  TypeOK' /\ RingsOK' /\ JobsOK' /\ Apart' /\ OneAddressing' /\ SlotsOK'
<1>1. /\ phase \in [Ports -> Phases] /\ addressing \in 0..NumPorts
      /\ csc \in [Ports -> BOOLEAN] /\ prc \in [Ports -> BOOLEAN] /\ enabled \in [Ports -> BOOLEAN]
      /\ connected \in [Ports -> BOOLEAN] /\ context \in [Slots -> 0..NumPorts] /\ device \in [Slots -> 0..NumPorts]
  BY DEF IInv, TypeOK
<1>2. /\ Commands' = Commands /\ Commands \subseteq CommandTrbs
      /\ cr' = cr /\ context' = context /\ device' = device /\ connected' = connected
  BY DEF Commands, IInv, JobsOK
<1>3. Events \subseteq Trbs /\ (Events \cap CommandTrbs) = Done
  BY DEF IInv, JobsOK, Done
<1>4. \A x \in Commands \cup Done : x \in CommandTrbs /\ Agreed(x) /\ Owner(x) \in Ports /\ Owner(x) # p
  <2>1. \A x \in Commands \cup Done : x \in CommandTrbs /\ Agreed(x)
    BY <1>2, <1>3 DEF IInv, JobsOK
  <2> QED
    BY <2>1, TrbKinds DEF Agreed
<1>5. CASE er' = left /\ UNCHANGED <<phase, addressing, csc, prc, enabled>>
  <2>1. EventsSound(er)' /\ Events' \subseteq Events
    BY <1>5 DEF EventsSound, Events
  <2>2. Events' \subseteq Trbs /\ Done' \subseteq Done
    BY <2>1, <1>3 DEF Done
  <2>3. TypeOK'
    BY <1>5 DEF IInv, TypeOK
  <2> QED
    BY <1>5, <2>1, <2>2, <2>3, NoJobStep
<1>6. CASE /\ ~MayReset /\ phase' = [phase EXCEPT ![p] = "WaitingAddressed"]
           /\ er' = left /\ UNCHANGED <<addressing, csc, prc, enabled>>
  <2>1. EventsSound(er)' /\ Events' \subseteq Events
    BY <1>6 DEF EventsSound, Events
  <2>2. Events' \subseteq Trbs /\ Done' \subseteq Done
    BY <2>1, <1>3 DEF Done
  <2>3. phase' \in [Ports -> Phases]
    BY <1>1, <1>6 DEF Phases
  <2>4. TypeOK'
    BY <2>3, <1>6 DEF IInv, TypeOK
  <2>5. \A q \in Ports : phase'[q] = IF q = p THEN "WaitingAddressed" ELSE phase[q]
    BY <1>1, <1>6
  <2>6. \A x \in Commands \cup Done : Else(x, p)
    <3> TAKE x \in Commands \cup Done
    <3>1. Owner(x)' = Owner(x)
      BY <1>2, <1>6 DEF Owner
    <3> QED
      BY <3>1, <2>5, <1>2, <1>4, GoesOn
  <2>7. (\A x \in (Commands \cup Done)' : Agreed(x)') /\ Apart'
    <3>1. \A x \in Commands' : x \in Commands /\ Else(x, p)
      BY <1>2, <2>6
    <3>2. \A x \in Done' : x \in Done /\ Else(x, p)
      BY <2>2, <2>6
    <3> QED
      BY <3>1, <3>2, JobsStep DEF IInv
  <2>8. JobsOK'
    BY <2>2, <2>7, <1>2 DEF IInv, JobsOK
  <2>9. OneAddressing' /\ SlotsOK'
    BY <2>5, <1>2, <1>6 DEF IInv, OneAddressing, SlotsOK, NoSlotYet
  <2>10. RingsOK'
    BY <2>1, <1>2 DEF IInv, RingsOK, CommandsSound
  <2> QED
    BY <2>4, <2>7, <2>8, <2>9, <2>10
<1>7. CASE connected[p] /\ MayReset /\ Reset(p, left)
  <2>0. /\ phase' = [phase EXCEPT ![p] = "ResettingPort"] /\ addressing = 0 /\ addressing' = p
        /\ csc' = [csc EXCEPT ![p] = FALSE] /\ prc' = [prc EXCEPT ![p] = TRUE]
        /\ enabled' = [enabled EXCEPT ![p] = TRUE]
        /\ er' = left \/ er' = Post(left, PortStatusChange(p))
    BY <1>7 DEF Reset, MayReset
  <2>1. EventsSound(er)' /\ Events' \subseteq Events \cup {PortStatusChange(p)}
    <3>1. CASE er' = left
      BY <3>1 DEF EventsSound, Events
    <3>2. CASE er' = Post(left, PortStatusChange(p))
      <4>1. /\ PortStatusChange(p) \in AllTrbs /\ PortStatusChange(p) \notin CommandTrbs
            /\ Spare(left, EventRing)
        BY <1>7, TrbKinds
      <4>2. /\ EventsSound(Post(left, PortStatusChange(p)))
            /\ Waiting(Post(left, PortStatusChange(p)), EventRing)
                 = Waiting(left, EventRing) \cup {PortStatusChange(p)}
        BY <4>1, EventPosted
      <4> QED
        BY <3>2, <4>2 DEF EventsSound, Events
    <3> QED
      BY <3>1, <3>2, <2>0
  <2>2. Events' \subseteq Trbs /\ Done' \subseteq Done
    BY <2>1, <1>3, TrbKinds DEF Done
  <2>3. phase' \in [Ports -> Phases] /\ addressing' \in 0..NumPorts
    BY <1>1, <2>0, Sizes DEF Phases, Ports
  <2>4. TypeOK'
    <3>1. csc' \in [Ports -> BOOLEAN] /\ prc' \in [Ports -> BOOLEAN] /\ enabled' \in [Ports -> BOOLEAN]
      BY <1>1, <2>0
    <3> QED
      BY <2>3, <3>1, <1>1, <1>2 DEF TypeOK
  <2>5. \A q \in Ports : phase'[q] = IF q = p THEN "ResettingPort" ELSE phase[q]
    BY <1>1, <2>0
  <2>6. \A x \in Commands \cup Done : Else(x, p)
    <3> TAKE x \in Commands \cup Done
    <3>1. x.type = "configureEndpoint"
      BY <1>4, <2>0, Sizes DEF Owner, Ports
    <3>2. Owner(x)' = Owner(x)
      BY <1>2, <3>1 DEF Owner
    <3> QED
      BY <3>1, <3>2, <2>5, <1>2, <1>4, GoesOn
  <2>7. (\A x \in (Commands \cup Done)' : Agreed(x)') /\ Apart'
    <3>1. \A x \in Commands' : x \in Commands /\ Else(x, p)
      BY <1>2, <2>6
    <3>2. \A x \in Done' : x \in Done /\ Else(x, p)
      BY <2>2, <2>6
    <3> QED
      BY <3>1, <3>2, JobsStep DEF IInv
  <2>8. JobsOK'
    BY <2>2, <2>7, <1>2 DEF IInv, JobsOK
  <2>9. OneAddressing' /\ SlotsOK'
    <3>1. \A q \in Ports : q # 0
      BY Sizes DEF Ports
    <3> QED
      BY <2>0, <2>5, <1>2, <3>1 DEF IInv, OneAddressing, SlotsOK, NoSlotYet
  <2>10. RingsOK'
    BY <2>1, <1>2 DEF IInv, RingsOK, CommandsSound
  <2> QED
    BY <2>4, <2>7, <2>8, <2>9, <2>10
<1> QED
  BY <1>5, <1>6, <1>7 DEF ResetPort

(***************************************************************************)
(* The loop of Initialize.  There is a place for the event of the reset:    *)
(* before it the ring has at most one event of each port.                   *)
(***************************************************************************)
LEMMA ConfigurePortStep ==
  ASSUME IInv, ConfigurePort
  PROVE  IInv'
<1>1. boot \in Ports /\ boot' = boot + 1 /\ boot' \in 1..NumPorts + 1 /\ boot <= NumPorts
  BY Sizes DEF ConfigurePort, IInv, TypeOK, Ports
<1>2. EventsSound(er) /\ UNCHANGED <<device, connected, context, cr>>
  BY DEF IInv, RingsOK, ConfigurePort
<1>3. CASE connected[boot] /\ phase[boot] = "NotConnected"
  <2>1. ResetPort(boot, er)
    BY <1>3 DEF ConfigurePort
  <2>2. ASSUME MayReset PROVE Spare(er, EventRing)
    <3> DEFINE f == [e \in Events |-> e.n]
    <3>1. /\ Once(er, EventRing, PortTrbs) /\ Events \subseteq PortTrbs
          /\ er \in Rings(AllTrbs, EventRing - 1, EventRing)
      BY <1>1, <1>2, <2>2 DEF MayReset, IInv, QuietOK, AtBoot, EventsSound
    <3>2. f \in [Waiting(er, EventRing) -> Ports] /\ \A c, d \in Waiting(er, EventRing) : f[c] = f[d] => c = d
      <4>1. \A e \in Events : f[e] = e.n /\ e.n \in Ports /\ e = PortStatusChange(e.n)
        BY <3>1, TrbKinds
      <4>2. f \in [Events -> Ports]
        BY <4>1
      <4>3. \A c, d \in Events : f[c] = f[d] => c = d
        BY <4>1
      <4> HIDE DEF f
      <4> QED
        BY <4>2, <4>3 DEF Events
    <3>3. EventRing > 0 /\ Cardinality(Ports) < EventRing - 1 /\ IsFiniteSet(Ports)
      BY Sizes
    <3> HIDE DEF f
    <3> QED
      BY <3>1, <3>2, <3>3, Sizes, SpareForFew DEF Events
  <2>3. Waiting(er, EventRing) \subseteq Events
    BY DEF Events
  <2>4. TypeOK' /\ RingsOK' /\ JobsOK' /\ Apart' /\ OneAddressing' /\ SlotsOK'
    BY <1>1, <1>2, <1>3, <2>1, <2>2, <2>3, ResetPortStep
  <2>5. QuietOK'
    <3>1. MayReset => addressing' = boot
      BY <1>3, <2>1 DEF ResetPort, Reset
    <3>2. ~MayReset => addressing' = addressing /\ addressing # 0
      BY <1>3, <2>1 DEF ResetPort, MayReset
    <3> QED
      BY <1>1, <3>1, <3>2, Sizes DEF QuietOK, AtBoot, Ports
  <2> QED
    BY <2>4, <2>5 DEF IInv
<1>4. CASE ~(connected[boot] /\ phase[boot] = "NotConnected")
  <2>1. UNCHANGED <<phase, addressing, csc, prc, enabled, er>>
    BY <1>4 DEF ConfigurePort
  <2>2. EventsSound(er)' /\ Events' = Events
    BY <1>2, <2>1 DEF EventsSound, Events
  <2>3. Events' \subseteq Trbs /\ Done' \subseteq Done
    BY <2>2 DEF IInv, JobsOK, Done
  <2>4. TypeOK'
    BY <1>1, <1>2, <2>1 DEF IInv, TypeOK
  <2>5. QuietOK'
    BY <1>1, <1>2, <2>1, <2>2, Sizes DEF IInv, TypeOK, QuietOK, AtBoot, Once, Ahead, Commands
  <2>6. RingsOK' /\ JobsOK' /\ Apart' /\ OneAddressing' /\ SlotsOK'
    BY <1>2, <2>1, <2>2, <2>3, NoJobStep
  <2> QED
    BY <2>4, <2>5, <2>6 DEF IInv
<1> QED
  BY <1>3, <1>4

(***************************************************************************)
(* When Initialize is over QuietOK says nothing.                            *)
(***************************************************************************)
LEMMA BootIsOver ==
  ASSUME boot \in 1..NumPorts + 1, boot > NumPorts, boot' = boot
  PROVE  QuietOK'
BY Sizes DEF QuietOK, AtBoot

LEMMA PortChangedStep ==
  ASSUME IInv, PortChanged
  PROVE  IInv'
<1>1. /\ boot > NumPorts /\ boot \in 1..NumPorts + 1 /\ boot' = boot
      /\ HasFront(er) /\ Front(er).type = "port" /\ phase[Arg] = "NotConnected"
      /\ ResetPort(Arg, Left) /\ UNCHANGED <<device, connected, context, cr>>
  BY DEF PortChanged, Arrives, IInv, TypeOK
<1>2. /\ Arg \in Ports /\ EventsSound(Left) /\ Spare(Left, EventRing)
      /\ Waiting(Left, EventRing) \subseteq Events
  BY <1>1, Arrival
<1>3. TypeOK' /\ RingsOK' /\ JobsOK' /\ Apart' /\ OneAddressing' /\ SlotsOK'
  BY <1>1, <1>2, ResetPortStep
<1> QED
  BY <1>1, <1>3, BootIsOver DEF IInv

(***************************************************************************)
(* The step of a port that asks the controller for something: the command   *)
(* c is pushed for the port p, which goes to the phase next, and the event  *)
(* that it was about is gone.                                               *)
(***************************************************************************)
LEMMA AskStep ==
  ASSUME IInv, boot > NumPorts, boot' = boot, HasFront(er), er' = Left,
         NEW p \in Ports, NEW c \in CommandTrbs, NEW next \in Phases,
         cr' = Push(cr, c), c \notin Commands,
         phase' = [phase EXCEPT ![p] = next],
         UNCHANGED <<addressing, context, connected, enabled, csc>>, prc' \in [Ports -> BOOLEAN],
         device' \in [Slots -> 0..NumPorts],
         \A d \in Commands : Owner(d) # p,
         \A d \in Done : Owner(d) = p => d = Front(er),
         \A d \in Commands \cup Done : Owner(d) # p /\ d.type = "addressDevice" => device'[d.n] = device[d.n],
         \A d \in Done : Owner(d) # p /\ d.type = "enableSlot" => device'[d.n] = device[d.n],
         Owner(c)' = p, Agreed(c)', OneAddressing', SlotsOK'
  PROVE  IInv'
<1>1. /\ phase \in [Ports -> Phases] /\ boot \in 1..NumPorts + 1
      /\ \A q \in Ports : phase'[q] = IF q = p THEN next ELSE phase[q]
  BY DEF IInv, TypeOK
<1>2. TypeOK'
  <2>1. phase' \in [Ports -> Phases]
    BY <1>1
  <2> QED
    BY <2>1, <1>1 DEF IInv, TypeOK
<1>3. /\ EventsSound(er)' /\ Events' \subseteq Events
      /\ Front(er).type \in {"enableSlot", "addressDevice", "configureEndpoint"} => Front(er) \notin Events'
  BY Arrival DEF Events, EventsSound
<1>4. \A x \in Commands \cup Done : x \in CommandTrbs /\ Agreed(x) /\ Owner(x) \in Ports
  BY TrbKinds DEF IInv, JobsOK, Done, Agreed
<1>5. CommandsSound(cr)' /\ Commands' = Commands \cup {c}
  <2>1. CommandsSound(cr) /\ Commands \subseteq CommandTrbs
    BY DEF IInv, RingsOK, JobsOK
  <2>2. \A d, e \in Commands : Owner(d) = Owner(e) => d = e
    BY DEF IInv, Apart
  <2>3. \A d \in Commands : Owner(d) \in Ports /\ Owner(d) # p
    BY <1>4
  <2>4. CommandsSound(Push(cr, c)) /\ Waiting(Push(cr, c), CommandPlaces) = Commands \cup {c}
    BY <2>1, <2>2, <2>3, CommandPushed
  <2> QED
    BY <2>4 DEF CommandsSound, Commands
<1>6. Done' \subseteq Done /\ \A d \in Done' : Owner(d) # p
  <2>1. Done' \subseteq Done
    BY <1>3 DEF Done
  <2>2. Front(er) \in Done => Front(er) \notin Done'
    <3>1. Front(er) \in CommandTrbs => Front(er).type \in {"enableSlot", "addressDevice", "configureEndpoint"}
      BY TrbKinds
    <3> QED
      BY <1>3, <3>1 DEF Done
  <2> QED
    BY <2>1, <2>2
<1>7. \A x \in Commands \cup Done : Owner(x) # p => Else(x, p)
  <2> SUFFICES ASSUME NEW x \in Commands \cup Done, Owner(x) # p PROVE Else(x, p)
    OBVIOUS
  <2>1. Owner(x)' = Owner(x)
    BY DEF Owner
  <2> QED
    BY <2>1, <1>1, <1>4, GoesOn
<1>8. (\A x \in (Commands \cup Done)' : Agreed(x)') /\ Apart'
  <2>1. \A x \in Commands' : (x \in Commands /\ Else(x, p)) \/ x = c
    BY <1>5, <1>7
  <2>2. \A x \in Done' : x \in Done /\ Else(x, p)
    BY <1>6, <1>7
  <2>3. Apart /\ "command" \in {"command", "done", "none"}
    BY DEF IInv
  <2> QED
    BY <2>1, <2>2, <2>3, JobsStep
<1>9. JobsOK'
  <2>1. Commands' \subseteq CommandTrbs /\ Events' \subseteq Trbs
    BY <1>3, <1>5 DEF IInv, JobsOK
  <2>2. \A d \in Done' : d.type = "enableSlot" => d.n \in Slots /\ device'[d.n] = 0
    BY <1>6 DEF IInv, JobsOK
  <2> QED
    BY <1>8, <2>1, <2>2 DEF JobsOK
<1>10. RingsOK'
  BY <1>3, <1>5 DEF RingsOK
<1>11. QuietOK'
  BY <1>1, BootIsOver
<1> QED
  BY <1>2, <1>8, <1>9, <1>10, <1>11 DEF IInv

LEMMA EnableSlotStep ==
  ASSUME IInv, EnableSlot
  PROVE  IInv'
<1>1. /\ boot > NumPorts /\ boot' = boot /\ HasFront(er) /\ Front(er).type = "port"
      /\ er' = Left /\ phase[Arg] = "ResettingPort"
      /\ UNCHANGED <<addressing, device, connected, enabled, csc, context>>
  BY DEF EnableSlot, Arrives
<1>2. CASE ~ResetSucceeded(Arg)
  <2>1. UNCHANGED <<driverVars, context, cr>> /\ UNCHANGED <<connected, enabled, csc, prc>>
    BY <1>2 DEF EnableSlot, driverVars
  <2> QED
    BY <1>1, <2>1, DropStep
<1>3. CASE ResetSucceeded(Arg)
  <2> DEFINE p == Arg
             c == EnableSlotCommand
  <2>1. /\ prc' = [prc EXCEPT ![p] = FALSE] /\ phase' = [phase EXCEPT ![p] = "EnablingSlot"]
        /\ cr' = Push(cr, c)
    BY <1>3 DEF EnableSlot, ClearPortResetChange
  <2>2. p \in Ports /\ addressing = p /\ addressing' = p
    BY <1>1, Arrival DEF IInv, OneAddressing
  <2>3. c \in CommandTrbs /\ c.type = "enableSlot"
    BY TrbKinds DEF EnableSlotCommand, Trb
  <2>4. \A d \in Commands \cup Done : Owner(d) # p
    <3>1. \A d \in Commands \cup Done : d \in CommandTrbs /\ Agreed(d)
      BY DEF IInv, JobsOK, Done
    <3> QED
      BY <1>1, <3>1, TrbKinds DEF Agreed
  <2>5. c \notin Commands
    BY <2>2, <2>3, <2>4 DEF Owner
  <2> HIDE DEF p, c
  <2>6. prc' \in [Ports -> BOOLEAN] /\ device' \in [Slots -> 0..NumPorts] /\ "EnablingSlot" \in Phases
    BY <1>1, <2>1 DEF IInv, TypeOK, Phases
  <2>7. \A q \in Ports : phase'[q] = IF q = p THEN "EnablingSlot" ELSE phase[q]
    BY <2>1 DEF IInv, TypeOK
  <2>8. Owner(c)' = p /\ Agreed(c)'
    BY <2>2, <2>3, <2>7 DEF Owner, Agreed
  <2>9. OneAddressing'
    BY <2>2, <2>7 DEF IInv, OneAddressing
  <2>10. SlotsOK'
    <3>1. phase[p] = "ResettingPort"
      BY <1>1 DEF p
    <3> QED
      BY <1>1, <2>2, <2>7, <3>1 DEF IInv, SlotsOK, NoSlotYet
  <2>11. UNCHANGED <<addressing, context, connected, enabled, csc>> /\ device' = device
    BY <1>1
  <2> QED
    BY <1>1, <2>1, <2>2, <2>3, <2>4, <2>5, <2>6, <2>8, <2>9, <2>10, <2>11, AskStep
<1> QED
  BY <1>2, <1>3

(***************************************************************************)
(* A slot goes to the port that is being addressed, which has none yet: it  *)
(* is the one that asked for it.                                            *)
(***************************************************************************)
LEMMA AddressDeviceStep ==
  ASSUME IInv, AddressDevice
  PROVE  IInv'
<1>0. PICK p, t, c : p = addressing /\ t = Arg /\ c = AddressDeviceCommand(t)
  OBVIOUS
<1>1. /\ boot > NumPorts /\ boot' = boot /\ HasFront(er) /\ Front(er).type = "enableSlot"
      /\ er' = Left /\ p # 0 /\ phase[p] = "EnablingSlot"
      /\ device' = [device EXCEPT ![t] = p] /\ phase' = [phase EXCEPT ![p] = "AddressingDevice"]
      /\ cr' = Push(cr, c) /\ UNCHANGED <<addressing, connected, enabled, csc, prc, context>>
  BY <1>0 DEF AddressDevice, Arrives, RootHubPort, portVars
<1>2. /\ t \in Slots /\ device[t] = 0 /\ Owner(Front(er)) = p /\ p \in Ports
      /\ \A d \in Done : d # Front(er) => Owner(d) # p
      /\ \A d \in Commands : Owner(d) # p
  <2>1. Owner(Front(er)) = p
    BY <1>0, <1>1 DEF Owner
  <2> QED
    BY <1>0, <1>1, <2>1, Arrival
<1>3. c \in CommandTrbs /\ c.type = "addressDevice" /\ c.n = t
  BY <1>0, <1>2, TrbKinds DEF AddressDeviceCommand, Trb
<1>4. c \notin Commands
  BY <1>0, <1>2, <1>3 DEF Owner
<1>5. addressing = p /\ addressing' = p
  BY <1>0, <1>1
<1>6. prc' \in [Ports -> BOOLEAN] /\ device' \in [Slots -> 0..NumPorts] /\ "AddressingDevice" \in Phases
  <2>1. p \in 0..NumPorts
    BY <1>2, Sizes DEF Ports
  <2> QED
    BY <1>1, <2>1 DEF IInv, TypeOK, Phases
<1>7. /\ \A q \in Ports : phase'[q] = IF q = p THEN "AddressingDevice" ELSE phase[q]
      /\ \A s \in Slots : device'[s] = IF s = t THEN p ELSE device[s]
  BY <1>1 DEF IInv, TypeOK
<1>8. \A d \in Commands \cup Done :
        /\ d \in CommandTrbs /\ Agreed(d) /\ Owner(d) \in Ports
        /\ d.type = "addressDevice" => d.n \in Slots /\ device[d.n] \in Ports
        /\ d.type \in {"addressDevice", "enableSlot"} => Owner(d) = p
  BY <1>5, TrbKinds DEF IInv, JobsOK, Done, Agreed, Owner
<1>9. Owner(c)' = p /\ Agreed(c)'
  BY <1>2, <1>3, <1>5, <1>7 DEF Owner, Agreed
<1>10. OneAddressing'
  BY <1>2, <1>5, <1>7 DEF IInv, OneAddressing
<1>11. SlotsOK'
  <2>1. /\ \A s \in Slots : device[s] # p /\ context[s] \in {0, device[s]}
        /\ p # 0 /\ context' = context
    BY <1>1, <1>2 DEF IInv, SlotsOK, NoSlotYet
  <2>2. ASSUME NEW q \in Ports PROVE (phase'[q] \in NoSlotYet <=> \A s \in Slots : device'[s] # q)
    <3>1. CASE q = p
      <4>1. phase'[q] \notin NoSlotYet
        BY <1>7, <3>1 DEF NoSlotYet
      <4>2. device'[t] = q /\ t \in Slots
        BY <1>2, <1>7, <3>1
      <4> QED
        BY <4>1, <4>2
    <3>2. CASE q # p
      <4>1. phase'[q] = phase[q] /\ (phase[q] \in NoSlotYet <=> \A s \in Slots : device[s] # q)
        BY <1>7, <3>2 DEF IInv, SlotsOK
      <4>2. \A s \in Slots : device'[s] = q <=> device[s] = q
        <5>1. q # 0
          BY Sizes DEF Ports
        <5> QED
          BY <5>1, <1>2, <1>7, <3>2
      <4> QED
        BY <4>1, <4>2
    <3> QED
      BY <3>1, <3>2
  <2>3. \A s, u \in Slots : device'[s] = device'[u] /\ device'[s] # 0 => s = u
    BY <1>2, <1>7, <2>1 DEF IInv, SlotsOK
  <2>4. \A s \in Slots : context'[s] \in {0, device'[s]}
    BY <1>2, <1>7, <2>1
  <2> QED
    BY <2>2, <2>3, <2>4 DEF SlotsOK
<1>12. /\ \A d \in Done : Owner(d) = p => d = Front(er)
       /\ \A d \in Commands \cup Done : Owner(d) # p /\ d.type = "addressDevice" => device'[d.n] = device[d.n]
       /\ \A d \in Done : Owner(d) # p /\ d.type = "enableSlot" => device'[d.n] = device[d.n]
  BY <1>2, <1>8
<1>13. UNCHANGED <<addressing, context, connected, enabled, csc>>
  BY <1>1
<1> QED
  BY <1>1, <1>2, <1>3, <1>4, <1>6, <1>9, <1>10, <1>11, <1>12, <1>13, AskStep

(***************************************************************************)
(* A device that is initialized has its slot, and no job.                   *)
(***************************************************************************)
LEMMA TransferredStep ==
  ASSUME IInv, Transferred
  PROVE  IInv'
<1>1. /\ boot > NumPorts /\ boot' = boot /\ HasFront(er) /\ Front(er).type = "transfer" /\ er' = Left
      /\ UNCHANGED <<addressing, device, connected, enabled, csc, prc, context>>
  BY DEF Transferred, Arrives, portVars
<1>2. CASE UNCHANGED <<phase, cr>>
  <2>1. UNCHANGED <<driverVars, context, cr>>
    BY <1>1, <1>2 DEF driverVars
  <2> QED
    BY <1>1, <2>1, DropStep
<1>3. CASE Initializing(Arg) /\ connected[context[Arg]] /\ ConfigureEndpoints(Arg)
  <2>0. PICK t, p, c : t = Arg /\ p = context[t] /\ c = ConfigureEndpointCommand(t)
    OBVIOUS
  <2>1. /\ p # 0 /\ phase[p] = "InitializingDevice"
        /\ phase' = [phase EXCEPT ![p] = "ConfiguringEndpoints"] /\ cr' = Push(cr, c)
    BY <1>3, <2>0 DEF ConfigureEndpoints, Initializing
  <2>2. t \in Slots /\ p \in Ports
    <3>1. t \in Slots
      BY <1>1, <2>0, Arrival
    <3>2. p \in 0..NumPorts
      BY <2>0, <3>1 DEF IInv, TypeOK
    <3> QED
      BY <2>1, <3>1, <3>2, Sizes DEF Ports
  <2>3. c \in CommandTrbs /\ c.type = "configureEndpoint" /\ c.n = t
    BY <2>0, <2>2, TrbKinds DEF ConfigureEndpointCommand, Trb
  <2>4. \A d \in Commands \cup Done : Owner(d) # p
    <3>1. \A d \in Commands \cup Done : d \in CommandTrbs /\ Agreed(d)
      BY DEF IInv, JobsOK, Done
    <3> QED
      BY <2>1, <3>1, TrbKinds DEF Agreed
  <2>5. c \notin Commands
    BY <2>0, <2>3, <2>4 DEF Owner
  <2>6. context' = context /\ context'[t] = p
    BY <1>1, <2>0
  <2>7. prc' \in [Ports -> BOOLEAN] /\ device' \in [Slots -> 0..NumPorts] /\ "ConfiguringEndpoints" \in Phases
    BY <1>1 DEF IInv, TypeOK, Phases
  <2>8. \A q \in Ports : phase'[q] = IF q = p THEN "ConfiguringEndpoints" ELSE phase[q]
    BY <2>1 DEF IInv, TypeOK
  <2>9. Owner(c)' = p /\ Agreed(c)'
    BY <2>2, <2>3, <2>6, <2>8 DEF Owner, Agreed
  <2>10. OneAddressing'
    BY <1>1, <2>1, <2>2, <2>8 DEF IInv, OneAddressing
  <2>11. SlotsOK'
    BY <1>1, <2>1, <2>2, <2>8 DEF IInv, SlotsOK, NoSlotYet
  <2>12. UNCHANGED <<addressing, context, connected, enabled, csc>> /\ device' = device
    BY <1>1
  <2> QED
    BY <1>1, <2>1, <2>2, <2>3, <2>4, <2>5, <2>7, <2>9, <2>10, <2>11, <2>12, AskStep
<1> QED
  BY <1>2, <1>3 DEF Transferred, ConfigureEndpoints

LEMMA CompleteConfigurationStep ==
  ASSUME IInv, CompleteConfiguration
  PROVE  IInv'
<1>0. PICK p, f : p = context[Arg] /\ f = Front(er)
  OBVIOUS
<1>1. /\ boot > NumPorts /\ boot' = boot /\ HasFront(er) /\ f.type = "configureEndpoint" /\ er' = Left
      /\ p # 0 /\ phase[p] = "ConfiguringEndpoints" /\ phase' = [phase EXCEPT ![p] = "Configured"]
      /\ UNCHANGED <<addressing, device, connected, enabled, csc, prc, context, cr>>
  BY <1>0 DEF CompleteConfiguration, Arrives, portVars
<1>2. /\ Owner(f) = p /\ p \in Ports /\ f \in Done
      /\ \A d \in Done : d # f => Owner(d) # p
      /\ \A d \in Commands : Owner(d) # p
      /\ EventsSound(er)' /\ Events' \subseteq Events /\ f \notin Events'
  <2>1. Owner(f) = p
    BY <1>0, <1>1 DEF Owner, Arg
  <2>2. EventsSound(Left)
    BY <1>0, <1>1, Arrival
  <2>3. EventsSound(er)'
    BY <1>1, <2>2 DEF EventsSound
  <2>4. Events' = Waiting(Left, EventRing)
    BY <1>1 DEF Events
  <2> QED
    BY <1>0, <1>1, <2>1, <2>3, <2>4, Arrival
<1>3. Done' \subseteq Done /\ (\A d \in Done' : Owner(d) # p) /\ Commands' = Commands
  BY <1>1, <1>2 DEF Done, Commands
<1>4. /\ \A q \in Ports : phase'[q] = IF q = p THEN "Configured" ELSE phase[q]
      /\ phase' \in [Ports -> Phases]
  BY <1>1 DEF IInv, TypeOK, Phases
<1>5. \A x \in Commands \cup Done : Owner(x) # p => Else(x, p)
  <2> SUFFICES ASSUME NEW x \in Commands \cup Done, Owner(x) # p PROVE Else(x, p)
    OBVIOUS
  <2>1. Agreed(x)
    BY DEF IInv, JobsOK
  <2>2. Owner(x)' = Owner(x) /\ device' = device
    BY <1>1 DEF Owner
  <2> QED
    BY <2>1, <2>2, <1>4, GoesOn
<1>6. (\A x \in (Commands \cup Done)' : Agreed(x)') /\ Apart'
  <2>1. \A x \in Commands' : x \in Commands /\ Else(x, p)
    BY <1>2, <1>3, <1>5
  <2>2. \A x \in Done' : x \in Done /\ Else(x, p)
    BY <1>3, <1>5
  <2> QED
    BY <2>1, <2>2, JobsStep DEF IInv
<1>7. JobsOK'
  BY <1>1, <1>2, <1>3, <1>6 DEF IInv, JobsOK
<1>8. RingsOK'
  BY <1>1, <1>2 DEF IInv, RingsOK, CommandsSound
<1>9. TypeOK' /\ boot \in 1..NumPorts + 1
  BY <1>1, <1>4 DEF IInv, TypeOK
<1>10. OneAddressing' /\ SlotsOK'
  BY <1>1, <1>2, <1>4 DEF IInv, OneAddressing, SlotsOK, NoSlotYet
<1> QED
  BY <1>1, <1>6, <1>7, <1>8, <1>9, <1>10, BootIsOver DEF IInv

LEMMA FirstWaitingWaits ==
  ASSUME FirstWaiting # 0
  PROVE  FirstWaiting \in Ports /\ phase[FirstWaiting] = "WaitingAddressed"
<1>1. WaitingPorts # {} /\ WaitingPorts \subseteq Nat
  BY Sizes DEF FirstWaiting, WaitingPorts, Ports
<1>2. \E p \in WaitingPorts : \A q \in WaitingPorts : p <= q
  BY <1>1, LeastMember
<1>3. FirstWaiting \in WaitingPorts
  BY <1>1, <1>2 DEF FirstWaiting
<1> QED
  BY <1>3 DEF WaitingPorts

(***************************************************************************)
(* The turn is over, and goes to the first of the ports that wait.          *)
(***************************************************************************)
LEMMA InitializeDeviceStep ==
  ASSUME IInv, InitializeDevice
  PROVE  IInv'
<1>0. PICK p, f, t, next :
        p = addressing /\ f = Front(er) /\ t = Arg
          /\ next = IF FirstWaiting # 0 /\ connected[FirstWaiting] THEN FirstWaiting ELSE 0
  OBVIOUS
<1>1. /\ boot > NumPorts /\ boot' = boot /\ HasFront(er) /\ f.type = "addressDevice"
      /\ p # 0 /\ phase[p] = "AddressingDevice" /\ addressing' = next /\ addressing = p
      /\ UNCHANGED <<device, connected, context, cr>>
  BY <1>0 DEF InitializeDevice, Arrives
<1>2. /\ next = 0 => /\ phase' = [phase EXCEPT ![p] = "InitializingDevice"]
                     /\ UNCHANGED <<csc, prc, enabled>> /\ er' = Left
      /\ next # 0 => /\ next \in Ports /\ phase[next] = "WaitingAddressed"
                     /\ phase' = [phase EXCEPT ![p] = "InitializingDevice", ![next] = "ResettingPort"]
                     /\ csc' = [csc EXCEPT ![next] = FALSE] /\ prc' = [prc EXCEPT ![next] = TRUE]
                     /\ enabled' = [enabled EXCEPT ![next] = TRUE]
                     /\ er' = Left \/ er' = Post(Left, PortStatusChange(next))
  BY <1>0, FirstWaitingWaits DEF InitializeDevice
<1>3. /\ Owner(f) = p /\ p \in Ports
      /\ \A d \in Done : d # f => Owner(d) # p
      /\ \A d \in Commands : Owner(d) # p
      /\ EventsSound(Left) /\ Spare(Left, EventRing)
      /\ Waiting(Left, EventRing) \subseteq Events /\ f \notin Waiting(Left, EventRing)
  <2>1. Owner(f) = p
    BY <1>1 DEF Owner
  <2> QED
    BY <1>0, <1>1, <2>1, Arrival
<1>4. \A q \in Ports : phase'[q] = IF q = p THEN "InitializingDevice"
                                   ELSE IF q = next THEN "ResettingPort" ELSE phase[q]
  <2>1. phase \in [Ports -> Phases] /\ next # p
    BY <1>1, <1>2 DEF IInv, TypeOK
  <2> QED
    BY <1>2, <2>1, <1>3, Sizes DEF Ports
<1>5. /\ EventsSound(er)' /\ Events' \subseteq Trbs
      /\ Done' \subseteq Done /\ \A d \in Done' : Owner(d) # p
  <2>0. Events \subseteq Trbs /\ Waiting(Left, EventRing) \cap CommandTrbs \subseteq Done
    BY <1>3 DEF IInv, JobsOK, Done
  <2>1. CASE er' = Left
    <3>1. EventsSound(er)' /\ Events' = Waiting(Left, EventRing)
      BY <1>3, <2>1 DEF EventsSound, Events
    <3> QED
      BY <1>3, <2>0, <3>1 DEF Done
  <2>2. CASE next # 0 /\ er' = Post(Left, PortStatusChange(next))
    <3>1. /\ PortStatusChange(next) \in Trbs /\ PortStatusChange(next) \in AllTrbs
          /\ PortStatusChange(next) \notin CommandTrbs
      BY <1>2, <2>2, TrbKinds
    <3>2. /\ EventsSound(Post(Left, PortStatusChange(next)))
          /\ Waiting(Post(Left, PortStatusChange(next)), EventRing)
               = Waiting(Left, EventRing) \cup {PortStatusChange(next)}
      BY <1>3, <3>1, EventPosted
    <3>3. EventsSound(er)' /\ Events' = Waiting(Left, EventRing) \cup {PortStatusChange(next)}
      BY <2>2, <3>2 DEF EventsSound, Events
    <3> QED
      BY <1>3, <2>0, <3>1, <3>3 DEF Done
  <2> QED
    BY <1>2, <2>1, <2>2
<1>6. \A x \in Commands \cup Done : Owner(x) # p => Else(x, p)
  <2> SUFFICES ASSUME NEW x \in Commands \cup Done, Owner(x) # p PROVE Else(x, p)
    OBVIOUS
  <2>1. Agreed(x) /\ x \in CommandTrbs
    BY DEF IInv, JobsOK, Done
  <2>2. x.type = "configureEndpoint"
    BY <1>1 DEF Owner
  <2>3. Owner(x)' = Owner(x) /\ device' = device
    BY <1>1, <2>2 DEF Owner
  <2>4. \A q \in Ports : q # p /\ phase[q] \in {"EnablingSlot", "AddressingDevice", "ConfiguringEndpoints"}
          => phase'[q] = phase[q]
    BY <1>2, <1>4, Sizes DEF Ports
  <2> QED
    BY <2>1, <2>3, <2>4, GoesOn
<1>7. Commands' = Commands
  BY <1>1 DEF Commands
<1>8. (\A x \in (Commands \cup Done)' : Agreed(x)') /\ Apart'
  <2>1. \A x \in Commands' : x \in Commands /\ Else(x, p)
    BY <1>3, <1>6, <1>7
  <2>2. \A x \in Done' : x \in Done /\ Else(x, p)
    BY <1>5, <1>6
  <2> QED
    BY <2>1, <2>2, JobsStep DEF IInv
<1>9. JobsOK'
  BY <1>1, <1>5, <1>7, <1>8 DEF IInv, JobsOK
<1>10. RingsOK'
  BY <1>1, <1>5 DEF IInv, RingsOK, CommandsSound
<1>11. TypeOK' /\ boot \in 1..NumPorts + 1
  <2>1. phase' \in [Ports -> Phases]
    <3>1. phase \in [Ports -> Phases] /\ "InitializingDevice" \in Phases /\ "ResettingPort" \in Phases
      BY DEF IInv, TypeOK, Phases
    <3> QED
      BY <1>2, <3>1
  <2>2. addressing' \in 0..NumPorts
    BY <1>1, <1>2, Sizes DEF Ports
  <2>3. csc' \in [Ports -> BOOLEAN] /\ prc' \in [Ports -> BOOLEAN] /\ enabled' \in [Ports -> BOOLEAN]
    BY <1>2 DEF IInv, TypeOK
  <2> QED
    BY <1>1, <2>1, <2>2, <2>3 DEF IInv, TypeOK
<1>12. OneAddressing'
  <2>1. \A q \in Ports : q # 0 /\ (phase[q] \in {"ResettingPort", "EnablingSlot", "AddressingDevice"} <=> q = p)
    BY <1>1, Sizes DEF IInv, OneAddressing, Ports
  <2> QED
    BY <1>1, <1>2, <1>4, <2>1 DEF OneAddressing
<1>13. SlotsOK'
  <2>1. \A q \in Ports : phase'[q] \in NoSlotYet <=> phase[q] \in NoSlotYet
    BY <1>1, <1>2, <1>4, Sizes DEF NoSlotYet, Ports
  <2> QED
    BY <1>1, <2>1 DEF IInv, SlotsOK
<1> QED
  BY <1>1, <1>8, <1>9, <1>10, <1>11, <1>12, <1>13, BootIsOver DEF IInv

-----------------------------------------------------------------------------
(* The controller.                                                          *)

LEMMA RoomIsSpare ==
  ASSUME EventsSound(er)
  PROVE  HasRoom(er) <=> Spare(er, EventRing)
<1>1. er.last = EventRing - 1 /\ er.write \in 0..EventRing - 1 /\ EventRing \in Nat
  BY Sizes DEF EventsSound, Rings
<1> QED
  BY <1>1 DEF HasRoom, Spare, After

(***************************************************************************)
(* A command c is completed: e, its completion, is a job of the same port.  *)
(***************************************************************************)
LEMMA CompletesStep ==
  ASSUME IInv, NEW c, c = Front(cr), HasFront(cr), HasRoom(er), NEW e \in CommandTrbs, Completes(e),
         UNCHANGED <<driverVars, portVars>>,
         context' \in [Slots -> 0..NumPorts],
         \A s \in Slots : context'[s] \in {0, device[s]} /\ (context[s] # 0 => context'[s] = context[s]),
         Owner(e) = Owner(c), Owner(e)' = Owner(c), Agreed(e)',
         e.type = "enableSlot" => e.n \in Slots /\ device[e.n] = 0
  PROVE  IInv'
<1>0. PICK p : p = Owner(c)
  OBVIOUS
<1>1. /\ UNCHANGED <<phase, addressing, boot, device, connected, enabled, csc, prc>>
      /\ cr' = Fetched(cr) /\ er' = Post(er, e)
  BY DEF Completes, driverVars, portVars
<1>2. /\ CommandsSound(cr)' /\ c \in Commands /\ c \in CommandTrbs
      /\ Commands' \subseteq Commands /\ c \notin Commands'
  <2>1. CommandsSound(cr) /\ Commands \subseteq CommandTrbs
    BY DEF IInv, RingsOK, JobsOK
  <2>2. Commands' = Waiting(Fetched(cr), CommandPlaces)
    BY <1>1 DEF Commands
  <2>3. /\ CommandsSound(Fetched(cr)) /\ Front(cr) \in Commands
        /\ Waiting(Fetched(cr), CommandPlaces) \subseteq Commands
        /\ Front(cr) \in CommandTrbs => Front(cr) \notin Waiting(Fetched(cr), CommandPlaces)
    BY <2>1, CommandFetched
  <2> QED
    BY <1>1, <2>1, <2>2, <2>3 DEF CommandsSound
<1>3. e \notin Events
  BY <1>2 DEF IInv, Apart, Done
<1>4. EventsSound(er)' /\ Events' = Events \cup {e}
  <2>1. EventsSound(er) /\ Spare(er, EventRing) /\ e \in AllTrbs
    BY RoomIsSpare, TrbKinds DEF IInv, RingsOK
  <2>2. EventsSound(Post(er, e)) /\ Waiting(Post(er, e), EventRing) = Waiting(er, EventRing) \cup {e}
    BY <2>1, <1>3, EventPosted DEF Events
  <2> QED
    BY <1>1, <2>2 DEF EventsSound, Events
<1>5. Events' \subseteq Trbs /\ Done' = Done \cup {e}
  BY <1>4, TrbKinds DEF IInv, JobsOK, Done
<1>6. /\ \A d \in Commands' : Owner(d) # p
      /\ \A d \in Done : Owner(d) # p
  BY <1>0, <1>2 DEF IInv, Apart
<1>7. \A x \in Commands \cup Done : Owner(x) # p => Else(x, p)
  <2> SUFFICES ASSUME NEW x \in Commands \cup Done, Owner(x) # p PROVE Else(x, p)
    OBVIOUS
  <2>1. Agreed(x) /\ Owner(x) \in Ports
    BY DEF IInv, JobsOK, Agreed
  <2>2. Owner(x)' = Owner(x)
    <3>1. CASE x.type = "configureEndpoint"
      <4>1. x.n \in Slots /\ context[x.n] # 0
        BY <2>1, <3>1, Sizes DEF Owner, Agreed, Ports
      <4> QED
        BY <3>1, <4>1 DEF Owner
    <3>2. CASE x.type # "configureEndpoint"
      BY <1>1, <3>2 DEF Owner
    <3> QED
      BY <3>1, <3>2
  <2>3. phase' = phase /\ device' = device
    BY <1>1
  <2> QED
    BY <2>1, <2>2, <2>3, GoesOn
<1>8. (\A x \in (Commands \cup Done)' : Agreed(x)') /\ Apart'
  <2>1. \A x \in Commands' : x \in Commands /\ Else(x, p)
    BY <1>2, <1>6, <1>7
  <2>2. \A x \in Done' : (x \in Done /\ Else(x, p)) \/ x = e
    BY <1>5, <1>6, <1>7
  <2>3. Apart /\ "done" \in {"command", "done", "none"} /\ Owner(e)' = p
    BY <1>0 DEF IInv
  <2> QED
    BY <2>1, <2>2, <2>3, JobsStep
<1>9. JobsOK'
  BY <1>1, <1>2, <1>5, <1>8 DEF IInv, JobsOK
<1>10. RingsOK'
  BY <1>2, <1>4 DEF RingsOK
<1>11. TypeOK' /\ OneAddressing'
  BY <1>1 DEF IInv, TypeOK, OneAddressing
<1>12. SlotsOK'
  BY <1>1 DEF IInv, SlotsOK
<1>13. QuietOK'
  BY <1>1, <1>2 DEF IInv, QuietOK, AtBoot
<1> QED
  BY <1>8, <1>9, <1>10, <1>11, <1>12, <1>13 DEF IInv

(***************************************************************************)
(* The command that the controller reads is a job.                          *)
(***************************************************************************)
LEMMA Read ==
  ASSUME IInv, HasFront(cr)
  PROVE  /\ Front(cr) \in Commands /\ Front(cr) \in CommandTrbs
         /\ Agreed(Front(cr)) /\ Owner(Front(cr)) \in Ports
         /\ CommandCompletion(Front(cr), Front(cr).n) = Front(cr)
<1>1. CommandsSound(cr)
  BY DEF IInv, RingsOK
<1>2. Front(cr) \in Commands
  BY <1>1, CommandFetched
<1>3. Front(cr) \in CommandTrbs /\ Agreed(Front(cr)) /\ Owner(Front(cr)) \in Ports
  BY <1>2 DEF IInv, JobsOK, Agreed
<1> QED
  BY <1>2, <1>3, TrbKinds DEF CommandCompletion

LEMMA CompleteEnableSlotStep ==
  ASSUME IInv, CompleteEnableSlot
  PROVE  IInv'
<1>0. PICK c : c = Front(cr)
  OBVIOUS
<1>1. PICK s \in Slots : device[s] = 0 /\ Completes(CommandCompletion(EnableSlotCommand, s))
  BY DEF CompleteEnableSlot
<1>2. HasFront(cr) /\ c.type = "enableSlot" /\ HasRoom(er) /\ UNCHANGED <<driverVars, portVars, context>>
  BY <1>0 DEF CompleteEnableSlot, Requested
<1>3. PICK e : e = Trb("enableSlot", s)
  OBVIOUS
<1>4. /\ e = CommandCompletion(EnableSlotCommand, s) /\ e \in CommandTrbs /\ e.type = "enableSlot" /\ e.n = s
  BY <1>3, TrbKinds DEF CommandCompletion, EnableSlotCommand, Trb
<1>5. Agreed(c) /\ Owner(c) \in Ports
  BY <1>0, <1>2, Read
<1>6. addressing' = addressing /\ phase' = phase /\ context' = context
  BY <1>2 DEF driverVars
<1>7. Owner(e) = Owner(c) /\ Owner(e)' = Owner(c) /\ Agreed(e)'
  BY <1>2, <1>4, <1>5, <1>6 DEF Owner, Agreed
<1>8. /\ context' \in [Slots -> 0..NumPorts]
      /\ \A u \in Slots : context'[u] \in {0, device[u]} /\ (context[u] # 0 => context'[u] = context[u])
  BY <1>6 DEF IInv, TypeOK, SlotsOK
<1> QED
  BY <1>0, <1>1, <1>2, <1>4, <1>7, <1>8, CompletesStep

LEMMA CompleteAddressDeviceStep ==
  ASSUME IInv, CompleteAddressDevice
  PROVE  IInv'
<1>0. PICK c, s : c = Front(cr) /\ s = c.n
  OBVIOUS
<1>1. /\ HasFront(cr) /\ c.type = "addressDevice" /\ HasRoom(er) /\ UNCHANGED <<driverVars, portVars>>
      /\ Completes(CommandCompletion(c, c.n))
      /\ context' = context \/ context' = [context EXCEPT ![s] = device[s]]
  BY <1>0 DEF CompleteAddressDevice, Requested
<1>2. CommandCompletion(c, c.n) = c /\ c \in CommandTrbs /\ Agreed(c) /\ Owner(c) \in Ports
  BY <1>0, <1>1, Read
<1>3. s \in Slots
  BY <1>0, <1>1, <1>2 DEF Agreed
<1>4. addressing' = addressing /\ phase' = phase /\ device' = device
  BY <1>1 DEF driverVars
<1>5. Owner(c)' = Owner(c) /\ Agreed(c)'
  BY <1>1, <1>2, <1>4 DEF Owner, Agreed
<1>6. /\ context' \in [Slots -> 0..NumPorts]
      /\ \A u \in Slots : context'[u] \in {0, device[u]} /\ (context[u] # 0 => context'[u] = context[u])
  <2>1. context \in [Slots -> 0..NumPorts] /\ device[s] \in 0..NumPorts
        /\ \A u \in Slots : context[u] \in {0, device[u]}
    BY <1>3 DEF IInv, TypeOK, SlotsOK
  <2> QED
    BY <1>1, <1>3, <2>1
<1> QED
  BY <1>0, <1>1, <1>2, <1>5, <1>6, CompletesStep

LEMMA CompleteConfigureEndpointStep ==
  ASSUME IInv, CompleteConfigureEndpoint
  PROVE  IInv'
<1>0. PICK c : c = Front(cr)
  OBVIOUS
<1>1. /\ HasFront(cr) /\ c.type = "configureEndpoint" /\ HasRoom(er)
      /\ Completes(CommandCompletion(c, c.n)) /\ UNCHANGED <<driverVars, portVars, context>>
  BY <1>0 DEF CompleteConfigureEndpoint, Requested
<1>2. CommandCompletion(c, c.n) = c /\ c \in CommandTrbs /\ Agreed(c)
  BY <1>0, <1>1, Read
<1>3. addressing' = addressing /\ phase' = phase /\ device' = device /\ context' = context
  BY <1>1 DEF driverVars
<1>4. Owner(c)' = Owner(c) /\ Agreed(c)'
  BY <1>2, <1>3 DEF Owner, Agreed
<1>5. /\ context' \in [Slots -> 0..NumPorts]
      /\ \A u \in Slots : context'[u] \in {0, device[u]} /\ (context[u] # 0 => context'[u] = context[u])
  BY <1>3 DEF IInv, TypeOK, SlotsOK
<1> QED
  BY <1>0, <1>1, <1>2, <1>4, <1>5, CompletesStep

(***************************************************************************)
(* Events that are no completions.                                          *)
(***************************************************************************)
LEMMA TransferStep ==
  ASSUME IInv, NEW s \in Slots, Transfer(s)
  PROVE  IInv'
<1>1. /\ Initializing(s) /\ HasRoom(er) /\ er' = Post(er, Trb("transfer", s))
      /\ UNCHANGED <<phase, addressing, boot, device, connected, enabled, csc, prc, context, cr>>
  BY DEF Transfer, driverVars, portVars
<1>2. Trb("transfer", s) \in Trbs /\ Trb("transfer", s) \in AllTrbs /\ Trb("transfer", s) \notin CommandTrbs
  BY TrbKinds
<1>3. EventsSound(er)' /\ Events' = Events \cup {Trb("transfer", s)}
  <2>1. EventsSound(er) /\ Spare(er, EventRing)
    BY <1>1, RoomIsSpare DEF IInv, RingsOK
  <2>2. /\ EventsSound(Post(er, Trb("transfer", s)))
        /\ Waiting(Post(er, Trb("transfer", s)), EventRing) = Waiting(er, EventRing) \cup {Trb("transfer", s)}
    BY <2>1, <1>2, EventPosted
  <2> QED
    BY <1>1, <2>2 DEF EventsSound, Events
<1>4. Events' \subseteq Trbs /\ Done' \subseteq Done
  BY <1>2, <1>3 DEF IInv, JobsOK, Done
<1>5. TypeOK'
  BY <1>1 DEF IInv, TypeOK
<1>6. QuietOK'
  <2>1. context[s] \in Ports /\ phase[context[s]] # "NotConnected"
    BY <1>1, Sizes DEF Initializing, IInv, TypeOK, Ports
  <2> QED
    BY <1>1, <2>1 DEF IInv, QuietOK, AtBoot
<1>7. RingsOK' /\ JobsOK' /\ Apart' /\ OneAddressing' /\ SlotsOK'
  BY <1>1, <1>3, <1>4, NoJobStep
<1> QED
  BY <1>5, <1>6, <1>7 DEF IInv

(***************************************************************************)
(* A plug raises an event only when no change bit is set, so that before    *)
(* the first reset the ring has one event of each port at most.             *)
(***************************************************************************)
LEMMA ReplugStep ==
  ASSUME IInv, NEW p \in Ports, Replug(p)
  PROVE  IInv'
<1>0. PICK e : e = PortStatusChange(p)
  OBVIOUS
<1>1. /\ HasRoom(er) /\ connected' = [connected EXCEPT ![p] = ~@]
      /\ enabled' = [enabled EXCEPT ![p] = FALSE] /\ csc' = [csc EXCEPT ![p] = TRUE]
      /\ er' = IF csc[p] \/ prc[p] THEN er ELSE Post(er, e)
      /\ UNCHANGED <<phase, addressing, boot, device, prc, context, cr>>
  BY <1>0 DEF Replug, driverVars
<1>2. e \in PortTrbs /\ e \in Trbs /\ e \in AllTrbs /\ e \notin CommandTrbs /\ e.n = p
  BY <1>0, TrbKinds
<1>3. EventsSound(er) /\ Spare(er, EventRing)
  BY <1>1, RoomIsSpare DEF IInv, RingsOK
<1>4. /\ EventsSound(Post(er, e)) /\ Waiting(Post(er, e), EventRing) = Waiting(er, EventRing) \cup {e}
      /\ Once(er, EventRing, PortTrbs) /\ e \notin Waiting(er, EventRing) => Once(Post(er, e), EventRing, PortTrbs)
  BY <1>2, <1>3, EventPosted
<1>5. /\ EventsSound(er)' /\ Events' \subseteq Events \cup {e}
      /\ csc[p] \/ prc[p] => Events' = Events /\ (Once(er, EventRing, PortTrbs)' <=> Once(er, EventRing, PortTrbs))
      /\ ~(csc[p] \/ prc[p]) /\ Once(er, EventRing, PortTrbs) /\ e \notin Events => Once(er, EventRing, PortTrbs)'
  <2>1. CASE csc[p] \/ prc[p]
    BY <1>1, <1>3, <2>1 DEF EventsSound, Events, Once, Ahead
  <2>2. CASE ~(csc[p] \/ prc[p])
    <3>1. er' = Post(er, e)
      BY <1>1, <2>2
    <3>2. EventsSound(er)' /\ Events' = Events \cup {e}
      BY <1>4, <3>1 DEF EventsSound, Events
    <3>3. Once(er, EventRing, PortTrbs)' <=> Once(Post(er, e), EventRing, PortTrbs)
      BY <3>1 DEF Once, Ahead
    <3> QED
      BY <1>4, <2>2, <3>2, <3>3 DEF Events
  <2> QED
    BY <2>1, <2>2
<1>6. Events' \subseteq Trbs /\ Done' \subseteq Done
  BY <1>2, <1>5 DEF IInv, JobsOK, Done
<1>7. TypeOK'
  <2>1. connected' \in [Ports -> BOOLEAN]
    BY <1>1 DEF IInv, TypeOK
  <2>2. enabled' \in [Ports -> BOOLEAN] /\ csc' \in [Ports -> BOOLEAN]
    BY <1>1 DEF IInv, TypeOK
  <2> QED
    BY <1>1, <2>1, <2>2 DEF IInv, TypeOK
<1>8. QuietOK'
  <2> SUFFICES ASSUME AtBoot
               PROVE  /\ Commands' = {}
                      /\ \A q \in Ports : ~prc'[q] /\ phase'[q] = "NotConnected"
                      /\ Once(er, EventRing, PortTrbs)'
                      /\ \A x \in Events' : x \in PortTrbs /\ csc'[x.n]
    BY <1>1 DEF QuietOK, AtBoot
  <2>1. /\ Commands = {} /\ Once(er, EventRing, PortTrbs)
        /\ \A q \in Ports : ~prc[q] /\ phase[q] = "NotConnected"
        /\ \A x \in Events : x \in PortTrbs /\ csc[x.n]
    BY DEF IInv, QuietOK
  <2>2. ~csc[p] => e \notin Events
    BY <1>2, <2>1
  <2>3. Once(er, EventRing, PortTrbs)'
    BY <1>5, <2>1, <2>2
  <2>4. \A q \in Ports : csc'[q] = (q = p \/ csc[q])
    BY <1>1 DEF IInv, TypeOK
  <2>5. \A x \in Events' : x \in PortTrbs /\ csc'[x.n]
    BY <1>2, <1>5, <2>1, <2>4, TrbKinds
  <2>6. Commands' = Commands
    BY <1>1 DEF Commands
  <2> QED
    BY <1>1, <2>1, <2>3, <2>5, <2>6
<1>9. RingsOK' /\ JobsOK' /\ Apart' /\ OneAddressing' /\ SlotsOK'
  BY <1>1, <1>5, <1>6, NoJobStep
<1> QED
  BY <1>7, <1>8, <1>9 DEF IInv

-----------------------------------------------------------------------------
(* The beginning, and the theorem.                                          *)

(***************************************************************************)
(* Before Initialize looks at the ports the ring has an event of each one   *)
(* with a device.                                                           *)
(***************************************************************************)
FoundAs(n, order) ==
  /\ n \in 0..NumPorts /\ order \in [1..n -> Connected]
  /\ \A j, k \in 1..n : order[j] = order[k] => j = k
  /\ er \in Rings(PortTrbs \cup {Zeroed.trb}, EventRing - 1, EventRing)
  /\ er.write = n /\ er.read = 0 /\ er.cycle = TRUE /\ er.expect = TRUE
  /\ \A i \in 0..n - 1 : /\ er.buf[i] = [trb |-> PortStatusChange(order[i + 1]), cycle |-> TRUE]
                         /\ order[i + 1] \in Connected /\ i + 1 \in 1..n
  /\ \A i \in 0..EventRing - 1 : ~(i < n) => er.buf[i] = Zeroed

LEMMA EventsFound ==
  ASSUME Init
  PROVE  \E n, order : FoundAs(n, order)
<1> DEFINE n == Cardinality(Connected)
<1>1. PICK order \in [1..n -> Connected] :
        /\ \A j, k \in DOMAIN order : order[j] = order[k] => j = k
        /\ er = Filled(NewRing(EventRing), [k \in DOMAIN order |-> PortStatusChange(order[k])])
  BY DEF Init
<1>2. n \in 0..NumPorts /\ Connected \subseteq Ports
  <2>1. Connected \subseteq Ports
    BY DEF Connected
  <2>2. IsFiniteSet(Connected) /\ Cardinality(Connected) <= Cardinality(Ports)
    BY <2>1, Sizes, FS_Subset
  <2>3. Cardinality(Connected) \in Nat
    BY <2>2, FS_CardinalityType
  <2> QED
    BY <2>1, <2>2, <2>3, Sizes
<1> HIDE DEF n
<1>3. PICK events : events = [k \in 1..n |-> PortStatusChange(order[k])]
  OBVIOUS
<1>4. Len(events) = n /\ \A k \in 1..n : events[k] = PortStatusChange(order[k]) /\ order[k] \in Connected
  BY <1>2, <1>3
<1>5. PICK buf : buf = [i \in 0..EventRing - 1 |->
                          IF i < n THEN [trb |-> events[i + 1], cycle |-> TRUE] ELSE Zeroed]
  OBVIOUS
<1>6. er = [buf |-> buf, last |-> EventRing - 1, write |-> n, cycle |-> TRUE, read |-> 0, expect |-> TRUE]
  <2>1. er = Filled(NewRing(EventRing), events)
    BY <1>1, <1>3
  <2>2. DOMAIN NewRing(EventRing).buf = 0..EventRing - 1
        /\ \A i \in 0..EventRing - 1 : NewRing(EventRing).buf[i] = Zeroed
    BY DEF NewRing
  <2>3. buf = [i \in DOMAIN NewRing(EventRing).buf |->
                 IF i < Len(events) THEN [trb |-> events[i + 1], cycle |-> TRUE] ELSE NewRing(EventRing).buf[i]]
    BY <1>4, <1>5, <2>2
  <2>4. er = [NewRing(EventRing) EXCEPT !.buf = buf, !.write = n]
    BY <1>4, <2>1, <2>3 DEF Filled
  <2> QED
    BY <2>4 DEF NewRing
<1>7. \A i \in 0..n - 1 : /\ buf[i] = [trb |-> PortStatusChange(order[i + 1]), cycle |-> TRUE]
                          /\ order[i + 1] \in Connected /\ i + 1 \in 1..n /\ i \in 0..EventRing - 1
  <2> TAKE i \in 0..n - 1
  <2>1. i \in Nat /\ i < n /\ i + 1 \in 1..n /\ i \in 0..EventRing - 1
    BY <1>2, Sizes
  <2>2. events[i + 1] = PortStatusChange(order[i + 1]) /\ order[i + 1] \in Connected
    BY <1>4, <2>1
  <2>3. buf[i] = [trb |-> events[i + 1], cycle |-> TRUE]
    BY <1>5, <2>1
  <2> QED
    BY <2>1, <2>2, <2>3
<1>8. \A i \in 0..EventRing - 1 : ~(i < n) => buf[i] = Zeroed
  BY <1>5
<1>9. er \in Rings(PortTrbs \cup {Zeroed.trb}, EventRing - 1, EventRing)
  <2> DEFINE T == [trb : PortTrbs \cup {Zeroed.trb}, cycle : BOOLEAN]
  <2>1. Zeroed \in T
    BY DEF Zeroed
  <2>2. \A i \in 0..EventRing - 1 : buf[i] \in T
    <3> TAKE i \in 0..EventRing - 1
    <3>1. CASE i < n
      <4>0. i \in 0..n - 1
        BY <1>2, <3>1
      <4>1. buf[i] = [trb |-> PortStatusChange(order[i + 1]), cycle |-> TRUE] /\ order[i + 1] \in Ports
        BY <1>2, <1>7, <4>0
      <4>2. PortStatusChange(order[i + 1]) \in PortTrbs
        BY <4>1, TrbKinds
      <4> QED
        BY <3>1, <4>1, <4>2
    <3>2. CASE ~(i < n)
      BY <1>8, <2>1, <3>2
    <3> QED
      BY <3>1, <3>2
  <2> HIDE DEF T
  <2>3. buf \in [0..EventRing - 1 -> T]
    BY <1>5, <2>2
  <2>4. n \in 0..EventRing - 1 /\ 0 \in 0..EventRing - 1
    BY <1>2, Sizes
  <2> QED
    BY <1>6, <2>3, <2>4 DEF Rings, T
<1>10. \A j, k \in 1..n : order[j] = order[k] => j = k
  BY <1>1
<1>11. er.buf = buf /\ er.write = n /\ er.read = 0 /\ er.cycle = TRUE /\ er.expect = TRUE
  BY <1>6
<1>12. /\ \A i \in 0..n - 1 : /\ er.buf[i] = [trb |-> PortStatusChange(order[i + 1]), cycle |-> TRUE]
                               /\ order[i + 1] \in Connected /\ i + 1 \in 1..n
       /\ \A i \in 0..EventRing - 1 : ~(i < n) => er.buf[i] = Zeroed
  <2> HIDE DEF PortStatusChange, Zeroed
  <2> QED
    BY <1>7, <1>8, <1>11
<1>13. n \in 0..NumPorts /\ order \in [1..n -> Connected]
  BY <1>1, <1>2
<1>14. FoundAs(n, order)
  BY <1>9, <1>10, <1>11, <1>12, <1>13 DEF FoundAs
<1> QED
  BY <1>14

\* A ring for some TRBs is one for more of them.
LEMMA RingOfMore ==
  ASSUME NEW T, NEW U, T \subseteq U, NEW last, NEW n, NEW r \in Rings(T, last, n)
  PROVE  r \in Rings(U, last, n)
BY DEF Rings

LEMMA InitSound ==
  ASSUME Init
  PROVE  IInv
<1>0. PICK n, order : FoundAs(n, order)
  BY EventsFound
<1>1. /\ n \in 0..NumPorts /\ order \in [1..n -> Connected]
      /\ \A j, k \in 1..n : order[j] = order[k] => j = k
      /\ er \in Rings(PortTrbs \cup {Zeroed.trb}, EventRing - 1, EventRing)
      /\ er.write = n /\ er.read = 0 /\ er.cycle = TRUE /\ er.expect = TRUE
      /\ \A i \in 0..n - 1 : /\ er.buf[i] = [trb |-> PortStatusChange(order[i + 1]), cycle |-> TRUE]
                             /\ order[i + 1] \in Connected /\ i + 1 \in 1..n
      /\ \A i \in 0..EventRing - 1 : ~(i < n) => er.buf[i] = Zeroed
  BY <1>0 DEF FoundAs
<1>2. n \in Nat /\ 0 <= n /\ Connected \subseteq Ports
  BY <1>1, Sizes DEF Connected
<1>9. er \in Rings(AllTrbs, EventRing - 1, EventRing) /\ Sound(er, EventRing)
  <2>1. PortTrbs \cup {Zeroed.trb} \subseteq AllTrbs
    BY DEF AllTrbs, Trbs
  <2>2. er \in Rings(AllTrbs, EventRing - 1, EventRing)
    BY <1>1, <2>1, RingOfMore
  <2>3. \A i \in 0..EventRing - 1 : er.buf[i].cycle = TRUE <=> i < n
    <3> TAKE i \in 0..EventRing - 1
    <3>1. CASE i < n
      <4>1. i \in 0..n - 1
        BY <1>2, <3>1
      <4>2. er.buf[i] = [trb |-> PortStatusChange(order[i + 1]), cycle |-> TRUE]
        BY <1>1, <4>1
      <4>3. er.buf[i].cycle = TRUE
        BY <4>2
      <4> QED
        BY <3>1, <4>3
    <3>2. CASE ~(i < n)
      BY <1>1, <3>2 DEF Zeroed
    <3> QED
      BY <3>1, <3>2
  <2> QED
    BY <1>1, <1>2, <2>2, <2>3 DEF Sound
<1>10. Ahead(er, EventRing) = 0..n - 1
  BY <1>1, <1>2, Sizes DEF Ahead
<1>11. \A i \in Ahead(er, EventRing) :
         /\ er.buf[i].trb = PortStatusChange(order[i + 1]) /\ order[i + 1] \in Connected
         /\ i + 1 \in DOMAIN order
  <2>1. DOMAIN order = 1..n
    BY <1>1
  <2> TAKE i \in Ahead(er, EventRing)
  <2>2. /\ er.buf[i] = [trb |-> PortStatusChange(order[i + 1]), cycle |-> TRUE]
        /\ order[i + 1] \in Connected /\ i + 1 \in 1..n
    BY <1>1, <1>10
  <2> QED
    BY <2>1, <2>2
<1>12. Once(er, EventRing, PortTrbs)
  <2>1. \A p, q \in Ports : PortStatusChange(p) = PortStatusChange(q) => p = q
    BY TrbKinds
  <2>2. \A i \in Ahead(er, EventRing) : i \in Int
    BY <1>10
  <2> QED
    BY <1>1, <1>2, <1>11, <2>1, <2>2 DEF Once
<1>13. \A e \in Events : e \in PortTrbs /\ csc[e.n] /\ e \notin CommandTrbs
  <2>1. \A p \in Connected : p \in Ports /\ csc[p]
    BY DEF Connected, Init
  <2> QED
    BY <1>11, <2>1, TrbKinds DEF Events, Waiting
<1>14. EventsSound(er) /\ Done = {} /\ Events \subseteq Trbs
  <2>1. Once(er, EventRing, CommandTrbs)
    BY <1>13 DEF Once, Events, Waiting
  <2> QED
    BY <1>9, <1>13, <2>1, TrbKinds DEF EventsSound, Done
<1>15. CommandsSound(cr) /\ Commands = {}
  <2>1. /\ cr.buf = [i \in 0..CommandRing - 1 |-> Zeroed] /\ cr.last = CommandRing - 1
        /\ cr.write = 0 /\ cr.read = 0 /\ cr.cycle = TRUE /\ cr.expect = TRUE
        /\ cr = [buf |-> cr.buf, last |-> CommandRing - 1, write |-> 0, cycle |-> TRUE, read |-> 0, expect |-> TRUE]
    BY DEF Init, NewRing
  <2>2. Zeroed \in [trb : AllTrbs, cycle : BOOLEAN] /\ Zeroed.cycle = FALSE
    BY DEF Zeroed, AllTrbs
  <2>3. cr.buf \in [0..CommandRing - 1 -> [trb : AllTrbs, cycle : BOOLEAN]]
    BY <2>1, <2>2
  <2>4. 0 \in 0..CommandPlaces - 1
    BY Sizes
  <2>5. cr \in Rings(AllTrbs, CommandRing - 1, CommandPlaces)
    BY <2>1, <2>3, <2>4 DEF Rings
  <2>6. \A i \in 0..CommandPlaces - 1 : cr.buf[i].cycle = FALSE /\ ~(i < 0)
    BY <2>1, <2>2, Sizes
  <2>7. Sound(cr, CommandPlaces)
    <3>1. cr.read <= cr.write /\ cr.expect = cr.cycle
      <4>1. cr.read = 0 /\ cr.write = 0 /\ cr.expect = TRUE /\ cr.cycle = TRUE
        BY <2>1
      <4>2. cr.read <= cr.write
        BY <4>1, 0 <= 0
      <4>3. cr.expect = cr.cycle
        BY <4>1, Zenon
      <4> QED
        BY <4>2, <4>3
    <3>2. \A i \in 0..CommandPlaces - 1 : cr.buf[i].cycle = cr.cycle <=> i < cr.write
      BY <2>1, <2>6
    <3> QED
      BY <3>1, <3>2 DEF Sound
  <2>8. Ahead(cr, CommandPlaces) = {}
    BY <2>1 DEF Ahead
  <2> QED
    BY <2>5, <2>7, <2>8 DEF CommandsSound, Commands, Waiting, Once
<1>16. TypeOK
  BY Sizes DEF Init, TypeOK, Phases, FirstPort, Connected
<1>17. RingsOK /\ JobsOK /\ Apart
  BY <1>14, <1>15 DEF RingsOK, JobsOK, Apart
<1>18. OneAddressing
  BY Sizes DEF Init, OneAddressing, Ports
<1>19. SlotsOK
  BY Sizes DEF Init, SlotsOK, NoSlotYet, Ports
<1>20. QuietOK
  BY <1>12, <1>13, <1>15 DEF QuietOK, Init
<1> QED
  BY <1>16, <1>17, <1>18, <1>19, <1>20 DEF IInv

LEMMA StepSound ==
  ASSUME IInv, [Next]_vars
  PROVE  IInv'
<1>1. CASE ConfigurePort
  BY <1>1, ConfigurePortStep
<1>2. CASE ProcessEvent
  <2>1. CASE InvalidPhase
    <3>1. /\ boot > NumPorts /\ HasFront(er) /\ er' = Left /\ UNCHANGED <<driverVars, context, cr>>
          /\ UNCHANGED <<connected, enabled, csc, prc>>
      BY <2>1 DEF InvalidPhase, Arrives, portVars
    <3> QED
      BY <3>1, DropStep
  <2> QED
    BY <1>2, <2>1, PortChangedStep, EnableSlotStep, AddressDeviceStep, InitializeDeviceStep,
       TransferredStep, CompleteConfigurationStep DEF ProcessEvent
<1>3. CASE Controller
  BY <1>3, CompleteEnableSlotStep, CompleteAddressDeviceStep, CompleteConfigureEndpointStep, TransferStep
     DEF Controller
<1>4. CASE \E p \in Ports : Replug(p)
  BY <1>4, ReplugStep
<1>5. CASE UNCHANGED vars
  <2>1. UNCHANGED <<phase, addressing, boot, device, connected, enabled, csc, prc, context, cr, er>>
    BY <1>5 DEF vars, driverVars, portVars
  <2>2. EventsSound(er)' /\ Events' = Events
    BY <2>1 DEF IInv, RingsOK, EventsSound, Events
  <2>3. Events' \subseteq Trbs /\ Done' \subseteq Done
    BY <2>2 DEF IInv, JobsOK, Done
  <2>4. TypeOK'
    BY <2>1 DEF IInv, TypeOK
  <2>5. QuietOK'
    BY <2>1, <2>2 DEF IInv, QuietOK, AtBoot, Commands, Once, Ahead
  <2> QED
    BY <2>1, <2>2, <2>3, <2>4, <2>5, NoJobStep DEF IInv
<1> QED
  BY <1>1, <1>2, <1>3, <1>4, <1>5 DEF Next

(***************************************************************************)
(* A port has a slot, and one, from the phase on that its slot is given in. *)
(***************************************************************************)
LEMMA InTurn ==
  ASSUME IInv
  PROVE  AddressedInTurn
<1>1. ASSUME NEW p \in Ports
      PROVE  Cardinality(SlotOf(p)) = IF phase[p] \in NoSlotYet THEN 0 ELSE 1
  <2>1. CASE phase[p] \in NoSlotYet
    <3>1. SlotOf(p) = {}
      BY <2>1 DEF IInv, SlotsOK, SlotOf
    <3> QED
      BY <2>1, <3>1, FS_EmptySet
  <2>2. CASE phase[p] \notin NoSlotYet
    <3>1. PICK s \in Slots : device[s] = p
      BY <2>2 DEF IInv, SlotsOK
    <3>2. p # 0
      BY Sizes DEF Ports
    <3>3. SlotOf(p) = {s}
      BY <3>1, <3>2 DEF IInv, SlotsOK, SlotOf
    <3> QED
      BY <2>2, <3>3, FS_Singleton
  <2> QED
    BY <2>1, <2>2
<1>2. OneSlotEach
  BY <1>1 DEF OneSlotEach, NoSlotYet, IInv, SlotsOK
<1>3. ~Overrun(cr)
  BY Sizes, FrontOfSound DEF IInv, RingsOK, CommandsSound
<1>4. ~Overrun(er)
  BY Sizes, FrontOfSound DEF IInv, RingsOK, EventsSound
<1> QED
  BY <1>2, <1>3, <1>4 DEF IInv, AddressedInTurn

(***************************************************************************)
(* Never two ports between reset and address, a slot for each port that is  *)
(* past it, agreed on by driver and controller, and no TRB overwritten      *)
(* before it is read, although OnEvent pushes commands without looking for  *)
(* room (xhci.cpp): for every number of ports and every order of events.    *)
(***************************************************************************)
THEOREM PortsAreAddressedInTurn == Spec => []AddressedInTurn
<1>1. Init => IInv
  BY InitSound
<1>2. IInv /\ [Next]_vars => IInv'
  BY StepSound
<1>3. IInv => AddressedInTurn
  BY InTurn
<1> QED
  BY <1>1, <1>2, <1>3, PTL DEF Spec

-----------------------------------------------------------------------------
(* The memory of the driver: one block after the other.                    *)

\* Induction with the set of numbers it is about, in place of a predicate.
LEMMA SetInduction ==
  ASSUME NEW T, T \subseteq Nat, 0 \in T, \A n \in T : n + 1 \in T
  PROVE  T = Nat
<1> DEFINE U == Nat \ T
<1> SUFFICES ASSUME U # {} PROVE FALSE
  OBVIOUS
<1>1. PICK m \in U : \A x \in U : m <= x
  <2>1. U \subseteq Nat
    OBVIOUS
  <2> HIDE DEF U
  <2> QED
    BY <2>1, LeastMember
<1>2. m \in Nat \ {0} /\ m - 1 \in Nat /\ ~(m <= m - 1)
  OBVIOUS
<1>3. m - 1 \in T
  BY <1>1, <1>2
<1>4. (m - 1) + 1 \in T /\ (m - 1) + 1 = m
  BY <1>2, <1>3
<1> QED
  BY <1>4

\* What the driver asks for: the alignments and boundaries are few.
Alignments == {0, 8, 512}
Boundaries == {0, 512, 8192}
Marks      == {8, 512, 8192}
Requests   == [size : Nat \ {0}, alignment : Alignments, boundary : Boundaries]

\* The blocks that were given lie in front of alloc_ptr.
PoolSound(p) ==
  /\ p \in [next : Nat, blocks : SUBSET [at : Nat, as : Requests]]
  /\ PoolBase <= p.next
  /\ \A x \in p.blocks : x.at + x.as.size <= p.next
  /\ IsFiniteSet(p.blocks) /\ BlocksApart(p)

Multiple(v, a) == v % a = 0

\* What begins at v and is n long does not cross a multiple of a.
Within(v, n, a) == (v % a) + n <= a

LEMMA CeilFacts ==
  ASSUME NEW v \in Nat, NEW a \in Marks
  PROVE  Ceil(v, a) \in Nat /\ v <= Ceil(v, a) /\ Ceil(v, a) < v + a /\ Multiple(Ceil(v, a), a)
<1>1. Ceil(v, 8) \in Nat /\ v <= Ceil(v, 8) /\ Ceil(v, 8) < v + 8 /\ Multiple(Ceil(v, 8), 8)
  BY DEF Ceil, Multiple
<1>2. Ceil(v, 512) \in Nat /\ v <= Ceil(v, 512) /\ Ceil(v, 512) < v + 512 /\ Multiple(Ceil(v, 512), 512)
  BY DEF Ceil, Multiple
<1>3. Ceil(v, 8192) \in Nat /\ v <= Ceil(v, 8192) /\ Ceil(v, 8192) < v + 8192 /\ Multiple(Ceil(v, 8192), 8192)
  BY DEF Ceil, Multiple
<1> QED
  BY <1>1, <1>2, <1>3 DEF Marks

LEMMA EndsBefore ==
  ASSUME NEW v \in Nat, NEW n \in Nat \ {0}, NEW a \in Boundaries, a # 0, v + n <= Ceil(v, a)
  PROVE  Within(v, n, a)
<1>1. v + n <= Ceil(v, 512) => Within(v, n, 512)
  BY DEF Ceil, Within
<1>2. v + n <= Ceil(v, 8192) => Within(v, n, 8192)
  BY DEF Ceil, Within
<1> QED
  BY <1>1, <1>2 DEF Boundaries

LEMMA BeginsAt ==
  ASSUME NEW v \in Nat, NEW a \in Boundaries, a # 0, Multiple(v, a), NEW n \in Nat, n <= a
  PROVE  Within(v, n, a)
BY DEF Multiple, Within, Boundaries

\* A multiple of a boundary is one of an alignment.
LEMMA Divides ==
  ASSUME NEW v \in Nat, NEW a \in Alignments, a # 0, NEW b \in Boundaries, b # 0, Multiple(v, b)
  PROVE  Multiple(v, a)
<1>1. Multiple(v, 512) => Multiple(v, 8)
  BY DEF Multiple
<1>2. Multiple(v, 8192) => Multiple(v, 512)
  BY DEF Multiple
<1> QED
  BY <1>1, <1>2 DEF Alignments, Boundaries

LEMMA AlignedFacts ==
  ASSUME NEW v \in Nat, NEW a \in Alignments
  PROVE  /\ Aligned(v, a) \in Nat /\ v <= Aligned(v, a) /\ Aligned(v, a) <= v + a
         /\ a # 0 => Multiple(Aligned(v, a), a)
<1>1. CASE a = 0
  BY <1>1 DEF Aligned
<1>2. CASE a # 0
  <2>1. a \in Marks /\ a \in Nat /\ Aligned(v, a) = Ceil(v, a)
    BY <1>2 DEF Marks, Alignments, Aligned
  <2>2. Ceil(v, a) \in Nat /\ v <= Ceil(v, a) /\ Ceil(v, a) < v + a /\ Multiple(Ceil(v, a), a)
    BY <2>1, CeilFacts
  <2> QED
    BY <2>1, <2>2
<1> QED
  BY <1>1, <1>2

LEMMA PlaceFacts ==
  ASSUME NEW p, p.next \in Nat, NEW b \in Requests, NEW q, q = Place(p, b)
  PROVE  /\ q \in Nat /\ p.next <= q /\ q <= p.next + b.alignment + b.boundary
         /\ b.alignment > 0 => Multiple(q, b.alignment)
         /\ b.boundary >= b.size => Within(q, b.size, b.boundary)
<1>1. PICK v, n, a, m : v = Aligned(p.next, b.alignment) /\ n = b.size /\ a = b.alignment /\ m = b.boundary
  OBVIOUS
<1>2. n \in Nat \ {0} /\ a \in Alignments /\ m \in Boundaries
  BY <1>1 DEF Requests
<1>3. a \in Nat /\ m \in Nat
  BY <1>2 DEF Alignments, Boundaries
<1>4. /\ v \in Nat /\ p.next <= v /\ v <= p.next + a
      /\ a # 0 => Multiple(v, a)
  BY <1>2, <1>1, AlignedFacts
<1>5. q = IF m > 0 /\ Ceil(v, m) < v + n THEN Ceil(v, m) ELSE v
  BY <1>1 DEF Place
<1> SUFFICES /\ q \in Nat /\ p.next <= q /\ q <= p.next + a + m
             /\ a # 0 => Multiple(q, a)
             /\ m >= n => Within(q, n, m)
  BY <1>1, <1>3
<1>6. CASE m = 0
  <2>1. q = v /\ ~ m >= n
    BY <1>2, <1>5, <1>6
  <2> QED
    BY <1>2, <1>4, <1>6, <1>3, <2>1
<1>7. CASE m # 0
  <2>1. PICK c : c = Ceil(v, m)
    OBVIOUS
  <2>2. c \in Nat /\ v <= c /\ c < v + m /\ Multiple(c, m)
    <3>1. m \in Marks
      BY <1>2, <1>7 DEF Marks, Boundaries
    <3> QED
      BY <1>4, <2>1, <3>1, CeilFacts
  <2>3. CASE c < v + n
    <3>1. q = c
      BY <1>5, <1>7, <1>3, <2>1, <2>3
    <3>2. a # 0 => Multiple(c, a)
      BY <1>2, <1>7, <2>2, Divides
    <3>3. m >= n => Within(c, n, m)
      BY <1>2, <1>7, <2>2, BeginsAt
    <3> QED
      BY <1>4, <1>3, <2>2, <3>1, <3>2, <3>3
  <2>4. CASE v + n <= c
    <3>1. q = v
      BY <1>2, <1>4, <1>5, <2>1, <2>2, <2>4
    <3>2. Within(v, n, m)
      BY <1>2, <1>4, <1>7, <2>1, <2>4, EndsBefore
    <3> QED
      BY <1>4, <1>3, <3>1, <3>2
  <2> QED
    BY <1>2, <1>4, <2>2, <2>3, <2>4
<1> QED
  BY <1>6, <1>7

\* BlocksApart of one block.
Apart1(p, x) ==
  /\ PoolBase <= x.at /\ x.at + x.as.size <= PoolBase + PoolSize
  /\ x.as.alignment > 0 => Multiple(x.at, x.as.alignment)
  /\ x.as.boundary >= x.as.size => Within(x.at, x.as.size, x.as.boundary)
  /\ \A y \in p.blocks \ {x} : x.at + x.as.size <= y.at \/ y.at + y.as.size <= x.at

LEMMA BlocksApartIs ==
  ASSUME NEW p
  PROVE  BlocksApart(p) <=> \A x \in p.blocks : Apart1(p, x)
BY Zenon DEF BlocksApart, Apart1, Multiple, Within

\* AllocMem gives a block behind all the others, or nothing.
LEMMA AllocMemSound ==
  ASSUME NEW p, PoolSound(p), NEW b \in Requests, NEW r, r = AllocMem(p, b)
  PROVE  /\ PoolSound(r) /\ p.blocks \subseteq r.blocks
         /\ r.next <= p.next + b.alignment + b.boundary + b.size
         /\ r.blocks = p.blocks \/ (r.blocks = p.blocks \cup {[at |-> Place(p, b), as |-> b]}
                                      /\ [at |-> Place(p, b), as |-> b] \notin p.blocks)
         /\ Place(p, b) + b.size <= PoolBase + PoolSize => [at |-> Place(p, b), as |-> b] \in r.blocks
<1>1. PICK q : q = Place(p, b)
  OBVIOUS
<1>2. p.next \in Nat /\ p \in [next : Nat, blocks : SUBSET [at : Nat, as : Requests]]
  BY DEF PoolSound
<1>3. /\ q \in Nat /\ p.next <= q /\ q <= p.next + b.alignment + b.boundary
      /\ b.alignment > 0 => Multiple(q, b.alignment)
      /\ b.boundary >= b.size => Within(q, b.size, b.boundary)
  BY <1>1, <1>2, PlaceFacts
<1>4. b.size \in Nat \ {0} /\ PoolBase \in Nat /\ PoolSize \in Nat /\ b.alignment \in Nat /\ b.boundary \in Nat
  BY UsbMemoryAssumption DEF Requests, PoolSize, Alignments, Boundaries
<1>5. \A x \in p.blocks : x.at \in Nat /\ x.as.size \in Nat \ {0} /\ x.at + x.as.size <= p.next
  BY <1>2 DEF PoolSound, Requests
<1>6. CASE PoolBase + PoolSize < q + b.size
  <2>1. r = [p EXCEPT !.next = q]
    BY <1>1, <1>6 DEF AllocMem
  <2>2. r.blocks = p.blocks /\ r.next = q /\ r \in [next : Nat, blocks : SUBSET [at : Nat, as : Requests]]
    BY <1>2, <1>3, <2>1
  <2>3. PoolSound(r)
    BY <1>3, <1>4, <1>5, <2>2 DEF PoolSound, BlocksApart
  <2> QED
    BY <1>1, <1>2, <1>3, <1>4, <1>6, <2>2, <2>3
<1>7. CASE q + b.size <= PoolBase + PoolSize
  <2>1. PICK y : y = [at |-> q, as |-> b]
    OBVIOUS
  <2>2. r = [next |-> q + b.size, blocks |-> p.blocks \cup {y}]
    BY <1>1, <1>3, <1>4, <1>7, <2>1 DEF AllocMem
  <2>3. r.next = q + b.size /\ r.blocks = p.blocks \cup {y} /\ y.at = q /\ y.as = b /\ y \in [at : Nat, as : Requests]
    BY <1>3, <2>1, <2>2
  <2>4. r \in [next : Nat, blocks : SUBSET [at : Nat, as : Requests]]
    BY <1>2, <1>3, <1>4, <2>2, <2>3
  <2>5. \A x \in p.blocks : x.at + x.as.size <= y.at
    BY <1>2, <1>3, <1>4, <1>5, <2>3
  <2>6. y \notin p.blocks
    BY <1>4, <1>5, <2>3, <2>5
  <2>7. BlocksApart(r)
    <3> SUFFICES ASSUME NEW x \in r.blocks PROVE Apart1(r, x)
      BY BlocksApartIs
    <3>1. CASE x = y
      <4>1. \A z \in r.blocks \ {x} : z.at + z.as.size <= x.at
        BY <2>3, <2>5, <3>1
      <4>2. PoolBase <= q
        BY <1>2, <1>3, <1>4 DEF PoolSound
      <4> QED
        BY <1>3, <1>7, <2>3, <3>1, <4>1, <4>2 DEF Apart1
    <3>2. CASE x \in p.blocks
      <4>1. Apart1(p, x)
        BY <3>2, BlocksApartIs DEF PoolSound
      <4> QED
        BY <2>3, <2>5, <3>2, <4>1 DEF Apart1
    <3> QED
      BY <2>3, <3>1, <3>2
  <2>8. \A x \in r.blocks : x.at + x.as.size <= r.next
    BY <1>2, <1>3, <1>4, <1>5, <2>3
  <2>9. IsFiniteSet(r.blocks)
    BY <2>3, FS_AddElement DEF PoolSound
  <2>10. PoolSound(r)
    BY <1>3, <1>4, <2>3, <2>4, <2>7, <2>8, <2>9 DEF PoolSound
  <2> QED
    BY <1>1, <1>2, <1>3, <1>4, <2>1, <2>3, <2>6, <2>10
<1> QED
  BY <1>3, <1>4, <1>6, <1>7

\* The recursion of AllocAll.
Allots(f, p, list) ==
  f = [n \in 0..Len(list) |-> IF n = 0 THEN {p} ELSE {AllocMem(r, list[n]) : r \in f[n - 1]}]

LEMMA AllocAllIs ==
  ASSUME NEW p, NEW list
  PROVE  AllocAll(p, list) = CHOOSE r \in (CHOOSE f : Allots(f, p, list))[Len(list)] : TRUE
BY DEF AllocAll, Allots

\* The pools that come of the first n blocks of a list.
Allocated(g, p, list, n) ==
  /\ g[0] = p
  /\ \A i \in Nat : 0 < i /\ i <= n => g[i] = AllocMem(g[i - 1], list[i])

LEMMA AllocExists ==
  ASSUME NEW p, NEW list, NEW n \in Nat
  PROVE  \E g : Allocated(g, p, list, n)
<1> DEFINE T == {k \in Nat : \E g : Allocated(g, p, list, k)}
<1>1. 0 \in T
  <2>1. Allocated([i \in {0} |-> p], p, list, 0)
    BY DEF Allocated
  <2> QED
    BY <2>1
<1>2. ASSUME NEW k \in T PROVE k + 1 \in T
  <2>1. PICK g : Allocated(g, p, list, k)
    OBVIOUS
  <2>2. PICK h : h = [i \in Nat |-> IF i = k + 1 THEN AllocMem(g[k], list[i]) ELSE g[i]]
    OBVIOUS
  <2>3. h[0] = p
    BY <2>1, <2>2 DEF Allocated
  <2>4. ASSUME NEW i \in Nat, 0 < i, i <= k + 1 PROVE h[i] = AllocMem(h[i - 1], list[i])
    <3>1. i - 1 \in Nat /\ i - 1 # k + 1
      BY <2>4
    <3>2. h[i - 1] = g[i - 1]
      BY <2>2, <3>1
    <3>3. CASE i = k + 1
      BY <2>2, <3>2, <3>3
    <3>4. CASE i <= k
      BY <2>1, <2>2, <2>4, <3>2, <3>4 DEF Allocated
    <3> QED
      BY <2>4, <3>3, <3>4
  <2>5. Allocated(h, p, list, k + 1)
    BY <2>3, <2>4 DEF Allocated
  <2> QED
    BY <2>5
<1>3. T = Nat
  <2>1. T \subseteq Nat
    OBVIOUS
  <2> HIDE DEF T
  <2>2. \A k \in T : k + 1 \in T
    BY <1>2
  <2> QED
    BY <1>1, <2>1, <2>2, SetInduction
<1>4. n \in T
  <2> HIDE DEF T
  <2> QED
    BY <1>3
<1> QED
  BY <1>4

\* AllocAll comes to the last of them.
LEMMA AllocRuns ==
  ASSUME NEW p, NEW list, Len(list) \in Nat, NEW g, Allocated(g, p, list, Len(list))
  PROVE  AllocAll(p, list) = g[Len(list)]
<1> DEFINE f == [n \in 0..Len(list) |-> {g[n]}]
           F == [n \in 0..Len(list) |-> IF n = 0 THEN {p} ELSE {AllocMem(r, list[n]) : r \in f[n - 1]}]
<1>1. Allots(f, p, list)
  <2>1. ASSUME NEW n \in 0..Len(list) PROVE f[n] = F[n]
    <3>1. CASE n = 0
      BY <3>1 DEF Allocated
    <3>2. CASE n # 0
      <4>1. n - 1 \in 0..Len(list) /\ n \in Nat /\ 0 < n /\ n <= Len(list)
        BY <3>2
      <4>2. g[n] = AllocMem(g[n - 1], list[n])
        BY <4>1 DEF Allocated
      <4>3. f[n - 1] = {g[n - 1]}
        BY <4>1
      <4>4. {AllocMem(r, list[n]) : r \in f[n - 1]} = {g[n]}
        BY <4>2, <4>3
      <4> QED
        BY <3>2, <4>4
    <3> QED
      BY <3>1, <3>2
  <2>2. f = F
    BY <2>1
  <2> QED
    BY <2>2 DEF Allots
<1>2. PICK h : h = (CHOOSE c : Allots(c, p, list))
  OBVIOUS
<1>3. Allots(h, p, list)
  <2> HIDE DEF f
  <2> QED
    BY <1>1, <1>2
<1>4. ASSUME NEW n \in 0..Len(list)
      PROVE  h[n] = IF n = 0 THEN {p} ELSE {AllocMem(r, list[n]) : r \in h[n - 1]}
  <2> DEFINE H == [m \in 0..Len(list) |-> IF m = 0 THEN {p} ELSE {AllocMem(r, list[m]) : r \in h[m - 1]}]
  <2>1. h = H
    BY <1>3 DEF Allots
  <2>2. H[n] = IF n = 0 THEN {p} ELSE {AllocMem(r, list[n]) : r \in h[n - 1]}
    OBVIOUS
  <2> HIDE DEF H
  <2> QED
    BY <2>1, <2>2
<1> DEFINE T == {n \in Nat : n <= Len(list) => h[n] = {g[n]}}
<1>5. 0 \in T
  <2>1. 0 \in 0..Len(list)
    OBVIOUS
  <2>2. h[0] = IF 0 = 0 THEN {p} ELSE {AllocMem(r, list[0]) : r \in h[0 - 1]}
    BY <1>4, <2>1
  <2>3. h[0] = {p}
    BY <2>2
  <2>4. g[0] = p
    BY DEF Allocated
  <2> QED
    BY <2>3, <2>4
<1>6. ASSUME NEW n \in T PROVE n + 1 \in T
  <2> SUFFICES ASSUME n + 1 <= Len(list) PROVE h[n + 1] = {g[n + 1]}
    OBVIOUS
  <2>1. n + 1 \in 0..Len(list) /\ n + 1 # 0 /\ (n + 1) - 1 = n /\ h[n] = {g[n]}
    OBVIOUS
  <2>2. h[n + 1] = {AllocMem(r, list[n + 1]) : r \in h[n]}
    BY <1>4, <2>1
  <2>3. g[n + 1] = AllocMem(g[n], list[n + 1])
    BY <2>1 DEF Allocated
  <2> QED
    BY <2>1, <2>2, <2>3
<1>7. T = Nat
  <2>1. T \subseteq Nat
    OBVIOUS
  <2> HIDE DEF T
  <2>2. \A k \in T : k + 1 \in T
    BY <1>6
  <2> QED
    BY <1>5, <2>1, <2>2, SetInduction
<1>8. Len(list) \in T
  <2> HIDE DEF T
  <2> QED
    BY <1>7
<1>9. h[Len(list)] = {g[Len(list)]}
  BY <1>8
<1>10. AllocAll(p, list) = CHOOSE r \in h[Len(list)] : TRUE
  BY <1>2, AllocAllIs
<1> HIDE DEF T, f, F
<1> QED
  BY <1>9, <1>10

LEMMA AllocNothing ==
  ASSUME NEW p, NEW list, Len(list) = 0
  PROVE  AllocAll(p, list) = p
<1>1. PICK g : Allocated(g, p, list, 0)
  BY AllocExists
<1> QED
  BY <1>1, AllocRuns DEF Allocated

\* A list is given one block after the other.
LEMMA AllocNext ==
  ASSUME NEW p, NEW S, NEW list \in Seq(S), NEW n \in 1..Len(list)
  PROVE  AllocAll(p, SubSeq(list, 1, n)) = AllocMem(AllocAll(p, SubSeq(list, 1, n - 1)), list[n])
<1>1. n \in Nat
  OBVIOUS
<1>2. PICK g : Allocated(g, p, list, n)
  BY <1>1, AllocExists
<1>3. PICK s, t : s = SubSeq(list, 1, n) /\ t = SubSeq(list, 1, n - 1)
  OBVIOUS
<1>4. Len(s) = n /\ Len(t) = n - 1 /\ \A i \in 1..n : s[i] = list[i] /\ (i # n => t[i] = list[i])
  BY <1>3
<1>5. Allocated(g, p, s, n) /\ Allocated(g, p, t, n - 1)
  BY <1>2, <1>4 DEF Allocated
<1>6. AllocAll(p, s) = g[n]
  <2>1. Len(s) = n /\ Len(s) \in Nat /\ Allocated(g, p, s, Len(s))
    BY <1>1, <1>4, <1>5
  <2> QED
    BY <2>1, AllocRuns
<1>7. PICK k : k = n - 1
  OBVIOUS
<1>8. AllocAll(p, t) = g[k]
  <2>1. Len(t) = k /\ Len(t) \in Nat /\ Allocated(g, p, t, Len(t))
    BY <1>4, <1>5, <1>7
  <2> QED
    BY <2>1, AllocRuns
<1>9. g[n] = AllocMem(g[k], list[n])
  BY <1>1, <1>2, <1>7 DEF Allocated
<1> QED
  BY <1>3, <1>6, <1>8, <1>9

\* Whatever is asked for, one block after the other, the pool stays sound and keeps what was given.
LEMMA AllocAllSound ==
  ASSUME NEW p, PoolSound(p), NEW list \in Seq(Requests)
  PROVE  /\ PoolSound(AllocAll(p, list)) /\ p.blocks \subseteq AllocAll(p, list).blocks
         /\ Len(list) > 0 => AllocMem(p, list[1]).blocks \subseteq AllocAll(p, list).blocks
<1>1. PICK g : Allocated(g, p, list, Len(list))
  <2>1. Len(list) \in Nat
    OBVIOUS
  <2> QED
    BY <2>1, AllocExists
<1>2. PICK first : first = AllocMem(p, list[1]).blocks
  OBVIOUS
<1> DEFINE T == {n \in Nat : n <= Len(list) => /\ PoolSound(g[n]) /\ p.blocks \subseteq g[n].blocks
                                               /\ n > 0 => first \subseteq g[n].blocks}
<1>3. 0 \in T
  BY <1>1 DEF Allocated
<1>4. ASSUME NEW n \in T PROVE n + 1 \in T
  <2> SUFFICES ASSUME n + 1 <= Len(list)
               PROVE  PoolSound(g[n + 1]) /\ p.blocks \subseteq g[n + 1].blocks /\ first \subseteq g[n + 1].blocks
    OBVIOUS
  <2>1. PoolSound(g[n]) /\ p.blocks \subseteq g[n].blocks /\ (n > 0 => first \subseteq g[n].blocks)
    OBVIOUS
  <2>2. PICK b : b = list[n + 1]
    OBVIOUS
  <2>3. b \in Requests
    BY <2>2
  <2>4. g[n + 1] = AllocMem(g[n], b)
    BY <1>1, <2>2 DEF Allocated
  <2>5. PICK r : r = g[n]
    OBVIOUS
  <2>6. PoolSound(r)
    BY <2>1, <2>5
  <2>7. PoolSound(AllocMem(r, b)) /\ r.blocks \subseteq AllocMem(r, b).blocks
    BY <2>3, <2>6, AllocMemSound
  <2>8. n = 0 => first = g[n + 1].blocks
    BY <1>1, <1>2, <2>2, <2>4 DEF Allocated
  <2> QED
    BY <2>1, <2>4, <2>5, <2>7, <2>8
<1>5. T = Nat
  <2>1. T \subseteq Nat
    OBVIOUS
  <2> HIDE DEF T
  <2>2. \A k \in T : k + 1 \in T
    BY <1>4
  <2> QED
    BY <1>3, <2>1, <2>2, SetInduction
<1>6. Len(list) \in T
  <2> HIDE DEF T
  <2> QED
    BY <1>5
<1>7. AllocAll(p, list) = g[Len(list)]
  BY <1>1, AllocRuns
<1> QED
  BY <1>6, <1>7, <1>2

-----------------------------------------------------------------------------
(* What the driver asks for.                                                *)

LEMMA BlocksAsked ==
  /\ \A b \in {Devices_, DeviceContexts, DeviceBlock, RingBlock, RingBuffer, SegmentTable, DriverBlock} :
       b \in Requests
  /\ Block(512, 512, 512) \in Requests
  /\ \A n \in Nat \ {0} : Block(n, 8, 512) \in Requests
BY DEF Devices_, DeviceContexts, DeviceBlock, RingBlock, RingBuffer, SegmentTable, DriverBlock,
       Block, Requests, Alignments, Boundaries

LEMMA ScratchpadsAsked ==
  ASSUME NEW n \in Nat
  PROVE  ScratchpadBlocks(n) \in Seq(Requests)
<1>1. CASE n = 0
  BY <1>1 DEF ScratchpadBlocks
<1>2. CASE n # 0
  <2>1. <<Block(n, 8, 512)>> \in Seq(Requests)
    BY <1>2, BlocksAsked
  <2>2. [i \in 1..n |-> Block(512, 512, 512)] \in Seq(Requests)
    BY BlocksAsked
  <2> HIDE DEF Block
  <2>3. ScratchpadBlocks(n) = <<Block(n, 8, 512)>> \o [i \in 1..n |-> Block(512, 512, 512)]
    BY <1>2 DEF ScratchpadBlocks
  <2> QED
    BY <2>1, <2>2, <2>3
<1> QED
  BY <1>1, <1>2

LEMMA RingsAsked ==
  ASSUME NEW eps, Len(eps) \in Nat
  PROVE  RingsOf(eps) \in Seq(Requests)
<1>1. RingBlock \in Requests /\ RingBuffer \in Requests
  BY BlocksAsked
<1>2. 2 * Len(eps) \in Nat
  OBVIOUS
<1>3. RingsOf(eps) \in [1..2 * Len(eps) -> Requests]
  BY <1>1 DEF RingsOf
<1> QED
  BY <1>2, <1>3

LEMMA ListsAsked ==
  /\ <<>> \in Seq(Requests) /\ <<DriverBlock>> \in Seq(Requests)
  /\ <<Devices_, DeviceContexts>> \in Seq(Requests)
  /\ <<DeviceBlock, RingBlock, RingBuffer>> \in Seq(Requests)
  /\ RingTables \in Seq(Requests)
<1>1. PICK a, b, c, d, e, f, g : /\ a = Devices_ /\ b = DeviceContexts /\ c = DeviceBlock /\ d = RingBlock
                                 /\ e = RingBuffer /\ f = SegmentTable /\ g = DriverBlock
  OBVIOUS
<1>2. /\ a \in Requests /\ b \in Requests /\ c \in Requests /\ d \in Requests
      /\ e \in Requests /\ f \in Requests /\ g \in Requests
  BY <1>1, BlocksAsked
<1>3. /\ <<g>> \in Seq(Requests) /\ <<a, b>> \in Seq(Requests)
      /\ <<c, d, e>> \in Seq(Requests) /\ <<e, e, f>> \in Seq(Requests)
  BY <1>2
<1> QED
  BY <1>1, <1>3 DEF RingTables

-----------------------------------------------------------------------------
(* Devices: the endpoints of the interface that is chosen are so many.      *)

\* What a device may answer.
WellFormed(descs) ==
  /\ DOMAIN descs \subseteq Nat
  /\ \A i \in DOMAIN descs : descs[i].type = "interface" => descs[i].num_endpoints \in Nat

\* The members of a device that are about its endpoints are there.
DeviceSound(d) ==
  /\ {"eps", "buf", "init"} \subseteq DOMAIN d
  /\ Len(d.eps) \in Nat /\ WellFormed(d.buf)

\* d has the endpoints and the buffer of c.
SameEndpoints(c, d) ==
  {"eps", "buf", "init"} \subseteq DOMAIN c =>
    /\ {"eps", "buf", "init"} \subseteq DOMAIN d
    /\ d.eps = c.eps /\ d.buf = c.buf

LEMMA SoundAsBefore ==
  ASSUME NEW c, NEW d, DeviceSound(c), SameEndpoints(c, d)
  PROVE  DeviceSound(d)
BY DEF DeviceSound, SameEndpoints

LEMMA NewDeviceSound ==
  ASSUME NEW speed
  PROVE  DeviceSound(NewDevice(speed))
<1>1. PICK a, b, c, d : a = ControllerPart /\ b = XhciPart(speed) /\ c = UsbPart /\ d = HidPart
  OBVIOUS
<1>2. /\ DOMAIN a = {"asked", "active", "rung", "halted"}
      /\ DOMAIN b = {"input", "rings", "setups"}
      /\ DOMAIN c = {"init", "waiters", "drivers", "eps", "buf"}
      /\ c.eps = <<>> /\ c.buf = <<>>
  BY <1>1 DEF ControllerPart, XhciPart, UsbPart
<1>3. PICK r : r = NewDevice(speed)
  OBVIOUS
<1>4. PICK e, f : e = Members(a, b) /\ f = Members(c, d)
  OBVIOUS
<1>5. \A k \in {"eps", "buf", "init"} : k \in DOMAIN r /\ r[k] = c[k]
  <2> TAKE k \in {"eps", "buf", "init"}
  <2>1. k \notin DOMAIN a /\ k \notin DOMAIN b /\ k \in DOMAIN c
    BY <1>2
  <2>2. k \notin DOMAIN e
    BY <1>4, <2>1 DEF Members
  <2>3. k \in DOMAIN f /\ f[k] = c[k]
    BY <1>4, <2>1 DEF Members
  <2>4. r = Members(e, f)
    BY <1>1, <1>3, <1>4 DEF NewDevice
  <2> QED
    BY <2>2, <2>3, <2>4 DEF Members
<1>6. Len(<<>>) \in Nat /\ WellFormed(<<>>)
  BY DEF WellFormed
<1>7. r.eps = <<>> /\ r.buf = <<>> /\ {"eps", "buf", "init"} \subseteq DOMAIN r
  BY <1>2, <1>5
<1> QED
  BY <1>3, <1>6, <1>7 DEF DeviceSound

\* The operations of a device that leave its endpoints alone.
LEMMA SameEndpointsAfter ==
  ASSUME NEW d, NEW a, NEW b
  PROVE  /\ SameEndpoints(d, AllocTransferRings(d)) /\ SameEndpoints(d, ClearedContext(d))
         /\ SameEndpoints(d, ConfigureContext(d, a))
         /\ SameEndpoints(d, ControlIn(d, a, b)) /\ SameEndpoints(d, ControlOut(d, a, b))
         /\ SameEndpoints(d, InterruptIn(d)) /\ SameEndpoints(d, StartInitialize(d))
         /\ SameEndpoints(d, InitializePhase1(d)) /\ SameEndpoints(d, InitializePhase3(d))
<1>1. SameEndpoints(d, AllocTransferRings(d)) /\ SameEndpoints(d, ClearedContext(d))
  BY DEF SameEndpoints, AllocTransferRings, ClearedContext
<1>2. SameEndpoints(d, ConfigureContext(d, a))
  BY DEF SameEndpoints, ConfigureContext
<1>3. SameEndpoints(d, ControlIn(d, a, b)) /\ SameEndpoints(d, ControlOut(d, a, b))
  BY DEF SameEndpoints, ControlIn, ControlOut, Awaits, RingDoorbell
<1>4. SameEndpoints(d, InterruptIn(d))
  BY DEF SameEndpoints, InterruptIn, RingDoorbell
<1>5. SameEndpoints(d, StartInitialize(d)) /\ SameEndpoints(d, InitializePhase1(d))
  BY DEF SameEndpoints, StartInitialize, InitializePhase1, ControlIn, Awaits, RingDoorbell
<1>6. SameEndpoints(d, InitializePhase3(d))
  BY DEF SameEndpoints, InitializePhase3
<1> QED
  BY <1>1, <1>2, <1>3, <1>4, <1>5, <1>6

\* The endpoints of an interface are as many as its descriptor says.
LEMMA SupportedIsThere ==
  ASSUME NEW descs, WellFormed(descs), SupportedInterface(descs) # 0
  PROVE  Len(EndpointsOf(descs, SupportedInterface(descs))) \in Nat
<1> DEFINE known == {i \in DOMAIN descs : descs[i].type = "interface" /\ descs[i].driver # NoDriver}
<1>1. known # {} /\ SupportedInterface(descs) = Lowest(known)
  BY DEF SupportedInterface
<1>2. known \subseteq Nat
  BY DEF WellFormed
<1>3. \A i \in known : descs[i].num_endpoints \in Nat
  BY DEF WellFormed
<1> HIDE DEF known
<1>4. Lowest(known) \in known
  <2>1. \E m \in known : \A x \in known : m <= x
    BY <1>1, <1>2, LeastMember
  <2> QED
    BY <2>1, Zenon DEF Lowest
<1>5. PICK n : n = descs[SupportedInterface(descs)].num_endpoints
  OBVIOUS
<1>6. n \in Nat
  BY <1>1, <1>3, <1>4, <1>5
<1>7. PICK s : s = SelectSeq(SubSeq(descs, SupportedInterface(descs) + 1, Len(descs)), LAMBDA desc : desc.type = "endpoint")
  OBVIOUS
<1>8. EndpointsOf(descs, SupportedInterface(descs)) = SubSeq(s, 1, n)
  BY <1>5, <1>7, Zenon DEF EndpointsOf
<1>9. SubSeq(s, 1, n) = [i \in 1..n |-> s[i]]
  BY <1>6
<1> QED
  BY <1>6, <1>8, <1>9

LEMMA Phase2Sound ==
  ASSUME NEW d, DeviceSound(d)
  PROVE  DeviceSound(InitializePhase2(d))
<1> DEFINE i == SupportedInterface(d.buf)
<1>1. CASE i = 0
  BY <1>1 DEF InitializePhase2
<1>2. CASE i # 0
  <2>1. PICK eps : eps = EndpointsOf(d.buf, i)
    OBVIOUS
  <2>2. Len(eps) \in Nat
    BY <1>2, <2>1, SupportedIsThere DEF DeviceSound
  <2>3. PICK drivers : drivers = [n \in DOMAIN d.drivers |->
                                    IF n \in {Number(eps[k].ep) : k \in DOMAIN eps} THEN d.buf[i].driver
                                                                                    ELSE d.drivers[n]]
    OBVIOUS
  <2>4. PICK e : e = [d EXCEPT !.init = 3, !.eps = eps, !.drivers = drivers]
    OBVIOUS
  <2>5. DeviceSound(e)
    BY <2>2, <2>4 DEF DeviceSound
  <2>6. InitializePhase2(d) = ControlOut(e, SetConfiguration, NoDriver)
    BY <1>2, <2>1, <2>3, <2>4 DEF InitializePhase2
  <2>7. SameEndpoints(e, ControlOut(e, SetConfiguration, NoDriver))
    BY SameEndpointsAfter
  <2> QED
    BY <2>5, <2>6, <2>7, SoundAsBefore
<1> QED
  BY <1>1, <1>2

LEMMA OnControlCompletedSound ==
  ASSUME NEW d, DeviceSound(d), NEW setup
  PROVE  DeviceSound(OnControlCompleted(d, setup).device)
<1>1. DeviceSound(InitializePhase1(d)) /\ DeviceSound(InitializePhase3(d))
  BY SameEndpointsAfter, SoundAsBefore
<1>2. DeviceSound(InitializePhase2(d))
  BY Phase2Sound
<1>3. DeviceSound(HidControlCompleted(d).device)
  <2>1. PICK e : e = [d EXCEPT !.hid = 2]
    OBVIOUS
  <2>2. DeviceSound(e)
    BY <2>1 DEF DeviceSound
  <2>3. DeviceSound(InterruptIn(e))
    BY <2>2, SameEndpointsAfter, SoundAsBefore
  <2>4. HidControlCompleted(d).device = InterruptIn(e) \/ HidControlCompleted(d).device = d
    BY <2>1 DEF HidControlCompleted, Ok, Fails
  <2> QED
    BY <2>3, <2>4
<1>4. \/ OnControlCompleted(d, setup) = HidControlCompleted(d)
      \/ OnControlCompleted(d, setup).device \in {d, InitializePhase1(d), InitializePhase2(d), InitializePhase3(d)}
  BY DEF OnControlCompleted, Ok, Fails
<1> QED
  BY <1>1, <1>2, <1>3, <1>4

LEMMA OnTransferSound ==
  ASSUME NEW d, DeviceSound(d), NEW event
  PROVE  DeviceSound(OnTransferEventReceived(d, event).device)
<1>1. DeviceSound(OnInterruptCompleted(d, event.ep).device)
  <2>1. PICK t : t = IF d.drivers[Number(event.ep)] = "keyboard" THEN KeysTold(d) ELSE MovesTold(d)
    OBVIOUS
  <2>2. PICK e : e = [d EXCEPT !.told = t, !.previous = d.report]
    OBVIOUS
  <2>3. DeviceSound(e)
    BY <2>2 DEF DeviceSound
  <2>4. DeviceSound(InterruptIn(e))
    BY <2>3, SameEndpointsAfter, SoundAsBefore
  <2>5. OnInterruptCompleted(d, event.ep).device \in {d, InterruptIn(e)}
    BY <2>1, <2>2 DEF OnInterruptCompleted, Ok, Fails
  <2> QED
    BY <2>4, <2>5
<1>2. PICK e : e = [d EXCEPT !.setups = Delete(@, event.at)]
  OBVIOUS
<1>3. DeviceSound(e)
  BY <1>2 DEF DeviceSound
<1>4. DeviceSound(OnControlCompleted(e, SetupOf(d, event).setup).device)
  BY <1>3, OnControlCompletedSound
<1>5. \/ OnTransferEventReceived(d, event).device = d
      \/ OnTransferEventReceived(d, event) = OnInterruptCompleted(d, event.ep)
      \/ OnTransferEventReceived(d, event) = OnControlCompleted(e, SetupOf(d, event).setup)
  BY <1>2 DEF OnTransferEventReceived, Fails
<1> QED
  BY <1>1, <1>4, <1>5

\* What OnEndpointsConfigured does of endpoint i - 1.
AskOf(d, c, i) ==
  IF d.drivers[i - 1] = NoDriver THEN c
  ELSE ControlOut([c EXCEPT !.hid = 1], SetProtocol, c.drivers[Number(c.in)])

Asks(f, d) == f = [n \in 0..16 |-> IF n = 0 THEN d ELSE AskOf(d, f[n - 1], n)]

LEMMA OnConfiguredIs ==
  ASSUME NEW d
  PROVE  OnEndpointsConfigured(d) = (CHOOSE f : Asks(f, d))[16]
BY DEF OnEndpointsConfigured, Asks, AskOf

\* A device that has asked for the first n endpoints.
AsksUpTo(g, d, n) ==
  /\ g[0] = d
  /\ \A i \in Nat : 0 < i /\ i <= n => g[i] = AskOf(d, g[i - 1], i)

LEMMA AsksExist ==
  ASSUME NEW d, NEW n \in Nat
  PROVE  \E g : AsksUpTo(g, d, n)
<1> DEFINE T == {k \in Nat : \E g : AsksUpTo(g, d, k)}
<1>1. 0 \in T
  <2>1. AsksUpTo([i \in {0} |-> d], d, 0)
    BY DEF AsksUpTo
  <2> QED
    BY <2>1
<1>2. ASSUME NEW k \in T PROVE k + 1 \in T
  <2>1. PICK g : AsksUpTo(g, d, k)
    OBVIOUS
  <2>2. PICK h : h = [i \in Nat |-> IF i = k + 1 THEN AskOf(d, g[k], i) ELSE g[i]]
    OBVIOUS
  <2>3. h[0] = d
    BY <2>1, <2>2 DEF AsksUpTo
  <2>4. ASSUME NEW i \in Nat, 0 < i, i <= k + 1 PROVE h[i] = AskOf(d, h[i - 1], i)
    <3>1. i - 1 \in Nat /\ i - 1 # k + 1
      BY <2>4
    <3>2. h[i - 1] = g[i - 1]
      BY <2>2, <3>1
    <3>3. CASE i = k + 1
      BY <2>2, <3>2, <3>3
    <3>4. CASE i <= k
      BY <2>1, <2>2, <2>4, <3>2, <3>4 DEF AsksUpTo
    <3> QED
      BY <2>4, <3>3, <3>4
  <2>5. AsksUpTo(h, d, k + 1)
    BY <2>3, <2>4 DEF AsksUpTo
  <2> QED
    BY <2>5
<1>3. T = Nat
  <2>1. T \subseteq Nat
    OBVIOUS
  <2> HIDE DEF T
  <2>2. \A k \in T : k + 1 \in T
    BY <1>2
  <2> QED
    BY <1>1, <2>1, <2>2, SetInduction
<1>4. n \in T
  <2> HIDE DEF T
  <2> QED
    BY <1>3
<1> QED
  BY <1>4

LEMMA AskOfSound ==
  ASSUME NEW d, NEW c, DeviceSound(c), NEW i
  PROVE  DeviceSound(AskOf(d, c, i))
<1>1. PICK e : e = [c EXCEPT !.hid = 1]
  OBVIOUS
<1>2. DeviceSound(e)
  BY <1>1 DEF DeviceSound
<1>3. PICK issuer : issuer = c.drivers[Number(c.in)]
  OBVIOUS
<1>4. SameEndpoints(e, ControlOut(e, SetProtocol, issuer))
  BY SameEndpointsAfter
<1>5. DeviceSound(ControlOut(e, SetProtocol, issuer))
  BY <1>2, <1>4, SoundAsBefore
<1>6. AskOf(d, c, i) = c \/ AskOf(d, c, i) = ControlOut(e, SetProtocol, issuer)
  BY <1>1, <1>3 DEF AskOf
<1> QED
  BY <1>5, <1>6

LEMMA OnConfiguredSound ==
  ASSUME NEW d, DeviceSound(d)
  PROVE  DeviceSound(OnEndpointsConfigured(d))
<1>1. PICK f : f = CHOOSE c : Asks(c, d)
  OBVIOUS
<1>2. Asks(f, d)
  <2>1. PICK g : AsksUpTo(g, d, 16)
    BY AsksExist
  <2>2. PICK c : c = [n \in 0..16 |-> g[n]]
    OBVIOUS
  <2>3. ASSUME NEW n \in 0..16 PROVE c[n] = IF n = 0 THEN d ELSE AskOf(d, c[n - 1], n)
    <3>1. CASE n = 0
      BY <2>1, <2>2, <3>1 DEF AsksUpTo
    <3>2. CASE n # 0
      <4>1. n - 1 \in 0..16 /\ n \in Nat /\ 0 < n /\ n <= 16
        BY <3>2
      <4> QED
        BY <2>1, <2>2, <3>2, <4>1 DEF AsksUpTo
    <3> QED
      BY <3>1, <3>2
  <2>4. Asks(c, d)
    BY <2>2, <2>3 DEF Asks
  <2> QED
    BY <1>1, <2>4
<1>3. ASSUME NEW n \in 0..16 PROVE f[n] = IF n = 0 THEN d ELSE AskOf(d, f[n - 1], n)
  <2>1. PICK F : F = [m \in 0..16 |-> IF m = 0 THEN d ELSE AskOf(d, f[m - 1], m)]
    OBVIOUS
  <2>2. f = F
    BY <1>2, <2>1 DEF Asks
  <2>3. F[n] = IF n = 0 THEN d ELSE AskOf(d, f[n - 1], n)
    BY <2>1
  <2> QED
    BY <2>2, <2>3
<1> DEFINE T == {n \in Nat : n <= 16 => DeviceSound(f[n])}
<1>4. 0 \in T
  <2>1. f[0] = d
    BY <1>3
  <2> QED
    BY <2>1
<1>5. ASSUME NEW n \in T PROVE n + 1 \in T
  <2> SUFFICES ASSUME n + 1 <= 16 PROVE DeviceSound(f[n + 1])
    OBVIOUS
  <2>1. n + 1 \in 0..16 /\ n + 1 # 0 /\ (n + 1) - 1 = n /\ DeviceSound(f[n])
    OBVIOUS
  <2>2. f[n + 1] = AskOf(d, f[n], n + 1)
    BY <1>3, <2>1
  <2>3. DeviceSound(AskOf(d, f[n], n + 1))
    BY <2>1, AskOfSound
  <2> QED
    BY <2>2, <2>3
<1>6. T = Nat
  <2>1. T \subseteq Nat
    OBVIOUS
  <2> HIDE DEF T
  <2>2. \A n \in T : n + 1 \in T
    BY <1>5
  <2> QED
    BY <1>4, <2>1, <2>2, SetInduction
<1>7. DeviceSound(f[16])
  <2>1. 16 \in T
    <3> HIDE DEF T
    <3> QED
      BY <1>6
  <2> QED
    BY <2>1
<1> QED
  BY <1>1, <1>7, OnConfiguredIs

-----------------------------------------------------------------------------
(* The USB stack.                                                           *)

\* An event names a port or a slot that there is.
Names(e) ==
  /\ e.type = "port" => e.n \in Ports
  /\ e.type \in {"enableSlot", "transfer"} => e.n \in Slots

EventsNamed(r) == \E T : (\A e \in T : Names(e)) /\ r \in Rings(T, EventRing - 1, EventRing)

MemoryInv == cap_ \in Capabilities /\ PoolSound(pool)

PortsInv ==
  /\ addressing \in 0..NumPorts /\ boot \in Nat \ {0}
  /\ device \in [Slots -> 0..NumPorts] /\ context \in [Slots -> 0..NumPorts]
  /\ EventsNamed(er)

DevicesInv == DOMAIN dev = Slots /\ \A s \in Slots : DeviceSound(dev[s])

UsbInv == MemoryInv /\ PortsInv /\ DevicesInv

LEMMA PoppedNamed ==
  ASSUME NEW r, EventsNamed(r)
  PROVE  EventsNamed(Pop(r)) /\ Names(Front(r))
<1>1. PICK T : (\A e \in T : Names(e)) /\ r \in Rings(T, EventRing - 1, EventRing)
  BY DEF EventsNamed
<1>2. Pop(r) \in Rings(T, EventRing - 1, EventRing)
  BY <1>1, Sizes, PopTakes
<1>3. Front(r) \in T
  <2>1. r.read \in 0..EventRing - 1 /\ r.buf \in [0..EventRing - 1 -> [trb : T, cycle : BOOLEAN]]
    BY <1>1 DEF Rings
  <2> QED
    BY <2>1 DEF Front
<1> QED
  BY <1>1, <1>2, <1>3 DEF EventsNamed

LEMMA PostedNamed ==
  ASSUME NEW r, EventsNamed(r), NEW trb, Names(trb)
  PROVE  EventsNamed(Post(r, trb))
<1>1. PICK T : (\A e \in T : Names(e)) /\ r \in Rings(T, EventRing - 1, EventRing)
  BY DEF EventsNamed
<1>2. PICK U : U = T \cup {trb}
  OBVIOUS
<1>3. T \subseteq U /\ trb \in U /\ \A e \in U : Names(e)
  BY <1>1, <1>2
<1>4. r \in Rings(U, EventRing - 1, EventRing)
  BY <1>1, <1>3, RingOfMore
<1>5. Post(r, trb) \in Rings(U, EventRing - 1, EventRing)
  BY <1>3, <1>4, Sizes, PostPuts
<1> QED
  BY <1>3, <1>5 DEF EventsNamed

LEMMA PortNamed ==
  ASSUME NEW p \in Ports
  PROVE  Names(PortStatusChange(p))
BY DEF Names, PortStatusChange, Trb

LEMMA CompletionNamed ==
  ASSUME NEW cmd, NEW s, cmd.type \in {"enableSlot", "transfer"} => s \in Slots, cmd.type # "port"
  PROVE  Names(CommandCompletion(cmd, s))
BY DEF Names, CommandCompletion, Trb

LEMMA TransferNamed ==
  ASSUME NEW s \in Slots, NEW ep, NEW success
  PROVE  Names(TransferOver(s, ep, success))
BY DEF Names, TransferOver

(***************************************************************************)
(* ResetPort, and what comes of the ports in the boot and in the driver.    *)
(***************************************************************************)
LEMMA ResetNamed ==
  ASSUME PortsInv, NEW p \in Ports, NEW left, EventsNamed(left), ResetPort(p, left)
  PROVE  addressing' \in 0..NumPorts /\ EventsNamed(er')
<1>1. EventsNamed(Post(left, PortStatusChange(p)))
  BY PortNamed, PostedNamed
<1>2. p \in 0..NumPorts
  BY Sizes DEF Ports
<1>3. \/ er' = left /\ addressing' = addressing
      \/ er' \in {left, Post(left, PortStatusChange(p))} /\ addressing' = p
  BY DEF ResetPort, Reset
<1> QED
  BY <1>1, <1>2, <1>3 DEF PortsInv

LEMMA ConfigurePortNamed ==
  ASSUME PortsInv, ConfigurePort
  PROVE  PortsInv'
<1>1. boot' = boot + 1 /\ boot \in Ports /\ device' = device /\ context' = context
  BY Sizes DEF ConfigurePort, PortsInv, Ports
<1>2. CASE ResetPort(boot, er)
  BY <1>1, <1>2, ResetNamed DEF PortsInv
<1>3. CASE UNCHANGED <<addressing, er>>
  BY <1>1, <1>3 DEF PortsInv
<1> QED
  BY <1>2, <1>3 DEF ConfigurePort

LEMMA PortProgressNamed ==
  ASSUME PortsInv, PortChanged \/ EnableSlot \/ InvalidPhase \/ CompleteEnableSlot
  PROVE  PortsInv'
<1>1. EventsNamed(Left) /\ Names(Front(er))
  BY PoppedNamed DEF PortsInv, Left
<1>2. CASE PortChanged
  <2>1. Arg \in Ports /\ ResetPort(Arg, Left)
    BY <1>1, <1>2 DEF PortChanged, Arrives, Arg, Names
  <2>2. addressing' \in 0..NumPorts /\ EventsNamed(er')
    BY <1>1, <2>1, ResetNamed
  <2>3. boot' = boot /\ device' = device /\ context' = context
    BY <1>2 DEF PortChanged
  <2> QED
    BY <2>2, <2>3 DEF PortsInv
<1>3. CASE EnableSlot \/ InvalidPhase
  BY <1>1, <1>3 DEF EnableSlot, InvalidPhase, PortsInv, driverVars
<1>4. CASE CompleteEnableSlot
  <2>1. PICK s \in Slots : er' = Post(er, CommandCompletion(EnableSlotCommand, s))
    BY <1>4 DEF CompleteEnableSlot, Completes
  <2>2. Names(CommandCompletion(EnableSlotCommand, s))
    BY CompletionNamed DEF EnableSlotCommand, Trb
  <2>3. EventsNamed(er')
    BY <2>1, <2>2, PostedNamed DEF PortsInv
  <2>4. addressing' = addressing /\ boot' = boot /\ device' = device /\ context' = context
    BY <1>4 DEF CompleteEnableSlot, driverVars
  <2> QED
    BY <2>3, <2>4 DEF PortsInv
<1> QED
  BY <1>2, <1>3, <1>4

LEMMA AddressDeviceNamed ==
  ASSUME PortsInv, AddressDevice
  PROVE  PortsInv' /\ Arg \in Slots
<1>1. EventsNamed(Left) /\ Names(Front(er))
  BY PoppedNamed DEF PortsInv, Left
<1>2. Arg \in Slots
  BY <1>1 DEF AddressDevice, Arrives, Arg, Names
<1>3. /\ device' = [device EXCEPT ![Arg] = addressing] /\ er' = Left
      /\ addressing' = addressing /\ boot' = boot /\ context' = context
  BY DEF AddressDevice, RootHubPort
<1> QED
  BY <1>1, <1>2, <1>3 DEF PortsInv

LEMMA InitializeDeviceNamed ==
  ASSUME PortsInv, InitializeDevice
  PROVE  PortsInv'
<1>1. EventsNamed(Left)
  BY PoppedNamed DEF PortsInv, Left
<1>2. PICK next : next = FirstWaiting
  OBVIOUS
<1>3. CASE next # 0 /\ connected[next]
  <2>1. next \in Ports
    BY <1>2, <1>3, FirstWaitingWaits DEF WaitingPorts
  <2>2. EventsNamed(Post(Left, PortStatusChange(next)))
    BY <1>1, <2>1, PortNamed, PostedNamed
  <2>3. /\ addressing' = next /\ er' \in {Left, Post(Left, PortStatusChange(next))}
        /\ boot' = boot /\ device' = device /\ context' = context
    BY <1>2, <1>3 DEF InitializeDevice
  <2> QED
    BY <1>1, <2>1, <2>2, <2>3, Sizes DEF PortsInv, Ports
<1>4. CASE ~(next # 0 /\ connected[next])
  <2>1. /\ addressing' = 0 /\ er' = Left
        /\ boot' = boot /\ device' = device /\ context' = context
    BY <1>2, <1>4 DEF InitializeDevice
  <2> QED
    BY <1>1, <2>1, Sizes DEF PortsInv
<1> QED
  BY <1>3, <1>4

LEMMA CommandNamed ==
  ASSUME PortsInv, CompleteAddressDevice \/ CompleteConfigureEndpoint
  PROVE  PortsInv'
<1>1. PICK cmd : cmd = Front(cr)
  OBVIOUS
<1>2. /\ cmd.type \in {"addressDevice", "configureEndpoint"}
      /\ er' = Post(er, CommandCompletion(cmd, cmd.n))
      /\ addressing' = addressing /\ boot' = boot /\ device' = device
  BY <1>1 DEF CompleteAddressDevice, CompleteConfigureEndpoint, Requested, Completes, driverVars
<1>3. Names(CommandCompletion(cmd, cmd.n))
  BY <1>2, CompletionNamed
<1>4. EventsNamed(er')
  BY <1>2, <1>3, PostedNamed DEF PortsInv
<1>5. context' = context \/ context' = [context EXCEPT ![cmd.n] = device[cmd.n]]
  BY <1>1 DEF CompleteAddressDevice, CompleteConfigureEndpoint
<1>6. context' \in [Slots -> 0..NumPorts]
  BY <1>5 DEF PortsInv
<1> QED
  BY <1>2, <1>4, <1>6 DEF PortsInv

\* One device changes.
LEMMA OneDevice ==
  ASSUME DevicesInv, NEW s, NEW d, s \in Slots => DeviceSound(d), dev' = [dev EXCEPT ![s] = d]
  PROVE  DevicesInv'
<1>1. DOMAIN dev' = Slots
  BY DEF DevicesInv
<1>2. ASSUME NEW t \in Slots PROVE DeviceSound(dev'[t])
  <2>1. dev'[t] = IF t = s THEN d ELSE dev[t]
    BY DEF DevicesInv
  <2> QED
    BY <2>1 DEF DevicesInv
<1> QED
  BY <1>1, <1>2 DEF DevicesInv

LEMMA AllocatesSound ==
  ASSUME MemoryInv, NEW list \in Seq(Requests), Allocates(list)
  PROVE  MemoryInv'
<1>1. PoolSound(AllocAll(pool, list))
  BY AllocAllSound DEF MemoryInv
<1> QED
  BY <1>1 DEF Allocates, MemoryInv

LEMMA MakeDeviceSound ==
  ASSUME UsbInv, MakeDevice
  PROVE  UsbInv'
<1>1. PortsInv' /\ Arg \in Slots
  BY AddressDeviceNamed DEF MakeDevice, UsbInv
<1>2. MemoryInv'
  BY AllocatesSound, ListsAsked DEF MakeDevice, UsbInv
<1>3. PICK speed : speed = IF connected[addressing] THEN Speed[addressing] ELSE 0
  OBVIOUS
<1>4. dev' = [dev EXCEPT ![Arg] = NewDevice(speed)]
  BY <1>3 DEF MakeDevice
<1>5. DevicesInv'
  BY <1>4, NewDeviceSound, OneDevice DEF UsbInv
<1> QED
  BY <1>1, <1>2, <1>5 DEF UsbInv

LEMMA StartDeviceSound ==
  ASSUME UsbInv, StartDevice \/ ConfigureDevice
  PROVE  UsbInv'
<1>1. PICK d : d = dev[Arg]
  OBVIOUS
<1>2. dev' = [dev EXCEPT ![Arg] = StartInitialize(d)] \/ dev' = [dev EXCEPT ![Arg] = OnEndpointsConfigured(d)]
  BY <1>1 DEF StartDevice, ConfigureDevice
<1>3. Arg \in Slots => DeviceSound(d)
  BY <1>1 DEF UsbInv, DevicesInv
<1>4. Arg \in Slots => DeviceSound(StartInitialize(d)) /\ DeviceSound(OnEndpointsConfigured(d))
  BY <1>3, SameEndpointsAfter, SoundAsBefore, OnConfiguredSound
<1>5. DevicesInv'
  BY <1>2, <1>4, OneDevice DEF UsbInv
<1>6. PortsInv'
  <2>1. CASE StartDevice
    BY <2>1, InitializeDeviceNamed DEF StartDevice, UsbInv
  <2>2. CASE ConfigureDevice
    <3>1. EventsNamed(Left)
      BY PoppedNamed DEF UsbInv, PortsInv, Left
    <3> QED
      BY <2>2, <3>1 DEF ConfigureDevice, CompleteConfiguration, UsbInv, PortsInv
  <2> QED
    BY <2>1, <2>2
<1>7. MemoryInv'
  BY DEF StartDevice, ConfigureDevice, bootVars, UsbInv, MemoryInv
<1> QED
  BY <1>5, <1>6, <1>7 DEF UsbInv

LEMMA TransferEventSound ==
  ASSUME UsbInv, TransferEvent
  PROVE  UsbInv'
<1>1. EventsNamed(Left) /\ Names(Front(er))
  BY PoppedNamed DEF UsbInv, PortsInv, Left
<1>2. Arg \in Slots
  BY <1>1 DEF TransferEvent, Arrives, Arg, Names
<1>3. PortsInv'
  BY <1>1 DEF TransferEvent, UsbInv, PortsInv
<1>4. PICK s, d : s = Arg /\ d = dev[s]
  OBVIOUS
<1>5. DeviceSound(d)
  BY <1>2, <1>4 DEF UsbInv, DevicesInv
<1>6. PICK res : res = OnTransferEventReceived(d, Front(er))
  OBVIOUS
<1>7. DeviceSound(res.device)
  BY <1>5, <1>6, OnTransferSound
<1>8. PICK speed : speed = Speed[context[s]]
  OBVIOUS
<1>9. PICK e, c : e = ConfigureContext(res.device, speed) /\ c = ClearedContext(res.device)
  OBVIOUS
<1>10. DeviceSound(e) /\ DeviceSound(c)
  BY <1>7, <1>9, SameEndpointsAfter, SoundAsBefore
<1>11. DeviceSound(AllocTransferRings(e))
  BY <1>10, SameEndpointsAfter, SoundAsBefore
<1>12. PICK list : list = IF connected[context[s]] THEN RingsOf(res.device.eps) ELSE <<>>
  OBVIOUS
<1>13. PICK driver : driver = IF d.init = 2 /\ res.device.init = 3 THEN <<DriverBlock>> ELSE <<>>
  OBVIOUS
<1>14. list \in Seq(Requests) /\ driver \in Seq(Requests)
  <2>1. RingsOf(res.device.eps) \in Seq(Requests)
    BY <1>7, RingsAsked DEF DeviceSound
  <2> QED
    BY <2>1, <1>12, <1>13, ListsAsked
<1>15. \/ /\ dev' = [dev EXCEPT ![s] = IF connected[context[s]] THEN AllocTransferRings(e) ELSE c]
          /\ Allocates(list)
       \/ dev' = [dev EXCEPT ![s] = res.device] /\ Allocates(driver)
  BY <1>4, <1>6, <1>8, <1>9, <1>12, <1>13 DEF TransferEvent
<1>16. MemoryInv'
  BY <1>14, <1>15, AllocatesSound DEF UsbInv
<1>17. PICK a : a = IF connected[context[s]] THEN AllocTransferRings(e) ELSE c
  OBVIOUS
<1>18. DeviceSound(a) /\ (dev' = [dev EXCEPT ![s] = a] \/ dev' = [dev EXCEPT ![s] = res.device])
  BY <1>10, <1>11, <1>15, <1>17
<1>19. DevicesInv'
  BY <1>7, <1>18, OneDevice DEF UsbInv
<1> QED
  BY <1>3, <1>16, <1>19 DEF UsbInv

LEMMA CommandCompletedSound ==
  ASSUME UsbInv, CommandCompleted
  PROVE  UsbInv'
<1>1. PortsInv'
  BY CommandNamed DEF CommandCompleted, UsbInv
<1>2. MemoryInv'
  BY DEF CommandCompleted, bootVars, UsbInv, MemoryInv
<1>3. PICK s : s = Front(cr).n
  OBVIOUS
<1>4. CASE dev' = dev
  BY <1>1, <1>2, <1>4 DEF UsbInv, DevicesInv
<1>5. CASE dev' # dev
  <2>1. PICK a : dev' = [dev EXCEPT ![s].active = a]
    BY <1>3, <1>5 DEF CommandCompleted, TakesContext
  <2>2. PICK d : d = [dev[s] EXCEPT !.active = a]
    OBVIOUS
  <2>3. dev' = [dev EXCEPT ![s] = d]
    BY <2>1, <2>2
  <2>4. s \in Slots => DeviceSound(d)
    BY <2>2 DEF UsbInv, DevicesInv, DeviceSound
  <2> QED
    BY <1>1, <1>2, <2>3, <2>4, OneDevice DEF UsbInv
<1> QED
  BY <1>4, <1>5

LEMMA FetchesSound ==
  ASSUME DevicesInv, NEW s \in Slots, NEW ep, NEW d, DeviceSound(d), Fetches(s, ep, d)
  PROVE  DevicesInv'
<1>1. PICK rest, rung : rest = Fetched(d.rings[ep]) /\ rung = IF HasFront(rest) THEN d.rung ELSE d.rung \ {ep}
  OBVIOUS
<1>2. PICK e : e = [d EXCEPT !.rings[ep] = rest, !.rung = rung]
  OBVIOUS
<1>3. dev' = [dev EXCEPT ![s] = e]
  BY <1>1, <1>2 DEF Fetches
<1>4. DeviceSound(e)
  BY <1>2 DEF DeviceSound
<1> QED
  BY <1>3, <1>4, OneDevice

\* An event of a transfer, or none.
LEMMA TransferPosted ==
  ASSUME PortsInv, NEW s \in Slots, NEW ep, NEW success,
         er' = er \/ er' = Post(er, TransferOver(s, ep, success)),
         UNCHANGED <<addressing, boot, device, context>>
  PROVE  PortsInv'
<1>1. EventsNamed(Post(er, TransferOver(s, ep, success)))
  BY TransferNamed, PostedNamed DEF PortsInv
<1> QED
  BY <1>1 DEF PortsInv

LEMMA ExecuteControlSound ==
  ASSUME UsbInv, NEW s \in Slots, ExecuteControl(s)
  PROVE  UsbInv'
<1>1. MemoryInv'
  BY DEF ExecuteControl, bootVars, UsbInv, MemoryInv
<1>2. PortsInv'
  <2>1. er' = er \/ er' = Post(er, TransferOver(s, ControlPipe, TRUE))
    BY DEF ExecuteControl
  <2>2. UNCHANGED <<addressing, boot, device, context>>
    BY DEF ExecuteControl, driverVars
  <2> QED
    BY <2>1, <2>2, TransferPosted DEF UsbInv
<1>3. PICK p, d, trb : p = PortOf(s) /\ d = dev[s] /\ trb = NextTrb(s, ControlPipe)
  OBVIOUS
<1>4. DeviceSound(d)
  BY <1>3 DEF UsbInv, DevicesInv
<1>5. p \in Ports
  <2>1. p # 0 /\ p \in 0..NumPorts
    BY <1>3 DEF ExecuteControl, Executes, PortOf, UsbInv, PortsInv
  <2> QED
    BY <2>1, Sizes DEF Ports
<1>6. PICK asked, data : asked = trb.setup /\ data = DescriptorsOf(p, d.asked)
  OBVIOUS
<1>7. PICK c, e : c = [d EXCEPT !.asked = asked] /\ e = [d EXCEPT !.buf = data]
  OBVIOUS
<1>8. DeviceSound(c)
  BY <1>4, <1>7 DEF DeviceSound
<1>9. WellFormed(data)
  <2>1. WellFormed(Configuration[p])
    BY <1>5, UsbAssumption DEF WellFormed
  <2>2. WellFormed(<<DeviceDescriptor>>)
    <3>1. PICK x : x = DeviceDescriptor
      OBVIOUS
    <3>2. x.type = "device"
      BY <3>1 DEF DeviceDescriptor
    <3>3. WellFormed(<<x>>)
      BY <3>2 DEF WellFormed
    <3> QED
      BY <3>1, <3>3
  <2> QED
    BY <1>6, <2>1, <2>2 DEF DescriptorsOf
<1>10. DeviceSound(e)
  BY <1>4, <1>7, <1>9 DEF DeviceSound
<1>11. Fetches(s, ControlPipe, c) \/ Fetches(s, ControlPipe, e) \/ Fetches(s, ControlPipe, d)
  BY <1>3, <1>6, <1>7 DEF ExecuteControl
<1>12. DevicesInv'
  BY <1>4, <1>8, <1>10, <1>11, FetchesSound DEF UsbInv
<1> QED
  BY <1>1, <1>2, <1>12 DEF UsbInv

LEMMA ExecuteInterruptSound ==
  ASSUME UsbInv, NEW s \in Slots, ExecuteInterrupt(s)
  PROVE  UsbInv'
<1>1. MemoryInv'
  BY DEF ExecuteInterrupt, bootVars, UsbInv, MemoryInv
<1>2. PICK p, ep : p = PortOf(s) /\ ep = ReportsAt[p]
  OBVIOUS
<1>3. PortsInv'
  <2>1. er' = Post(er, TransferOver(s, ep, TRUE))
    BY <1>2 DEF ExecuteInterrupt
  <2>2. UNCHANGED <<addressing, boot, device, context>>
    BY DEF ExecuteInterrupt, driverVars
  <2> QED
    BY <2>1, <2>2, TransferPosted DEF UsbInv
<1>4. PICK report : report = IF Kind(p) = "mouse" THEN input[p] \ sent[p] ELSE input[p]
  OBVIOUS
<1>5. PICK d : d = [dev[s] EXCEPT !.report = report]
  OBVIOUS
<1>6. Fetches(s, ep, d)
  BY <1>2, <1>4, <1>5 DEF ExecuteInterrupt
<1>7. DeviceSound(d)
  BY <1>5 DEF UsbInv, DevicesInv, DeviceSound
<1>8. DevicesInv'
  BY <1>6, <1>7, FetchesSound DEF UsbInv
<1> QED
  BY <1>1, <1>3, <1>8 DEF UsbInv

LEMMA FailTransferSound ==
  ASSUME UsbInv, NEW s \in Slots, FailTransfer(s)
  PROVE  UsbInv'
<1>1. MemoryInv'
  BY DEF FailTransfer, bootVars, UsbInv, MemoryInv
<1>2. PICK ep : /\ dev' = [dev EXCEPT ![s].halted = @ \cup {ep}]
                /\ er' = Post(er, TransferOver(s, ep, FALSE))
  BY DEF FailTransfer
<1>3. PortsInv'
  <2>1. UNCHANGED <<addressing, boot, device, context>>
    BY DEF FailTransfer, driverVars
  <2> QED
    BY <1>2, <2>1, TransferPosted DEF UsbInv
<1>4. PICK d : d = [dev[s] EXCEPT !.halted = @ \cup {ep}]
  OBVIOUS
<1>5. dev' = [dev EXCEPT ![s] = d]
  BY <1>2, <1>4
<1>6. DeviceSound(d)
  BY <1>4 DEF UsbInv, DevicesInv, DeviceSound
<1>7. DevicesInv'
  BY <1>5, <1>6, OneDevice DEF UsbInv
<1> QED
  BY <1>1, <1>3, <1>7 DEF UsbInv

LEMMA BootSound ==
  ASSUME MemoryInv, Boot
  PROVE  MemoryInv'
<1>1. cap_' = cap_
  BY DEF Boot, InitializePCI, FindXhc, RequestHCOwnership, Stop, ResetController, SetUp, Run,
         BiosReleases, Proceeds
<1>2. CASE RequestHCOwnership
  <2>1. PoolSound(AllocAll(pool, <<Devices_, DeviceContexts>>))
    BY ListsAsked, AllocAllSound DEF MemoryInv
  <2> QED
    BY <1>1, <1>2, <2>1 DEF RequestHCOwnership, MemoryInv
<1>3. CASE SetUp
  <2>1. PICK left : left = AllocAll(pool, ScratchpadBlocks(MaxScratchpadBuffers))
    OBVIOUS
  <2>2. MaxScratchpadBuffers \in Nat
    BY BootAssumption DEF MemoryInv, MaxScratchpadBuffers
  <2>3. PoolSound(left)
    BY <2>1, <2>2, ScratchpadsAsked, AllocAllSound DEF MemoryInv
  <2>4. PoolSound(AllocAll(left, RingTables))
    BY <2>3, ListsAsked, AllocAllSound
  <2>5. pool' = left \/ pool' = AllocAll(left, RingTables)
    BY <1>3, <2>1 DEF SetUp
  <2> QED
    BY <1>1, <2>3, <2>4, <2>5 DEF MemoryInv
<1>4. CASE pool' = pool
  BY <1>1, <1>4 DEF MemoryInv
<1> QED
  BY <1>2, <1>3, <1>4 DEF Boot, InitializePCI, FindXhc, Stop, ResetController, Run, BiosReleases, Proceeds

LEMMA UsbInitSound ==
  ASSUME UsbInit
  PROVE  UsbInv
<1>1. MemoryInv
  <2>1. cap_ \in Capabilities /\ pool = EmptyPool
    BY DEF UsbInit, BootInit
  <2>2. PoolSound(EmptyPool)
    BY UsbMemoryAssumption, FS_EmptySet DEF EmptyPool, PoolSound, BlocksApart
  <2> QED
    BY <2>1, <2>2 DEF MemoryInv
<1>2. PortsInv
  <2>1. Init
    BY DEF UsbInit
  <2>2. PICK n, order : FoundAs(n, order)
    BY <2>1, EventsFound
  <2>3. er \in Rings(PortTrbs \cup {Zeroed.trb}, EventRing - 1, EventRing)
    BY <2>2 DEF FoundAs
  <2>4. \A e \in PortTrbs \cup {Zeroed.trb} : Names(e)
    BY DEF PortTrbs, Zeroed, Names
  <2>5. EventsNamed(er)
    BY <2>3, <2>4 DEF EventsNamed
  <2>6. addressing = 0 /\ boot = 1 /\ device = [s \in Slots |-> 0] /\ context = [s \in Slots |-> 0]
    BY <2>1 DEF Init, FirstPort
  <2> QED
    BY <2>5, <2>6, Sizes DEF PortsInv
<1>3. DevicesInv
  <2>1. dev = [s \in Slots |-> NewDevice(0)]
    BY DEF UsbInit
  <2> QED
    BY <2>1, NewDeviceSound DEF DevicesInv
<1> QED
  BY <1>1, <1>2, <1>3 DEF UsbInv

LEMMA UsbStepSound ==
  ASSUME UsbInv, [UsbNext]_usbVars
  PROVE  UsbInv'
<1>1. CASE Boot /\ UNCHANGED <<vars, deviceVars>>
  BY <1>1, BootSound DEF UsbInv, PortsInv, DevicesInv, vars, driverVars, deviceVars
<1>2. CASE PortProgress
  <2>1. PortsInv'
    BY <1>2, ConfigurePortNamed, PortProgressNamed DEF PortProgress, UsbInv
  <2> QED
    BY <1>2, <2>1 DEF PortProgress, bootVars, deviceVars, UsbInv, MemoryInv, DevicesInv
<1>3. CASE CommandCompleted
  BY <1>3, CommandCompletedSound
<1>4. CASE Driver
  BY <1>4, MakeDeviceSound, StartDeviceSound, TransferEventSound DEF Driver
<1>5. CASE \E s \in Slots : ExecuteControl(s) \/ ExecuteInterrupt(s) \/ FailTransfer(s)
  BY <1>5, ExecuteControlSound, ExecuteInterruptSound, FailTransferSound
<1>6. CASE \E p \in Ports, i \in Inputs : Use(p, i)
  <2>1. UNCHANGED <<vars, bootVars, dev>>
    BY <1>6 DEF Use
  <2> QED
    BY <2>1 DEF UsbInv, MemoryInv, PortsInv, DevicesInv, vars, driverVars, bootVars
<1>7. CASE UNCHANGED usbVars
  BY <1>7 DEF UsbInv, MemoryInv, PortsInv, DevicesInv, usbVars, vars, driverVars, bootVars, deviceVars
<1> QED
  BY <1>1, <1>2, <1>3, <1>4, <1>5, <1>6, <1>7 DEF UsbNext

(***************************************************************************)
(* AllocMem never gives memory twice, or outside of the pool, or across a   *)
(* boundary, whatever the controller says of itself, whatever is plugged in,*)
(* and however often the driver is asked for memory.                        *)
(***************************************************************************)
THEOREM BlocksStayApart == UsbSpec => []PoolOK
<1>1. UsbInit => UsbInv
  BY UsbInitSound
<1>2. UsbInv /\ [UsbNext]_usbVars => UsbInv'
  BY UsbStepSound
<1>3. UsbInv => PoolOK
  BY DEF UsbInv, MemoryInv, PoolSound, PoolOK
<1> QED
  BY <1>1, <1>2, <1>3, PTL DEF UsbSpec

-----------------------------------------------------------------------------
(* The boot of the controller: what the driver allocates for it.            *)

\* One block that is given, and room for the next.
LEMMA Given ==
  ASSUME NEW p, PoolSound(p), NEW b \in Requests, NEW r, r = AllocMem(p, b),
         p.next + b.alignment + b.boundary + b.size <= PoolBase + PoolSize
  PROVE  /\ PoolSound(r) /\ p.blocks \subseteq r.blocks
         /\ [at |-> Place(p, b), as |-> b] \in r.blocks
         /\ r.next <= p.next + b.alignment + b.boundary + b.size
<1>1. PICK q : q = Place(p, b)
  OBVIOUS
<1>2. p.next \in Nat
  BY DEF PoolSound
<1>3. q \in Nat /\ q <= p.next + b.alignment + b.boundary
  BY <1>1, <1>2, PlaceFacts
<1>4. b.size \in Nat /\ b.alignment \in Nat /\ b.boundary \in Nat
  BY DEF Requests, Alignments, Boundaries
<1>5. PoolBase \in Nat /\ PoolSize \in Nat
  BY UsbMemoryAssumption DEF PoolSize
<1>6. q + b.size <= PoolBase + PoolSize
  BY <1>2, <1>3, <1>4, <1>5
<1> QED
  BY <1>1, <1>6, AllocMemSound

LEMMA Beginnings ==
  ASSUME NEW a \in Requests, NEW b \in Requests, NEW c \in Requests
  PROVE  /\ SubSeq(<<a>>, 1, 1) = <<a>> /\ SubSeq(<<a>>, 1, 0) = <<>>
         /\ SubSeq(<<a, b>>, 1, 2) = <<a, b>> /\ SubSeq(<<a, b>>, 1, 1) = <<a>>
         /\ SubSeq(<<a, b, c>>, 1, 3) = <<a, b, c>> /\ SubSeq(<<a, b, c>>, 1, 2) = <<a, b>>
         /\ SubSeq(<<a, b, c>>, 1, 0) = <<>>
<1>1. ASSUME NEW s \in Seq(Requests) PROVE SubSeq(s, 1, Len(s)) = s /\ SubSeq(s, 1, 0) = <<>>
  OBVIOUS
<1>2. PICK s, t : s = <<a, b>> /\ t = SubSeq(s, 1, 1)
  OBVIOUS
<1>3. s \in Seq(Requests) /\ Len(s) = 2
  BY <1>2
<1>4. t \in Seq(Requests) /\ Len(t) = 1 /\ t[1] = a
  BY <1>2, <1>3
<1>5. t = <<a>>
  BY <1>4
<1>6. PICK u, v : u = <<a, b, c>> /\ v = SubSeq(u, 1, 2)
  OBVIOUS
<1>7. u \in Seq(Requests) /\ Len(u) = 3
  BY <1>6
<1>8. v \in Seq(Requests) /\ Len(v) = 2 /\ v[1] = a /\ v[2] = b
  BY <1>6, <1>7
<1>9. v = <<a, b>>
  BY <1>8
<1>10. <<a>> \in Seq(Requests) /\ Len(<<a>>) = 1
  OBVIOUS
<1>11. SubSeq(<<a>>, 1, 1) = <<a>> /\ SubSeq(<<a>>, 1, 0) = <<>>
  BY <1>1, <1>10
<1>12. SubSeq(<<a, b>>, 1, 2) = <<a, b>> /\ SubSeq(<<a, b>>, 1, 1) = <<a>>
  BY <1>1, <1>2, <1>3, <1>5
<1>13. SubSeq(u, 1, 3) = u /\ SubSeq(u, 1, 0) = <<>>
  BY <1>1, <1>7
<1> QED
  BY <1>6, <1>9, <1>11, <1>12, <1>13

LEMMA ListOfOne ==
  ASSUME NEW p, NEW a \in Requests
  PROVE  AllocAll(p, <<a>>) = AllocMem(p, a) /\ AddressOf(p, <<a>>, 1) = Place(p, a)
<1>1. PICK s : s = <<a>>
  OBVIOUS
<1>2. s \in Seq(Requests) /\ Len(s) = 1 /\ s[1] = a /\ 1 \in 1..Len(s)
  BY <1>1
<1>3. SubSeq(<<a>>, 1, 1) = <<a>> /\ SubSeq(<<a>>, 1, 0) = <<>> 
  BY Beginnings, Zenon
<1>4. 1 - 1 = 0
  OBVIOUS
<1>5. SubSeq(s, 1, 1) = s /\ SubSeq(s, 1, 1 - 1) = <<>>
  BY <1>3, <1>1, <1>4
<1>6. AllocAll(p, SubSeq(s, 1, 1)) = AllocMem(AllocAll(p, SubSeq(s, 1, 1 - 1)), s[1])
  BY <1>2, AllocNext
<1>7. AllocAll(p, <<>>) = p
  BY AllocNothing
<1> QED
  BY <1>1, <1>2, <1>5, <1>6, <1>7 DEF AddressOf

LEMMA ListOfTwo ==
  ASSUME NEW p, NEW a \in Requests, NEW b \in Requests
  PROVE  /\ AllocAll(p, <<a, b>>) = AllocMem(AllocMem(p, a), b)
         /\ AddressOf(p, <<a, b>>, 2) = Place(AllocMem(p, a), b)
<1>1. PICK s : s = <<a, b>>
  OBVIOUS
<1>2. s \in Seq(Requests) /\ Len(s) = 2 /\ s[2] = b /\ 2 \in 1..Len(s)
  BY <1>1
<1>3. SubSeq(<<a, b>>, 1, 2) = <<a, b>> /\ SubSeq(<<a, b>>, 1, 1) = <<a>>
  BY Beginnings, Zenon
<1>4. 2 - 1 = 1
  OBVIOUS
<1>5. SubSeq(s, 1, 2) = s /\ SubSeq(s, 1, 2 - 1) = <<a>>
  BY <1>3, <1>1, <1>4
<1>6. AllocAll(p, SubSeq(s, 1, 2)) = AllocMem(AllocAll(p, SubSeq(s, 1, 2 - 1)), s[2])
  BY <1>2, AllocNext
<1> QED
  BY <1>1, <1>2, <1>5, <1>6, ListOfOne DEF AddressOf

LEMMA ListOfThree ==
  ASSUME NEW p, NEW a \in Requests, NEW b \in Requests, NEW c \in Requests
  PROVE  /\ AllocAll(p, <<a, b, c>>) = AllocMem(AllocMem(AllocMem(p, a), b), c)
         /\ AddressOf(p, <<a, b, c>>, 1) = Place(p, a)
         /\ AddressOf(p, <<a, b, c>>, 2) = Place(AllocMem(p, a), b)
         /\ AddressOf(p, <<a, b, c>>, 3) = Place(AllocMem(AllocMem(p, a), b), c)
<1>1. PICK s : s = <<a, b, c>>
  OBVIOUS
<1>2. s \in Seq(Requests) /\ Len(s) = 3 /\ s[1] = a /\ s[2] = b /\ s[3] = c /\ 3 \in 1..Len(s)
  BY <1>1
<1>3. /\ SubSeq(<<a, b, c>>, 1, 3) = <<a, b, c>> /\ SubSeq(<<a, b, c>>, 1, 2) = <<a, b>>
      /\ SubSeq(<<a, b, c>>, 1, 0) = <<>>
  BY Beginnings, Zenon
<1>4. 3 - 1 = 2 /\ 1 - 1 = 0 /\ 2 - 1 = 1
  OBVIOUS
<1>5. SubSeq(s, 1, 3) = s /\ SubSeq(s, 1, 3 - 1) = <<a, b>> /\ SubSeq(s, 1, 1 - 1) = <<>>
  BY <1>3, <1>1, <1>4
<1>6. SubSeq(s, 1, 2 - 1) = <<a>>
  <2>1. PICK t : t = SubSeq(s, 1, 1)
    OBVIOUS
  <2>2. t \in Seq(Requests) /\ Len(t) = 1 /\ t[1] = a
    BY <1>2, <2>1
  <2>3. t = <<a>>
    BY <2>2
  <2> QED
    BY <1>4, <2>1, <2>3
<1>7. AllocAll(p, SubSeq(s, 1, 3)) = AllocMem(AllocAll(p, SubSeq(s, 1, 3 - 1)), s[3])
  BY <1>2, AllocNext
<1>8. AllocAll(p, <<a, b>>) = AllocMem(AllocMem(p, a), b) /\ AllocAll(p, <<a>>) = AllocMem(p, a) /\ AllocAll(p, <<>>) = p
  BY ListOfOne, ListOfTwo, AllocNothing
<1> QED
  BY <1>1, <1>2, <1>5, <1>6, <1>7, <1>8 DEF AddressOf

\* The pool after DeviceManager::Initialize.
Begun == AllocAll(EmptyPool, <<Devices_, DeviceContexts>>)

LEMMA EmptySound == PoolSound(EmptyPool)
BY UsbMemoryAssumption, FS_EmptySet DEF EmptyPool, PoolSound, BlocksApart

LEMMA BegunWell ==
  /\ PoolSound(Begun)
  /\ [at |-> DeviceContextsAt, as |-> DeviceContexts] \in Begun.blocks
  /\ Begun.next <= PoolBase + 9 + 529
<1>1. PICK a, b, e : a = Devices_ /\ b = DeviceContexts /\ e = EmptyPool
  OBVIOUS
<1>2. /\ a \in Requests /\ a.size = 9 /\ a.alignment = 0 /\ a.boundary = 0
      /\ b \in Requests /\ b.size = 9 /\ b.alignment = 8 /\ b.boundary = 512
  BY <1>1 DEF Devices_, DeviceContexts, Block, Requests, Alignments, Boundaries
<1>3. e.next = PoolBase /\ PoolBase \in Nat /\ PoolSize = 16384
  BY <1>1, UsbMemoryAssumption DEF EmptyPool, PoolSize
<1>4. PICK f : f = AllocMem(e, a)
  OBVIOUS
<1>5. PoolSound(f) /\ f.next <= PoolBase + 9 /\ f.next \in Nat
  <2>1. PoolSound(e)
    BY <1>1, EmptySound
  <2>2. e.next + a.alignment + a.boundary + a.size <= PoolBase + PoolSize
    BY <1>2, <1>3
  <2>3. PoolSound(f) /\ f.next <= e.next + a.alignment + a.boundary + a.size
    BY <1>2, <1>4, <2>1, <2>2, Given
  <2> QED
    BY <1>2, <1>3, <2>3 DEF PoolSound
<1>6. PICK g : g = AllocMem(f, b)
  OBVIOUS
<1>7. /\ PoolSound(g) /\ [at |-> Place(f, b), as |-> b] \in g.blocks
      /\ g.next <= f.next + b.alignment + b.boundary + b.size
  <2>1. f.next + b.alignment + b.boundary + b.size <= PoolBase + PoolSize
    BY <1>2, <1>3, <1>5
  <2> QED
    BY <1>2, <1>5, <1>6, <2>1, Given
<1>8. AllocAll(e, <<a, b>>) = g /\ AddressOf(e, <<a, b>>, 2) = Place(f, b)
  BY <1>2, <1>4, <1>6, ListOfTwo
<1>9. Begun = g /\ DeviceContextsAt = Place(f, b)
  BY <1>1, <1>8 DEF Begun, DeviceContextsAt
<1>10. g.next \in Nat
  BY <1>7 DEF PoolSound
<1> QED
  BY <1>1, <1>2, <1>3, <1>5, <1>7, <1>9, <1>10

\* The pool grows by the block or not at all.
LEMMA GrowsByOne ==
  ASSUME NEW p, PoolSound(p), NEW b \in Requests, NEW r, r = AllocMem(p, b)
  PROVE  /\ PoolSound(r) /\ p.blocks \subseteq r.blocks
         /\ Cardinality(r.blocks) \in Nat /\ Cardinality(p.blocks) \in Nat
         /\ Cardinality(r.blocks) <= Cardinality(p.blocks) + 1
         /\ Cardinality(r.blocks) = Cardinality(p.blocks) + 1 => [at |-> Place(p, b), as |-> b] \in r.blocks
<1>1. PICK x : x = [at |-> Place(p, b), as |-> b]
  OBVIOUS
<1>2. /\ PoolSound(r) /\ p.blocks \subseteq r.blocks
      /\ r.blocks = p.blocks \/ (r.blocks = p.blocks \cup {x} /\ x \notin p.blocks)
  BY <1>1, AllocMemSound
<1>3. IsFiniteSet(p.blocks) /\ Cardinality(p.blocks) \in Nat
  BY FS_CardinalityType DEF PoolSound
<1>4. CASE r.blocks = p.blocks
  <2>1. Cardinality(r.blocks) = Cardinality(p.blocks)
    BY <1>4
  <2> QED
    BY <1>2, <1>3, <2>1
<1>5. CASE r.blocks = p.blocks \cup {x} /\ x \notin p.blocks
  <2>1. Cardinality(r.blocks) = Cardinality(p.blocks) + 1
    BY <1>3, <1>5, FS_AddElement
  <2> QED
    BY <1>1, <1>2, <1>3, <1>5, <2>1
<1> QED
  BY <1>2, <1>4, <1>5

\* When all three have found room, each of them has, and the two rings are two.
LEMMA RingsFit ==
  ASSUME NEW p, PoolSound(p), AllFit(p, RingTables), NEW r, r = AllocAll(p, RingTables)
  PROVE  /\ PoolSound(r) /\ p.blocks \subseteq r.blocks
         /\ [at |-> AddressOf(p, RingTables, 1), as |-> RingBuffer] \in r.blocks
         /\ [at |-> AddressOf(p, RingTables, 2), as |-> RingBuffer] \in r.blocks
         /\ [at |-> AddressOf(p, RingTables, 3), as |-> SegmentTable] \in r.blocks
         /\ AddressOf(p, RingTables, 1) # AddressOf(p, RingTables, 2)
<1>1. PICK a, c : a = RingBuffer /\ c = SegmentTable
  OBVIOUS
<1>2. a \in Requests /\ c \in Requests /\ a.size \in Nat \ {0}
  BY <1>1, BlocksAsked DEF Requests
<1>3. PICK t : t = <<a, a, c>>
  OBVIOUS
<1>4. RingTables = t /\ Len(t) = 3
  BY <1>1, <1>3 DEF RingTables
<1>5. PICK u, v, w : u = AllocMem(p, a) /\ v = AllocMem(u, a) /\ w = AllocMem(v, c)
  OBVIOUS
<1>6. PICK i, j, k : i = Place(p, a) /\ j = Place(u, a) /\ k = Place(v, c)
  OBVIOUS
<1>7. /\ AllocAll(p, t) = w
      /\ AddressOf(p, t, 1) = i /\ AddressOf(p, t, 2) = j /\ AddressOf(p, t, 3) = k
  BY <1>2, <1>3, <1>5, <1>6, ListOfThree
<1>8. /\ PoolSound(u) /\ p.blocks \subseteq u.blocks
      /\ Cardinality(u.blocks) \in Nat /\ Cardinality(p.blocks) \in Nat
      /\ Cardinality(u.blocks) <= Cardinality(p.blocks) + 1
      /\ Cardinality(u.blocks) = Cardinality(p.blocks) + 1 => [at |-> i, as |-> a] \in u.blocks
  BY <1>2, <1>5, <1>6, GrowsByOne
<1>9. /\ PoolSound(v) /\ u.blocks \subseteq v.blocks
      /\ Cardinality(v.blocks) \in Nat
      /\ Cardinality(v.blocks) <= Cardinality(u.blocks) + 1
      /\ Cardinality(v.blocks) = Cardinality(u.blocks) + 1 => [at |-> j, as |-> a] \in v.blocks
  BY <1>2, <1>5, <1>6, <1>8, GrowsByOne
<1>10. /\ PoolSound(w) /\ v.blocks \subseteq w.blocks
       /\ Cardinality(w.blocks) \in Nat
       /\ Cardinality(w.blocks) <= Cardinality(v.blocks) + 1
       /\ Cardinality(w.blocks) = Cardinality(v.blocks) + 1 => [at |-> k, as |-> c] \in w.blocks
  BY <1>2, <1>5, <1>6, <1>9, GrowsByOne
<1>11. Cardinality(w.blocks) = Cardinality(p.blocks) + 3
  BY <1>4, <1>7 DEF AllFit
<1>12. /\ Cardinality(u.blocks) = Cardinality(p.blocks) + 1
       /\ Cardinality(v.blocks) = Cardinality(u.blocks) + 1
       /\ Cardinality(w.blocks) = Cardinality(v.blocks) + 1
  BY <1>8, <1>9, <1>10, <1>11
<1>13. [at |-> i, as |-> a] \in u.blocks /\ [at |-> j, as |-> a] \in v.blocks /\ [at |-> k, as |-> c] \in w.blocks
  BY <1>8, <1>9, <1>10, <1>12
<1>14. i # j
  <2>1. u.next \in Nat
    BY <1>8 DEF PoolSound
  <2>2. u.next <= j
    BY <1>2, <1>6, <2>1, PlaceFacts
  <2>3. PICK x : x = [at |-> i, as |-> a]
    OBVIOUS
  <2>4. x \in u.blocks /\ x.at = i /\ x.as = a
    BY <1>13, <2>3
  <2>5. i + a.size <= u.next /\ i \in Nat
    BY <1>8, <2>4 DEF PoolSound
  <2> QED
    BY <1>2, <2>1, <2>2, <2>5
<1> QED
  BY <1>1, <1>4, <1>7, <1>8, <1>9, <1>10, <1>13, <1>14

\* The array of the scratchpad buffers finds room.
LEMMA ScratchpadsFit ==
  ASSUME NEW n \in 1..1023
  PROVE  [at |-> AddressOf(Begun, ScratchpadBlocks(n), 1), as |-> ScratchpadBlocks(n)[1]]
            \in AllocAll(Begun, ScratchpadBlocks(n)).blocks
<1>1. PICK s, p, b : s = ScratchpadBlocks(n) /\ p = Begun /\ b = Block(n, 8, 512)
  OBVIOUS
<1>2. b \in Requests /\ b.size = n /\ b.alignment = 8 /\ b.boundary = 512
  BY <1>1 DEF Block, Requests, Alignments, Boundaries
<1>3. n \in Nat /\ n # 0 /\ s \in Seq(Requests)
  <2>1. n \in Nat /\ n # 0
    OBVIOUS
  <2> QED
    BY <1>1, <2>1, ScratchpadsAsked
<1>4. Len(s) > 0 /\ s[1] = b
  <2>1. PICK t : t = [i \in 1..n |-> Block(512, 512, 512)]
    OBVIOUS
  <2>2. t \in Seq(Requests)
    BY <2>1, BlocksAsked
  <2>3. s = <<b>> \o t
    BY <1>1, <1>3, <2>1 DEF ScratchpadBlocks
  <2>4. <<b>> \in Seq(Requests) /\ Len(<<b>>) = 1 /\ <<b>>[1] = b
    BY <1>2
  <2> QED
    BY <2>2, <2>3, <2>4
<1>5. PoolSound(p) /\ p.next <= PoolBase + 538 /\ p.next \in Nat
  BY <1>1, BegunWell, UsbMemoryAssumption DEF PoolSound
<1>6. p.next + b.alignment + b.boundary + b.size <= PoolBase + PoolSize
  BY <1>2, <1>5, UsbMemoryAssumption DEF PoolSize
<1>7. [at |-> Place(p, b), as |-> b] \in AllocMem(p, b).blocks
  BY <1>2, <1>5, <1>6, Given
<1>8. AllocMem(p, b).blocks \subseteq AllocAll(p, s).blocks
  BY <1>3, <1>4, <1>5, AllocAllSound
<1>9. AddressOf(p, s, 1) = Place(p, b)
  <2>1. SubSeq(s, 1, 0) = <<>> /\ 1 - 1 = 0
    BY <1>3
  <2>2. AllocAll(p, <<>>) = p
    BY AllocNothing
  <2> QED
    BY <1>4, <2>1, <2>2 DEF AddressOf
<1> QED
  BY <1>1, <1>4, <1>7, <1>8, <1>9

-----------------------------------------------------------------------------
(* The steps of the boot.                                                   *)

BootInv ==
  /\ DOMAIN dcbaa = 0..kDeviceSize
  /\ bios => HasLegacySupport
  /\ pc \in {"stopping", "resetting", "run", "ports"} => ~bios
  /\ pc \in {"scan", "choose", "own", "owning"} => hc \in {"running", "halted"}
  /\ pc = "stopping"  => hc \in {"stopping", "halted"}
  /\ pc = "resetting" => hc \in {"resetting", "notReady", "halted"}
  /\ pc = "run"   => hc = "halted"
  /\ pc = "ports" => hc = "running"
  /\ pc \in {"scan", "choose", "own", "owning", "stopping", "resetting"} => regs = ResetRegisters
  /\ pc \in {"scan", "choose", "own"} => pool = EmptyPool
  /\ pc \in {"owning", "stopping", "resetting"} => pool = Begun
  /\ pc \in {"run", "ports"} => LedToItsTables

LEMMA SameSupport ==
  ASSUME cap_' = cap_
  PROVE  HasLegacySupport' = HasLegacySupport /\ MaxScratchpadBuffers' = MaxScratchpadBuffers
BY DEF HasLegacySupport, Extended, AddOrNull, MaxScratchpadBuffers

\* More is allocated, and the pointer to the scratchpads stays.
LEMMA StillLed ==
  ASSUME LedToItsTables, UNCHANGED <<regs, cap_>>, pool.blocks \subseteq pool'.blocks,
         DOMAIN dcbaa' = DOMAIN dcbaa, dcbaa'[0] = dcbaa[0]
  PROVE  LedToItsTables'
<1>1. MaxScratchpadBuffers' = MaxScratchpadBuffers
  BY SameSupport
<1> QED
  BY <1>1 DEF LedToItsTables, Points

LEMMA SetUpLeads ==
  ASSUME MemoryInv, BootInv, SetUp
  PROVE  BootInv'
<1>1. /\ pc = "resetting" /\ pool = Begun /\ regs = ResetRegisters
      /\ UNCHANGED <<bios, hc, cap_>> /\ ~bios /\ hc = "halted"
  BY DEF SetUp, BootInv, Goes, ResetDone, USBCMD, USBSTS
<1>2. PICK n, s, left : n = MaxScratchpadBuffers /\ s = ScratchpadBlocks(n) /\ left = AllocAll(pool, s)
  OBVIOUS
<1>3. n \in 0..1023
  <2>1. cap_.low \in 0..31 /\ cap_.high \in 0..31
    BY BootAssumption DEF MemoryInv
  <2> QED
    BY <1>2, <2>1 DEF MaxScratchpadBuffers
<1>4. s \in Seq(Requests) /\ (s = <<>> <=> n = 0)
  <2>1. n \in Nat
    BY <1>3
  <2>2. s \in Seq(Requests)
    BY <1>2, <2>1, ScratchpadsAsked
  <2>3. n = 0 => s = <<>>
    BY <1>2 DEF ScratchpadBlocks
  <2>4. n # 0 => s # <<>>
    <3>1. PICK t : t = [i \in 1..n |-> Block(512, 512, 512)]
      OBVIOUS
    <3>2. t \in Seq(Requests)
      BY <2>1, <3>1, BlocksAsked
    <3>3. n # 0 => Block(n, 8, 512) \in Requests /\ s = <<Block(n, 8, 512)>> \o t
      BY <1>2, <2>1, <3>1, BlocksAsked DEF ScratchpadBlocks
    <3> QED
      BY <3>2, <3>3
  <2> QED
    BY <2>2, <2>3, <2>4
<1>5. PoolSound(left) /\ Begun.blocks \subseteq left.blocks
  BY <1>1, <1>2, <1>4, BegunWell, AllocAllSound
<1>6. dcbaa' = IF s = <<>> THEN dcbaa ELSE [dcbaa EXCEPT ![0] = AddressOf(pool, s, 1)]
  BY <1>2 DEF SetUp
<1>7. DOMAIN dcbaa' = 0..kDeviceSize
  BY <1>6 DEF BootInv
<1>8. HasLegacySupport' = HasLegacySupport /\ MaxScratchpadBuffers' = n
  BY <1>1, <1>2, SameSupport
<1>9. CASE ~AllFit(left, RingTables)
  <2>1. pc' = "stopped"
    BY <1>2, <1>9 DEF SetUp, Goes
  <2> QED
    BY <1>1, <1>7, <1>8, <2>1 DEF BootInv
<1>10. CASE AllFit(left, RingTables)
  <2>1. PICK i, j, k : /\ i = AddressOf(left, RingTables, 1) /\ j = AddressOf(left, RingTables, 2)
                       /\ k = AddressOf(left, RingTables, 3)
    OBVIOUS
  <2>2. /\ pc' = "run" /\ pool' = AllocAll(left, RingTables)
        /\ regs'.op.CONFIG = kDeviceSize /\ regs'.op.DCBAAP = DeviceContextsAt
        /\ regs'.op.CRCR = [cycle |-> TRUE, pointer |-> i]
        /\ regs'.primary.ERSTSZ = 1 /\ regs'.primary.ERSTBA = k /\ regs'.primary.ERDP = j
        /\ regs'.primary.IMAN = TRUE /\ regs'.INTE = TRUE
    <3>1. PICK op : op = [regs.op EXCEPT !.CONFIG = kDeviceSize, !.DCBAAP = DeviceContextsAt]
      OBVIOUS
    <3>2. op = [CONFIG |-> kDeviceSize, DCBAAP |-> DeviceContextsAt, CRCR |-> [cycle |-> FALSE, pointer |-> 0]]
      BY <1>1, <3>1 DEF ResetRegisters, OperationalRegisters
    <3>3. PICK primary : primary = RegisterEventRing(regs.primary, j, k)
      OBVIOUS
    <3>4. primary = [IMAN |-> FALSE, ERSTSZ |-> 1, ERSTBA |-> k, ERDP |-> j]
      BY <1>1, <3>3 DEF RegisterEventRing, ResetRegisters, InterrupterRegisterSet
    <3>5. /\ pc' = "run" /\ pool' = AllocAll(left, RingTables)
          /\ regs' = [op |-> RegisterCommandRing(op, i), primary |-> [primary EXCEPT !.IMAN = TRUE],
                      INTE |-> TRUE]
      BY <1>2, <1>10, <2>1, <3>1, <3>3 DEF SetUp, Goes
    <3>6. PICK c, e : c = RegisterCommandRing(op, i) /\ e = [primary EXCEPT !.IMAN = TRUE]
      OBVIOUS
    <3>7. c.CONFIG = kDeviceSize /\ c.DCBAAP = DeviceContextsAt /\ c.CRCR = [cycle |-> TRUE, pointer |-> i]
      BY <3>2, <3>6 DEF RegisterCommandRing
    <3>8. e.ERSTSZ = 1 /\ e.ERSTBA = k /\ e.ERDP = j /\ e.IMAN = TRUE
      BY <3>4, <3>6
    <3>9. regs'.op = c /\ regs'.primary = e /\ regs'.INTE = TRUE
      BY <3>5, <3>6
    <3> QED
      BY <3>5, <3>7, <3>8, <3>9
  <2>3. /\ left.blocks \subseteq pool'.blocks /\ i # j
        /\ [at |-> i, as |-> RingBuffer] \in pool'.blocks
        /\ [at |-> j, as |-> RingBuffer] \in pool'.blocks
        /\ [at |-> k, as |-> SegmentTable] \in pool'.blocks
    BY <1>5, <1>10, <2>1, <2>2, RingsFit
  <2>4. [at |-> DeviceContextsAt, as |-> DeviceContexts] \in pool'.blocks
    BY <1>5, <2>3, BegunWell
  <2>5. n > 0 => [at |-> dcbaa'[0], as |-> ScratchpadBlocks(n)[1]] \in pool'.blocks
    <3> SUFFICES ASSUME n > 0 PROVE [at |-> dcbaa'[0], as |-> ScratchpadBlocks(n)[1]] \in pool'.blocks
      OBVIOUS
    <3>1. n \in 1..1023 /\ s # <<>> /\ 0 \in DOMAIN dcbaa
      BY <1>3, <1>4 DEF BootInv, kDeviceSize
    <3>2. dcbaa'[0] = AddressOf(Begun, s, 1)
      BY <1>1, <1>6, <3>1
    <3> QED
      BY <1>1, <1>2, <2>3, <3>1, <3>2, ScratchpadsFit
  <2>6. LedToItsTables'
    <3>1. DOMAIN dcbaa' = 0..regs'.op.CONFIG
      BY <1>7, <2>2
    <3>2. DeviceContextsAt' = DeviceContextsAt
      BY DEF DeviceContextsAt, EmptyPool
    <3> QED
      BY <1>8, <2>2, <2>3, <2>4, <2>5, <3>1 DEF LedToItsTables, Points
  <2> QED
    BY <1>1, <1>7, <1>8, <2>2, <2>6 DEF BootInv
<1> QED
  BY <1>9, <1>10

LEMMA BootStepSound ==
  ASSUME MemoryInv, BootInv, Boot
  PROVE  BootInv'
<1>1. CASE SetUp
  BY <1>1, SetUpLeads
<1>2. CASE InitializePCI \/ FindXhc
  <2>1. /\ pc \in {"scan", "choose"} /\ pc' \in {"choose", "own", "stopped"}
        /\ UNCHANGED <<bios, hc, cap_, regs, dcbaa, pool>>
    BY <1>2 DEF InitializePCI, FindXhc, Goes
  <2> QED
    BY <2>1, SameSupport DEF BootInv
<1>3. CASE RequestHCOwnership
  <2>1. /\ pc = "own" /\ pc' = "owning" /\ pool' = AllocAll(pool, <<Devices_, DeviceContexts>>)
        /\ UNCHANGED <<bios, hc, cap_, regs, dcbaa>>
    BY <1>3 DEF RequestHCOwnership, Goes
  <2>2. pool' = Begun
    BY <2>1 DEF BootInv, Begun
  <2>3. Begun' = Begun
    BY DEF Begun, EmptyPool
  <2> QED
    BY <2>1, <2>2, <2>3, SameSupport DEF BootInv
<1>4. CASE Stop
  <2>1. /\ pc = "owning" /\ pc' = "stopping"
        /\ HasLegacySupport => ~bios
        /\ hc' = IF hc \notin {"running", "stopping"} THEN hc ELSE "stopping"
        /\ UNCHANGED <<bios, cap_, regs, dcbaa, pool>>
    BY <1>4 DEF Stop, Goes, USBLEGSUP, USBSTS
  <2>2. Begun' = Begun
    BY DEF Begun, EmptyPool
  <2> QED
    BY <2>1, <2>2, SameSupport DEF BootInv
<1>5. CASE ResetController
  <2>1. /\ pc = "stopping" /\ pc' = "resetting" /\ hc' = "resetting"
        /\ UNCHANGED <<bios, cap_, regs, dcbaa, pool>>
    BY <1>5 DEF ResetController, Goes
  <2>2. Begun' = Begun
    BY DEF Begun, EmptyPool
  <2> QED
    BY <2>1, <2>2, SameSupport DEF BootInv
<1>6. CASE Run
  <2>1. /\ pc = "run" /\ pc' = "ports" /\ hc' = "running"
        /\ UNCHANGED <<bios, cap_, regs, dcbaa, pool>>
    BY <1>6 DEF Run, Goes
  <2>2. LedToItsTables'
    BY <2>1, StillLed DEF BootInv
  <2> QED
    BY <2>1, <2>2, SameSupport DEF BootInv
<1>7. CASE BiosReleases
  <2>1. bios /\ bios' = FALSE /\ UNCHANGED <<pc, hc, cap_, regs, dcbaa, pool>>
    BY <1>7 DEF BiosReleases
  <2>2. Begun' = Begun
    BY DEF Begun, EmptyPool
  <2>3. pc \notin {"run", "ports"}
    BY <2>1 DEF BootInv
  <2> QED
    BY <2>1, <2>2, <2>3 DEF BootInv
<1>8. CASE Proceeds
  <2>1. /\ UNCHANGED <<pc, bios, cap_, dcbaa, pool>>
        /\ \/ hc = "stopping"  /\ hc' = "halted"   /\ UNCHANGED regs
           \/ hc = "resetting" /\ hc' = "notReady" /\ UNCHANGED regs
           \/ hc = "notReady"  /\ hc' = "halted"   /\ regs' = ResetRegisters
    BY <1>8 DEF Proceeds
  <2>2. Begun' = Begun
    BY DEF Begun, EmptyPool
  <2>3. pc \notin {"run", "ports", "scan", "choose", "own", "owning"}
    BY <2>1 DEF BootInv
  <2> QED
    BY <2>1, <2>2, <2>3, SameSupport DEF BootInv
<1> QED
  BY <1>1, <1>2, <1>3, <1>4, <1>5, <1>6, <1>7, <1>8 DEF Boot

\* After the boot the driver allocates more, and writes pointers to devices.
LEMMA RunningStepSound ==
  ASSUME BootInv, UNCHANGED <<bios, hc, cap_, regs, pc>>, pool.blocks \subseteq pool'.blocks,
         pool' = pool \/ pc = "ports", DOMAIN dcbaa' = DOMAIN dcbaa, dcbaa'[0] = dcbaa[0]
  PROVE  BootInv'
<1>1. HasLegacySupport' = HasLegacySupport
  BY SameSupport
<1>2. LedToItsTables => LedToItsTables'
  BY StillLed
<1>3. Begun' = Begun
  BY DEF Begun, EmptyPool
<1> QED
  BY <1>1, <1>2, <1>3 DEF BootInv

LEMMA BootUnchanged ==
  ASSUME BootInv, UNCHANGED bootVars
  PROVE  BootInv'
BY RunningStepSound DEF bootVars

LEMMA RunningDriverSound ==
  ASSUME UsbInv, BootInv, MakeDevice \/ TransferEvent
  PROVE  BootInv'
<1>1. pc = "ports"
  BY DEF MakeDevice, TransferEvent, Interrupts, Running
<1>2. PICK list \in Seq(Requests) : Allocates(list)
  <2>1. CASE MakeDevice
    BY <2>1, ListsAsked DEF MakeDevice
  <2>2. CASE TransferEvent
    <3>1. Names(Front(er))
      BY PoppedNamed DEF UsbInv, PortsInv
    <3>2. Arg \in Slots
      BY <2>2, <3>1 DEF TransferEvent, Arrives, Arg, Names
    <3>3. PICK res : res = OnTransferEventReceived(dev[Arg], Front(er))
      OBVIOUS
    <3>4. DeviceSound(res.device)
      BY <3>2, <3>3, OnTransferSound DEF UsbInv, DevicesInv
    <3>5. RingsOf(res.device.eps) \in Seq(Requests)
      BY <3>4, RingsAsked DEF DeviceSound
    <3>6. PICK a, b : /\ a = IF connected[context[Arg]] THEN RingsOf(res.device.eps) ELSE <<>>
                      /\ b = IF dev[Arg].init = 2 /\ res.device.init = 3 THEN <<DriverBlock>> ELSE <<>>
      OBVIOUS
    <3>7. a \in Seq(Requests) /\ b \in Seq(Requests)
      BY <3>5, <3>6, ListsAsked
    <3>8. Allocates(a) \/ Allocates(b)
      BY <2>2, <3>3, <3>6 DEF TransferEvent
    <3> QED
      BY <3>7, <3>8
  <2> QED
    BY <2>1, <2>2
<1>3. pool.blocks \subseteq pool'.blocks /\ UNCHANGED <<bios, hc, cap_, regs, pc>>
  BY <1>2, AllocAllSound DEF Allocates, UsbInv, MemoryInv
<1>4. DOMAIN dcbaa' = DOMAIN dcbaa /\ dcbaa'[0] = dcbaa[0]
  <2>1. CASE MakeDevice
    <3>1. Arg \in Slots
      BY <2>1, AddressDeviceNamed DEF MakeDevice, UsbInv
    <3>2. Arg # 0
      BY <3>1, Sizes DEF Slots
    <3> QED
      BY <2>1, <3>2 DEF MakeDevice, LoadDCBAA
  <2>2. CASE TransferEvent
    BY <2>2 DEF TransferEvent
  <2> QED
    BY <2>1, <2>2
<1> QED
  BY <1>1, <1>3, <1>4, RunningStepSound

LEMMA BootInvStep ==
  ASSUME UsbInv, BootInv, [UsbNext]_usbVars
  PROVE  BootInv'
<1>1. CASE Boot
  BY <1>1, BootStepSound DEF UsbInv
<1>2. CASE MakeDevice \/ TransferEvent
  BY <1>2, RunningDriverSound
<1>3. CASE UNCHANGED bootVars
  BY <1>3, BootUnchanged
<1>4. Boot \/ MakeDevice \/ TransferEvent \/ UNCHANGED bootVars
  BY DEF UsbNext, PortProgress, CommandCompleted, Driver, StartDevice, ConfigureDevice,
         ExecuteControl, ExecuteInterrupt, FailTransfer, Use, usbVars
<1> QED
  BY <1>1, <1>2, <1>3, <1>4

LEMMA BootInitSound ==
  ASSUME UsbInit
  PROVE  BootInv
<1>1. /\ pc = "scan" /\ dcbaa = [i \in 0..kDeviceSize |-> 0] /\ pool = EmptyPool /\ regs = ResetRegisters
      /\ hc \in {"running", "halted"} /\ (bios => HasLegacySupport)
  BY DEF UsbInit, BootInit
<1> QED
  BY <1>1 DEF BootInv

-----------------------------------------------------------------------------
(* The address and the interrupts.                                          *)

Zeros == [offset \in {0, 4, 8, 12, 16, 20} |-> 0]

\* The capabilities of what answers on a bus.
Listed(f) ==
  /\ DOMAIN f.caps \subseteq Nat
  /\ \A i \in DOMAIN f.caps : f.caps[i].id = "MSI" => f.caps[i].capable \in 0..7

LEMMA OneCapability ==
  ASSUME NEW f, Listed(f), NEW x \in CapabilityOf(f, "MSI")
  PROVE  /\ x.capable \in 0..7
         /\ (CHOOSE cap \in CapabilityOf(f, "MSI") : TRUE) = x
<1> DEFINE at == {i \in DOMAIN f.caps : f.caps[i].id = "MSI"}
           last == {j \in at : \A k \in at : k <= j}
<1>1. CapabilityOf(f, "MSI") = {f.caps[i] : i \in last}
  BY DEF CapabilityOf
<1>2. at \subseteq Nat /\ \A i \in at : f.caps[i].capable \in 0..7
  BY DEF Listed
<1>3. \A i, j \in last : i = j
  <2> HIDE DEF at
  <2>1. \A i, j \in last : i \in Nat /\ j \in Nat /\ i <= j /\ j <= i
    BY <1>2
  <2> QED
    BY <2>1
<1>4. last \subseteq at
  OBVIOUS
<1> HIDE DEF at, last
<1>5. \A y \in CapabilityOf(f, "MSI") : y = x
  BY <1>1, <1>3
<1>6. x.capable \in 0..7
  BY <1>1, <1>2, <1>4
<1> QED
  BY <1>5, <1>6

LEMMA Configured ==
  ASSUME NEW f, Listed(f), NEW cap \in CapabilityOf(f, "MSI"),
         NEW m, m = ConfigureMSI(f, Zeros, XhciMessage, 0)
  PROVE  /\ m[0] = [enable |-> TRUE, vectors |-> 0]
         /\ m[4] = XhciMessage.addr
         /\ cap.wide => m[8] = 0 /\ m[12] = XhciMessage.data
         /\ ~cap.wide => m[8] = XhciMessage.data
         /\ cap.masks => m[IF cap.wide THEN 16 ELSE 12] = 0
<1>1. cap.capable \in 0..7 /\ m = ConfigureMSIRegister(cap, Zeros, XhciMessage, 0)
  BY OneCapability DEF ConfigureMSI, HasMSI
<1>2. PICK r, w : r = ReadMSICapability(cap, Zeros)
                  /\ w = [r EXCEPT !.control = [enable |-> TRUE,
                                                vectors |-> IF cap.capable <= 0 THEN cap.capable ELSE 0],
                                   !.addr = XhciMessage.addr, !.data = XhciMessage.data]
  OBVIOUS
<1>3. /\ r.upper = 0 /\ r.mask = 0
      /\ DOMAIN r = {"control", "addr", "upper", "data", "mask", "pending"}
  BY <1>2 DEF ReadMSICapability, DataAt, Zeros
<1>4. PICK x : x = XhciMessage
  OBVIOUS
<1>5. PICK v : v = IF cap.capable <= 0 THEN cap.capable ELSE 0
  OBVIOUS
<1>6. v = 0
  BY <1>1, <1>5
<1>7. w = [r EXCEPT !.control = [enable |-> TRUE, vectors |-> 0], !.addr = x.addr, !.data = x.data]
  BY <1>2, <1>4, <1>5, <1>6
<1>8. w.control = [enable |-> TRUE, vectors |-> 0]
  BY <1>3, <1>7
<1>9. w.addr = x.addr
  BY <1>3, <1>7
<1>10. w.data = x.data
  BY <1>3, <1>7
<1>11. w.upper = 0
  BY <1>3, <1>7
<1>12. w.mask = 0
  BY <1>3, <1>7
<1>13. m = WriteMSICapability(cap, Zeros, w)
  BY <1>1, <1>2 DEF ConfigureMSIRegister
<1>14. m[0] = w.control /\ m[4] = w.addr
  BY <1>13 DEF WriteMSICapability, DataAt, Zeros
<1>15. cap.wide => m[8] = w.upper /\ m[12] = w.data /\ (cap.masks => m[16] = w.mask)
  BY <1>13 DEF WriteMSICapability, DataAt, Zeros
<1>16. ~cap.wide => m[8] = w.data /\ (cap.masks => m[12] = w.mask)
  BY <1>13 DEF WriteMSICapability, DataAt, Zeros
<1> QED
  BY <1>4, <1>8, <1>9, <1>10, <1>11, <1>12, <1>14, <1>15, <1>16

\* The controller has been chosen.
Chosen == {"own", "owning", "stopping", "resetting", "run", "ports"}

ReachInv ==
  /\ space \in Spaces
  /\ pc \in {"scan", "choose"} => msi = Zeros
  /\ pc \in Chosen => Reached

\* What answers at an address of a machine has an ordinary list of capabilities.
LEMMA AllListed ==
  ASSUME space \in Spaces, NEW a \in DOMAIN space
  PROVE  Listed(space[a])
BY BootAssumption DEF Listed

LEMMA ReachedSame ==
  ASSUME Reached, UNCHANGED <<space, devices, xhc, msi, mmio>>
  PROVE  Reached'
BY DEF Reached, Sends

\* FindXhc sends the interrupts of what it has found, which the scan has seen, to the kernel.
LEMMA FindXhcReaches ==
  ASSUME ReachInv, FindXhc, pc' \in Chosen, devices'[xhc'] \in DOMAIN space
  PROVE  Reached'
<1>1. PICK f, m : f = space[devices[xhc']] /\ m = msi'
  OBVIOUS
<1>2. /\ pc = "choose" /\ xhc' = ChooseXhc(space, devices) /\ xhc' # 0
      /\ space' = space /\ devices' = devices
  BY DEF FindXhc, Goes, Chosen
<1>3. m = ConfigureMSI(f, Zeros, XhciMessage, 0) /\ mmio' = ReadBar(f, 1)
  BY <1>1, <1>2 DEF FindXhc, ReachInv
<1>4. Listed(f)
  BY <1>1, <1>2, AllListed DEF ReachInv
<1>5. mmio' = <<IF f.bars[1].wide THEN f.bars[2].base ELSE 0, f.bars[1].base>>
  <2>1. 1 + 1 = 2 /\ 1 # 6
    OBVIOUS
  <2> QED
    BY <1>3, <2>1 DEF ReadBar
<1>6. ASSUME NEW cap \in CapabilityOf(f, "MSI")
      PROVE  /\ m[0] = [enable |-> TRUE, vectors |-> 0]
             /\ m[4] = XhciMessage.addr
             /\ cap.wide => m[8] = 0 /\ m[12] = XhciMessage.data
             /\ ~cap.wide => m[8] = XhciMessage.data
             /\ cap.masks => m[IF cap.wide THEN 16 ELSE 12] = 0
  BY <1>3, <1>4, Configured
<1>7. ASSUME NEW cap \in CapabilityOf(f, "MSI")
      PROVE  <<m[4], IF cap.wide THEN m[8] ELSE 0, m[IF cap.wide THEN 12 ELSE 8]>>
               = <<XhciMessage.addr, 0, XhciMessage.data>>
  BY <1>6
<1>8. f = space'[devices'[xhc']]
  BY <1>1, <1>2
<1> QED
  BY <1>1, <1>5, <1>6, <1>7, <1>8 DEF Reached, Sends, XhciMessage

LEMMA ReachInitSound ==
  ASSUME UsbInit
  PROVE  ReachInv
BY DEF UsbInit, BootInit, ReachInv, Zeros, Chosen

LEMMA ReachStepSound ==
  ASSUME UsbInv, ReachInv, [UsbNext]_usbVars, FindsTheController'
  PROVE  ReachInv'
<1>1. CASE InitializePCI
  BY <1>1 DEF InitializePCI, Goes, ReachInv, Chosen
<1>2. CASE FindXhc
  <2>1. pc' \in {"own", "stopped"} /\ space' = space
    BY <1>2 DEF FindXhc, Goes
  <2>2. ASSUME pc' \in Chosen
        PROVE  devices'[xhc'] \in DOMAIN space
    <3>1. xhc' # 0 /\ pc' # "scan"
      BY <1>2, <2>2 DEF FindXhc, Goes, Chosen
    <3>2. xhc' \in DOMAIN devices'
      BY <3>1 DEF FindsTheController
    <3>3. {devices'[i] : i \in DOMAIN devices'} \subseteq DOMAIN space'
      BY <3>1 DEF FindsTheController
    <3> QED
      BY <2>1, <3>2, <3>3
  <2>3. pc' \in Chosen => Reached'
    BY <1>2, <2>2, FindXhcReaches
  <2> QED
    BY <2>1, <2>3 DEF ReachInv
<1>3. CASE /\ UNCHANGED <<space, devices, xhc, msi, mmio>>
           /\ pc' = pc \/ (pc \in Chosen /\ pc' \notin {"scan", "choose"})
  BY <1>3, ReachedSame DEF ReachInv
<1>4. CASE Boot
  BY <1>1, <1>2, <1>3, <1>4
  DEF Boot, RequestHCOwnership, Stop, ResetController, SetUp, Run, BiosReleases, Proceeds, Goes, Chosen
<1>5. CASE MakeDevice \/ TransferEvent
  <2>1. UNCHANGED <<space, devices, xhc, msi, mmio, pc>>
    BY <1>5 DEF MakeDevice, TransferEvent, LoadDCBAA, Allocates, bootVars
  <2> QED
    BY <1>3, <2>1
<1>6. CASE UNCHANGED bootVars
  BY <1>3, <1>6 DEF bootVars
<1>7. Boot \/ MakeDevice \/ TransferEvent \/ UNCHANGED bootVars
  BY DEF UsbNext, PortProgress, CommandCompleted, Driver, StartDevice, ConfigureDevice,
         ExecuteControl, ExecuteInterrupt, FailTransfer, Use, usbVars
<1> QED
  BY <1>4, <1>5, <1>6, <1>7

-----------------------------------------------------------------------------

\* RunsAsSetUp but for the address and the interrupts, which depend on the scan.
RunsOnItsTables == pc = "ports" => hc = "running" /\ ~bios /\ LedToItsTables

(***************************************************************************)
(* The controller runs after the firmware has let go of it and it has been  *)
(* reset, with registers that lead it to tables of the driver, each to its  *)
(* own, whatever the controller says of itself and in whatever state the    *)
(* firmware has left it.                                                    *)
(***************************************************************************)
THEOREM TablesAreItsOwn == UsbSpec => []RunsOnItsTables
<1>1. UsbInit => UsbInv /\ BootInv
  BY UsbInitSound, BootInitSound
<1>2. UsbInv /\ BootInv /\ [UsbNext]_usbVars => (UsbInv /\ BootInv)'
  BY UsbStepSound, BootInvStep
<1>3. UsbInv /\ BootInv => RunsOnItsTables
  BY DEF UsbInv, BootInv, RunsOnItsTables
<1> QED
  BY <1>1, <1>2, <1>3, PTL DEF UsbSpec

(***************************************************************************)
(* Where the scan finds what there is to be found, which a recursion over   *)
(* the bridges decides, the driver has the whole address of the controller  *)
(* as well, and is interrupted by it in whichever form the MSI capability   *)
(* comes: ConfigureMSI and ReadBar are right about every device.            *)
(***************************************************************************)
THEOREM SetUpWhereFound == UsbSpec /\ []FindsTheController => []RunsAsSetUp
<1>1. UsbInit => UsbInv /\ BootInv /\ ReachInv
  BY UsbInitSound, BootInitSound, ReachInitSound
<1>2. UsbInv /\ BootInv /\ ReachInv /\ [UsbNext]_usbVars /\ FindsTheController'
        => (UsbInv /\ BootInv /\ ReachInv)'
  BY UsbStepSound, BootInvStep, ReachStepSound
<1>3. UsbInv /\ BootInv /\ ReachInv => RunsAsSetUp
  BY DEF UsbInv, BootInv, ReachInv, RunsAsSetUp, Chosen
<1> QED
  BY <1>1, <1>2, <1>3, PTL DEF UsbSpec
=============================================================================
