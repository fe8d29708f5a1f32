-------------------------------- MODULE Acpi --------------------------------
(***************************************************************************)
(* How the kernel learns what time is (acpi.cpp, InitializeLAPICTimer of    *)
(* timer.cpp): it finds the PM timer in the firmware's tables, waits until  *)
(* that has counted a tenth of a second, sees how far the timer of the      *)
(* LAPIC has come meanwhile, and has it interrupt TimerFreq times a second. *)
(*                                                                          *)
(* The PM timer counts to 2^24 or to 2^32 and begins again.  Reading it in  *)
(* a loop takes time: it moves on by one to MaxPoll from a read to the next.*)
(* Time is counted in its ticks.                                            *)
(***************************************************************************)
EXTENDS Integers, Sequences, SequencesExt

CONSTANTS
  Firmwares,    \* what the firmware may leave
  OldLength,    \* the bytes of an RSDP of the first version: 20
  HeaderSize,   \* sizeof(DescriptionHeader): 36
  Narrow, Wide, \* where the PM timer begins again: 2^24 or 2^32
  WaitTicks,    \* its ticks in the time to wait: a tenth of a second
  Tenths,       \* what brings that to a second: 10
  TimerFreq,    \* kTimerFreq: 100
  Rate,         \* counts of the LAPIC in a tick of the PM timer
  CountMax,     \* kCountMax: 2^32 - 1
  MaxPoll,      \* bound: ticks between two reads of the PM timer
  MaxTime       \* bound: ticks

ASSUME AcpiAssumption ==
  /\ WaitTicks \in 1..(Narrow - 1)
  /\ MaxPoll <= Narrow - WaitTicks /\ 2 * MaxPoll <= Narrow
  /\ Narrow \in Nat /\ Wide \in Nat /\ 2 * Narrow <= Wide
  /\ Tenths \in Nat \ {0} /\ TimerFreq \in Nat \ {0} /\ Rate \in Nat \ {0}
  /\ CountMax \in Nat /\ CountMax >= Rate * WaitTicks
  /\ MaxPoll \in Nat \ {0} /\ MaxTime \in Nat

VARIABLES
  boot,    \* "acpi", "start", "begin", "wrap", "reach", "stop", "set", or "ticking"; "halted"
  rsdp,    \* what the firmware has left
  fadt,    \* the table found, or none
  pm,      \* the PM timer
  lapic,   \* the LAPIC timer: initial_count, current_count
  wait,    \* start and end of WaitMilliseconds
  time     \* history: since the LAPIC timer was started

acpiVars == <<boot, rsdp, fadt, pm, lapic, wait, time>>

-----------------------------------------------------------------------------
(* Tables.  They carry bytes which add up to 0. *)

SumBytes(bytes) == FoldLeft(LAMBDA sum, b : (sum + b) % 256, 0, bytes)

RSDP(signature, revision, bytes, xsdt) ==
  [signature |-> signature, revision |-> revision, bytes |-> bytes, xsdt |-> xsdt]

DescriptionHeader(signature, length, bytes) ==
  [signature |-> signature, length |-> length, bytes |-> bytes]

XSDT(header, entries) == [header |-> header, entries |-> entries]

\* The timer's width is a bit of the flags.
FADT(header, wide) == [header |-> header, wide |-> wide]
NoFADT == [wide |-> FALSE]

IsValidRSDP(r) ==
  /\ r.signature = "RSD PTR " /\ r.revision = 2
  /\ SumBytes(SubSeq(r.bytes, 1, OldLength)) = 0
  /\ SumBytes(r.bytes) = 0

IsValid(header, signature) == header.signature = signature /\ SumBytes(header.bytes) = 0

\* The entries are addresses of 8 bytes behind the header.
Count(xsdt) == (xsdt.header.length - HeaderSize) \div 8

\* The entries that may be taken for the FADT: the first one is.
Found(xsdt) == {i \in 1..Count(xsdt) : IsValid(xsdt.entries[i].header, "FACP")}

\* Tables may be missing or damaged; one that is sound says how wide the timer is.
ASSUME FirmwareAssumption ==
  \A f \in Firmwares :
    /\ f.size \in {Narrow, Wide}
    /\ IsValid(f.rsdp.xsdt.header, "XSDT") =>
         \A i \in Found(f.rsdp.xsdt) : f.rsdp.xsdt.entries[i].wide = (f.size = Wide)

AcpiInit ==
  /\ boot = "acpi" /\ fadt = NoFADT
  /\ \E f \in Firmwares :
       /\ rsdp = f.rsdp
       /\ pm \in {[size |-> f.size, count |-> c] : c \in 0..(f.size - 1)}
  /\ lapic = [initial |-> 0, current |-> 0]
  /\ wait = [start |-> 0, end |-> 0]
  /\ time = 0

Initialize ==
  /\ boot = "acpi"
  /\ LET xsdt == rsdp.xsdt
         ok   == IsValidRSDP(rsdp) /\ IsValid(xsdt.header, "XSDT") /\ Found(xsdt) # {}
     IN  /\ boot' = IF ok THEN "start" ELSE "halted"
         /\ fadt' = IF ok THEN xsdt.entries[CHOOSE i \in Found(xsdt) : \A j \in Found(xsdt) : i <= j]
                    ELSE NoFADT
  /\ UNCHANGED <<rsdp, pm, lapic, wait, time>>

-----------------------------------------------------------------------------
(* The timers. *)

\* The LAPIC timer runs down once; the PM timer goes round.
Pass(d) ==
  /\ time + d <= MaxTime
  /\ time' = time + d
  /\ pm' = [pm EXCEPT !.count = (@ + d) % pm.size]
  /\ lapic' = [lapic EXCEPT !.current = IF @ < Rate * d THEN 0 ELSE @ - Rate * d]

StartLAPICTimer ==
  /\ boot = "start" /\ boot' = "begin"
  /\ lapic' = [initial |-> CountMax, current |-> CountMax]
  /\ UNCHANGED <<rsdp, fadt, pm, wait, time>>

\* The width of end is 32 bits, unless the timer's is less.
End(start) ==
  LET end == (start + WaitTicks) % Wide
  IN  IF fadt.wide THEN end ELSE end % Narrow

\* Mutant: that the timer begins again is not thought of.
Overflows_Never(start) == FALSE

Overflows(start) == End(start) < start

WaitMilliseconds ==
  /\ boot = "begin"
  /\ \E d \in 0..MaxPoll : Pass(d)
  /\ wait' = [start |-> pm'.count, end |-> End(pm'.count)]
  /\ boot' = IF Overflows(pm'.count) THEN "wrap" ELSE "reach"
  /\ UNCHANGED <<rsdp, fadt>>

\* The first loop: until the timer has begun again.
WaitForWrap ==
  /\ boot = "wrap"
  /\ \E d \in 1..MaxPoll : Pass(d)
  /\ boot' = IF pm'.count >= wait.start THEN "wrap" ELSE "reach"
  /\ UNCHANGED <<rsdp, fadt, wait>>

\* The second loop.
WaitForEnd ==
  /\ boot = "reach"
  /\ \E d \in 1..MaxPoll : Pass(d)
  /\ boot' = IF pm'.count < wait.end THEN "reach" ELSE "stop"
  /\ UNCHANGED <<rsdp, fadt, wait>>

LAPICTimerElapsed == CountMax - lapic.current

\* The timer is stopped, and set to count a tick at a time.
SetPeriod ==
  /\ boot = "stop" /\ boot' = "set"
  /\ lapic' = [initial |-> (LAPICTimerElapsed * Tenths) \div TimerFreq, current |-> 0]
  /\ UNCHANGED <<rsdp, fadt, pm, wait, time>>

\* From now on there are interrupts; what was measured is not needed any more.
Ticks ==
  /\ boot = "set" /\ boot' = "ticking"
  /\ fadt' = NoFADT /\ pm' = [size |-> Wide, count |-> 0] /\ lapic' = [initial |-> 0, current |-> 0]
  /\ wait' = [start |-> 0, end |-> 0] /\ time' = 0
  /\ rsdp' = RSDP("", 0, <<>>, <<>>)

AcpiNext ==
  \/ Initialize \/ StartLAPICTimer \/ WaitMilliseconds \/ WaitForWrap \/ WaitForEnd
  \/ SetPeriod \/ Ticks

-----------------------------------------------------------------------------
(***************************************************************************)
(* A tick is a hundredth of a second: never shorter, and longer by no more  *)
(* than three reads of the PM timer take, wherever that was in its round    *)
(* and which of the tables describes it.  The one way to a longer tick: the *)
(* end of the wait is less than a read before the timer begins again, no    *)
(* read falls in between, and the loop goes on for another round.           *)
(***************************************************************************)
Counts(ticks) == (Rate * ticks * Tenths) \div TimerFreq

MayBeMissed == wait.end > pm.size - MaxPoll

TickIsCentisecond ==
  boot = "set" =>
    /\ lapic.initial >= Counts(WaitTicks)
    /\ MayBeMissed \/ lapic.initial <= Counts(WaitTicks + 3 * MaxPoll)
=============================================================================
