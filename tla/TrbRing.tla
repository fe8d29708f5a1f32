------------------------------ MODULE TrbRing ------------------------------
(***************************************************************************)
(* The rings the xHC driver and the controller share in memory              *)
(* (usb/xhci/ring.cpp): a command or transfer ring, which the driver fills  *)
(* and the controller reads, and the event ring, which the controller fills *)
(* and the driver reads.  Neither side knows the other's index: a TRB       *)
(* belongs to the reader when its cycle bit is the one the reader expects.  *)
(*                                                                          *)
(* A ring is a record: buf is the memory, write and cycle are the index and *)
(* the cycle bit of the side that fills it, read and expect those of the    *)
(* side that reads it; last is the highest index.                            *)
(***************************************************************************)
EXTENDS Integers

Link   == [type |-> "link"]
Zeroed == [trb |-> [type |-> "none"], cycle |-> FALSE]

\* Ring::Initialize, EventRing::Initialize.
NewRing(size) ==
  [buf   |-> [i \in 0..size - 1 |-> Zeroed], last |-> size - 1,
   write |-> 0, cycle  |-> TRUE,
   read  |-> 0, expect |-> TRUE]

-----------------------------------------------------------------------------
(* The driver fills a command or transfer ring.                             *)

CopyToLast(r, trb) == [r EXCEPT !.buf[r.write] = [trb |-> trb, cycle |-> r.cycle]]

\* The link at the end of the ring, which leads back to its beginning.
Wrapped(r) == [CopyToLast(r, Link) EXCEPT !.write = 0, !.cycle = ~@]

Push(r, trb) ==
  LET pushed == [CopyToLast(r, trb) EXCEPT !.write = @ + 1]
  IN  IF pushed.write = r.last THEN Wrapped(pushed) ELSE pushed

\* The driver reads the event ring.
HasFront(r) == r.buf[r.read].cycle = r.expect

Front(r) == r.buf[r.read].trb

Pop(r) ==
  IF r.read = r.last THEN [r EXCEPT !.read = 0, !.expect = ~@] ELSE [r EXCEPT !.read = @ + 1]

-----------------------------------------------------------------------------
(* The controller's half, as the driver relies on it.                       *)

\* It reads a ring with a link at its end ...
Fetched(r) ==
  IF r.read + 1 = r.last THEN [r EXCEPT !.read = 0, !.expect = ~@] ELSE [r EXCEPT !.read = @ + 1]

\* ... and fills the event ring, in which there is no link.
Post(r, trb) ==
  LET posted == CopyToLast(r, trb)
  IN  IF r.write = r.last THEN [posted EXCEPT !.write = 0, !.cycle = ~@]
                                ELSE [posted EXCEPT !.write = @ + 1]

\* The controller never catches up with the driver.
HasRoom(r) == r.read # IF r.write = r.last THEN 0 ELSE r.write + 1

\* More has been written than was free: the oldest TRBs are gone.
Overrun(r) == r.read = r.write /\ HasFront(r)

\* The places the writer is ahead of the reader, and their TRBs.
Written(r) ==
  IF r.read <= r.write THEN r.read..r.write - 1 ELSE DOMAIN r.buf \ (r.write..r.read - 1)

Unread(r) == {r.buf[i].trb : i \in Written(r)}
=============================================================================
