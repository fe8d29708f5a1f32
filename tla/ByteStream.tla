----------------------------- MODULE ByteStream -----------------------------
(***************************************************************************)
(* What a pipe promises to the two commands it connects: the reader gets    *)
(* the bytes of the writer, each once and in order, and is told the end     *)
(* when the writer has closed and everything was read.  A reader may leave  *)
(* before that; what was on the way is lost then.                           *)
(*                                                                          *)
(* Bytes are numbered in the order in which they are written.               *)
(***************************************************************************)
EXTENDS Integers, Sequences

CONSTANT MaxPiece  \* bytes that are put into the stream at once

VARIABLES
  put,      \* how many bytes the writer has put in
  transit,  \* the bytes on the way
  got,      \* the bytes the reader has
  open,     \* the writer has not closed
  reading,  \* the reader has not left
  ended     \* the reader has been told the end

streamVars == <<put, transit, got, open, reading, ended>>

Numbered(from, n) == [i \in 1..n |-> from + i]

StreamInit ==
  /\ put = 0 /\ transit = <<>> /\ got = <<>>
  /\ open = TRUE /\ reading = TRUE /\ ended = FALSE

Put(n) ==
  /\ open
  /\ put' = put + n
  /\ transit' = IF reading THEN transit \o Numbered(put, n) ELSE <<>>
  /\ UNCHANGED <<got, open, reading, ended>>

Close ==
  /\ open' = FALSE
  /\ UNCHANGED <<put, transit, got, reading, ended>>

Get(n) ==
  /\ reading
  /\ got' = got \o SubSeq(transit, 1, n)
  /\ transit' = SubSeq(transit, n + 1, Len(transit))
  /\ UNCHANGED <<put, open, reading, ended>>

End ==
  /\ reading /\ ~open /\ transit = <<>>
  /\ ended' = TRUE
  /\ UNCHANGED <<put, transit, got, open, reading>>

Leave ==
  /\ reading' = FALSE /\ transit' = <<>>
  /\ UNCHANGED <<put, got, open, ended>>

StreamNext ==
  \/ \E n \in 1..MaxPiece : Put(n)
  \/ \E n \in 1..Len(transit) : Get(n)
  \/ Close \/ End \/ Leave

StreamSpec == StreamInit /\ [][StreamNext]_streamVars
=============================================================================
