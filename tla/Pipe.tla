-------------------------------- MODULE Pipe --------------------------------
(***************************************************************************)
(* A pipeline of the terminal (kernel/terminal.cpp): ExecuteLine makes a    *)
(* subtask for the command behind the bar, connects it with a               *)
(* PipeDescriptor, runs the command in front of the bar, closes the pipe    *)
(* and waits for the subtask.                                               *)
(*                                                                          *)
(* The pipe has no memory of its own but for what Read did not return: its  *)
(* bytes travel in messages to the subtask's mailbox, DataSize in each,     *)
(* among the keys that are sent there.  Read throws away any message that   *)
(* is not the pipe's.  Testing the mailbox and sleeping are one step here;  *)
(* that no wake-up is lost between them is the subject of module Kernel.    *)
(*                                                                          *)
(* The descriptor keeps a reference to the Task of the subtask.  When the   *)
(* subtask has finished, a message is pushed into a destroyed object: the   *)
(* bytes go nowhere good, and the history variable stray records it.        *)
(***************************************************************************)
EXTENDS Integers, Sequences, SequencesExt

CONSTANTS DataSize,    \* sizeof(msg.arg.pipe.data)
          WriteSizes,  \* bytes the first command writes at once
          ReadSizes,   \* bytes the second one asks for at once
          MaxBytes,    \* bound: bytes written
          MaxKeys      \* bound: keys pressed

ASSUME PipeAssumption ==
  /\ DataSize \in Nat \ {0}
  /\ WriteSizes \subseteq Nat \ {0} /\ ReadSizes \subseteq Nat \ {0}
  /\ MaxBytes \in Nat /\ MaxKeys \in Nat

VARIABLES
  wpc,      \* the terminal: "none", "start", "command", "wait" (inside WaitFinish), "done"
  left,     \* len - sent_bytes of the Write that is going on
  written,  \* bytes sent
  mailbox,  \* msgs_ of the subtask
  buffer,   \* data_[0..len_) of the pipe
  closed,   \* closed_
  want,     \* len of the Read that waits for a message, 0 when none does
  got,      \* the bytes that Read has returned
  ended,    \* Read has returned 0
  events,   \* history: ReadEvent took messages before the end
  alive,    \* the subtask exists; when it does not, its exit code is there
  routed,   \* layer_task_map: the task that gets the keys of the window
  keys,     \* keys pressed
  stray     \* history: a message was sent to the finished subtask

writerVars == <<wpc, left, written>>
readerVars == <<buffer, closed, want, got, ended, events, alive>>
pipelineVars == <<writerVars, readerVars, mailbox, routed, keys, stray>>

Bytes(from, n) == [i \in 1..n |-> from + i]

PipeMessage(bytes) == [type |-> "pipe", data |-> bytes]
Key                == [type |-> "key", data |-> <<>>]

\* There is no pipeline yet; the subtask is made when the terminal goes to "start".
PipeInit ==
  /\ wpc = "none" /\ left = 0 /\ written = 0
  /\ mailbox = <<>>
  /\ buffer = <<>> /\ closed = FALSE /\ want = 0
  /\ got = <<>> /\ ended = FALSE /\ events = FALSE /\ alive = TRUE
  /\ routed = "terminal" /\ keys = 0
  /\ stray = FALSE

-----------------------------------------------------------------------------
(* The terminal and the command in front of the bar.                        *)

Send(m) ==
  /\ mailbox' = IF alive THEN Append(mailbox, m) ELSE mailbox
  /\ stray' = (stray \/ ~alive)

\* Keys go to the subtask from now on.
Route ==
  /\ wpc = "start"
  /\ wpc' = "command"
  /\ routed' = "subtask"
  /\ UNCHANGED <<left, written, mailbox, readerVars, keys, stray>>

\* PipeDescriptor::Write is called ...
Write(n) ==
  /\ wpc = "command" /\ left = 0
  /\ written + n <= MaxBytes
  /\ left' = n
  /\ UNCHANGED <<wpc, written, mailbox, readerVars, routed, keys, stray>>

PieceLength == IF left < DataSize THEN left ELSE DataSize

\* ... and sends one piece, under cli.
SendPiece ==
  /\ left > 0
  /\ Send(PipeMessage(Bytes(written, PieceLength)))
  /\ written' = written + PieceLength
  /\ left' = left - PieceLength
  /\ UNCHANGED <<wpc, readerVars, routed, keys>>

\* Mutant: the writer goes away without a word.
FinishWrite_Silent ==
  /\ wpc = "command" /\ left = 0
  /\ wpc' = "wait"
  /\ UNCHANGED <<left, written, mailbox, stray, readerVars, routed, keys>>

\* FinishWrite: a message of length 0.
FinishWrite ==
  /\ wpc = "command" /\ left = 0
  /\ Send(PipeMessage(<<>>))
  /\ wpc' = "wait"
  /\ UNCHANGED <<left, written, readerVars, routed, keys>>

\* WaitFinish returns; the keys come back.
WaitFinish ==
  /\ wpc = "wait" /\ ~alive
  /\ wpc' = "done"
  /\ routed' = "terminal"
  /\ UNCHANGED <<left, written, mailbox, readerVars, keys, stray>>

Writer ==
  \/ Route
  \/ \E n \in WriteSizes : Write(n)
  \/ SendPiece \/ FinishWrite \/ WaitFinish

-----------------------------------------------------------------------------
(* The subtask and the command behind the bar.                              *)

Reads == alive /\ want = 0 /\ ~events

\* Mutant: the bytes that were returned stay in the buffer, the others go.
Remaining_NotMoved(bytes, n) == SubSeq(bytes, 1, Len(bytes) - n)

\* memmove of what was not returned to the front.
Remaining(bytes, n) == SubSeq(bytes, n + 1, Len(bytes))

\* copy_bytes.
Copied(bytes, len) == IF Len(bytes) < len THEN Len(bytes) ELSE len

HandOver(bytes, len) ==
  /\ got' = got \o SubSeq(bytes, 1, Copied(bytes, len))
  /\ buffer' = Remaining(bytes, Copied(bytes, len))

\* Read finds bytes in data_.
ReadBuffer(len) ==
  /\ Reads /\ buffer # <<>>
  /\ HandOver(buffer, len)
  /\ UNCHANGED <<writerVars, mailbox, closed, want, ended, events, alive, routed, keys, stray>>

\* Read finds none, and the pipe is open: the loop begins.
ReadWaits(len) ==
  /\ Reads /\ buffer = <<>> /\ ~closed
  /\ want' = len
  /\ UNCHANGED <<writerVars, mailbox, buffer, closed, got, ended, events, alive, routed, keys, stray>>

\* Read after the end: 0 again.
ReadClosed ==
  /\ Reads /\ buffer = <<>> /\ closed
  /\ ended' = TRUE
  /\ UNCHANGED <<writerVars, mailbox, buffer, closed, want, got, events, alive, routed, keys, stray>>

Receives == alive /\ want > 0 /\ mailbox # <<>>
IsPipe(m) == m.type = "pipe"

\* Mutant: a piece that is not full is taken for the last one.
IsEnd_Short(m) == IsPipe(m) /\ Len(m.data) < DataSize

IsEnd(m) == IsPipe(m) /\ m.data = <<>>

\* A message that is not the pipe's.
Skip ==
  /\ Receives /\ ~IsPipe(Head(mailbox))
  /\ mailbox' = Tail(mailbox)
  /\ UNCHANGED <<writerVars, readerVars, routed, keys, stray>>

ReceiveEnd ==
  /\ Receives /\ IsEnd(Head(mailbox))
  /\ mailbox' = Tail(mailbox)
  /\ closed' = TRUE /\ ended' = TRUE /\ want' = 0
  /\ UNCHANGED <<writerVars, buffer, got, events, alive, routed, keys, stray>>

ReceivePiece ==
  /\ Receives /\ IsPipe(Head(mailbox)) /\ ~IsEnd(Head(mailbox))
  /\ mailbox' = Tail(mailbox)
  /\ HandOver(Head(mailbox).data, want)
  /\ want' = 0
  /\ UNCHANGED <<writerVars, closed, ended, events, alive, routed, keys, stray>>

(***************************************************************************)
(* ReadEvent takes any message.  more calls it after the end.  A command    *)
(* that calls it earlier (winhello behind a bar) swallows the pieces; those *)
(* of the repository do not read their input then.                          *)
(***************************************************************************)
ReadEvent ==
  /\ alive /\ want = 0 /\ mailbox # <<>>
  /\ mailbox' = Tail(mailbox)
  /\ events' = (events \/ ~ended)
  /\ UNCHANGED <<writerVars, buffer, closed, want, got, ended, alive, routed, keys, stray>>

\* The command is over and Finish destroys the task and its mailbox.
Finish ==
  /\ alive /\ want = 0
  /\ alive' = FALSE
  /\ mailbox' = <<>>
  /\ UNCHANGED <<writerVars, buffer, closed, want, got, ended, events, routed, keys, stray>>

Reader ==
  \/ \E len \in ReadSizes : ReadBuffer(len) \/ ReadWaits(len)
  \/ ReadClosed \/ Skip \/ ReceiveEnd \/ ReceivePiece \/ ReadEvent

-----------------------------------------------------------------------------
\* The main task sends a key to the subtask; one that is gone is kNoSuchTask.
PressKey ==
  /\ routed = "subtask" /\ keys < MaxKeys
  /\ keys' = keys + 1
  /\ mailbox' = IF alive THEN Append(mailbox, Key) ELSE mailbox
  /\ UNCHANGED <<writerVars, readerVars, routed, stray>>

-----------------------------------------------------------------------------
(***************************************************************************)
(* Read and Write, whatever the sizes of either, make a byte stream: the    *)
(* bytes of the messages in the mailbox, behind those in the buffer, are on *)
(* the way; the writer has closed when it has sent the message of length 0. *)
(***************************************************************************)
Transit == buffer \o FlattenSeq([i \in DOMAIN mailbox |-> mailbox[i].data])

Stream ==
  INSTANCE ByteStream WITH
    MaxPiece <- DataSize,
    put      <- written,
    transit  <- IF alive /\ ~events THEN Transit ELSE <<>>,
    got      <- got,
    open     <- wpc \in {"none", "start", "command"},
    reading  <- alive /\ ~events,
    ended    <- ended

IsByteStream == Stream!StreamSpec

(***************************************************************************)
(* A command that reads to the end may finish at once: the writer has sent  *)
(* its last message then, and touches the destroyed task no more.  Only a   *)
(* command that leaves before the end exposes it.                           *)
(***************************************************************************)
StrayOnlyIfLeftEarly == stray => ~ended
=============================================================================
