---------------------------- MODULE CommandLine -----------------------------
(***************************************************************************)
(* What the line of a terminal promises to the one who types: the line is   *)
(* what was typed less what was erased, it can be fetched back, and what is *)
(* on the screen behind the prompt is the line.                             *)
(***************************************************************************)
EXTENDS Integers, Sequences

CONSTANTS Words,       \* what may be typed
          HistoryLen   \* how many lines are kept

VARIABLES
  line,   \* the line
  past,   \* the lines that were entered, the last one first
  back,   \* how far back the line was fetched from, 0 for a line of its own
  busy,   \* a command is running
  shown   \* what is on the screen behind the prompt, and where the cursor is

lineVars == <<line, past, back, busy, shown>>

Shown(text) == [text |-> text, cursor |-> Len(text) + 1]

CommandLineInit ==
  /\ line = <<>> /\ past = <<>> /\ back = 0 /\ busy = FALSE
  /\ shown = Shown(<<>>)

\* The line is changed, and the screen with it.
Edit(text) == ~busy /\ line' = text /\ shown' = Shown(text)

Type(w) == Edit(Append(line, w)) /\ UNCHANGED <<past, back, busy>>

Erase ==
  /\ line # <<>>
  /\ Edit(SubSeq(line, 1, Len(line) - 1))
  /\ UNCHANGED <<past, back, busy>>

Fetched(k) == IF k \in DOMAIN past THEN past[k] ELSE <<>>

Fetch(k) ==
  /\ k \in 0..HistoryLen /\ k - back \in {-1, 0, 1}
  /\ Edit(Fetched(k))
  /\ back' = k
  /\ UNCHANGED <<past, busy>>

Latest(lines) == SubSeq(lines, 1, IF Len(lines) < HistoryLen THEN Len(lines) ELSE HistoryLen)

\* The line is a command; it may be done at once.
Enter ==
  /\ ~busy
  /\ past' = IF line = <<>> THEN past ELSE Latest(<<line>> \o past)
  /\ line' = <<>> /\ back' = 0
  /\ busy' \in BOOLEAN
  /\ shown' = Shown(<<>>)

Done == busy /\ busy' = FALSE /\ UNCHANGED <<line, past, back, shown>>

CommandLineNext ==
  \/ \E w \in Words : Type(w)
  \/ Erase \/ Enter \/ Done
  \/ \E k \in {back - 1, back, back + 1} : Fetch(k)

CommandLineSpec == CommandLineInit /\ [][CommandLineNext]_lineVars
=============================================================================
