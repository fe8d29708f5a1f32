------------------------------ MODULE Terminal ------------------------------
(***************************************************************************)
(* A terminal with a window (kernel/terminal.cpp): keys edit a line, Enter  *)
(* executes it, alone or as a pipeline (Pipe), programs print and read      *)
(* keys, the cursor blinks.                                                 *)
(*                                                                          *)
(* A word of a line takes one cell: a command's name, ">" or "|".  The      *)
(* screen has Rows by Columns cells; what is written to the right of them   *)
(* is not seen.  Programs print characters of one cell or of two ("wide");  *)
(* "broken" stands for a byte that begins no character of UTF-8.            *)
(***************************************************************************)
EXTENDS Pipe
LOCAL INSTANCE FiniteSetsExt

CONSTANTS
  Rows, Columns,   \* kRows, kColumns
  LineMax,         \* kLineMax
  HistoryLen,      \* the length of cmd_history_
  Words,           \* what is typed
  Prints,          \* what programs print at once
  ExitCodes,       \* the codes they end with
  MaxTyped,        \* bound: keys that go to the terminal
  MaxBefore,       \* bound: of these, before the pipeline
  MaxAfter,        \* bound: and after it has begun
  MaxAhead,        \* bound: keys in its mailbox
  MaxPrints        \* bound: prints of programs, and blinks

ASSUME TerminalAssumption ==
  /\ Rows \in Nat \ {0} /\ Columns \in Nat \ {0, 1, 2}
  /\ LineMax >= Columns /\ HistoryLen \in Nat \ {0}
  /\ MaxTyped \in Nat /\ MaxBefore \in Nat /\ MaxAfter \in Nat /\ MaxAhead \in Nat /\ MaxPrints \in Nat

VARIABLES
  display,   \* the cells of the window, and cursor_
  linebuf,   \* linebuf_; "" is the terminator
  index,     \* linebuf_index_
  history,   \* cmd_history_, each up to its terminator
  hindex,    \* cmd_history_index_
  code,      \* last_exit_code_
  mode,      \* "loop" of TaskTerminal, "app" runs, "pipe", "stuck"
  toFile,    \* files_[1] is a file
  reads,     \* TerminalFileDescriptor::Read waits for a key
  queue,     \* keys in the mailbox of the terminal
  visible,   \* cursor_visible_
  ragged,    \* history: the prompt did not begin a row
  budget     \* bound: keys, prints and blinks so far; a pipeline is begun once, with little before it

editVars     == <<linebuf, index, history, hindex>>
terminalVars == <<display, editVars, code, mode, toFile, reads, queue, visible, ragged, budget>>

Typed == Words \cup {"enter", "back", "up", "down"}

-----------------------------------------------------------------------------
(* The window.                                                              *)

Blank  == " "
Cursor == "_"

Put(d, x, y, c) ==
  IF x < Columns THEN [d EXCEPT !.cells[y][x] = c] ELSE d

EmptyRow == [x \in 0..(Columns - 1) |-> Blank]

DrawCursor(d, on) == Put(d, d.x, d.y, IF on THEN Cursor ELSE Blank)

\* FillRectangle, over whole rows.
Fill(cells, rows) == [y \in DOMAIN cells |-> IF y \in rows THEN EmptyRow ELSE cells[y]]

\* FrameBuffer::Move, one row up: line after line, each over the one that was copied before.
MoveUp(cells) ==
  FoldLeft(LAMBDA moved, y : [moved EXCEPT ![y - 1] = moved[y]], cells, [y \in 1..(Rows - 1) |-> y])

\* The row of the cursor is cleared.
Scroll1(d) == [d EXCEPT !.cells = Fill(MoveUp(@), {d.y})]

Newline(d) ==
  IF d.y < Rows - 1 THEN [d EXCEPT !.x = 0, !.y = @ + 1]
  ELSE Scroll1([d EXCEPT !.x = 0])

IsHankaku(c) == c # "wide"

\* A glyph, or two question marks in its place, covers two cells.
WriteUnicode(d, x, y, c) ==
  IF IsHankaku(c) THEN Put(d, x, y, c) ELSE Put(Put(d, x, y, c), x + 1, y, c)

\* Print of one character.
PrintChar(c, d) ==
  IF c = "\n" THEN Newline(d)
  ELSE IF IsHankaku(c)
  THEN LET e == IF d.x = Columns THEN Newline(d) ELSE d
       IN  [WriteUnicode(e, e.x, e.y, c) EXCEPT !.x = @ + 1]
  ELSE LET e == IF d.x = Columns - 1 THEN Newline(d) ELSE d
       IN  [WriteUnicode(e, e.x, e.y, c) EXCEPT !.x = @ + 2]

\* Print of a string.
PrintString(d, s) == DrawCursor(FoldLeft(LAMBDA e, c : PrintChar(c, e), DrawCursor(d, FALSE), s), TRUE)

\* The loop of Print does not get past a byte that begins no character.
Stuck(s) == "broken" \in Range(s)

UpToBroken(s) ==
  SubSeq(s, 1, IF Stuck(s) THEN Min({i \in DOMAIN s : s[i] = "broken"}) - 1 ELSE Len(s))

-----------------------------------------------------------------------------
(* The line.                                                                *)

NoLine == [i \in 0..(LineMax - 1) |-> ""]

\* A string of C, up to its terminator.
CString(buf) ==
  LET n == Min({i \in DOMAIN buf : buf[i] = ""} \cup {LineMax})
  IN  [i \in 1..n |-> buf[i - 1]]

TerminalInit ==
  /\ PipeInit
  /\ display = PrintString([cells |-> [y \in 0..(Rows - 1) |-> EmptyRow], x |-> 0, y |-> 0], <<">">>)
  /\ linebuf = NoLine /\ index = 0
  /\ history = [i \in 1..HistoryLen |-> <<>>] /\ hindex = -1
  /\ code = 0 /\ mode = "loop" /\ toFile = FALSE /\ reads = FALSE
  /\ queue = <<>> /\ visible = FALSE /\ ragged = FALSE
  /\ budget = [typed |-> 0, prints |-> 0]

\* A key edits the line on display d.
InputBack(d) ==
  /\ display' = DrawCursor(IF d.x > 1 THEN Put([d EXCEPT !.x = @ - 1], d.x - 1, d.y, Blank) ELSE d, TRUE)
  /\ index' = IF d.x > 1 /\ index > 0 THEN index - 1 ELSE index
  /\ UNCHANGED <<linebuf, history, hindex>>

InputWord(d, w) ==
  LET fits == d.x < Columns - 1 /\ index < LineMax - 1
  IN  /\ display' = DrawCursor(IF fits THEN [Put(d, d.x, d.y, w) EXCEPT !.x = @ + 1] ELSE d, TRUE)
      /\ linebuf' = IF fits THEN [linebuf EXCEPT ![index] = w] ELSE linebuf
      /\ index' = IF fits THEN index + 1 ELSE index
      /\ UNCHANGED <<history, hindex>>

WriteString(d, s) == FoldLeft(LAMBDA e, i : Put(e, d.x + i - 1, d.y, s[i]), d, [i \in DOMAIN s |-> i])

HistoryUpDown(d, h) ==
  LET line    == IF h >= 0 THEN history[h + 1] ELSE <<>>
      cleared == [d EXCEPT !.x = 1, !.cells[d.y] = [EmptyRow EXCEPT ![0] = d.cells[d.y][0]]]
  IN  /\ hindex' = h
      /\ linebuf' = [i \in DOMAIN linebuf |-> IF i < Len(line) THEN line[i + 1]
                                              ELSE IF i = Len(line) THEN "" ELSE linebuf[i]]
      /\ index' = Len(line)
      /\ display' = DrawCursor([WriteString(cleared, line) EXCEPT !.x = Len(line) + 1], TRUE)
      /\ UNCHANGED history

Up   == IF hindex + 1 < HistoryLen THEN hindex + 1 ELSE hindex
Down == IF hindex >= 0 THEN hindex - 1 ELSE hindex

-----------------------------------------------------------------------------
(* Enter.                                                                   *)

\* Mutant: the line is not ended where it was.
Ended_Not == linebuf

Ended == [linebuf EXCEPT ![index] = ""]

PushHistory(line) ==
  IF index > 0 THEN <<line>> \o SubSeq(history, 1, HistoryLen - 1) ELSE history

\* (ExecuteLine ends the parts of the line in linebuf_ itself, which is not read any more.)
\* The command the line begins with.
Command(line) == IF line = <<>> \/ line[1] \in {">", "|"} THEN "" ELSE line[1]

\* What the commands of the terminal print, and their exit codes: "code" is echo $?, "none"
\* is not found.  (ls, cat, lspci and memstat print lines, like an application.)
Outcomes(command) ==
  CASE command = "code" -> {<<<<IF code = 0 THEN "0" ELSE "1", "\n">>, 0>>}
    [] command = "none" -> {<<<<"e">>, 1>>}
    [] OTHER            -> {<<<<>>, 0>>}

\* "clear": the window is empty, the cursor in its first row.
Cleared(d) == [d EXCEPT !.y = 0, !.cells = Fill(@, 0..(Rows - 1))]

\* ExecuteLine has returned: the prompt.
Prompt(d) ==
  /\ display' = PrintString(d, <<">">>)
  /\ ragged' = (display'.x # 1)

Execute(line, d) ==
  \* The file behind ">" cannot be opened or made: nothing is executed.
  \/ /\ ">" \in Range(line)
     /\ Prompt(PrintString(d, <<"e", "\n">>))
     /\ UNCHANGED <<code, mode, toFile, writerVars, budget>>
  \/ /\ "|" \in Range(line) /\ wpc = "none"
     /\ budget.typed <= MaxBefore /\ budget.prints = 0
     /\ budget' = [budget EXCEPT !.typed = MaxTyped - MaxAfter]
     /\ wpc' = "start" /\ mode' = "pipe"
     /\ display' = d
     /\ UNCHANGED <<code, ragged, toFile, left, written>>
  \/ /\ "|" \notin Range(line) /\ Command(line) = "app"
     /\ mode' = "app" /\ toFile' = (">" \in Range(line))
     /\ display' = d
     /\ UNCHANGED <<code, ragged, writerVars, budget>>
  \/ /\ "|" \notin Range(line) /\ Command(line) # "app"
     /\ \E o \in Outcomes(Command(line)) :
          /\ code' = o[2]
          /\ Prompt(CASE Command(line) = "clear" -> Cleared(d)
                      [] ">" \in Range(line) /\ Command(line) # "none" -> d
                      [] OTHER -> PrintString(d, o[1]))
     /\ UNCHANGED <<mode, toFile, writerVars, budget>>

InputEnter(d) ==
  /\ linebuf' = Ended
  /\ history' = PushHistory(CString(Ended))
  /\ index' = 0 /\ hindex' = -1
  /\ Execute(CString(Ended), Newline(d))

\* InputKey: the cursor is taken away first, and drawn again at the end.
InputKey(key) ==
  LET d == DrawCursor(display, FALSE)
  IN  \/ key = "enter" /\ InputEnter(d)
      \/ /\ \/ key = "back" /\ InputBack(d)
            \/ key = "up" /\ HistoryUpDown(d, Up)
            \/ key = "down" /\ HistoryUpDown(d, Down)
            \/ key \in Words /\ InputWord(d, key)
         /\ UNCHANGED <<code, mode, toFile, ragged, writerVars, budget>>

pipeVars == <<readerVars, mailbox, routed, keys, stray>>

\* kKeyPush in the loop of TaskTerminal.
HandleKey ==
  /\ mode = "loop" /\ queue # <<>>
  /\ InputKey(Head(queue))
  /\ queue' = Tail(queue)
  /\ UNCHANGED <<reads, visible, pipeVars>>

\* kTimerTimeout, in an active window.
BlinkCursor ==
  /\ mode = "loop" /\ budget.prints < MaxPrints
  /\ visible' = ~visible
  /\ display' = DrawCursor(display, visible')
  /\ budget' = [budget EXCEPT !.prints = @ + 1]
  /\ UNCHANGED <<editVars, code, mode, toFile, reads, queue, ragged, writerVars, pipeVars>>

-----------------------------------------------------------------------------
(* Programs, in front of a bar, behind it or alone.                         *)

\* TerminalFileDescriptor::Write.
WriteToTerminal ==
  /\ mode \in {"app", "pipe"} /\ ~toFile /\ ~reads
  /\ mode = "pipe" => wpc \in {"start", "command", "wait"}
  /\ budget.prints < MaxPrints
  /\ budget' = [budget EXCEPT !.prints = @ + 1]
  /\ \E s \in Prints :
       /\ display' = PrintString(display, UpToBroken(s))
       /\ mode' = IF Stuck(s) THEN "stuck" ELSE mode
  /\ UNCHANGED <<editVars, code, toFile, reads, queue, visible, ragged, writerVars, pipeVars>>

\* TerminalFileDescriptor::Read is called, by an application or in front of the bar.
ReadKey ==
  /\ mode = "app" \/ (mode = "pipe" /\ wpc = "command" /\ left = 0)
  /\ ~reads
  /\ reads' = TRUE
  /\ UNCHANGED <<display, editVars, code, mode, toFile, queue, visible, ragged, budget, writerVars, pipeVars>>

Echo(key) ==
  CASE key = "enter" -> <<"\n">>
    [] key = "back" -> <<"^">>
    [] key \in {"up", "down"} -> <<>>
    [] OTHER -> <<key>>

KeyIsRead ==
  /\ mode \in {"app", "pipe"} /\ reads /\ queue # <<>>
  /\ display' = PrintString(display, Echo(Head(queue)))
  /\ queue' = Tail(queue)
  /\ reads' = FALSE
  /\ UNCHANGED <<editVars, code, mode, toFile, visible, ragged, budget, writerVars, pipeVars>>

\* ExecuteFile has returned, or the subtask has.
CommandEnds ==
  /\ \/ mode = "app" /\ ~reads
     \/ mode = "pipe" /\ wpc = "done"
  /\ mode' = "loop" /\ toFile' = FALSE
  /\ \E c \in ExitCodes : code' = c
  /\ Prompt(display)
  /\ UNCHANGED <<editVars, reads, queue, visible, budget, writerVars, pipeVars>>

-----------------------------------------------------------------------------
\* The main task sends a key to the task that has the window.
KeyToTerminal ==
  /\ routed = "terminal" /\ Len(queue) < MaxAhead /\ budget.typed < MaxTyped
  /\ budget' = [budget EXCEPT !.typed = @ + 1]
  /\ \E key \in Typed : queue' = Append(queue, key)
  /\ UNCHANGED <<display, editVars, code, mode, toFile, reads, visible, ragged, writerVars, pipeVars>>

\* A step of the pipeline; the command in front of the bar may be waiting for a key.
InPipe(A) == mode = "pipe" /\ A /\ UNCHANGED terminalVars

KeyToSubtask == InPipe(PressKey)

TerminalNext ==
  \/ HandleKey \/ BlinkCursor \/ WriteToTerminal \/ ReadKey \/ KeyIsRead \/ CommandEnds
  \/ KeyToTerminal \/ KeyToSubtask
  \/ InPipe(~reads /\ Writer) \/ InPipe(Reader) \/ InPipe(Finish)

allVars == <<pipelineVars, terminalVars>>

TerminalSpec == TerminalInit /\ [][TerminalNext]_allVars

(***************************************************************************)
(* Both tasks are scheduled; the first command comes to its end, if it need *)
(* not wait for a key; the second one reads on as long as there is          *)
(* something, and finishes after the end.  Nothing makes it leave earlier,  *)
(* and nothing keeps it from that.                                          *)
(***************************************************************************)
FairSpec ==
  /\ TerminalSpec
  /\ WF_allVars(InPipe(Route)) /\ WF_allVars(InPipe(SendPiece)) /\ WF_allVars(InPipe(WaitFinish))
  /\ SF_allVars(InPipe(~reads /\ FinishWrite)) /\ WF_allVars(KeyIsRead)
  /\ WF_allVars(InPipe(Reader)) /\ WF_allVars(InPipe(ended /\ Finish))

-----------------------------------------------------------------------------
(***************************************************************************)
(* The line, its history and the screen go together: what the next Enter    *)
(* executes is what is on the screen behind the prompt, whatever was typed, *)
(* erased, fetched and printed before.  The screen is excused when the      *)
(* prompt does not begin a row, because something was printed without a     *)
(* newline (the message "no such command" is).                              *)
(***************************************************************************)
Line == [i \in 1..index |-> linebuf[i - 1]]

Row == display.cells[display.y]

RowIsClean ==
  /\ Row[0] = ">" /\ Row[display.x] \in {Blank, Cursor}
  /\ \A x \in (display.x + 1)..(Columns - 1) : Row[x] = Blank

Seen ==
  [text |-> IF RowIsClean THEN [i \in 1..(display.x - 1) |-> Row[i]] ELSE <<"junk">>,
   cursor |-> display.x]

Editor ==
  INSTANCE CommandLine WITH
    line  <- Line,
    past  <- SelectSeq(history, LAMBDA h : h # <<>>),
    back  <- hindex + 1,
    busy  <- mode # "loop",
    shown <- IF mode = "loop" /\ ~ragged THEN Seen ELSE [text |-> Line, cursor |-> index + 1]

IsCommandLine == Editor!CommandLineSpec

(***************************************************************************)
(* A pipeline comes to its end and gives the keys back, unless the second   *)
(* command has turned to its own events and ends when it likes, a program   *)
(* has printed what is no character, or the first command waits for a key:  *)
(* the keys go to the second one.                                           *)
(***************************************************************************)
Starved == reads /\ queue = <<>> /\ routed = "subtask"

PipelineEnds ==
  wpc = "start" ~> \/ events \/ mode = "stuck" \/ Starved
                   \/ wpc = "done" /\ routed = "terminal"
=============================================================================
