------------------------------- MODULE Layers -------------------------------
(***************************************************************************)
(* The windows on the screen (layer.cpp, mouse.cpp, window.cpp,            *)
(* frame_buffer.cpp and the window system calls of syscall.cpp).           *)
(*                                                                         *)
(* LayerManager keeps the layers, the order in which they lie on each      *)
(* other, and two frame buffers: it composes in back_buffer_ and copies    *)
(* from there to the screen.  Every operation repaints only what it thinks *)
(* it has changed, so that the screen is right only if all of them are.    *)
(* ActiveLayer keeps the window that has the keyboard, Mouse the window    *)
(* that is being dragged.                                                  *)
(*                                                                         *)
(* The main task is above all others and handles a mouse event in one go.  *)
(* The tasks that own windows call in with interrupts off, except where    *)
(* they look up what they are about to close, and where a new terminal     *)
(* places and activates its window: the first thing it prints has switched *)
(* them on again.                                                          *)
(*                                                                         *)
(* Geometry is reduced to what tells the cases apart: a window has a title *)
(* bar of one row with the close button at its end and one row below, the  *)
(* cursor one pixel of ink and a transparent one on its right.             *)
(***************************************************************************)
EXTENDS Integers, Sequences, SequencesExt

CONSTANTS Width, Height,  \* of the screen
          Back,           \* the layer of the desktop
          Main,           \* the kernel's own window, which no task owns
          Cursor,         \* the layer of the mouse
          Apps,           \* windows that applications open
          Terminals,      \* windows of terminals
          None,           \* the layer id 0
          MaxOpen,        \* bound: windows that tasks open
          OpenAt,         \* where an application may open its window
          MainAt, TerminalAt, CursorAt,  \* the positions main.cpp and others fix
          Displacements   \* what the mouse may report

Windows   == Apps \cup Terminals
Toplevels == {Main} \cup Windows
LayerIds  == {Back, Cursor} \cup Toplevels

ASSUME Geometry == /\ Width \in Nat \ {0} /\ Height \in Nat \ {0}
                   /\ OpenAt \cup {MainAt, TerminalAt, CursorAt} \cup Displacements \subseteq Int \X Int
                   /\ MaxOpen \in Nat

\* NewLayer counts its ids, from 1.
ASSUME Distinct == /\ Back # Main /\ Back # Cursor /\ Main # Cursor
                   /\ {Back, Main, Cursor} \cap Windows = {} /\ Apps \cap Terminals = {}
                   /\ None \notin LayerIds

VARIABLES
  manager,   \* LayerManager: the stack from bottom to top, the position and the
             \* look of each layer, back_buffer_ and the screen
  active,    \* ActiveLayer::active_layer_
  told,      \* terminal -> what it takes its window for when it has read its mailbox:
             \* "active", "inactive", or "unsure" if it may not have got the last message
  drag,      \* Mouse::drag_layer_id_
  pressed,   \* the left button in Mouse::previous_buttons_
  opened,    \* windows that have got their place
  opening,   \* terminal -> how far TaskTerminal is with its window: "made", "placed",
             \* "named" in active_layer_, or "no" before and afterwards
  commands,  \* terminals that run a command or a pipeline
  asked,     \* terminals whose task has a kWindowClose in its mailbox
  closing,   \* window -> the position CloseLayer or CloseWindow has read, or None
  closed,    \* windows whose layer has been removed
  requests,  \* terminals with a LayerOperation::DrawArea in the main task's mailbox
  dirty,     \* windows whose content has changed since it was last drawn
  ghosts,    \* windows that moved between the look-up and the removal of their layer
  moved,     \* the mouse has been moved since InitializeMouse
  interrupted, \* another task came in while a terminal placed or activated its window
  lost       \* where the kernel has followed a null pointer: "no", "drag", "active"

\* Who opens windows and who listens.
taskVars == <<opening, commands, interrupted>>

vars == <<manager, active, told, drag, pressed, opened, asked, closing, closed, requests,
          dirty, ghosts, moved, lost, taskVars>>

-----------------------------------------------------------------------------
(* Rectangles: sets of pixels, and operator& is their intersection.        *)

Add(a, b) == <<a[1] + b[1], a[2] + b[2]>>
Sub(a, b) == <<a[1] - b[1], a[2] - b[2]>>
Rect(pos, size) == (pos[1] .. pos[1] + size[1] - 1) \X (pos[2] .. pos[2] + size[2] - 1)
ElementMin(a, b) == <<IF a[1] < b[1] THEN a[1] ELSE b[1], IF a[2] < b[2] THEN a[2] ELSE b[2]>>
ElementMax(a, b) == <<IF a[1] > b[1] THEN a[1] ELSE b[1], IF a[2] > b[2] THEN a[2] ELSE b[2]>>

ScreenSize == <<Width, Height>>
Pixels     == Rect(<<0, 0>>, ScreenSize)

Size(id) == CASE id = Back   -> ScreenSize
              [] id = Cursor -> <<2, 1>>
              [] OTHER       -> <<2, 2>>

\* DrawMouseCursor: where the shape of the cursor has ink.
CursorInk == <<1, 1>>

\* Window::DrawTo: the pixels of the layer that are not transparent.
Inked(m, id) == Rect(m.pos[id], IF id = Cursor THEN CursorInk ELSE Size(id))
Extent(m, id) == Rect(m.pos[id], Size(id))

\* ToplevelWindow::GetWindowRegion.
GetWindowRegion(offset) == CASE offset = <<0, 0>> -> "TitleBar"
                             [] offset = <<1, 0>> -> "CloseButton"
                             [] OTHER             -> "Other"

\* What a window shows at a pixel of the screen: the title bar its being active,
\* the first pixel below it what the task has drawn there.
InkAt == <<0, 1>>
Picture(m, id, p) ==
  LET offset == Sub(p, m.pos[id])
  IN  IF id \notin Toplevels THEN <<id>>
      ELSE IF offset[2] = 0  THEN <<id, "title", m.look[id].active>>
      ELSE IF offset = InkAt THEN <<id, "ink", m.look[id].ink>>
      ELSE <<id, "content">>

-----------------------------------------------------------------------------
(* LayerManager                                                            *)

InStack(m, id) == \E i \in DOMAIN m.stack : m.stack[i] = id
HeightOf(m, id) == IF InStack(m, id)
                   THEN (CHOOSE i \in DOMAIN m.stack : m.stack[i] = id) - 1 ELSE -1

\* The layers from height `from' up paint `area' of back_buffer_ in their order; a
\* layer with a transparent colour does not look at the area and paints itself whole.
Paint(m, from, area) ==
  LET PaintersOf(p) == {i \in from + 1 .. Len(m.stack) :
                          /\ p \in Inked(m, m.stack[i])
                          /\ p \in area \/ m.stack[i] = Cursor}
      Topmost(c) == CHOOSE i \in c : \A j \in c : j <= i
  IN  [m EXCEPT !.back = [p \in Pixels |->
         LET c == PaintersOf(p)
         IN  IF c = {} THEN m.back[p] ELSE Picture(m, m.stack[Topmost(c)], p)]]

\* FrameBuffer::Copy from back_buffer_ to the screen.
Copy(m, area) ==
  [m EXCEPT !.screen = [p \in Pixels |-> IF p \in area THEN m.back[p] ELSE m.screen[p]]]

\* Draw(area).
Draw(m, area) == Copy(Paint(m, 0, area), area)

\* Draw(id, area), with the area as pixels of the screen.  A layer that is not in the
\* stack leaves window_area as it was, uninitialised: `junk' is what is there.
DrawLayer(m, id, area, junk) ==
  IF InStack(m, id)
  THEN LET window_area == Extent(m, id) \cap area
       IN  Copy(Paint(m, HeightOf(m, id), window_area), window_area)
  ELSE Copy(m, junk)

\* What the uninitialised rectangle may be (when there is one).
Junk(m, id) == IF InStack(m, id) THEN {{}}
               ELSE {{}, Pixels} \cup {Rect(p, <<2, 2>>) : p \in Pixels}

\* Mutant: Move draws the layer where it is now, and forgets where it was.
Move_NewOnly(m, id, new, junk) ==
  LET there == [m EXCEPT !.pos[id] = new] IN DrawLayer(there, id, Extent(there, id), junk)

Move(m, id, new, junk) ==
  LET there == [m EXCEPT !.pos[id] = new]
  IN  DrawLayer(Draw(there, Extent(m, id)), id, Extent(there, id), junk)

Hide(m, id) ==
  IF InStack(m, id) THEN [m EXCEPT !.stack = RemoveAt(m.stack, HeightOf(m, id) + 1)] ELSE m

\* Mutant: UpDown does not mind that the list has become shorter.
UpDown_AtHeight(m, id, height) ==
  LET rest == Hide(m, id).stack
  IN  IF height < 0 THEN Hide(m, id)
      ELSE [m EXCEPT !.stack =
              InsertAt(rest, (IF height >= Len(rest) THEN Len(rest) ELSE height + 1) + 1, id)]

UpDown(m, id, height) ==
  LET top == Len(m.stack)
      new == IF height > top THEN top ELSE height
  IN  IF height < 0 THEN Hide(m, id)
      ELSE IF ~ InStack(m, id) THEN [m EXCEPT !.stack = InsertAt(m.stack, new + 1, id)]
      ELSE [m EXCEPT !.stack = InsertAt(Hide(m, id).stack,
                                        (IF new = top THEN top - 1 ELSE new) + 1, id)]

\* FindLayerByPosition: the topmost layer at a pixel, the cursor left aside.
FindLayerByPosition(m, p) ==
  LET at == {i \in DOMAIN m.stack : m.stack[i] # Cursor /\ p \in Extent(m, m.stack[i])}
  IN  IF at = {} THEN None ELSE m.stack[CHOOSE i \in at : \A j \in at : j <= i]

-----------------------------------------------------------------------------
(* ActiveLayer                                                             *)

\* The layers that are still in layers_: FindLayer returns null for the others.
Alive == {Back, Cursor, Main} \cup (opened \ closed)

\* A new ToplevelWindow is drawn as an inactive one.
NewWindow == [active |-> FALSE, ink |-> 0]

SetActive(m, id, on) == [m EXCEPT !.look[id].active = on]
DrawWhole(m, id)     == DrawLayer(m, id, Extent(m, id), {})

\* What ActiveLayer::Activate does to the layers: the old window is redrawn where it
\* lies, the new one is put right below the cursor.
Deactivated(m, old) ==
  IF old = None THEN m ELSE DrawWhole(SetActive(m, old, FALSE), old)

Raise(m, id) ==
  LET down == UpDown(m, id, 0) IN UpDown(down, id, HeightOf(down, Cursor) - 1)

BroughtUp(m, id) == DrawWhole(Raise(SetActive(m, id, TRUE), id), id)

Activated(m, old, id) ==
  IF old = id THEN m
  ELSE IF id = None THEN Deactivated(m, old) ELSE BroughtUp(Deactivated(m, old), id)

\* The windows in layer_task_map; the desktop and the kernel's own window are not.
LayerTasks == opened \ closed

\* SendWindowActiveMessage: 0 to the window `off', then 1 to the window `on', if they
\* have tasks.  While a terminal runs a command, the command reads its mailbox
\* (ReadEvent, TerminalFileDescriptor::Read), a pipeline puts the subtask in its place in
\* the map, and none of them heeds the message.  The window of an application may be
\* mapped to a terminal's task, which then takes its messages for its own.
SendWindowActive(off, on, tasks) ==
  LET sent      == {off, on} \cap tasks
      Stray(t)  == IF t = on THEN {} ELSE Apps
      Missed(t) == IF t \in commands THEN Apps \cup {t} ELSE Stray(t)
  IN  told' = [t \in Terminals |->
                 IF sent \cap Missed(t) # {} THEN "unsure"
                 ELSE IF t \in sent THEN (IF t = on THEN "active" ELSE "inactive") ELSE told[t]]

\* Activate(id) on layers m.  It follows FindLayer(active_layer_) without a look; and
\* what it draws whole shows everything the windows' tasks have drawn.
Activate(m, id, tasks) ==
  /\ active' = id
  /\ IF active = id THEN told' = told ELSE SendWindowActive(active, id, tasks)
  /\ IF active \in Alive \cup {id, None}
     THEN manager' = Activated(m, active, id) /\ UNCHANGED lost
     ELSE manager' = m /\ lost' = "active"
  /\ dirty' = IF active = id THEN dirty ELSE dirty \ {active, id}

-----------------------------------------------------------------------------
Empty == [p \in Pixels |-> <<>>]

NewManager ==
  [stack |-> <<>>, pos |-> [l \in LayerIds |-> <<0, 0>>], look |-> [l \in LayerIds |-> NewWindow],
   back |-> Empty, screen |-> Empty]

\* InitializeLayer: the desktop is the lowest layer.
InitializeLayer == UpDown(NewManager, Back, 0)

INT_MAX == 2147483647

\* InitializeMainWindow, and the Draw of all there is.
InitializeMainWindow(m) ==
  Draw(UpDown([m EXCEPT !.pos[Main] = MainAt], Main, INT_MAX), Pixels)

\* InitializeMouse: the cursor is moved, and put on top (height INT_MAX) after the last
\* Draw: it is not seen before it moves again.
InitializeMouse(m, junk) == UpDown(Move(m, Cursor, CursorAt, junk), Cursor, INT_MAX)

Init ==
  /\ \E m \in {InitializeLayer} : \E n \in {InitializeMainWindow(m)} :
       \E junk \in Junk(n, Cursor) : manager = InitializeMouse(n, junk)
  /\ active = None /\ told = [t \in Terminals |-> "inactive"] /\ drag = None /\ pressed = FALSE
  /\ opened = {} /\ closed = {} /\ closing = [w \in Windows |-> None]
  /\ asked = {} /\ requests = {} /\ dirty = {} /\ ghosts = {}
  /\ moved = FALSE /\ lost = "no"
  /\ opening = [t \in Terminals |-> "no"] /\ commands = {} /\ interrupted = FALSE

-----------------------------------------------------------------------------
(* The mouse: Mouse::OnInterrupt, in the main task                         *)

\* Where the cursor goes, and how far that is.
Clamped(d) == ElementMax(ElementMin(Add(manager.pos[Cursor], d), Sub(ScreenSize, <<1, 1>>)),
                         <<0, 0>>)
\* Mutant: the window follows the mouse, not the cursor.
PosDiff_Unclamped(d) == d

PosDiff(d) == Sub(Clamped(d), manager.pos[Cursor])
CursorMoved(d) == Move(manager, Cursor, Clamped(d), {})

\* FindActiveLayerTask, when `act' is active.
FindActiveLayerTask(act) == {act} \cap Alive \cap LayerTasks

\* SendCloseMessage.  An application may close its window or not, and the command that
\* a terminal runs may drop the message.
SendCloseMessage(act) ==
  \E deaf \in {commands, {}} : asked' = asked \cup ((FindActiveLayerTask(act) \cap Terminals) \ deaf)

\* The left button goes down: a window under the cursor becomes active, its title bar
\* is gripped, its close button sends kWindowClose to its task.  On a layer that
\* cannot be dragged, the desktop, no window stays active.
Press(d) ==
  \E m \in {CursorMoved(d)} : \E under \in {FindLayerByPosition(m, Clamped(d))} :
    LET win    == under \in Toplevels
        region == IF win THEN GetWindowRegion(Sub(Clamped(d), m.pos[under])) ELSE "Other"
    IN  /\ ~ pressed
        /\ pressed' = TRUE
        /\ Activate(m, IF win THEN under ELSE None, LayerTasks)
        /\ drag' = IF region = "TitleBar" THEN under ELSE drag
        /\ IF region = "CloseButton" THEN SendCloseMessage(under) ELSE UNCHANGED asked
        /\ UNCHANGED <<opened, closing, closed, requests, ghosts, taskVars>>

\* MoveRelative of the window that is gripped.  It may have been closed meanwhile:
\* FindLayer finds nothing and the null pointer is followed.
MoveRelative(m, id, diff) ==
  IF id \in Alive
  THEN /\ manager' = Move(m, id, Add(m.pos[id], diff), {})
       /\ dirty' = dirty \ {id}
       /\ ghosts' = IF id \in Windows /\ closing[id] # None /\ diff # <<0, 0>>
                    THEN ghosts \cup {id} ELSE ghosts
       /\ UNCHANGED lost
  ELSE manager' = m /\ lost' = "drag" /\ UNCHANGED <<dirty, ghosts>>

\* The button stays down: the window goes with the cursor.
Drag(d) ==
  /\ pressed
  /\ \E m \in {CursorMoved(d)} :
       IF drag = None THEN manager' = m /\ UNCHANGED <<dirty, ghosts, lost>>
       ELSE MoveRelative(m, drag, PosDiff(d))
  /\ UNCHANGED <<active, told, drag, pressed, opened, asked, closing, closed, requests, taskVars>>

\* The button goes up, or stays up.
Release(d) ==
  /\ manager' = CursorMoved(d)
  /\ pressed' = FALSE
  /\ drag' = IF pressed THEN None ELSE drag
  /\ UNCHANGED <<active, told, opened, asked, closing, closed, requests, dirty, ghosts, lost,
                 taskVars>>

OnInterrupt == \E d \in Displacements :
                 /\ Press(d) \/ Drag(d) \/ Release(d)
                 /\ moved' = TRUE

-----------------------------------------------------------------------------
(* The tasks' calls                                                        *)

\* The terminals that are at it, and all windows that have been opened or are being.
Opening == {t \in Terminals : opening[t] # "no"}
Begun   == opened \cup Opening

\* SYSCALL(OpenWindow): the layer has its position before it is shown, but its task
\* only afterwards, which is therefore not told that the window is active.
OpenWindow(w) ==
  /\ w \in Apps \ opened /\ Cardinality(Begun) < MaxOpen
  /\ \E at \in OpenAt : Activate([manager EXCEPT !.pos[w] = at], w, LayerTasks)
  /\ opened' = opened \cup {w}
  /\ UNCHANGED <<drag, pressed, asked, closing, closed, requests, ghosts, moved, taskVars>>

\* The constructor of Terminal makes the layer and prints the prompt: a DrawArea for a
\* layer that is not in the stack, and interrupts are on from here.
CreateTerminal(t) ==
  /\ t \in Terminals \ Begun /\ Cardinality(Begun) < MaxOpen
  /\ opening' = [opening EXCEPT ![t] = "made"]
  /\ requests' = requests \cup {t}
  /\ UNCHANGED <<manager, active, told, drag, pressed, opened, asked, closing, closed, dirty,
                 ghosts, moved, lost, commands, interrupted>>

\* TaskTerminal moves the layer while it is not in the stack, enters it in the map and
\* makes it the active one, if no other task comes in between.
OpenTerminal(t) ==
  /\ opening[t] = "made"
  /\ opening' = [opening EXCEPT ![t] = "no"]
  /\ \E junk \in Junk(manager, t) : Activate(Move(manager, t, TerminalAt, junk), t, LayerTasks \cup {t})
  /\ opened' = opened \cup {t}
  /\ UNCHANGED <<drag, pressed, asked, closing, closed, requests, ghosts, moved, commands,
                 interrupted>>

\* If others do come in, they find the window placed but not active,
PlaceTerminal(t) ==
  /\ opening[t] = "made"
  /\ opening' = [opening EXCEPT ![t] = "placed"]
  /\ interrupted' = TRUE
  /\ \E junk \in Junk(manager, t) : manager' = Move(manager, t, TerminalAt, junk)
  /\ opened' = opened \cup {t}
  /\ UNCHANGED <<active, told, drag, pressed, asked, closing, closed, requests, dirty, ghosts,
                 moved, lost, commands>>

\* or named in active_layer_ and not in the stack.
NameTerminal(t) ==
  /\ opening[t] = "placed"
  /\ opening' = [opening EXCEPT ![t] = "named"]
  /\ active' = t
  /\ IF active \in Alive \cup {None}
     THEN /\ manager' = Deactivated(manager, active)
          /\ SendWindowActive(active, None, LayerTasks)
          /\ dirty' = dirty \ {active} /\ UNCHANGED lost
     ELSE lost' = "active" /\ UNCHANGED <<manager, told, dirty>>
  /\ UNCHANGED <<drag, pressed, opened, asked, closing, closed, requests, ghosts, moved, commands,
                 interrupted>>

\* Activate goes on with active_layer_ as it finds it, or as the compiler has kept it;
\* if the mouse has set it to 0, there is no such layer.
ShowTerminal(t) ==
  /\ opening[t] = "named"
  /\ opening' = [opening EXCEPT ![t] = "no"]
  /\ \E id \in {t, active} :
       IF id \in Alive
       THEN /\ manager' = BroughtUp(manager, id)
            /\ SendWindowActive(None, id, LayerTasks)
            /\ dirty' = dirty \ {id} /\ UNCHANGED lost
       ELSE lost' = "active" /\ UNCHANGED <<manager, told, dirty>>
  /\ UNCHANGED <<active, drag, pressed, opened, asked, closing, closed, requests, ghosts, moved,
                 commands, interrupted>>

Working(w) == w \in opened /\ closing[w] = None /\ w \notin closed /\ w \notin Opening

\* ExecuteLine: a command, or a pipeline, begins and ends.
BeginCommand(t) ==
  /\ t \in Terminals \ commands /\ Working(t)
  /\ commands' = commands \cup {t}
  /\ UNCHANGED <<manager, active, told, drag, pressed, opened, asked, closing, closed, requests,
                 dirty, ghosts, moved, lost, opening, interrupted>>

EndCommand(t) ==
  /\ t \in commands
  /\ commands' = commands \ {t}
  /\ UNCHANGED <<manager, active, told, drag, pressed, opened, asked, closing, closed, requests,
                 dirty, ghosts, moved, lost, opening, interrupted>>

Draws(w) == /\ manager' = [manager EXCEPT !.look[w].ink = 1 - @]
            /\ dirty' = dirty \cup {w}

\* The window functions of an application change its picture; DoWinFunc then draws
\* the layer, unless told not to, and WinRedraw does only that.
WinFunc(w) ==
  /\ w \in Apps /\ Working(w)
  /\ Draws(w)
  /\ UNCHANGED <<active, told, drag, pressed, opened, asked, closing, closed, requests, ghosts, moved, lost,
                 taskVars>>

WinRedraw(w) ==
  /\ w \in Apps /\ Working(w)
  /\ manager' = DrawWhole(manager, w)
  /\ dirty' = dirty \ {w}
  /\ UNCHANGED <<active, told, drag, pressed, opened, asked, closing, closed, requests, ghosts, moved, lost,
                 taskVars>>

\* BlinkCursor: a terminal draws into its window and asks the main task to show it
\* (one request at a time).
BlinkCursor(t) ==
  /\ t \in Terminals \ requests /\ Working(t)
  /\ Draws(t)
  /\ requests' = requests \cup {t}
  /\ UNCHANGED <<active, told, drag, pressed, opened, asked, closing, closed, ghosts, moved, lost,
                 taskVars>>

\* ProcessLayerMessage, LayerOperation::DrawArea.  The layer may be gone by now.
ProcessLayerMessage(t) ==
  /\ t \in requests
  /\ requests' = requests \ {t}
  /\ \E junk \in Junk(manager, t) :
       manager' = DrawLayer(manager, t, Rect(Add(manager.pos[t], InkAt), <<1, 1>>), junk)
  /\ dirty' = dirty \ {t}
  /\ UNCHANGED <<active, told, drag, pressed, opened, asked, closing, closed, ghosts, moved, lost,
                 taskVars>>

\* The main task draws its window, once around its loop.
DrawMain ==
  /\ manager' = DrawWhole(manager, Main)
  /\ UNCHANGED <<active, told, drag, pressed, opened, asked, closing, closed, requests, dirty,
                 ghosts, moved, lost, taskVars>>

\* CloseLayer and SYSCALL(CloseWindow) look the layer up with interrupts on; a terminal
\* closes when it is asked to, an application whenever it likes.
BeginClose(w) ==
  /\ Working(w)
  /\ w \in Terminals => w \in asked \ commands
  /\ closing' = [closing EXCEPT ![w] = manager.pos[w]]
  /\ asked' = asked \ {w}
  /\ UNCHANGED <<manager, active, told, drag, pressed, opened, closed, requests, dirty,
                 ghosts, moved, lost, taskVars>>

\* RemoveLayer, and nothing is left of the layer; then the Draw of where it was.
RemoveLayer(m, w) == [Hide(m, w) EXCEPT !.pos[w] = <<0, 0>>,
                                        !.look[w] = NewWindow]
Removed(m, w, pos) == Draw(RemoveLayer(m, w), Rect(pos, Size(w)))

\* Mutant: CloseLayer leaves active_layer_ as it is unless it is another's.
EndClose_StaysActive(w) ==
  /\ closing[w] # None
  /\ manager' = Removed(manager, w, closing[w])
  /\ closed' = closed \cup {w}
  /\ closing' = [closing EXCEPT ![w] = None]
  /\ dirty' = dirty \ {w}
  /\ UNCHANGED <<active, told, drag, pressed, opened, asked, requests, ghosts, moved, lost,
                 taskVars>>

\* Then, with interrupts off, no window stays active, the layer is removed and the
\* place where it was found is drawn.
EndClose(w) ==
  /\ closing[w] # None
  /\ active' = None
  /\ IF active = None THEN told' = told ELSE SendWindowActive(active, None, LayerTasks)
  /\ IF active \in Alive \cup {None}
     THEN manager' = Removed(Activated(manager, active, None), w, closing[w]) /\ UNCHANGED lost
     ELSE manager' = manager /\ lost' = "active"
  /\ closed' = closed \cup {w}
  /\ closing' = [closing EXCEPT ![w] = None]
  /\ dirty' = dirty \ {active, w}
  /\ UNCHANGED <<drag, pressed, opened, asked, requests, ghosts, moved, taskVars>>

Next == /\ lost = "no"
        /\ \/ OnInterrupt
           \/ DrawMain
           \/ \E w \in Windows : \/ OpenWindow(w)
                                 \/ WinFunc(w) \/ WinRedraw(w)
                                 \/ BlinkCursor(w) \/ ProcessLayerMessage(w)
                                 \/ BeginClose(w) \/ EndClose(w)
           \/ \E t \in Terminals : \/ CreateTerminal(t) \/ OpenTerminal(t)
                                   \/ PlaceTerminal(t) \/ NameTerminal(t) \/ ShowTerminal(t)
                                   \/ BeginCommand(t) \/ EndCommand(t)

Spec == Init /\ [][Next]_vars

-----------------------------------------------------------------------------
(* Properties                                                              *)

\* The layer on top at a pixel.
TopAt(p) == manager.stack[CHOOSE i \in DOMAIN manager.stack :
                            /\ p \in Inked(manager, manager.stack[i])
                            /\ \A j \in i + 1 .. Len(manager.stack) :
                                 p \notin Inked(manager, manager.stack[j])]

\* The screen shows at every pixel the picture of the topmost window there, though no
\* operation draws more than what it thinks has changed (LayerManager::Draw, Move,
\* Activate, CloseLayer).  Excepted are what a task has drawn and not yet had shown,
\* the cursor before it first moves, and the remains of windows that moved between
\* the two halves of CloseLayer.  Nothing is said once a terminal has been interrupted.
ScreenIsComposition ==
  lost = "no" /\ ~ interrupted =>
    \A p \in Pixels :
      \/ manager.screen[p] = Picture(manager, TopAt(p), p)
      \/ /\ TopAt(p) \in dirty
         /\ manager.screen[p] \in {<<TopAt(p), "ink", i>> : i \in {0, 1}}
      \/ ~ moved /\ TopAt(p) = Cursor
      \/ manager.screen[p][1] \in ghosts \cap closed

\* The window that gets the keys is in the stack, right below the cursor, and is the
\* only one drawn as active (ActiveLayer::Activate, CloseLayer).  A terminal, which
\* blinks its cursor by what it was told last, knows whether it is the one, unless the
\* messages have gone to a command.
ActiveOnTop ==
  lost = "no" /\ ~ interrupted =>
    /\ manager.stack[1] = Back /\ manager.stack[Len(manager.stack)] = Cursor
    /\ active # None => /\ active \in Alive
                        /\ manager.stack[Len(manager.stack) - 1] = active
    /\ \A id \in Toplevels \cap Alive : manager.look[id].active = (id = active)
    /\ \A t \in Terminals \cap Alive : told[t] # "unsure" => (told[t] = "active") = (active = t)
    /\ \A id \in LayerIds : InStack(manager, id) = (id \in Alive)

\* The title bar stays under the cursor while a window is dragged, at the edges of the
\* screen too (Mouse::OnInterrupt moves the window by what the cursor has moved).
DragKeepsGrip ==
  drag # None /\ drag \in Alive =>
    /\ pressed
    /\ GetWindowRegion(Sub(manager.pos[Cursor], manager.pos[drag])) = "TitleBar"

\* A null pointer is followed in two places only: when a window is closed by its task
\* while it is being dragged (mouse.cpp:162), and when the mouse comes in while a terminal
\* activates its new window (layer.cpp:246).  No close leaves active_layer_ with a window
\* that is gone.
LostInTwoPlaces == lost = "active" => interrupted

=============================================================================
