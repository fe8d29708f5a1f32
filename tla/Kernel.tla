------------------------------- MODULE Kernel -------------------------------
(***************************************************************************)
(* The kernel as a whole: the main task (main.cpp), terminals               *)
(* (terminal.cpp, TaskTerminal) and the idle task, sharing one processor    *)
(* with the two interrupt handlers, the LAPIC timer and the xHC (timer.cpp, *)
(* interrupt.cpp).                                                          *)
(*                                                                          *)
(* There are no locks: a task protects itself with cli and sti, and Sleep   *)
(* is called with interrupts off.  An action is what a task does between    *)
(* two points where an interrupt, or a switch of tasks, may come in.  The   *)
(* flag IF belongs to the task: contexts are saved and restored with it.    *)
(*                                                                          *)
(* Two pushes are made with interrupts on, and are two steps here.  The     *)
(* keyboard's observer (keyboard.cpp) runs inside ProcessEvents of the main *)
(* task and sends the main task a message: an interrupt that pushes between *)
(* the steps tears the deque (CommitPush).  A terminal adds its blink timer *)
(* to the heap of the timer manager (terminal.cpp): a tick that pops or     *)
(* pushes between them tears the heap (Tick).                               *)
(***************************************************************************)
EXTENDS RunQueues, FiniteSets

CONSTANTS MaxKeys,     \* bound: keys pressed
          MaxExpiries  \* bound: cursor timers that expire

ASSUME KernelAssumption == MaxKeys \in Nat /\ MaxExpiries \in Nat

VARIABLES
  sched,     \* the scheduler record of RunQueues
  iflag,     \* RFLAGS.IF of the processor
  savedIF,   \* savedIF[t]: IF in the saved context of a task that has not the processor
  pc,        \* where a task stands in its message loop
  msgs,      \* Task::msgs_
  inHand,    \* the message a task is handling
  armed,     \* armed[t]: cursor timers of t in the timer manager
  heapTorn,  \* history: the heap of timers was torn
  expiries,  \* how many have expired
  pressed,   \* keys pressed so far, numbered
  requested, \* the keyboard has an interrupt transfer to fill
  ring,      \* keys in the event ring of the xHC
  ipe,       \* xHC: an event came since the last interrupt
  ehb,       \* xHC: event handler busy, no new interrupt is raised
  irq,       \* an xHC interrupt is pending at the processor
  pushAt,    \* the length msgs[Main] had when the torn-able push began
  torn,      \* history: some push was torn
  shown      \* history: shown[t], keys that took effect in t, in order

hwVars   == <<requested, ring, ipe, ehb, irq, pressed>>
loopVars == <<msgs, inHand, armed, expiries, heapTorn, pushAt, torn, shown>>
cpuVars  == <<sched, iflag, savedIF>>
vars     == <<cpuVars, pc, loopVars, hwVars>>

Current   == CurrentTask(sched)
Terminals == TaskIds \ {Main, Idle}
Keys      == 1..MaxKeys

Msg(type, arg) == [type |-> type, arg |-> arg]
XHCI        == Msg("xhci", 0)
Timeout     == Msg("timer", 0)
KeyPush(k)  == Msg("key", k)
Layer(t)    == Msg("layer", t)
LayerFinish == Msg("layerFinish", 0)
Junk        == Msg("junk", 0)

\* What a slot of the deque that was never written, or was left by a pop, holds.
Stale == {XHCI, Timeout, LayerFinish, Junk}
           \union {KeyPush(k) : k \in 1..pressed} \union {Layer(t) : t \in Terminals}

Message == {XHCI, Timeout, LayerFinish, Junk}
           \union {KeyPush(k) : k \in Keys} \union {Layer(t) : t \in Terminals}

(***************************************************************************)
(* The last steps of the boot and of the F2 key: each terminal was made and *)
(* woken and has not run yet; the cursor timer of the main window runs.     *)
(***************************************************************************)
AfterBoot ==
  LET woken[t \in Idle..MaxTasks] ==
        IF t = Idle THEN InitScheduler ELSE Wakeup(woken[t - 1], t, Same)
  IN  woken[MaxTasks]

Init ==
  /\ sched = AfterBoot
  /\ iflag = TRUE
  /\ savedIF = [t \in TaskIds |-> TRUE]     \* InitContext: rflags = 0x202
  /\ pc = [t \in TaskIds |-> IF t \in Terminals THEN "start" ELSE "poll"]
  /\ msgs = [t \in TaskIds |-> <<>>]
  /\ inHand = [t \in TaskIds |-> Junk]
  /\ armed = [t \in TaskIds |-> IF t = Main THEN 1 ELSE 0]
  /\ heapTorn = FALSE
  /\ expiries = 0
  /\ pressed = 0
  /\ requested = TRUE
  /\ ring = <<>>
  /\ ipe = FALSE /\ ehb = FALSE /\ irq = FALSE
  /\ pushAt = 0
  /\ torn = FALSE
  /\ shown = [t \in TaskIds |-> <<>>]

-----------------------------------------------------------------------------
(* Changing the owner of the processor.                                     *)

\* Mutant: contexts are switched without RFLAGS.
LoadedIF_NoFlags(t) == iflag

\* RestoreContext: IF as it was saved for the task that gets the processor.
LoadedIF(t) == savedIF[t]

\* SwitchContext, or the same done by the handler of the timer.
SwitchTo(s) ==
  /\ sched' = s
  /\ IF CurrentTask(s) = Current THEN UNCHANGED <<iflag, savedIF>>
     ELSE /\ savedIF' = [savedIF EXCEPT ![Current] = iflag]
          /\ iflag' = LoadedIF(CurrentTask(s))

\* SendMessage with interrupts off: nothing comes between push and wake-up.
Send(t, m) ==
  /\ msgs' = [msgs EXCEPT ![t] = Append(@, m)]
  /\ sched' = Wakeup(sched, t, Same)

At(t, where)    == t = Current /\ pc[t] = where
Goto(t, where)  == pc' = [pc EXCEPT ![t] = where]
Handling(t, m)  == At(t, "handle") /\ inHand[t] = m

\* The end of a case of the switch: the message is dropped.
HandledTo(t, where) == Goto(t, where) /\ inHand' = [inHand EXCEPT ![t] = Junk]

-----------------------------------------------------------------------------
(* The message loop that the main task and the terminals share.             *)

\* TaskTerminal before its loop adds the first blink timer, with interrupts on...
Start(t) ==
  /\ At(t, "start")
  /\ Goto(t, "starting")
  /\ UNCHANGED <<cpuVars, loopVars, hwVars>>

\* Mutant: interrupts stay on around ReceiveMessage and Sleep.
Cli_Forgotten(t) ==
  /\ At(t, "poll") /\ t # Idle
  /\ Goto(t, "test")
  /\ UNCHANGED <<iflag, sched, savedIF, loopVars, hwVars>>

Cli(t) ==
  /\ At(t, "poll") /\ t # Idle
  /\ iflag' = FALSE
  /\ Goto(t, "test")
  /\ UNCHANGED <<sched, savedIF, loopVars, hwVars>>

\* Mutant: the mailbox is emptied.
Rest_Cleared(q) == <<>>

\* What ReceiveMessage leaves: pop_front.
Rest(q) == Tail(q)

\* ReceiveMessage finds a message; sti.
Receive(t) ==
  /\ At(t, "test") /\ msgs[t] # <<>>
  /\ inHand' = [inHand EXCEPT ![t] = Head(msgs[t])]
  /\ msgs' = [msgs EXCEPT ![t] = Rest(@)]
  /\ iflag' = TRUE
  /\ Goto(t, "handle")
  /\ UNCHANGED <<sched, savedIF, armed, heapTorn, expiries, pushAt, torn, shown, hwVars>>

\* ReceiveMessage finds none.
FindNothing(t) ==
  /\ At(t, "test") /\ msgs[t] = <<>>
  /\ Goto(t, "sleep")
  /\ UNCHANGED <<cpuVars, loopVars, hwVars>>

\* Sleep: another task has the processor when it is over.
SleepSelf(t) ==
  /\ At(t, "sleep")
  /\ SwitchTo(Sleep(sched, t))
  /\ Goto(t, "woken")
  /\ UNCHANGED <<loopVars, hwVars>>

\* Back from Sleep: sti and continue.
Resume(t) ==
  /\ At(t, "woken")
  /\ iflag' = TRUE
  /\ Goto(t, "poll")
  /\ UNCHANGED <<sched, savedIF, loopVars, hwVars>>

-----------------------------------------------------------------------------
(* Handling one message.                                                    *)

\* AddTimer; what a torn heap holds is not known and not kept.
Arm(t) == armed' = IF heapTorn THEN armed ELSE [armed EXCEPT ![t] = @ + 1]

\* The cursor timer of the main task is set again, half a second later, under cli.
HandleTimeout ==
  /\ Handling(Main, Timeout)
  /\ Arm(Main)
  /\ HandledTo(Main, "poll")
  /\ UNCHANGED <<cpuVars, msgs, heapTorn, expiries, pushAt, torn, shown, hwVars>>

\* ... and again whenever that has expired.
Rearm(t) ==
  /\ t \in Terminals /\ Handling(t, Timeout)
  /\ HandledTo(t, "arming")
  /\ UNCHANGED <<cpuVars, msgs, armed, heapTorn, expiries, pushAt, torn, shown, hwVars>>

\* Where a terminal is in the middle of AddTimer.
Adding == {"starting", "arming"}

\* Where it has no timer, or not yet.
Unarmed == {"start"} \cup Adding

\* The end of AddTimer: the timer is in the heap.
EndAddTimer(t) ==
  /\ pc[t] \in Adding /\ t = Current
  /\ Arm(t)
  /\ Goto(t, IF pc[t] = "starting" THEN "poll" ELSE "blink")
  /\ UNCHANGED <<cpuVars, msgs, inHand, heapTorn, expiries, pushAt, torn, shown, hwVars>>

\* A terminal whose window is not active does not draw its cursor.
SkipBlink(t) ==
  /\ At(t, "blink")
  /\ Goto(t, "poll")
  /\ UNCHANGED <<cpuVars, loopVars, hwVars>>

\* A terminal asks the main task to draw; cli and sti are around the call.
AskToDraw(t) ==
  /\ At(t, "blink") \/ At(t, "draw")
  /\ Send(Main, Layer(t))
  /\ Goto(t, "poll")
  /\ UNCHANGED <<iflag, savedIF, inHand, armed, heapTorn, expiries, pushAt, torn, shown, hwVars>>

\* Terminal::InputKey.
InputKey(t, k) ==
  /\ t \in Terminals /\ Handling(t, KeyPush(k))
  /\ shown' = [shown EXCEPT ![t] = Append(@, k)]
  /\ HandledTo(t, "draw")
  /\ UNCHANGED <<cpuVars, msgs, armed, heapTorn, expiries, pushAt, torn, hwVars>>

\* The text window of the main task is active, or no task owns the active window.
KeepKey(k) ==
  /\ Handling(Main, KeyPush(k))
  /\ shown' = [shown EXCEPT ![Main] = Append(@, k)]
  /\ HandledTo(Main, "poll")
  /\ UNCHANGED <<cpuVars, msgs, armed, heapTorn, expiries, pushAt, torn, hwVars>>

\* The active window is that of terminal t: the key is sent on, under cli.
ForwardKey(k, t) ==
  /\ Handling(Main, KeyPush(k))
  /\ Send(t, KeyPush(k))
  /\ HandledTo(Main, "poll")
  /\ UNCHANGED <<iflag, savedIF, armed, heapTorn, expiries, pushAt, torn, shown, hwVars>>

\* ProcessLayerMessage, and the answer to the task that asked.
HandleLayer(t) ==
  /\ Handling(Main, Layer(t))
  /\ Send(t, LayerFinish)
  /\ HandledTo(Main, "poll")
  /\ UNCHANGED <<iflag, savedIF, armed, heapTorn, expiries, pushAt, torn, shown, hwVars>>

\* Any other message is logged or ignored.
Ignore(t) ==
  /\ At(t, "handle")
  /\ \/ inHand[t] \in {LayerFinish, Junk}
     \/ t \in Terminals /\ inHand[t].type \in {"xhci", "layer"}
  /\ HandledTo(t, "poll")
  /\ UNCHANGED <<cpuVars, msgs, armed, heapTorn, expiries, pushAt, torn, shown, hwVars>>

-----------------------------------------------------------------------------
(* ProcessEvents, in the main task with interrupts on.                      *)

HandleXHCI ==
  /\ Handling(Main, XHCI)
  /\ HandledTo(Main, "drain")
  /\ UNCHANGED <<cpuVars, msgs, armed, heapTorn, expiries, pushAt, torn, shown, hwVars>>

\* HasFront is false.
Drained ==
  /\ At(Main, "drain") /\ ring = <<>>
  /\ Goto(Main, "poll")
  /\ UNCHANGED <<cpuVars, loopVars, hwVars>>

\* The observer's push_back: the message is written behind the last one...
BeginPush ==
  /\ At(Main, "drain") /\ ring # <<>>
  /\ pushAt' = Len(msgs[Main])
  /\ Goto(Main, "pushing")
  /\ UNCHANGED <<cpuVars, msgs, inHand, armed, heapTorn, expiries, torn, shown, hwVars>>

(***************************************************************************)
(* ... and the size is incremented.  An interrupt that pushed in between    *)
(* wrote the same slot: its message stays there, the key is gone, and the   *)
(* size now covers a slot nobody wrote.  The wake-up that follows finds the *)
(* main task running.  Then the driver asks the keyboard for its next       *)
(* report (InterruptIn).                                                    *)
(***************************************************************************)
CommitPush ==
  /\ At(Main, "pushing")
  /\ IF Len(msgs[Main]) = pushAt
     THEN /\ msgs' = [msgs EXCEPT ![Main] = Append(@, KeyPush(Head(ring)))]
          /\ UNCHANGED torn
     ELSE /\ \E m \in Stale : msgs' = [msgs EXCEPT ![Main] = Append(@, m)]
          /\ torn' = TRUE
  /\ sched' = Wakeup(sched, Main, Same)
  /\ requested' = TRUE
  /\ pushAt' = 0
  /\ Goto(Main, "popping")
  /\ UNCHANGED <<iflag, savedIF, inHand, armed, heapTorn, expiries, shown,
                 ring, ipe, ehb, irq, pressed>>

\* Mutant: the dequeue pointer is kept by the driver and not written back.
Pop_NoERDP ==
  /\ At(Main, "popping")
  /\ ring' = Tail(ring)
  /\ Goto(Main, "drain")
  /\ UNCHANGED <<cpuVars, loopVars, ipe, ehb, requested, irq, pressed>>

(***************************************************************************)
(* EventRing::Pop: the dequeue pointer is read, modified and written back,  *)
(* which clears EHB (a bit that is cleared by writing 1), and IPE when the  *)
(* ring is empty.                                                           *)
(***************************************************************************)
Pop ==
  /\ At(Main, "popping")
  /\ ring' = Tail(ring)
  /\ ehb' = FALSE
  /\ ipe' = (ipe /\ Tail(ring) # <<>>)
  /\ Goto(Main, "drain")
  /\ UNCHANGED <<cpuVars, loopVars, requested, irq, pressed>>

-----------------------------------------------------------------------------
(* The devices and the interrupt handlers.                                  *)

\* A key changes the report of the keyboard, which fills the pending transfer.
PressKey ==
  /\ pressed < MaxKeys /\ requested
  /\ pressed' = pressed + 1
  /\ requested' = FALSE
  /\ ring' = Append(ring, pressed + 1)
  /\ ipe' = TRUE
  /\ UNCHANGED <<cpuVars, pc, loopVars, ehb, irq>>

\* The xHC sends its MSI.
RaiseInterrupt ==
  /\ ipe /\ ~ehb
  /\ irq' = TRUE /\ ehb' = TRUE /\ ipe' = FALSE
  /\ UNCHANGED <<cpuVars, pc, loopVars, requested, ring, pressed>>

\* IntHandlerXHCI.
IntHandlerXHCI ==
  /\ iflag /\ irq
  /\ irq' = FALSE
  /\ Send(Main, XHCI)
  /\ UNCHANGED <<iflag, savedIF, pc, inHand, armed, heapTorn, expiries, pushAt, torn, shown,
                 requested, ring, ipe, ehb, pressed>>

(***************************************************************************)
(* TimerManager::Tick pops from the heap, of which `left' is left, and      *)
(* pushes.  If the current task is in the middle of AddTimer it goes on     *)
(* with a heap that is not the one it began with: timers may be gone from   *)
(* it, or be there twice.                                                   *)
(***************************************************************************)
Tick(left) ==
  /\ heapTorn' = (heapTorn \/ pc[Current] \in Adding)
  /\ armed' = IF heapTorn' THEN [t \in TaskIds |-> 0] ELSE left

\* LAPICTimerOnInterrupt, when the cursor timer of t expires ...
TimerExpires(t) ==
  /\ iflag /\ t # Idle
  /\ armed[t] > 0 \/ heapTorn
  /\ expiries < MaxExpiries
  /\ Tick([armed EXCEPT ![t] = @ - 1])
  /\ expiries' = expiries + 1
  /\ Send(t, Timeout)
  /\ UNCHANGED <<iflag, savedIF, pc, inHand, pushAt, torn, shown, hwVars>>

\* ... and when the task timer does, which Tick sets again at once.
SwitchTask ==
  /\ iflag
  /\ Tick(armed)
  /\ SwitchTo(RotateCurrentRunQueue(sched, FALSE))
  /\ UNCHANGED <<pc, msgs, inHand, expiries, pushAt, torn, shown, hwVars>>

-----------------------------------------------------------------------------
MessageLoop(t) ==
  \/ Start(t) \/ Cli(t) \/ Receive(t) \/ FindNothing(t) \/ SleepSelf(t) \/ Resume(t)
  \/ Rearm(t) \/ EndAddTimer(t) \/ SkipBlink(t) \/ AskToDraw(t) \/ Ignore(t)
  \/ \E k \in Keys : InputKey(t, k)

MainOnly ==
  \/ HandleTimeout \/ HandleXHCI \/ Drained \/ BeginPush \/ CommitPush \/ Pop
  \/ \E k \in Keys : KeepKey(k) \/ \E t \in Terminals : ForwardKey(k, t)
  \/ \E t \in Terminals : HandleLayer(t)

Step(t) == MessageLoop(t) \/ (t = Main /\ MainOnly)

Devices == PressKey \/ RaiseInterrupt

Interrupts ==
  \/ IntHandlerXHCI
  \/ \E t \in TaskIds : TimerExpires(t)
  \/ SwitchTask

Next == Devices \/ Interrupts \/ \E t \in TaskIds : Step(t)

Spec == Init /\ [][Next]_vars

(***************************************************************************)
(* A time slice (20 ms) is enough for a task to take a step; the timer      *)
(* interrupt is periodic, and the task timer fires again and again while    *)
(* the heap has it; the controller raises a due interrupt and the processor *)
(* takes a pending one.  Nobody has to press a key, and a cursor timer,     *)
(* half a second long, expires now and then.                                *)
(***************************************************************************)
FairSpec ==
  /\ Spec
  /\ \A t \in TaskIds : SF_vars(Step(t))
  /\ SF_vars(SwitchTask /\ ~heapTorn)
  /\ WF_vars(RaiseInterrupt)
  /\ SF_vars(IntHandlerXHCI)

-----------------------------------------------------------------------------
(***************************************************************************)
(* No lost wake-up: a task that sleeps has an empty mailbox.  Whoever sends *)
(* between the empty-mailbox test and Sleep would leave the task asleep     *)
(* with a message; the cli in front of both is what prevents it, and the    *)
(* saved IF is what keeps it true across the switch inside Sleep.           *)
(***************************************************************************)
NoLostWakeup == \A t \in TaskIds : ~sched.running[t] => msgs[t] = <<>>

(***************************************************************************)
(* The idle task halts until an interrupt: it must never get the processor  *)
(* with interrupts off, although the task that slept had them off.          *)
(***************************************************************************)
IdleInterruptible == Current = Idle => iflag

(***************************************************************************)
(* Every key that was pressed is in exactly one place, from the event ring  *)
(* through the mailboxes to the window it takes effect in, and a window     *)
(* receives its keys in the order they were pressed, unless a push was torn.*)
(***************************************************************************)
Occurrences(q, x) == Cardinality({i \in DOMAIN q : q[i] = x})

HandlingKey(t, k) == pc[t] = "handle" /\ inHand[t] = KeyPush(k)

\* Where key k is.  One that was pushed stays in the ring until Pop, and is not counted there.
RingPlaces(k) ==
  {<<"ring", Main, i>> : i \in {j \in DOMAIN ring : ring[j] = k /\ ~(j = 1 /\ pc[Main] = "popping")}}

TaskPlaces(t, k) ==
  (IF HandlingKey(t, k) THEN {<<"hand", t, 1>>} ELSE {})
    \cup {<<"mailbox", t, i>> : i \in {j \in DOMAIN msgs[t] : msgs[t][j] = KeyPush(k)}}
    \cup {<<"shown", t, i>> : i \in {j \in DOMAIN shown[t] : shown[t][j] = k}}

Places(k) == RingPlaces(k) \cup UNION {TaskPlaces(t, k) : t \in TaskIds}

Increasing(q) == \A i, j \in DOMAIN q : i < j => q[i] < q[j]

KeysConserved ==
  torn \/ /\ \A k \in 1..pressed : Cardinality(Places(k)) = 1
          /\ \A t \in TaskIds : Increasing(shown[t])

(***************************************************************************)
(* Each cursor has one timer: in the timer manager, in a message, being     *)
(* handled or on its way into the heap.  Two would make the cursor blink    *)
(* twice as fast for ever, none would stop it.  The code promises it only   *)
(* as long as no tick has come into the AddTimer of a terminal.             *)
(***************************************************************************)
CursorTimers(t) ==
  armed[t] + Occurrences(msgs[t], Timeout)
    + (IF pc[t] = "handle" /\ inHand[t] = Timeout THEN 1 ELSE 0)

OneCursorTimer ==
  torn \/ heapTorn \/
    \A t \in TaskIds \ {Idle} :
      CursorTimers(t) = IF pc[t] \in Unarmed THEN 0 ELSE 1

(***************************************************************************)
(* Both: what interrupts, observers and loops put into one mailbox is there *)
(* once, whoever is interrupted while pushing, popping or handling.         *)
(***************************************************************************)
NothingLost == KeysConserved /\ OneCursorTimer

(***************************************************************************)
(* Every key that is pressed takes effect in some window, unless a push was *)
(* torn: into the deque, or into the heap, which may lose the task timer.   *)
(***************************************************************************)
Shown(k) == \E t \in TaskIds : \E i \in DOMAIN shown[t] : shown[t][i] = k

KeysTakeEffect == \A k \in Keys : (pressed >= k) ~> (torn \/ heapTorn \/ Shown(k))
=============================================================================
