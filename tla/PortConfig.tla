----------------------------- MODULE PortConfig -----------------------------
(***************************************************************************)
(* How the xHC driver brings devices into service (usb/xhci/xhci.cpp): the  *)
(* phases of the root hub ports, driven by the events of the controller.    *)
(* Only one port at a time may be between its reset and the address of its  *)
(* device; the others wait.                                                 *)
(*                                                                          *)
(* The driver's half are the functions OnEvent and those they call, run in  *)
(* the main task, one event after the other.  The other half, the           *)
(* controller and whoever plugs devices in and out, is modelled from how    *)
(* the driver uses it: change bits, commands completed in order, events.    *)
(***************************************************************************)
EXTENDS Sequences, FiniteSets, TrbRing

CONSTANTS NumPorts,    \* MaxPorts of the controller
          CommandRing, \* TRBs of the command ring, 32 in the code
          EventRing,   \* TRBs of the event ring, 32 in the code
          MaxReplugs   \* bound: how often a device is plugged in or out

ASSUME PortConfigAssumption ==
  /\ NumPorts \in Nat \ {0} /\ MaxReplugs \in Nat
  /\ CommandRing \in Nat /\ CommandRing > NumPorts + 1
  /\ EventRing \in Nat /\ EventRing > NumPorts + 1

Ports == 1..NumPorts
Slots == 1..NumPorts
Phases == {"NotConnected", "WaitingAddressed", "ResettingPort", "EnablingSlot",
           "AddressingDevice", "InitializingDevice", "ConfiguringEndpoints", "Configured"}

VARIABLES
  phase,       \* port_config_phase
  addressing,  \* addressing_port, 0 when there is none
  boot,        \* the next port the loop of Initialize looks at
  device,      \* device[s]: the port in the input context of the device of slot s, 0 for none
  connected,   \* PORTSC.CCS
  enabled,     \* PORTSC.PED
  csc, prc,    \* PORTSC.CSC and PORTSC.PRC, the change bits
  context,     \* context[s]: root_hub_port_num in the device context, 0 before it is addressed
  cr, er,      \* the command ring and the primary event ring
  replugs

driverVars == <<phase, addressing, boot, device>>
portVars   == <<connected, enabled, csc, prc, replugs>>
vars       == <<driverVars, portVars, context, cr, er>>

FirstPort == 1

\* TRBs, of which a number is all that matters: that of a port or a slot.
Trb(type, n) == [type |-> type, n |-> n]
EnableSlotCommand           == Trb("enableSlot", 0)
AddressDeviceCommand(s)     == Trb("addressDevice", s)
ConfigureEndpointCommand(s) == Trb("configureEndpoint", s)
PortStatusChange(p)         == Trb("port", p)
CommandCompletion(cmd, s)   == Trb(cmd.type, s)

\* The ring when the controller has posted the events of a sequence.
Filled(r, events) ==
  [r EXCEPT !.buf = [i \in DOMAIN r.buf |->
                       IF i < Len(events) THEN [trb |-> events[i + 1], cycle |-> TRUE] ELSE r.buf[i]],
            !.write = Len(events)]

Connected == {p \in Ports : connected[p]}

(***************************************************************************)
(* Run has started the controller: a port with a device has its change bit  *)
(* set, and its event waits in the ring, in whatever order they were found. *)
(***************************************************************************)
Init ==
  /\ connected \in [Ports -> BOOLEAN]
  /\ enabled = [p \in Ports |-> FALSE]
  /\ csc = connected
  /\ prc = [p \in Ports |-> FALSE]
  /\ phase = [p \in Ports |-> "NotConnected"]
  /\ addressing = 0
  /\ boot = FirstPort
  /\ device = [s \in Slots |-> 0]
  /\ context = [s \in Slots |-> 0]
  /\ cr = NewRing(CommandRing)
  /\ \E order \in [1..Cardinality(Connected) -> Connected] :
       /\ \A j, k \in DOMAIN order : order[j] = order[k] => j = k
       /\ er = Filled(NewRing(EventRing), [k \in DOMAIN order |-> PortStatusChange(order[k])])
  /\ replugs = 0

-----------------------------------------------------------------------------
(* ResetPort and EnableSlot.                                                *)

MayReset == addressing = 0

(***************************************************************************)
(* ResetPort(p), with the events that are left when it is over.  Port::Reset*)
(* writes PR and CSC and waits for the end of the reset: the port is        *)
(* enabled, its change bit set, and an event says so.                       *)
(***************************************************************************)
Reset(p, left) ==
  /\ phase' = [phase EXCEPT ![p] = "ResettingPort"]
  /\ addressing' = p
  /\ csc' = [csc EXCEPT ![p] = FALSE]
  /\ prc' = [prc EXCEPT ![p] = TRUE]
  /\ enabled' = [enabled EXCEPT ![p] = TRUE]
  /\ er' = IF prc[p] THEN left ELSE Post(left, PortStatusChange(p))

ResetPort(p, left) ==
  IF ~connected[p]
  THEN er' = left /\ UNCHANGED <<phase, addressing, csc, prc, enabled>>
  ELSE IF ~MayReset
  THEN /\ phase' = [phase EXCEPT ![p] = "WaitingAddressed"]
       /\ er' = left
       /\ UNCHANGED <<addressing, csc, prc, enabled>>
  ELSE IF phase[p] \in {"NotConnected", "WaitingAddressed"}
  THEN Reset(p, left)
  ELSE er' = left /\ UNCHANGED <<phase, addressing, csc, prc, enabled>>

\* The loop of Initialize over the ports.
ConfigurePort ==
  /\ boot <= NumPorts
  /\ boot' = boot + 1
  /\ IF connected[boot] /\ phase[boot] = "NotConnected"
     THEN ResetPort(boot, er)
     ELSE UNCHANGED <<phase, addressing, csc, prc, enabled, er>>
  /\ UNCHANGED <<device, connected, replugs, context, cr>>

\* The event at the front of the ring, once Initialize is over.
Arrives(type) == boot > NumPorts /\ HasFront(er) /\ Front(er).type = type
Arg  == Front(er).n
Left == Pop(er)

\* A port status change of a port that is not in use: ResetPort.
PortChanged ==
  /\ Arrives("port") /\ phase[Arg] = "NotConnected"
  /\ ResetPort(Arg, Left)
  /\ UNCHANGED <<boot, device, connected, replugs, context, cr>>

ResetSucceeded(p) == enabled[p] /\ prc[p]

\* The change bits are cleared by a write of one, which leaves the others alone.
ClearPortResetChange(p) == prc' = [prc EXCEPT ![p] = FALSE]

\* EnableSlot, when the reset has succeeded; when it has not, nothing is done.
EnableSlot ==
  /\ Arrives("port") /\ phase[Arg] = "ResettingPort"
  /\ er' = Left
  /\ IF ResetSucceeded(Arg)
     THEN /\ ClearPortResetChange(Arg)
          /\ phase' = [phase EXCEPT ![Arg] = "EnablingSlot"]
          /\ cr' = Push(cr, EnableSlotCommand)
     ELSE UNCHANGED <<prc, phase, cr>>
  /\ UNCHANGED <<addressing, boot, device, connected, enabled, csc, replugs, context>>

\* Any other event is kInvalidPhase, which is logged: the event is dropped.
InvalidPhase ==
  /\ \/ Arrives("port") /\ phase[Arg] \notin {"NotConnected", "ResettingPort"}
     \/ Arrives("enableSlot") /\ (addressing = 0 \/ phase[addressing] # "EnablingSlot")
     \/ Arrives("addressDevice")
          /\ (addressing = 0 \/ context[Arg] # addressing \/ phase[addressing] # "AddressingDevice")
     \/ Arrives("configureEndpoint")
          /\ (context[Arg] = 0 \/ phase[context[Arg]] # "ConfiguringEndpoints")
  /\ er' = Left
  /\ UNCHANGED <<driverVars, portVars, context, cr>>

-----------------------------------------------------------------------------
(* The completion of commands.                                              *)

\* Mutant: the number of the slot in the place of that of the port.
RootHubPort_Slot == Arg

\* root_hub_port_num, InitializeSlotContext.
RootHubPort == addressing

\* AddressDevice: the device is created and its address asked for.
AddressDevice ==
  /\ Arrives("enableSlot")
  /\ addressing # 0 /\ phase[addressing] = "EnablingSlot"
  /\ device' = [device EXCEPT ![Arg] = RootHubPort]
  /\ phase' = [phase EXCEPT ![addressing] = "AddressingDevice"]
  /\ cr' = Push(cr, AddressDeviceCommand(Arg))
  /\ er' = Left
  /\ UNCHANGED <<addressing, boot, portVars, context>>

WaitingPorts == {p \in Ports : phase[p] = "WaitingAddressed"}

\* Mutant: the addressed port goes on, but the next one is not called.
FirstWaiting_None == 0

\* The waiting port with the lowest number, 0 when there is none.
FirstWaiting ==
  IF WaitingPorts = {} THEN 0 ELSE CHOOSE p \in WaitingPorts : \A q \in WaitingPorts : p <= q

(***************************************************************************)
(* The device has its address: addressing_port is free, the first waiting   *)
(* port is reset (the loop ends with it, whatever ResetPort did), and the   *)
(* initialization of the device begins.                                     *)
(***************************************************************************)
InitializeDevice ==
  LET p    == addressing
      next == FirstWaiting
  IN  /\ Arrives("addressDevice")
      /\ p # 0 /\ context[Arg] = p /\ phase[p] = "AddressingDevice"
      /\ IF next # 0 /\ connected[next]
         THEN /\ phase' = [phase EXCEPT ![p] = "InitializingDevice", ![next] = "ResettingPort"]
              /\ addressing' = next
              /\ csc' = [csc EXCEPT ![next] = FALSE]
              /\ prc' = [prc EXCEPT ![next] = TRUE]
              /\ enabled' = [enabled EXCEPT ![next] = TRUE]
              /\ er' = IF prc[next] THEN Left ELSE Post(Left, PortStatusChange(next))
         ELSE /\ phase' = [phase EXCEPT ![p] = "InitializingDevice"]
              /\ addressing' = 0
              /\ er' = Left
              /\ UNCHANGED <<csc, prc, enabled>>
      /\ UNCHANGED <<boot, device, connected, replugs, context, cr>>

Initializing(s) == context[s] # 0 /\ phase[context[s]] = "InitializingDevice"

\* ConfigureEndpoints, unless the port has lost its device, and with it the speed.
ConfigureEndpoints(s) ==
  IF connected[context[s]]
  THEN /\ phase' = [phase EXCEPT ![context[s]] = "ConfiguringEndpoints"]
       /\ cr' = Push(cr, ConfigureEndpointCommand(s))
  ELSE UNCHANGED <<phase, cr>>

\* The last control transfer of the initialization of a device.
Transferred ==
  /\ Arrives("transfer")
  /\ IF Initializing(Arg) THEN ConfigureEndpoints(Arg) ELSE UNCHANGED <<phase, cr>>
  /\ er' = Left
  /\ UNCHANGED <<addressing, boot, device, portVars, context>>

CompleteConfiguration ==
  /\ Arrives("configureEndpoint")
  /\ context[Arg] # 0 /\ phase[context[Arg]] = "ConfiguringEndpoints"
  /\ phase' = [phase EXCEPT ![context[Arg]] = "Configured"]
  /\ er' = Left
  /\ UNCHANGED <<addressing, boot, device, portVars, context, cr>>

ProcessEvent ==
  \/ PortChanged \/ EnableSlot \/ InvalidPhase
  \/ AddressDevice \/ InitializeDevice \/ Transferred \/ CompleteConfiguration

-----------------------------------------------------------------------------
(* The controller and the devices.                                          *)

\* The next command the controller completes.
Requested(type) == HasFront(cr) /\ Front(cr).type = type /\ HasRoom(er)

Completes(event) == er' = Post(er, event) /\ cr' = Fetched(cr)

\* Enable Slot gives a slot that is free, if there is one.
CompleteEnableSlot ==
  /\ Requested("enableSlot")
  /\ \E s \in Slots :
       /\ device[s] = 0
       /\ \A e \in Slots : device[e] = 0 => s <= e
       /\ Completes(CommandCompletion(EnableSlotCommand, s))
  /\ UNCHANGED <<driverVars, portVars, context>>

\* Address Device fills the device context, if the device answers.
CompleteAddressDevice ==
  /\ Requested("addressDevice")
  /\ LET s == Front(cr).n
     IN  context' = IF enabled[device[s]] THEN [context EXCEPT ![s] = device[s]] ELSE context
  /\ Completes(CommandCompletion(Front(cr), Front(cr).n))
  /\ UNCHANGED <<driverVars, portVars>>

CompleteConfigureEndpoint ==
  /\ Requested("configureEndpoint")
  /\ Completes(CommandCompletion(Front(cr), Front(cr).n))
  /\ UNCHANGED <<driverVars, portVars, context>>

\* The control transfers of Device::StartInitialize are over (module Usb has them one by one).
Transfer(s) ==
  /\ Initializing(s) /\ enabled[context[s]]
  /\ HasRoom(er) /\ Trb("transfer", s) \notin Unread(er)
  /\ er' = Post(er, Trb("transfer", s))
  /\ UNCHANGED <<driverVars, portVars, context, cr>>

\* A device is plugged in or out: an event, unless a change bit is set already.
Replug(p) ==
  /\ replugs < MaxReplugs /\ HasRoom(er)
  /\ replugs' = replugs + 1
  /\ connected' = [connected EXCEPT ![p] = ~@]
  /\ enabled' = [enabled EXCEPT ![p] = FALSE]
  /\ csc' = [csc EXCEPT ![p] = TRUE]
  /\ er' = IF csc[p] \/ prc[p] THEN er ELSE Post(er, PortStatusChange(p))
  /\ UNCHANGED <<driverVars, prc, context, cr>>

Controller ==
  \/ CompleteEnableSlot \/ CompleteAddressDevice \/ CompleteConfigureEndpoint
  \/ \E s \in Slots : Transfer(s)

Next == ConfigurePort \/ ProcessEvent \/ Controller \/ \E p \in Ports : Replug(p)

Spec == Init /\ [][Next]_vars

(***************************************************************************)
(* The main task boots and processes events (module Kernel), the controller *)
(* completes commands and transfers.  Nobody has to touch a plug.           *)
(***************************************************************************)
FairSpec ==
  /\ Spec
  /\ WF_vars(ConfigurePort) /\ WF_vars(ProcessEvent)
  /\ \A s \in Slots : WF_vars(Transfer(s))
  /\ WF_vars(CompleteEnableSlot \/ CompleteAddressDevice \/ CompleteConfigureEndpoint)

-----------------------------------------------------------------------------
(***************************************************************************)
(* addressing_port is the number of the port between kResettingPort and     *)
(* kAddressingDevice, 0 when no port is: never two ports answer at the      *)
(* default address.                                                         *)
(***************************************************************************)
OneAddressing ==
  \A p \in Ports :
    phase[p] \in {"ResettingPort", "EnablingSlot", "AddressingDevice"} <=> p = addressing

(***************************************************************************)
(* A port has one device, in a slot of its own, from the moment its slot is *)
(* enabled, and the controller and the driver agree on whose slot it is.    *)
(***************************************************************************)
SlotOf(p) == {s \in Slots : device[s] = p}

OneSlotEach ==
  /\ \A p \in Ports :
       Cardinality(SlotOf(p)) =
         IF phase[p] \in {"NotConnected", "WaitingAddressed", "ResettingPort", "EnablingSlot"}
         THEN 0 ELSE 1
  /\ \A s \in Slots : context[s] \in {0, device[s]}

(***************************************************************************)
(* One port after the other gets its slot and address; and the driver,      *)
(* which pushes commands without looking for room, never overwrites one     *)
(* that the controller has not read.                                        *)
(***************************************************************************)
AddressedInTurn == OneAddressing /\ OneSlotEach /\ ~Overrun(cr) /\ ~Overrun(er)

(***************************************************************************)
(* Every device that is connected at boot is configured in the end, as long *)
(* as no plug is touched.                                                   *)
(***************************************************************************)
EveryDeviceConfigured ==
  \A p \in Ports : connected[p] ~> (phase[p] = "Configured" \/ replugs > 0)

(***************************************************************************)
(* A port in kWaitingAddressed waits for its turn: its turn comes, as long  *)
(* as its device stays, even if another device is unplugged while waiting.  *)
(***************************************************************************)
WaitingPortServed ==
  \A p \in Ports :
    (phase[p] = "WaitingAddressed" /\ connected[p])
      ~> (phase[p] # "WaitingAddressed" \/ ~connected[p])
=============================================================================
