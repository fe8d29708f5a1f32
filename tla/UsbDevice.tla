----------------------------- MODULE UsbDevice -----------------------------
(***************************************************************************)
(* A USB device as the driver sees it, from its address to its reports:     *)
(* usb/device.cpp (the phases of its initialization), usb/xhci/device.cpp   *)
(* (control and interrupt transfers) and its class driver (usb/classdriver).*)
(* Every operator takes the record of a device and gives the next one.      *)
(*                                                                          *)
(* An endpoint is its address, 2 * number + 1 for an IN endpoint; endpoint 1*)
(* is the control pipe.  A descriptor is a record, a buffer a sequence of   *)
(* them; a report is the set of keys a keyboard says are down, or the way a *)
(* mouse has moved since its last report.                                   *)
(***************************************************************************)
EXTENDS Sequences, FiniteSets, TLC, TrbRing

CONSTANT TransferRing  \* TRBs of a transfer ring, 32 in the code

\* The number of an endpoint among the contexts of a device, which is its address.
DeviceContextIndex(n, in) == 2 * n + IF n = 0 \/ in THEN 1 ELSE 0

ControlPipe == DeviceContextIndex(0, TRUE)
Number(ep)  == ep \div 2
IsIn(ep)    == ep % 2 = 1

\* The requests the driver makes.
SetupData(request, value) == [request |-> request, value |-> value]
GetDescriptor(what) == SetupData("GetDescriptor", what)
SetConfiguration    == SetupData("SetConfiguration", 0)
SetProtocol         == SetupData("SetProtocol", 0)

\* The descriptors devices answer with.
DeviceDescriptor         == [type |-> "device"]
ConfigurationDescriptor  == [type |-> "configuration"]
InterfaceDescriptor(driver, n) == [type |-> "interface", driver |-> driver, num_endpoints |-> n]
EndpointDescriptor(ep, interrupt, packet, interval) ==
  [type |-> "endpoint", ep |-> ep, interrupt |-> interrupt, packet |-> packet, interval |-> interval]
HIDDescriptor            == [type |-> "hid"]

SetupStage(setup) == [type |-> "setup", setup |-> setup]
DataStage         == [type |-> "data"]
StatusStage(ioc)  == [type |-> "status", ioc |-> ioc]
Normal            == [type |-> "normal"]

NoDriver == "none"

-----------------------------------------------------------------------------
(* ArrayMap: a table of optional pairs.  A key that finds no place is lost. *)

Free == [key |-> -1, value |-> -1]

Lowest(S) == CHOOSE i \in S : \A j \in S : i <= j

Places(table, key) == {i \in DOMAIN table : table[i].key = key}

Put(table, key, value) ==
  LET free == Places(table, Free.key)
  IN  IF free = {} THEN table ELSE [table EXCEPT ![Lowest(free)] = [key |-> key, value |-> value]]

Get(table, key) == table[Lowest(Places(table, key))].value

Delete(table, key) == [table EXCEPT ![Lowest(Places(table, key))] = Free]

-----------------------------------------------------------------------------
(* usb::xhci::Device                                                        *)

\* AllocTransferRing for every endpoint in ep_configs_.
AllocTransferRings(d) ==
  [d EXCEPT !.rings = [ep \in {d.eps[k].ep : k \in DOMAIN d.eps} |-> NewRing(TransferRing)] @@ @]

\* The input context of a command: what it adds, 0 for the slot, and the contexts of the endpoints.
InputContext == [add |-> {}, endpoint |-> <<>>]

EndpointContext(type, packet, interval) == [type |-> type, packet |-> packet, interval |-> interval]

EnableSlotContext(ctx) == [ctx EXCEPT !.add = @ \cup {0}]

EnableEndpoint(ctx, dci, endpoint) ==
  [ctx EXCEPT !.add = @ \cup {dci}, !.endpoint = (dci :> endpoint) @@ @]

\* The speeds of a port: 1 full, 2 low, 3 high, 4 and 5 super.
SlowSpeeds == {1, 2}

\* Mutant: a high-speed device is asked as a slow one is.
DetermineMaxPacketSizeForControlPipe_Slow(speed) == IF speed = 4 THEN 512 ELSE 8

DetermineMaxPacketSizeForControlPipe(speed) ==
  CASE speed = 4 -> 512 [] speed = 3 -> 64 [] OTHER -> 8

\* InitializeEP0Context: a control endpoint.
InitializeEP0Context(packet) == EndpointContext(4, packet, 0)

AddressContext(speed) ==
  EnableEndpoint(EnableSlotContext(InputContext), ControlPipe,
                 InitializeEP0Context(DetermineMaxPacketSizeForControlPipe(speed)))

\* The type of an endpoint, EndpointContext::ep_type.
EndpointType(desc) == (IF desc.interrupt THEN 3 ELSE 2) + IF IsIn(desc.ep) THEN 4 ELSE 0

\* Of a byte; -1 if it is 0.
MostSignificantBit(value) ==
  IF value = 0 THEN -1 ELSE CHOOSE b \in 0..7 : 2^b <= value /\ value < 2^(b + 1)

\* From what a descriptor says, milliseconds or an exponent, to an exponent of 125 microseconds.
ConvertInterval(speed, interval) ==
  IF speed \in SlowSpeeds THEN MostSignificantBit(interval) + 3 ELSE interval - 1

\* ConfigureEndpoints begins with the flags cleared.
ClearedContext(d) == [d EXCEPT !.input = EnableSlotContext([@ EXCEPT !.add = {}])]

\* Every endpoint in ep_configs_ is enabled.
ConfigureContext(d, speed) ==
  LET enable[k \in 0..Len(d.eps)] ==
        IF k = 0 THEN ClearedContext(d).input
        ELSE EnableEndpoint(enable[k - 1], DeviceContextIndex(Number(d.eps[k].ep), IsIn(d.eps[k].ep)),
               EndpointContext(EndpointType(d.eps[k]), d.eps[k].packet,
                               ConvertInterval(speed, d.eps[k].interval)))
  IN  [d EXCEPT !.input = enable[Len(d.eps)]]

\* DoorbellRegister::Ring.
RingDoorbell(d, ep) == [d EXCEPT !.rung = @ \cup {ep}]

(***************************************************************************)
(* A device as AddressDevice makes it.  setups is setup_stage_map_, by the  *)
(* index of a TRB in the control ring; waiters are the requests in          *)
(* event_waiters_; drivers is class_drivers_, by the number of the endpoint;*)
(* hid is the phase of the class driver, in its ep_interrupt_in_, told what *)
(* its observer knows.  The record has the members of the three classes, and*)
(* those of the controller: the request it executes (asked), the endpoints  *)
(* it has been given (active: their contexts), those whose doorbells have *)
(* been rung, and those it has stopped after an error.                      *)
(***************************************************************************)
ControlRing == ControlPipe :> NewRing(TransferRing)

XhciPart(speed) == [input |-> AddressContext(speed), rings |-> ControlRing, setups |-> [i \in 1..16 |-> Free]]

UsbPart == [init |-> 0, waiters |-> <<>>, drivers |-> [n \in 0..15 |-> NoDriver],
            eps |-> <<>>, buf |-> <<>>]

HidPart == [hid |-> 0, in |-> 0, report |-> {}, previous |-> {}, told |-> {}]

ControllerPart == [asked |-> SetConfiguration, active |-> <<>>, rung |-> {}, halted |-> {}]

\* The members of two records.
Members(c, d) == [m \in DOMAIN c \cup DOMAIN d |-> IF m \in DOMAIN c THEN c[m] ELSE d[m]]

NewDevice(speed) == Members(Members(ControllerPart, XhciPart(speed)), Members(UsbPart, HidPart))

\* event_waiters_ has four places, and nothing takes an entry out.
Awaits(d, setup, issuer) ==
  IF issuer = NoDriver \/ Len(d.waiters) = 4 THEN d ELSE [d EXCEPT !.waiters = Append(@, setup)]

\* A transfer with a data stage: the data stage interrupts when it is done.
ControlIn(d, setup, issuer) ==
  LET begun == Push(d.rings[ControlPipe], SetupStage(setup))
      data  == Push(begun, DataStage)
  IN  [RingDoorbell(Awaits(d, setup, issuer), ControlPipe) EXCEPT
         !.rings[ControlPipe] = Push(data, StatusStage(FALSE)),
         !.setups = Put(@, begun.write, d.rings[ControlPipe].write)]

\* A transfer without: the status stage does.
ControlOut(d, setup, issuer) ==
  LET begun == Push(d.rings[ControlPipe], SetupStage(setup))
  IN  [RingDoorbell(Awaits(d, setup, issuer), ControlPipe) EXCEPT
         !.rings[ControlPipe] = Push(begun, StatusStage(TRUE)),
         !.setups = Put(@, begun.write, d.rings[ControlPipe].write)]

InterruptIn(d) == [RingDoorbell(d, d.in) EXCEPT !.rings[d.in] = Push(@, Normal)]

-----------------------------------------------------------------------------
(* usb::Device: the phases of the initialization.                           *)

StartInitialize(d) == ControlIn([d EXCEPT !.init = 1], GetDescriptor("device"), NoDriver)

InitializePhase1(d) == ControlIn([d EXCEPT !.init = 2], GetDescriptor("configuration"), NoDriver)

\* The first interface that has a driver, 0 when none has.
SupportedInterface(descs) ==
  LET known == {i \in DOMAIN descs : descs[i].type = "interface" /\ descs[i].driver # NoDriver}
  IN  IF known = {} THEN 0 ELSE Lowest(known)

\* Mutant: the endpoints of the device in the place of those of the interface.
EndpointsOf_All(descs, i) == SelectSeq(descs, LAMBDA desc : desc.type = "endpoint")

\* Its endpoints: the next num_endpoints endpoint descriptors, whatever is between them.
EndpointsOf(descs, i) ==
  SubSeq(SelectSeq(SubSeq(descs, i + 1, Len(descs)), LAMBDA desc : desc.type = "endpoint"),
         1, descs[i].num_endpoints)

\* A device without a driver stays where it is.
InitializePhase2(d) ==
  LET i == SupportedInterface(d.buf)
  IN  IF i = 0 THEN d
      ELSE LET eps == EndpointsOf(d.buf, i)
               numbers == {Number(eps[k].ep) : k \in DOMAIN eps}
           IN  ControlOut([d EXCEPT !.init = 3, !.eps = eps,
                             !.drivers = [n \in DOMAIN @ |-> IF n \in numbers THEN d.buf[i].driver
                                                                              ELSE @[n]]],
                          SetConfiguration, NoDriver)

\* SetEndpoint: the last interrupt endpoint that is an IN endpoint.
InterruptEndpoint(d) ==
  LET ins == {k \in DOMAIN d.eps : d.eps[k].interrupt /\ IsIn(d.eps[k].ep)}
  IN  d.eps[CHOOSE k \in ins : \A j \in ins : j <= k].ep

InitializePhase3(d) == [d EXCEPT !.init = 4, !.in = InterruptEndpoint(d)]

IsInitialized(d) == d.init = 4

\* Every endpoint that has a driver has it ask for the boot protocol: a driver of two asks twice.
OnEndpointsConfigured(d) ==
  LET ask(dev) == ControlOut([dev EXCEPT !.hid = 1], SetProtocol, dev.drivers[Number(dev.in)])
      asked[n \in 0..16] ==
        IF n = 0 THEN d
        ELSE IF d.drivers[n - 1] = NoDriver THEN asked[n - 1] ELSE ask(asked[n - 1])
  IN  asked[16]

-----------------------------------------------------------------------------
(* The completion of transfers.                                             *)

Ok(d)    == [device |-> d, err |-> FALSE]
Fails(d) == [device |-> d, err |-> TRUE]

\* HIDBaseDriver::OnControlCompleted: the first interrupt transfer.
HidControlCompleted(d) ==
  IF d.hid = 1 THEN Ok(InterruptIn([d EXCEPT !.hid = 2])) ELSE Fails(d)

\* usb::Device::OnControlCompleted.
OnControlCompleted(d, setup) ==
  IF IsInitialized(d)
  THEN IF \E i \in DOMAIN d.waiters : d.waiters[i] = setup THEN HidControlCompleted(d) ELSE Fails(d)
  ELSE IF d.init = 1 /\ setup.request = "GetDescriptor" /\ d.buf[1].type = "device"
  THEN Ok(InitializePhase1(d))
  ELSE IF d.init = 2 /\ setup.request = "GetDescriptor" /\ d.buf[1].type = "configuration"
  THEN Ok(InitializePhase2(d))
  ELSE IF d.init = 3 /\ setup.request = "SetConfiguration"
  THEN Ok(InitializePhase3(d))
  ELSE Fails(d)

\* HIDKeyboardDriver::OnDataReceived: NotifyKeyPush for every key that has changed.
KeysTold(d) ==
  LET pressed  == d.report \ d.previous
      released == d.previous \ d.report
  IN  (d.told \cup pressed) \ released

\* HIDMouseDriver::OnDataReceived: NotifyMouseMove.
MovesTold(d) == d.told \cup d.report

\* HIDBaseDriver::OnInterruptCompleted.
OnInterruptCompleted(d, ep) ==
  IF d.drivers[Number(ep)] = NoDriver \/ ~IsIn(ep) THEN Fails(d)
  ELSE Ok(InterruptIn([d EXCEPT
            !.told = IF d.drivers[Number(ep)] = "keyboard" THEN KeysTold(d) ELSE MovesTold(d),
            !.previous = d.report]))

\* The TRB an event points to is read again from the memory of the ring.
Issuer(d, event) == d.rings[event.ep].buf[event.at].trb

\* Mutant: the setup stage is taken to be the TRB before the one that completed.
SetupOf_Before(d, event) ==
  d.rings[event.ep].buf[IF event.at = 0 THEN d.rings[event.ep].last ELSE event.at - 1].trb

\* The setup stage of a transfer, through setup_stage_map_.
SetupOf(d, event) == d.rings[event.ep].buf[Get(d.setups, event.at)].trb

OnTransferEventReceived(d, event) ==
  IF ~event.success THEN Fails(d)
  ELSE IF Issuer(d, event) = Normal THEN OnInterruptCompleted(d, event.ep)
  ELSE IF Places(d.setups, event.at) = {} THEN Fails(d)
  ELSE OnControlCompleted([d EXCEPT !.setups = Delete(@, event.at)], SetupOf(d, event).setup)
=============================================================================
