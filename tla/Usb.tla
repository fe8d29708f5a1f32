-------------------------------- MODULE Usb --------------------------------
(***************************************************************************)
(* The USB stack as a whole: the boot of the controller (module XhcBoot),   *)
(* its ports (PortConfig) and, in the place of the control transfers that   *)
(* PortConfig has in one step, the devices (UsbDevice) with their transfer  *)
(* rings, which the controller executes TRB by TRB.  Plugs are touched in   *)
(* PortConfig only.                                                         *)
(***************************************************************************)
EXTENDS PortConfig, UsbDevice, XhcBoot

CONSTANTS Configuration,  \* Configuration[p]: the descriptors of the device plugged into port p
          Speed,          \* Speed[p]: how fast it is
          MaxPacket,      \* MaxPacket[p]: the packets of its control pipe
          ReportsAt,      \* ReportsAt[p]: the endpoint at which it reports
          Inputs,         \* keys, or movements of a mouse
          MaxInputs,      \* bound: how often keys are pushed and mice moved
          MaxFailures     \* bound: how many transfers fail

ASSUME UsbAssumption ==
  /\ MaxInputs \in Nat /\ MaxFailures \in Nat
  /\ TransferRing \in Nat /\ TransferRing > 4
  /\ \A p \in Ports :
       /\ DOMAIN Configuration[p] \subseteq Nat
       /\ \A i \in DOMAIN Configuration[p] :
            Configuration[p][i].type = "interface" => Configuration[p][i].num_endpoints \in Nat

VARIABLES
  dev,     \* dev[s]: devices_[s] of the device manager, meaningful when device[s] # 0
  input,   \* input[p]: the keys that are down, or the movements so far
  sent,    \* sent[p]: what the device at port p has reported of them
  inputs,
  failed   \* the ports a transfer of whose device has failed

deviceVars == <<dev, input, sent, inputs, failed>>
usbVars    == <<vars, bootVars, deviceVars>>

UsbInit ==
  /\ BootInit /\ Init
  /\ dev = [s \in Slots |-> NewDevice(0)]
  /\ input = [p \in Ports |-> {}] /\ sent = [p \in Ports |-> {}] /\ inputs = 0
  /\ failed = {}

Running == pc = "ports"

Allocates(list) ==
  /\ pool' = AllocAll(pool, list)
  /\ UNCHANGED <<pc, space, devices, xhc, msi, mmio, routed, bios, os, hc, cap_, regs>>

\* LoadDCBAA: the device context, which begins the device.
LoadDCBAA(s) == dcbaa' = [dcbaa EXCEPT ![s] = Place(pool, DeviceBlock)]

-----------------------------------------------------------------------------
(* The driver.  Events arrive only if the interrupt could be configured.    *)

Interrupts == Running /\ HasMSI(space[devices[xhc]])

\* The actions of PortConfig that do not concern the record of a device.
PortProgress ==
  /\ \/ Running /\ ConfigurePort
     \/ Interrupts /\ (PortChanged \/ EnableSlot \/ InvalidPhase)
     \/ Running /\ CompleteEnableSlot
  /\ UNCHANGED <<bootVars, deviceVars>>

\* AllocDevice, and AllocTransferRing for the control pipe.
MakeDevice ==
  /\ Interrupts /\ AddressDevice
  /\ dev' = [dev EXCEPT ![Arg] = NewDevice(IF connected[addressing] THEN Speed[addressing] ELSE 0)]
  /\ Allocates(<<DeviceBlock, RingBlock, RingBuffer>>) /\ LoadDCBAA(Arg)
  /\ UNCHANGED <<input, sent, inputs, failed>>

StartDevice ==
  /\ Interrupts /\ InitializeDevice
  /\ dev' = [dev EXCEPT ![Arg] = StartInitialize(@)]
  /\ UNCHANGED <<bootVars, input, sent, inputs, failed>>

ConfigureDevice ==
  /\ Interrupts /\ CompleteConfiguration
  /\ dev' = [dev EXCEPT ![Arg] = OnEndpointsConfigured(@)]
  /\ UNCHANGED <<bootVars, input, sent, inputs, failed>>

\* The transfer rings of the endpoints, ConfigureEndpoints.
RingsOf(eps) == [k \in 1..2 * Len(eps) |-> IF k % 2 = 1 THEN RingBlock ELSE RingBuffer]

(***************************************************************************)
(* OnEvent(TransferEventTRB): the device handles the event; when that was   *)
(* the last one of its initialization, its endpoints are configured.        *)
(***************************************************************************)
TransferEvent ==
  /\ Interrupts /\ Arrives("transfer")
  /\ \E res \in {OnTransferEventReceived(dev[Arg], Front(er))} :
       LET driver == IF dev[Arg].init = 2 /\ res.device.init = 3 THEN <<DriverBlock>> ELSE <<>>
       IN  IF ~res.err /\ IsInitialized(res.device) /\ Initializing(Arg)
           THEN /\ ConfigureEndpoints(Arg)
                /\ dev' = [dev EXCEPT ![Arg] = IF connected[context[Arg]]
                                               THEN AllocTransferRings(ConfigureContext(res.device, Speed[context[Arg]]))
                                               ELSE ClearedContext(res.device)]
                /\ Allocates(IF connected[context[Arg]] THEN RingsOf(res.device.eps) ELSE <<>>)
           ELSE /\ dev' = [dev EXCEPT ![Arg] = res.device]
                /\ Allocates(driver)
                /\ UNCHANGED <<phase, cr>>
  /\ UNCHANGED dcbaa
  /\ er' = Left
  /\ UNCHANGED <<addressing, boot, device, portVars, context, input, sent, inputs, failed>>

-----------------------------------------------------------------------------
(* The controller executes the transfer rings, the devices answer.          *)

\* With a command that succeeds it takes over the endpoints that the input context adds.
TakesContext(s) ==
  dev' = IF ~enabled[device[s]] \/ dcbaa[s] = 0 THEN dev
         ELSE [dev EXCEPT ![s].active = [e \in dev[s].input.add \ {0} |-> dev[s].input.endpoint[e]] @@ @]

CommandCompleted ==
  /\ Running /\ (CompleteAddressDevice \/ CompleteConfigureEndpoint)
  /\ TakesContext(Front(cr).n)
  /\ UNCHANGED <<bootVars, input, sent, inputs, failed>>

PortOf(s) == context[s]
NextTrb(s, ep) == Front(dev[s].rings[ep])

\* The event of a TRB; asked is there for RequestsMatch, the driver does not have it.
TransferOver(s, ep, success) ==
  [type |-> "transfer", n |-> s, ep |-> ep, at |-> dev[s].rings[ep].read, success |-> success,
   asked |-> dev[s].asked]

Executes(s, ep) ==
  /\ Running /\ PortOf(s) # 0
  /\ ep \in DOMAIN dev[s].active /\ ep \in dev[s].rung \ dev[s].halted
  /\ HasFront(dev[s].rings[ep]) /\ HasRoom(er)

\* The descriptor of an endpoint that the device has.
DescriptorOf(p, ep) ==
  LET d == Configuration[p]
  IN  d[CHOOSE k \in DOMAIN d : d[k].type = "endpoint" /\ d[k].ep = ep]

\* How often a device wants to be asked, in units of 125 microseconds.
Period(p, interval) == IF Speed[p] \in SlowSpeeds THEN 8 * interval ELSE 2^(interval - 1)

\* The context of an endpoint is true to the device, which answers in time, and a full packet.
Described(s, ep) ==
  LET p == PortOf(s)
      c == dev[s].active[ep]
  IN  IF ep = ControlPipe THEN c.type = 4 /\ c.packet = MaxPacket[p]
      ELSE LET desc == DescriptorOf(p, ep)
           IN  /\ c.type = (IF IsIn(ep) THEN 7 ELSE 3) /\ c.packet = desc.packet
               /\ 2^c.interval <= Period(p, desc.interval) /\ Period(p, desc.interval) < 2^(c.interval + 1)

\* It goes on until the ring is empty; then it waits for the doorbell again.
Fetches(s, ep, d) ==
  LET rest == Fetched(d.rings[ep])
  IN  dev' = [dev EXCEPT ![s] = [d EXCEPT !.rings[ep] = rest,
                                          !.rung = IF HasFront(rest) THEN @ ELSE @ \ {ep}]]

\* What a device answers to GetDescriptor.
DescriptorsOf(p, setup) ==
  IF setup = GetDescriptor("device") THEN <<DeviceDescriptor>> ELSE Configuration[p]

\* The control pipe: the request, its data, its end.
ExecuteControl(s) ==
  /\ Executes(s, ControlPipe) /\ Described(s, ControlPipe) /\ enabled[PortOf(s)]
  /\ LET trb == NextTrb(s, ControlPipe)
     IN  \/ /\ trb.type = "setup"
            /\ Fetches(s, ControlPipe, [dev[s] EXCEPT !.asked = trb.setup])
            /\ UNCHANGED er
         \/ /\ trb = DataStage
            /\ Fetches(s, ControlPipe, [dev[s] EXCEPT !.buf = DescriptorsOf(PortOf(s), dev[s].asked)])
            /\ er' = Post(er, TransferOver(s, ControlPipe, TRUE))
         \/ /\ trb.type = "status"
            /\ Fetches(s, ControlPipe, dev[s])
            /\ er' = IF trb.ioc THEN Post(er, TransferOver(s, ControlPipe, TRUE)) ELSE er
  /\ UNCHANGED <<bootVars, driverVars, portVars, context, cr, input, sent, inputs, failed>>

Kind(p) ==
  LET i == SupportedInterface(Configuration[p])
  IN  IF i = 0 THEN NoDriver ELSE Configuration[p][i].driver

\* A device reports when there is something to report.
ExecuteInterrupt(s) ==
  LET p  == PortOf(s)
      ep == ReportsAt[p]
  IN  /\ Executes(s, ep) /\ Described(s, ep) /\ enabled[p] /\ input[p] # sent[p]
      /\ Fetches(s, ep, [dev[s] EXCEPT
           !.report = IF Kind(p) = "mouse" THEN input[p] \ sent[p] ELSE input[p]])
      /\ er' = Post(er, TransferOver(s, ep, TRUE))
      /\ sent' = [sent EXCEPT ![p] = input[p]]
      /\ UNCHANGED <<bootVars, driverVars, portVars, context, cr, input, inputs, failed>>

\* A transfer ends with an error: the controller stops the endpoint.
FailTransfer(s) ==
  /\ \E ep \in DOMAIN dev[s].rings :
       /\ Executes(s, ep)
       /\ \/ ~enabled[PortOf(s)] \/ ~Described(s, ep)
          \/ Cardinality(failed) < MaxFailures
       /\ dev' = [dev EXCEPT ![s].halted = @ \cup {ep}]
       /\ er' = Post(er, TransferOver(s, ep, FALSE))
       /\ failed' = IF Described(s, ep) THEN failed \cup {PortOf(s)} ELSE failed
  /\ UNCHANGED <<bootVars, driverVars, portVars, context, cr, input, sent, inputs>>

\* A key is pushed or released, a mouse moved, once the device is configured.
Use(p, i) ==
  /\ Running /\ inputs < MaxInputs /\ connected[p] /\ phase[p] = "Configured"
  /\ \/ Kind(p) = "keyboard" /\ input' = [input EXCEPT ![p] = (@ \cup {i}) \ (@ \cap {i})]
     \/ Kind(p) = "mouse" /\ i \notin input[p] /\ input' = [input EXCEPT ![p] = @ \cup {i}]
  /\ inputs' = inputs + 1
  /\ UNCHANGED <<vars, bootVars, dev, sent, failed>>

-----------------------------------------------------------------------------
Driver ==
  MakeDevice \/ StartDevice \/ ConfigureDevice \/ TransferEvent

UsbNext ==
  \/ Boot /\ UNCHANGED <<vars, deviceVars>>
  \/ PortProgress \/ CommandCompleted \/ Driver
  \/ \E s \in Slots : ExecuteControl(s) \/ ExecuteInterrupt(s) \/ FailTransfer(s)
  \/ \E p \in Ports, i \in Inputs : Use(p, i)

UsbSpec == UsbInit /\ [][UsbNext]_usbVars

-----------------------------------------------------------------------------
(***************************************************************************)
(* A completion event names a TRB in a ring that is reused; the driver      *)
(* finds through it the request the controller has executed, and never has  *)
(* more than one interrupt transfer under way, whose report it would        *)
(* otherwise overwrite.                                                     *)
(***************************************************************************)
RequestsMatch ==
  /\ \A e \in Unread(er) :
       e.type = "transfer" /\ e.success =>
         LET d == dev[e.n]
         IN  IF e.ep = ControlPipe
             THEN Places(d.setups, e.at) # {} /\ SetupOf(d, e) = SetupStage(e.asked)
             ELSE Issuer(d, e) = Normal
  /\ \A s \in Slots : \A ep \in DOMAIN dev[s].rings :
       /\ ~Overrun(dev[s].rings[ep])
       /\ ep # ControlPipe =>
            Cardinality({i \in Written(dev[s].rings[ep]) : dev[s].rings[ep].buf[i].trb = Normal}) <= 1

\* USB memory: see UsbMemory.
PoolOK == BlocksApart(pool)

\* Nothing is under way: no event and no command, and no transfer that the controller knows of but those
\* that wait for a key or a move.
Quiet ==
  /\ boot > NumPorts /\ ~HasFront(er) /\ ~HasFront(cr)
  /\ \A s \in Slots : \A ep \in DOMAIN dev[s].rings :
       HasFront(dev[s].rings[ep]) /\ ep \in dev[s].rung /\ ep \in DOMAIN dev[s].active =>
         \/ ep \in dev[s].halted
         \/ ep # ControlPipe /\ (ep = ReportsAt[PortOf(s)] => input[PortOf(s)] = sent[PortOf(s)])

(***************************************************************************)
(* Every keyboard and mouse that is there at boot comes to work: when the   *)
(* driver, the controller and the devices have nothing left to do, its port *)
(* is configured (which takes every answer and every completion of the      *)
(* initialization: a device that is not heard stays on the way) and what    *)
(* its observer has been told is what has been done with it.  A device      *)
(* whose transfer failed is given up, but only that one; one without a      *)
(* driver keeps nobody waiting.                                             *)
(***************************************************************************)
Works(p) ==
  \E s \in Slots :
    context[s] = p /\ phase[p] = "Configured" /\ dev[s].told = input[p]

EveryDeviceWorks ==
  Interrupts /\ Quiet =>
    \A p \in Ports : connected[p] /\ p \notin failed /\ Kind(p) # NoDriver => Works(p)
=============================================================================
