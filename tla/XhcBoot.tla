------------------------------ MODULE XhcBoot ------------------------------
(***************************************************************************)
(* How the kernel takes the xHC into use, from the scan of the PCI buses    *)
(* (InitializePCI) to Controller::Run: it finds the controller, has the     *)
(* firmware give it up, halts and resets it, writes the addresses of the    *)
(* tables it has allocated, and runs it.  The controller and the firmware   *)
(* are modelled from the registers the driver reads and waits for.          *)
(***************************************************************************)
EXTENDS Pci, FiniteSets, UsbMemory

CONSTANTS Spaces,       \* the configuration spaces of the machines considered
          Capabilities  \* what their controllers say in the capability registers

\* Fields of five bits and of three, and a list of capabilities.
ASSUME BootAssumption ==
  /\ \A c \in Capabilities : c.low \in 0..31 /\ c.high \in 0..31
  /\ \A sp \in Spaces : \A a \in DOMAIN sp :
       /\ DOMAIN sp[a].caps \subseteq Nat
       /\ \A i \in DOMAIN sp[a].caps :
            sp[a].caps[i].id = "MSI" => sp[a].caps[i].capable \in 0..7

VARIABLES
  pc,       \* where InitializePCI and xhci::Initialize are
  space,    \* the configuration space of this machine
  devices,  \* pci::devices
  xhc,      \* the index of xhc_dev, 0 before it is chosen
  msi,      \* the registers of its MSI capability, from their offset
  mmio,     \* xhc_mmio_base
  routed,   \* the ports of the EHCI are switched to the xHC
  bios, os, \* hc_bios_owned_semaphore, hc_os_owned_semaphore
  hc,       \* the controller: "running", "stopping", "halted", "resetting" or "notReady"
  cap_,     \* the capability registers and the extended registers
  regs,     \* the registers the driver writes, with what they hold
  dcbaa,    \* device_context_pointers_
  pool      \* the USB memory pool

bootVars == <<pc, space, devices, xhc, msi, mmio, routed, bios, os, hc, cap_, regs, dcbaa, pool>>

kDeviceSize == 8

\* CapabilityRegisters: of HCSPARAMS2 the scratchpads, of HCCPARAMS1 the pointer to the extended ones.
CapabilityRegisters(low, high, pointer, extended) ==
  [low |-> low, high |-> high, pointer |-> pointer, extended |-> extended]

\* An extended register: what it is, and how far it is to the next.
ExtendedRegister(id, next) == [capability_id |-> id, next_pointer |-> next]

\* Addresses of extended registers, from the base of the controller; 0 is the null pointer.
AddOrNull(p, d) == IF d = 0 THEN 0 ELSE p + d

\* The n-th of the list, from 0.
Extended(n) ==
  LET at[k \in 0..n] ==
        IF k = 0 THEN AddOrNull(0, cap_.pointer)
        ELSE IF at[k - 1] = 0 THEN 0
        ELSE AddOrNull(at[k - 1], cap_.extended[at[k - 1]].next_pointer)
  IN  at[n]

\* std::find_if over the list: there is a register of the legacy support.
HasLegacySupport ==
  \E n \in 0..Cardinality(DOMAIN cap_.extended) :
    Extended(n) # 0 /\ cap_.extended[Extended(n)].capability_id = 1

\* The registers as a reset leaves them.
OperationalRegisters    == [CONFIG |-> 0, DCBAAP |-> 0, CRCR |-> [cycle |-> FALSE, pointer |-> 0]]
InterrupterRegisterSet  == [IMAN |-> FALSE, ERSTSZ |-> 0, ERSTBA |-> 0, ERDP |-> 0]
ResetRegisters == [op |-> OperationalRegisters, primary |-> InterrupterRegisterSet, INTE |-> FALSE]

BootInit ==
  /\ pc = "scan" /\ space \in Spaces /\ devices = <<>>
  /\ xhc = 0 /\ msi = [offset \in {0, 4, 8, 12, 16, 20} |-> 0] /\ mmio = <<0, 0>> /\ routed = FALSE
  /\ cap_ \in Capabilities
  /\ bios \in {b \in BOOLEAN : b => HasLegacySupport} /\ os = FALSE
  /\ hc \in {"running", "halted"}
  /\ regs = ResetRegisters /\ dcbaa = [i \in 0..kDeviceSize |-> 0] /\ pool = EmptyPool

Goes(from, to) == pc = from /\ pc' = to

\* What the driver reads in the registers.
USBLEGSUP == [hc_bios_owned_semaphore |-> bios, hc_os_owned_semaphore |-> os]
USBCMD    == [run_stop |-> hc = "running", host_controller_reset |-> hc = "resetting"]
USBSTS    == [host_controller_halted |-> hc \notin {"running", "stopping"},
              controller_not_ready   |-> hc = "notReady"]

-----------------------------------------------------------------------------
(* The driver.                                                              *)

InitializePCI ==
  /\ Goes("scan", IF Fits(ScanAllBus(space)) THEN "choose" ELSE "stopped")
  /\ devices' = ScanAllBus(space)
  /\ UNCHANGED <<space, xhc, msi, mmio, routed, bios, os, hc, cap_, regs, dcbaa, pool>>

\* The interrupt of the controller goes to the boot processor, at the vector of the kernel.
XhciMessage == FixedDestination("bsp", TRUE, "kXHCI")

\* Without an xHC the kernel stops.
FindXhc ==
  LET i == ChooseXhc(space, devices)
      f == space[devices[i]]
  IN  /\ Goes("choose", IF i = 0 THEN "stopped" ELSE "own")
      /\ xhc' = i
      /\ IF i = 0 THEN UNCHANGED <<msi, mmio, routed>>
         ELSE /\ msi' = ConfigureMSI(f, msi, XhciMessage, 0)
              /\ mmio' = ReadBar(f, 1)
              /\ routed' = Switches(space, devices, devices[i])
      /\ UNCHANGED <<space, devices, bios, os, hc, cap_, regs, dcbaa, pool>>

\* RequestHCOwnership, after DeviceManager::Initialize.
RequestHCOwnership ==
  /\ Goes("own", "owning")
  /\ os' = HasLegacySupport
  /\ pool' = AllocAll(pool, <<Devices_, DeviceContexts>>)
  /\ UNCHANGED <<space, devices, xhc, msi, mmio, routed, bios, hc, cap_, regs, dcbaa>>

\* The firmware has answered, if it was asked: the controller is stopped.
Stop ==
  /\ Goes("owning", "stopping")
  /\ HasLegacySupport =>
       ~USBLEGSUP.hc_bios_owned_semaphore /\ USBLEGSUP.hc_os_owned_semaphore
  /\ hc' = IF USBSTS.host_controller_halted THEN hc ELSE "stopping"
  /\ UNCHANGED <<space, devices, xhc, msi, mmio, routed, bios, os, cap_, regs, dcbaa, pool>>

\* The controller must be halted before it is reset.
IsHalted == USBSTS.host_controller_halted

ResetController ==
  /\ Goes("stopping", "resetting") /\ IsHalted
  /\ hc' = "resetting"
  /\ UNCHANGED <<space, devices, xhc, msi, mmio, routed, bios, os, cap_, regs, dcbaa, pool>>

\* Mutant: the driver does not wait for controller_not_ready.
ResetDone_Early == ~USBCMD.host_controller_reset

ResetDone == ~USBCMD.host_controller_reset /\ ~USBSTS.controller_not_ready

\* DeviceManager::DeviceContexts.
DeviceContextsAt == AddressOf(EmptyPool, <<Devices_, DeviceContexts>>, 2)

MaxScratchpadBuffers == cap_.low + 32 * cap_.high

\* The command ring; the event ring and its segment table.
RingTables == <<RingBuffer, RingBuffer, SegmentTable>>

\* RegisterCommandRing.
RegisterCommandRing(op, buffer) == [op EXCEPT !.CRCR = [cycle |-> TRUE, pointer |-> buffer]]

\* EventRing::Initialize: the segment table, of one entry, and the buffer it leads to.
RegisterEventRing(primary, buffer, erst) ==
  [primary EXCEPT !.ERSTSZ = 1, !.ERDP = buffer, !.ERSTBA = erst]

(***************************************************************************)
(* The registers, one after the other, with the scratchpads and the rings   *)
(* allocated for them.  A ring that finds no room stops the kernel, a       *)
(* scratchpad buffer that finds none does not.                              *)
(***************************************************************************)
SetUp ==
  /\ ResetDone
  /\ LET scratchpads == ScratchpadBlocks(MaxScratchpadBuffers)
         left  == AllocAll(pool, scratchpads)
         at(n) == AddressOf(left, RingTables, n)
         op    == [regs.op EXCEPT !.CONFIG = kDeviceSize, !.DCBAAP = DeviceContextsAt]
     IN  /\ dcbaa' = IF scratchpads = <<>> THEN dcbaa
                     ELSE [dcbaa EXCEPT ![0] = AddressOf(pool, scratchpads, 1)]
         /\ IF AllFit(left, RingTables)
            THEN /\ Goes("resetting", "run")
                 /\ regs' = [op      |-> RegisterCommandRing(op, at(1)),
                             primary |-> [RegisterEventRing(regs.primary, at(2), at(3)) EXCEPT
                                            !.IMAN = TRUE],
                             INTE    |-> TRUE]
                 /\ pool' = AllocAll(left, RingTables)
            ELSE /\ Goes("resetting", "stopped")
                 /\ pool' = left /\ regs' = [regs EXCEPT !.op = op]
  /\ UNCHANGED <<space, devices, xhc, msi, mmio, routed, bios, os, hc, cap_>>

\* Controller::Run.
Run ==
  /\ Goes("run", "ports")
  /\ hc' = "running"
  /\ UNCHANGED <<space, devices, xhc, msi, mmio, routed, bios, os, cap_, regs, dcbaa, pool>>

-----------------------------------------------------------------------------
(* The firmware and the controller.                                         *)

\* The firmware lets go when it sees the semaphore of the kernel.
BiosReleases ==
  /\ bios /\ os /\ bios' = FALSE
  /\ UNCHANGED <<pc, space, devices, xhc, msi, mmio, routed, os, hc, cap_, regs, dcbaa, pool>>

\* It halts when it is told to; a reset forgets what was written, and takes two steps.
Proceeds ==
  /\ \/ hc = "stopping"  /\ hc' = "halted"   /\ UNCHANGED regs
     \/ hc = "resetting" /\ hc' = "notReady" /\ UNCHANGED regs
     \/ hc = "notReady"  /\ hc' = "halted"   /\ regs' = ResetRegisters
  /\ UNCHANGED <<pc, space, devices, xhc, msi, mmio, routed, bios, os, cap_, dcbaa, pool>>

Boot ==
  \/ InitializePCI \/ FindXhc \/ RequestHCOwnership \/ Stop \/ ResetController \/ SetUp \/ Run
  \/ BiosReleases \/ Proceeds

-----------------------------------------------------------------------------
\* The buses behind the host bridge: those in every set that is closed under the bridges.
ReachedBuses(sp) ==
  LET hosts == IF IsSingleFunctionDevice(sp[<<0, 0, 0>>].header) THEN {0}
               ELSE {f \in 0..7 : <<0, 0, f>> \in DOMAIN sp}
      behind(a) == SecondaryBus(sp[a].buses)
      bridges == {a \in DOMAIN sp : Match(sp[a].class, <<6, 4>>)}
      buses   == hosts \cup {behind(a) : a \in bridges}
      closed  == {s \in SUBSET buses : /\ hosts \subseteq s
                                       /\ \A a \in bridges : a[1] \in s => behind(a) \in s}
  IN  {b \in buses : \A s \in closed : b \in s}

(***************************************************************************)
(* The scan misses nothing that can be reached, on whatever function of     *)
(* whatever bridge, and the controller that is taken is one of Intel when   *)
(* the machine has one.                                                     *)
(***************************************************************************)
FindsTheController ==
  /\ pc # "scan" =>
       {devices[i] : i \in DOMAIN devices} = {a \in DOMAIN space : a[1] \in ReachedBuses(space)}
  /\ xhc # 0 =>
       /\ xhc \in DOMAIN devices
       /\ \/ IsIntel(space[devices[xhc]])
          \/ \A i \in DOMAIN devices : ~(IsXhc(space[devices[i]]) /\ IsIntel(space[devices[i]]))

\* What a device does with the registers of its MSI capability: it sends data to an address.
Sends(cap) == <<msi[4], IF cap.wide THEN msi[8] ELSE 0, msi[IF cap.wide THEN 12 ELSE 8]>>

\* What a register points to.
Points(at, block) == [at |-> at, as |-> block] \in pool.blocks

(***************************************************************************)
(* The controller runs only after the firmware has let go of it, and with   *)
(* every register the driver has set: nothing was written before the reset  *)
(* was over, when it would have been forgotten.  They lead it to tables the *)
(* driver has allocated, each to its own.  The driver has its whole         *)
(* address, and in whichever form its MSI capability comes it interrupts    *)
(* the processor, with one vector and nothing masked.                       *)
(***************************************************************************)
LedToItsTables ==
  /\ DOMAIN dcbaa = 0..regs.op.CONFIG /\ Points(regs.op.DCBAAP, DeviceContexts)
  /\ MaxScratchpadBuffers > 0 => Points(dcbaa[0], ScratchpadBlocks(MaxScratchpadBuffers)[1])
  /\ regs.op.CRCR.cycle /\ Points(regs.op.CRCR.pointer, RingBuffer)
  /\ regs.primary.ERSTSZ = 1 /\ Points(regs.primary.ERSTBA, SegmentTable)
  /\ Points(regs.primary.ERDP, RingBuffer) /\ regs.primary.ERDP # regs.op.CRCR.pointer
  /\ regs.primary.IMAN /\ regs.INTE

\* The address of the controller, and its interrupts.
Reached ==
  LET f == space[devices[xhc]]
  IN  /\ mmio = <<IF f.bars[1].wide THEN f.bars[2].base ELSE 0, f.bars[1].base>>
      /\ \A cap \in CapabilityOf(f, "MSI") :
           /\ msi[0] = [enable |-> TRUE, vectors |-> 0]
           /\ Sends(cap) = <<XhciMessage.addr, 0, XhciMessage.data>>
           /\ cap.masks => msi[IF cap.wide THEN 16 ELSE 12] = 0

RunsAsSetUp ==
  pc = "ports" => hc = "running" /\ ~bios /\ LedToItsTables /\ Reached
=============================================================================
