-------------------------------- MODULE Pci --------------------------------
(***************************************************************************)
(* The scan of the PCI buses (pci.cpp) and the choice of the xHC among what *)
(* it finds (xhci::Initialize).  A configuration space is a function from   *)
(* the addresses <<bus, device, function>> that answer to what they say of  *)
(* themselves:                                                              *)
(*   vendor     who made it                                                 *)
(*   class      the class code, <<base, sub, interface>>                    *)
(*   header     the header type, with 128 if there are several functions    *)
(*   buses      a bridge's register of bus numbers                          *)
(*   bars       its base address registers, which are 4 bytes wide each     *)
(*   caps       its list of capabilities                                    *)
(***************************************************************************)
EXTENDS Integers, Sequences, TLC
Lists == INSTANCE SequencesExt

CONSTANT DeviceTable  \* devices.size(): 32 in the code

Function(vendor, class, header, buses, bars, caps) ==
  [vendor |-> vendor, class |-> class, header |-> header, buses |-> buses,
   bars |-> bars, caps |-> caps]

\* Where nothing answers, every bit is 1.
NoVendor == 65535
ReadVendorId(space, a) == IF a \in DOMAIN space THEN space[a].vendor ELSE NoVendor

\* A class code begins with what is asked for.
Match(class, codes) == SubSeq(class, 1, Len(codes)) = codes

IsSingleFunctionDevice(header) == header < 128

SecondaryBus(buses) == (buses \div 256) % 256

IsXhc(f)   == Match(f.class, <<12, 3, 48>>)
IsEhci(f)  == Match(f.class, <<12, 3, 32>>)
IsIntel(f) == f.vendor = 32902     \* 0x8086

\* addr_64_capable, per_vector_mask_capable and multi_msg_capable.
MSICapability(wide, masks, capable) ==
  [id |-> "MSI", wide |-> wide, masks |-> masks, capable |-> capable]
OtherCapability(id) == [id |-> id]

\* Of a list of addresses, those that answer, in order.
Answering(space, list) == SelectSeq(list, LAMBDA a : ReadVendorId(space, a) # NoVendor)

\* Mutant: a bridge that is a function of a device of several is not followed.
IsBridge_First(space, a) == Match(space[a].class, <<6, 4>>) /\ a[3] = 0

IsBridge(space, a) == Match(space[a].class, <<6, 4>>)

\* ScanDevice: function 0 is asked first, the others only if it says there are several.
OnBus(space, bus) ==
  LET first(a) == <<bus, a[2], 0>>
      asked(a) == /\ ReadVendorId(space, first(a)) # NoVendor
                  /\ a[3] # 0 => ~IsSingleFunctionDevice(space[first(a)].header)
  IN  Answering(space, SelectSeq([n \in 1..256 |-> <<bus, (n - 1) \div 8, (n - 1) % 8>>], asked))

\* ScanBus: the list of what is to be seen, each bridge followed by what is behind it.
ScanBus(space, list) ==
  LET scan[todo \in Seq(DOMAIN space)] ==
        IF todo = <<>> THEN <<>>
        ELSE LET a == Head(todo)
             IN  <<a>> \o scan[(IF IsBridge(space, a) THEN OnBus(space, SecondaryBus(space[a].buses)) ELSE <<>>)
                                 \o Tail(todo)]
  IN  scan[list]

\* ScanAllBus: a host bridge of several functions has a bus for each of them.
ScanAllBus(space) ==
  IF IsSingleFunctionDevice(space[<<0, 0, 0>>].header) THEN ScanBus(space, OnBus(space, 0))
  ELSE LET hosts == Answering(space, [n \in 1..8 |-> <<0, 0, n - 1>>])
       IN  ScanBus(space, Lists!FlattenSeq([k \in DOMAIN hosts |-> OnBus(space, hosts[k][3])]))

\* AddDevice gives up when the table is full, and the kernel with it.
Fits(list) == Len(list) <= DeviceTable

\* The first xHC of Intel; without one the last that was found; 0 for none.
ChooseXhc(space, list) ==
  LET xhcs   == {i \in DOMAIN list : IsXhc(space[list[i]])}
      intels == {i \in xhcs : IsIntel(space[list[i]])}
  IN  IF xhcs = {} THEN 0
      ELSE IF intels # {} THEN CHOOSE i \in intels : \A j \in intels : i <= j
      ELSE CHOOSE i \in xhcs : \A j \in xhcs : j <= i

-----------------------------------------------------------------------------
(* The registers of the controller that is chosen.                          *)

\* ReadBar: a 64-bit address takes two registers; base is <<upper, lower>>.
ReadBar(f, i) ==
  IF ~f.bars[i].wide THEN <<0, f.bars[i].base>>
  ELSE IF i = 6 THEN <<0, 0>>
  ELSE <<f.bars[i + 1].base, f.bars[i].base>>

\* Where an MSI capability, which comes in four forms, has its message data.
DataAt(cap) == IF cap.wide THEN 12 ELSE 8

\* Its registers, from their offset in the configuration space.
ReadMSICapability(cap, regs) ==
  [control |-> regs[0], addr |-> regs[4],
   upper   |-> IF cap.wide THEN regs[8] ELSE 0,
   data    |-> regs[DataAt(cap)],
   mask    |-> IF cap.masks THEN regs[DataAt(cap) + 4] ELSE 0,
   pending |-> IF cap.masks THEN regs[DataAt(cap) + 8] ELSE 0]

WriteMSICapability(cap, regs, msi) ==
  [regs EXCEPT
     ![0] = msi.control, ![4] = msi.addr,
     ![8] = IF cap.wide THEN msi.upper ELSE @,
     ![DataAt(cap)] = msi.data,
     ![DataAt(cap) + 4] = IF cap.masks THEN msi.mask ELSE @,
     ![DataAt(cap) + 8] = IF cap.masks THEN msi.pending ELSE @]

\* The message that is wanted, with at most the 2^exponent vectors the device has.
ConfigureMSIRegister(cap, regs, message, exponent) ==
  WriteMSICapability(cap, regs,
    [ReadMSICapability(cap, regs) EXCEPT
       !.control = [enable |-> TRUE,
                    vectors |-> IF cap.capable <= exponent THEN cap.capable ELSE exponent],
       !.addr = message.addr, !.data = message.data])

\* The last capability of a kind in the list, as a set of at most one.
CapabilityOf(f, id) ==
  LET at == {i \in DOMAIN f.caps : f.caps[i].id = id}
  IN  {f.caps[i] : i \in {j \in at : \A k \in at : k <= j}}

HasMSI(f) == CapabilityOf(f, "MSI") # {}

\* ConfigureMSI: MSI if the device has it; MSI-X is not implemented.
ConfigureMSI(f, regs, message, exponent) ==
  IF ~HasMSI(f) THEN regs
  ELSE ConfigureMSIRegister(CHOOSE cap \in CapabilityOf(f, "MSI") : TRUE, regs, message, exponent)

\* ConfigureMSIFixedDestination: to the processor, with the level bits of the trigger mode.
FixedDestination(apic, level, vector) ==
  [addr |-> <<"apic", apic>>, data |-> [level |-> level, vector |-> vector]]

-----------------------------------------------------------------------------

\* SwitchEhci2Xhci: the ports are handed over (USB3_PSSEN, XUSB2PR) when there is an EHCI of Intel.
Switches(space, list, a) ==
  /\ IsIntel(space[a])
  /\ \E i \in DOMAIN list : IsEhci(space[list[i]]) /\ IsIntel(space[list[i]])
=============================================================================
