------------------------------- MODULE MCUsb -------------------------------
(* Usb for TLC: two ports; a keyboard with two endpoints behind an          *)
(* interface nobody knows, a mouse, and three machines.                     *)
EXTENDS Usb

Intel == 32902
Host(header)     == Function(Intel, <<6, 0, 0>>, header, 0, <<>>, <<>>)
Bridge(bus)      == Function(4660, <<6, 4, 0>>, 129, 65536 + 256 * bus, <<>>, <<>>)
EhciOf(vendor)   == Function(vendor, <<12, 3, 32>>, 128, 0, <<>>, <<>>)
Xhc(vendor, bars, caps) == Function(vendor, <<12, 3, 48>>, 0, 0, bars, caps)

Bars32 == <<[wide |-> FALSE, base |-> 1], [wide |-> FALSE, base |-> 2]>>
Bars64 == <<[wide |-> TRUE, base |-> 1], [wide |-> FALSE, base |-> 2]>>
MSIX   == OtherCapability("MSIX")

\* Two xHCs, the one of Intel behind a bridge; a host bridge of two functions; no MSI; no xHC.
MCSpaces ==
  { (<<0, 0, 0>> :> Host(0))
      @@ (<<0, 1, 0>> :> Xhc(4660, Bars32, <<MSICapability(FALSE, FALSE, 0)>>))
      @@ (<<0, 2, 0>> :> EhciOf(Intel)) @@ (<<0, 2, 3>> :> Bridge(2))
      @@ (<<2, 0, 0>> :> Xhc(Intel, Bars64, <<MSICapability(TRUE, TRUE, 3), MSIX>>)),
    (<<0, 0, 0>> :> Host(128)) @@ (<<0, 0, 1>> :> Host(128))
      @@ (<<1, 0, 0>> :> Xhc(4660, Bars32, <<MSIX>>)),
    (<<0, 0, 0>> :> Host(0)) }

\* The keyboard has low speed and is asked every 10 ms, the mouse high speed and every ms.
MCSpeed     == <<2, 3>>
MCMaxPacket == <<8, 64>>

OfKeyboard(ep) == EndpointDescriptor(ep, TRUE, 8, 10)
OfMouse(ep)    == EndpointDescriptor(ep, TRUE, 6, 4)

MCConfiguration ==
  << << ConfigurationDescriptor, InterfaceDescriptor("none", 1), OfKeyboard(7),
        InterfaceDescriptor("keyboard", 2), HIDDescriptor, OfKeyboard(3), OfKeyboard(4) >>,
     << ConfigurationDescriptor, InterfaceDescriptor("mouse", 1), HIDDescriptor, OfMouse(3),
        InterfaceDescriptor("none", 1), OfMouse(5) >> >>

\* A list of which the second register is that of the firmware; no list, and many scratchpads.
MCCapabilities ==
  { CapabilityRegisters(2, 0, 4, (4 :> ExtendedRegister(2, 8)) @@ (12 :> ExtendedRegister(1, 0))),
    CapabilityRegisters(31, 0, 0, <<>>) }

MCReportsAt == <<3, 3>>
=============================================================================
