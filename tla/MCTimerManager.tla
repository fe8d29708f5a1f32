--------------------------- MODULE MCTimerManager ---------------------------
(* Clock for TLC: two applications that may be exchanged, a PM timer that    *)
(* counts to 8 or to 16, firmware in order and out of order.                *)
EXTENDS Clock, TLC

AppSymmetry == Permutations(Apps)

Table(signature, length) == DescriptionHeader(signature, length, <<200, 56>>)
Broken(signature)        == DescriptionHeader(signature, 276, <<200, 55>>)

Tables(entries) == XSDT(Table("XSDT", 36 + 8 * Len(entries)), entries)

Others(wide) == <<FADT(Table("APIC", 44), ~wide), FADT(Broken("FACP"), ~wide), FADT(Table("FACP", 276), wide)>>

Firmware(size, revision, bytes, xsdt) ==
  [size |-> size, rsdp |-> RSDP("RSD PTR ", revision, bytes, xsdt)]

MCFirmwares ==
  {Firmware(8, 2, <<255, 1, 0>>, Tables(Others(FALSE))),
   Firmware(16, 2, <<255, 1, 0>>, Tables(Others(TRUE))),
   \* no table of the first version, none of the second, no XSDT, no FADT
   Firmware(8, 0, <<255, 1, 0>>, Tables(Others(FALSE))),
   Firmware(8, 2, <<255, 0, 1>>, Tables(Others(FALSE))),
   Firmware(8, 2, <<255, 1, 1>>, Tables(Others(FALSE))),
   Firmware(8, 2, <<255, 1, 0>>, XSDT(Broken("XSDT"), <<>>)),
   Firmware(8, 2, <<255, 1, 0>>, Tables(SubSeq(Others(FALSE), 1, 2)))}
=============================================================================
