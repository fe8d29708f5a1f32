------------------------------- MODULE Clock --------------------------------
(* The timer of the LAPIC is measured (Acpi) before it ticks (TimerManager). *)
EXTENDS TimerManager, Acpi

ClockInit == Init /\ AcpiInit

ClockNext ==
  \/ AcpiNext /\ UNCHANGED vars
  \/ boot = "ticking" /\ Next /\ UNCHANGED acpiVars

ClockSpec == ClockInit /\ [][ClockNext]_<<vars, acpiVars>>
=============================================================================
