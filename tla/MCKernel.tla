------------------------------ MODULE MCKernel ------------------------------
(* Kernel for TLC.  The bounds are numbers and stand in the configurations. *)
EXTENDS Kernel
=============================================================================
