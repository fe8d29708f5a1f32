---------------------------- MODULE MCPortConfig ----------------------------
(* PortConfig for TLC: a controller with three ports.                       *)
EXTENDS PortConfig
=============================================================================
