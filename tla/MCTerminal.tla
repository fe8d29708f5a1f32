----------------------------- MODULE MCTerminal -----------------------------
(* Terminal with a screen of two rows, and pipes with messages of two bytes. *)
EXTENDS Terminal

MCPrints == {<<"o">>, <<"o", "wide", "\n">>, <<"o", "broken">>}
=============================================================================
