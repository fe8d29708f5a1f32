------------------------------ MODULE MCLayers ------------------------------
EXTENDS Layers

MCOpenAt     == {<<0, 0>>, <<1, 1>>}
MCMainAt     == <<1, 0>>
MCTerminalAt == <<0, 0>>
MCCursorAt   == <<0, 1>>

\* Every pixel is at an edge, where the cursor does not move.
MCDisplacements == {<<1, 0>>, <<-1, 0>>, <<0, 1>>, <<0, -1>>}
=============================================================================
