---------------------------- MODULE MCSystemCall ----------------------------
EXTENDS SystemCall

MCShells == {1, 2}
=============================================================================
