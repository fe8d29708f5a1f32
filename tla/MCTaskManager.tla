---------------------------- MODULE MCTaskManager ----------------------------
(* TaskManager on small instances; the cfg files give the constants.        *)
EXTENDS TaskManager

\* Callers may pass every level to Wakeup, or (as in this kernel) none.
AllLevels == Levels
NoLevel == {}
=============================================================================
