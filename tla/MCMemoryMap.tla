---------------------------- MODULE MCMemoryMap -----------------------------
(* MemoryMap for TLC: every map of a small memory with a kernel of two      *)
(* frames, a part of which is not in the file; callers may be exchanged.    *)
EXTENDS MemoryMap, TLC

MCSegments ==
  <<[type |-> "load", vaddr |-> 1, filesz |-> 1, memsz |-> 1],
    [type |-> "note", vaddr |-> 6, filesz |-> 1, memsz |-> 1],
    [type |-> "load", vaddr |-> 2, filesz |-> 0, memsz |-> 1]>>

CallerSymmetry == Permutations(Callers)
=============================================================================
