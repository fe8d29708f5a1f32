------------------------------ MODULE MCPaging ------------------------------
(* Paging with terminals and programs that are interchangeable.             *)
EXTENDS Paging

Symmetry == Permutations(Task)
=============================================================================
