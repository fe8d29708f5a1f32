------------------------------- MODULE MCFat -------------------------------
(* A small volume for TLC: clusters of two bytes or two entries. *)
EXTENDS Fat

File(elems) == [elems |-> elems, slash |-> FALSE]
Dir(elems)  == [elems |-> elems, slash |-> TRUE]

\* The last name is longer than an entry's fields, and is cut to the one before.
MCPath == {File(<<<<"A">>>>), File(<<<<"D">>, <<"B", ".", "X">>>>), Dir(<<<<"D">>>>), Dir(<<<<"A">>>>),
           File(<<<<"D">>, <<"B", "B", "B", ".", "X">>>>)}

\* A deleted file that was empty, one of two bytes whose cluster is free again,
\* and a long name, with letters where the cluster should be.
MCDeletedEntry == {Entry(Deleted, "file", 0, 0), Entry(Deleted, "file", 6, 2),
                   Entry(Deleted, "longname", EndOfChain, 0)}

\* No step depends on what the last one gave back.
View == <<fat, dirs, data, desc, stale, misnamed, halted>>
Symmetry == Permutations(Fd)
MCInput == {<<"x">>, <<"y", "\n">>, <<"x", "y", "z">>}
=============================================================================
