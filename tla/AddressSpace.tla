---------------------------- MODULE AddressSpace ----------------------------
(***************************************************************************)
(* What paging promises to applications: every running program has a       *)
(* memory of its own.  It begins as the image of the program, grows by     *)
(* pages of zeros and by pages of a file, and changes only when its owner   *)
(* writes to it.  How pages are found, filled and shared is not seen.       *)
(*                                                                          *)
(* Of a spoilt program nothing is promised any more, in any of its          *)
(* instances; the others are not concerned.                                 *)
(***************************************************************************)
EXTENDS Integers, Sequences, TLC

CONSTANTS
  Task,     \* tasks, each of which runs one program at most
  Page,     \* page numbers
  Value,    \* what a program may write into a page
  Zero,     \* the content of a page of zeros
  Image,    \* for each program, the content of its pages
  File      \* the contents of the pages of a file, in order

VARIABLES
  program,  \* for each task, its program, or NoProgram
  memory,   \* for each task, the content of each page it may use
  spoilt    \* the programs of which nothing is promised

spaceVars == <<program, memory, spoilt>>

NoProgram == "none"
Unknown   == <<>>

SpaceInit ==
  /\ program = [t \in Task |-> NoProgram]
  /\ memory = [t \in Task |-> Unknown]
  /\ spoilt = {}

Start(t, p) ==
  /\ program[t] = NoProgram
  /\ program' = [program EXCEPT ![t] = p]
  /\ memory' = [memory EXCEPT ![t] = IF p \in spoilt THEN Unknown ELSE Image[p]]
  /\ UNCHANGED spoilt

Stop(t) ==
  /\ program' = [program EXCEPT ![t] = NoProgram]
  /\ memory' = [memory EXCEPT ![t] = Unknown]
  /\ UNCHANGED spoilt

Write(t, a, v) ==
  /\ memory' = [memory EXCEPT ![t][a] = v]
  /\ UNCHANGED <<program, spoilt>>

\* New pages, none of which the program has.
Extend(t, first, contents) ==
  LET pages == first .. first + Len(contents) - 1
  IN  /\ program[t] \notin spoilt \cup {NoProgram}
      /\ pages \subseteq Page \ DOMAIN memory[t]
      /\ memory' = [memory EXCEPT ![t] = @ @@ [a \in pages |-> contents[a - first + 1]]]
      /\ UNCHANGED <<program, spoilt>>

Spoil(p) ==
  /\ spoilt' = spoilt \cup {p}
  /\ memory' = [t \in Task |-> IF program[t] = p THEN Unknown ELSE memory[t]]
  /\ UNCHANGED program

SpaceNext ==
  \E t \in Task :
    \/ \E p \in DOMAIN Image : Start(t, p)
    \/ Stop(t)
    \/ \E a \in DOMAIN memory[t] : \E v \in Value : Write(t, a, v)
    \/ \E first \in Page : Extend(t, first, <<Zero>>) \/ Extend(t, first, File)
    \/ Spoil(program[t])

SpaceSpec == SpaceInit /\ [][SpaceNext]_spaceVars
=============================================================================
