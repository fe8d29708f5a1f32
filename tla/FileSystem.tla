----------------------------- MODULE FileSystem -----------------------------
(***************************************************************************)
(* What the file system promises: a path leads to a file, which is a        *)
(* sequence of bytes; every descriptor reads it and writes it from the      *)
(* beginning on, each at a place of its own; a write cuts the file off      *)
(* behind itself.  Clusters, chains and directory entries are not seen.     *)
(*                                                                          *)
(* The promises are as weak as the code makes them.  A write may leave more *)
(* bytes than it was given.  A descriptor that is astray, as the file was   *)
(* cut off before it or its end was the end of the chain, may read          *)
(* anything, as may who has mapped a file that was cut off since.  A name   *)
(* that does not fit makes a new file each time, which may take the path of *)
(* the name it is cut to.  Nothing is promised any more once a file has     *)
(* taken a deleted one's place with all that it had.                        *)
(***************************************************************************)
EXTENDS Integers, Sequences, SequencesExt

CONSTANTS
  Path,      \* the paths of files, sequences of names, that fit
  CutPath,   \* those to which paths that do not fit are cut
  Fd,        \* file descriptors
  Input,     \* what is written: sequences of bytes
  PageBytes, \* files are mapped page by page
  NoFile     \* not a file

VARIABLES
  files,     \* for each file there is, its bytes
  names,     \* for each path, the file it leads to; NoFile when there is none
  places,    \* for each descriptor, its file and where it reads and writes
  got,       \* what the last call has given back
  astray,    \* the descriptors that may read anything
  misnamed,  \* the files made under a name that does not fit
  spoilt,    \* a deleted file's place was taken
  halted     \* the system has stopped

fsVars == <<files, names, places, got, astray, misnamed, spoilt, halted>>

Closed  == [file |-> NoFile, rd |-> 0, wr |-> 0, mapped |-> 0]

FSInit ==
  /\ \A file \in DOMAIN files : files[file] \in Seq(STRING)
  /\ names \in [Path -> DOMAIN files \cup {NoFile}]
  /\ \A p, q \in Path : names[p] = names[q] /\ names[p] # NoFile => p = q
  /\ places = [fd \in Fd |-> Closed]
  /\ got = <<>>
  /\ astray = {} /\ misnamed = {}
  /\ ~spoilt /\ ~halted

Content(fd) == files[places[fd].file]

\* What a call gives back: bytes of a file, or names in a directory.
Bytes(seq) == <<"bytes", seq>>
Listed(seq) == <<"names", seq>>

\* Opening of directories and what is refused leave everything as it is; a
\* directory reads as empty.
Refuse == got' \in {<<>>, Bytes(<<>>)} /\ UNCHANGED <<places, astray, files, names>>

OpenFound(fd, path) ==
  /\ got' = <<>>
  /\ places[fd] = Closed
  /\ names[path] # NoFile
  /\ places' = [places EXCEPT ![fd].file = names[path]]
  /\ UNCHANGED <<files, names, astray>>

\* A new file, and nothing in it.
Create(fd) ==
  /\ got' = <<>>
  /\ places[fd] = Closed
  /\ \E file \in DOMAIN files' \ DOMAIN files :
       /\ files' = [f \in DOMAIN files \cup {file} |-> IF f = file THEN <<>> ELSE files[f]]
       /\ places' = [places EXCEPT ![fd].file = file]
  /\ UNCHANGED astray

OpenNew(fd, path) ==
  /\ Create(fd)
  /\ names[path] = NoFile
  /\ names' = [names EXCEPT ![path] = places'[fd].file]
  /\ UNCHANGED misnamed

OpenCut(fd) ==
  /\ Create(fd)
  /\ misnamed' = misnamed \cup {places'[fd].file}
  /\ \/ names' = names
     \/ \E path \in CutPath : names' = [names EXCEPT ![path] = places'[fd].file]

Close(fd) ==
  /\ got' = <<>>
  /\ places[fd] # Closed
  /\ places' = [places EXCEPT ![fd] = Closed]
  /\ astray' = astray \ {fd}
  /\ UNCHANGED <<files, names>>

Least(a, b) == IF a < b THEN a ELSE b
Greatest(a, b) == IF a < b THEN b ELSE a

\* The bytes from a place on, len of them or what the file has.
From(bytes, place, len) == SubSeq(bytes, place + 1, Least(place + len, Len(bytes)))

Read(fd) ==
  /\ places[fd] # Closed
  /\ got' # <<>> /\ got'[1] = "bytes"
  /\ fd \notin astray =>
       \E len \in 0..Len(got'[2]) : got' = Bytes(From(Content(fd), places[fd].rd, len))
  /\ places' = [places EXCEPT ![fd].rd = @ + Len(got'[2])]
  /\ astray' \in {astray, astray \cup {fd}, astray \ {fd}}
  /\ fd \in astray' \ astray => places'[fd].rd = Len(Content(fd))
  /\ UNCHANGED <<files, names>>

\* All pages of the file are mapped; what was mapped stays.
MapFile(fd) ==
  /\ got' = <<>>
  /\ places[fd] # Closed
  /\ \E pages \in 0..Len(Content(fd)) :
       /\ pages * PageBytes \in Len(Content(fd))..Len(Content(fd)) + PageBytes - 1
       /\ places' = [places EXCEPT ![fd].mapped = Greatest(@, pages * PageBytes)]
  /\ UNCHANGED <<files, names, astray>>

PagesOf(fd) == {offset \in 0..places[fd].mapped - 1 : offset % PageBytes = 0}

\* A page that is mapped, wherever the descriptor is; of a file that was cut
\* off before the page, anything.
CutOff(fd) ==
  places[fd] # Closed /\ \E offset \in PagesOf(fd) : offset > Len(Content(fd))

Load(fd) ==
  /\ places[fd] # Closed
  /\ got' # <<>> /\ got'[1] = "bytes"
  /\ \/ \E offset \in PagesOf(fd) : got' = Bytes(From(Content(fd), offset, PageBytes))
     \/ CutOff(fd)
  /\ UNCHANGED <<places, astray, files, names>>

(***************************************************************************)
(* What was there before the place of writing stays, as far as the file had *)
(* it; then come the bytes.  Who has read to where the file ends or ended   *)
(* may be astray afterwards.                                                *)
(***************************************************************************)
Write(fd, bytes) ==
  LET file == places[fd].file
      wr   == places[fd].wr
      kept == Least(wr, Len(files[file]))
      end  == Len(files'[file])
  IN  /\ got' = <<>>
      /\ places[fd] # Closed
      /\ places' = [places EXCEPT ![fd].wr = end]
      /\ end >= wr + Len(bytes)
      /\ SubSeq(files'[file], 1, kept) = SubSeq(files[file], 1, kept)
      /\ SubSeq(files'[file], wr + 1, wr + Len(bytes)) = bytes
      /\ files' = [files EXCEPT ![file] = files'[file]]
      /\ \A other \in astray' \ astray : places[other].file = file /\ places[other].rd > end
      /\ UNCHANGED names

\* The names in a directory: every file of it once, if no cut name is among them.
List(dir) ==
  /\ got' # <<>> /\ got'[1] = "names"
  /\ \A path \in Path :
       Front(path) = dir =>
         LET found == {i \in DOMAIN got'[2] : got'[2][i] = path[Len(path)]}
         IN  IF names[path] = NoFile THEN found = {}
             ELSE \E i \in found : path \in CutPath \/ found = {i}
  /\ UNCHANGED <<places, astray, files, names>>

ListFile(path) ==
  /\ names[path] # NoFile
  /\ got' = Listed(<<path[Len(path)]>>)
  /\ UNCHANGED <<places, astray, files, names>>

\* All of a file, read line by line.
Show(path) ==
  /\ names[path] # NoFile
  /\ got' = Bytes(files[names[path]])
  /\ UNCHANGED <<places, astray, files, names>>

Stop ==
  /\ astray # {} \/ \E fd \in Fd : CutOff(fd)
  /\ halted'
  /\ UNCHANGED <<files, names, places, got, astray, misnamed, spoilt>>

\* A new file has taken a deleted one's place.
Spoil == got' = <<>> /\ spoilt' /\ ~halted' /\ \E fd \in Fd : places[fd] = Closed

FSNext ==
  \/ spoilt /\ spoilt'
  \/ /\ ~halted /\ UNCHANGED <<spoilt, halted>>
     /\ \/ \E fd \in Fd : OpenCut(fd) \/ \E path \in Path : OpenNew(fd, path)
        \/ /\ UNCHANGED misnamed
           /\ \/ Refuse
              \/ \E fd \in Fd :
                   \/ \E path \in Path : OpenFound(fd, path)
                   \/ Close(fd) \/ Read(fd) \/ MapFile(fd) \/ Load(fd)
                   \/ \E bytes \in Input : Write(fd, bytes)
              \/ \E path \in Path : List(Front(path)) \/ ListFile(path) \/ Show(path)
  \/ ~halted /\ Stop
  \/ ~halted /\ Spoil

FSSpec == FSInit /\ [][FSNext]_fsVars
=============================================================================
