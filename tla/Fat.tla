-------------------------------- MODULE Fat --------------------------------
(***************************************************************************)
(* fat.cpp: the FAT file system on the volume image in memory.  The table   *)
(* `fat` chains clusters; a directory is a chain of clusters full of        *)
(* entries, kept here as the sequence of its entries from the first cluster *)
(* to the last; a descriptor remembers, for reading and for writing, how    *)
(* far it is and in which cluster.  Every call is one step: who calls is    *)
(* not told apart, and calls do not overlap.                                *)
(*                                                                          *)
(* Nothing of this code ever frees a cluster or deletes an entry; but the   *)
(* volume may come with entries that its host has deleted.                  *)
(***************************************************************************)
EXTENDS Integers, Sequences, FiniteSets, SequencesExt, FiniteSetsExt

CONSTANTS
  Fd,                \* file descriptors, each of them opened once
  LastCluster,       \* the clusters of the volume are 2..LastCluster
  BytesPerCluster,
  EntriesPerCluster,
  BaseLen, ExtLen,   \* 8 and 3 of the format's names
  Path,              \* paths, each of them a record of Paths
  Input,             \* what is written: sequences of bytes
  MaxPut,            \* what PutString takes: 1024 bytes, the size of a cluster
  MaxLen,            \* bytes read at once, at most
  LineLen,           \* the size of the buffer in which `cat` has a line
  PageBytes,         \* what a page fault in a mapped file loads
  DeletedEntry,      \* what the deleted entry of the volume may have been
  MaxSize,           \* bound: nothing is written behind a file of this size
  MaxRead            \* bound: nothing is read from this place on

VARIABLES
  fat,      \* the table: 0 is a free cluster, others the next one or an end
  dirs,     \* the entries of a directory, by its first cluster
  data,     \* the bytes in clusters
  desc,     \* file descriptors
  got,      \* what the last call has given back: bytes, or names
  stale,    \* a file was created in an entry that kept what a deleted one had
  misnamed, \* the entries whose names were cut when they were written
  halted    \* the kernel has taken a page fault of its own, and waits for ever

vars == <<fat, dirs, data, desc, got, stale, misnamed, halted>>

Clusters == 2..LastCluster
Root     == 2
EndOfChain == 268435455     \* kEndOfClusterchain, 0x0fffffff

ASSUME SizesAssumption ==
  /\ BytesPerCluster \in Nat \ {0} /\ EntriesPerCluster \in Nat \ {0}
  /\ LineLen \in Nat \ {0, 1} /\ PageBytes \in Nat \ {0}
  /\ MaxPut \in 1..BytesPerCluster

-----------------------------------------------------------------------------
(***************************************************************************)
(* Names.  The characters of a name come as typed, the dot among them; an   *)
(* entry has fields of fixed width, filled up with blanks.                  *)
(***************************************************************************)
Blank == " "
Width == BaseLen + ExtLen

LastDot(name) == LET dots == {i \in DOMAIN name : name[i] = "."}
                 IN IF dots = {} THEN Len(name) + 1 ELSE Max(dots)

Names == UNION {Range(path.elems) : path \in Path}

SetFileName(name) ==
  LET dot == LastDot(name)
      from(i) == IF i <= BaseLen THEN i ELSE dot + i - BaseLen
  IN  [i \in 1..Width |->
        IF \/ i <= BaseLen /\ i < dot
           \/ i > BaseLen /\ from(i) <= Len(name)
        THEN name[from(i)] ELSE Blank]

NameIsEqual_DotStays ==
  [name \in Names |->
    LET dot == LastDot(name)
    IN  [i \in 1..Width |->
          IF i < dot /\ i <= Len(name) THEN name[i]
          ELSE IF i - BaseLen + dot + 1 \in dot+1..Len(name) THEN name[i - BaseLen + dot + 1]
          ELSE Blank]]

\* What NameIsEqual compares an entry with: it goes on behind the base.
NameIsEqual ==
  [name \in Names |->
    LET after[i \in 0..Len(name)] ==
          IF i = 0 THEN [at |-> 0, field |-> [j \in 1..Width |-> Blank]]
          ELSE LET s == after[i - 1]
               IN  IF s.at >= Width THEN s
                   ELSE IF name[i] = "." THEN [s EXCEPT !.at = BaseLen]
                   ELSE [at |-> s.at + 1, field |-> [s.field EXCEPT ![s.at + 1] = name[i]]]
    IN  after[Len(name)].field]

\* A name that an entry has room for.  (Of what is behind the dot, the rest
\* is cut when it is written and when it is compared.)
Fits(name) ==
  /\ Cardinality({i \in DOMAIN name : name[i] = "."}) <= 1
  /\ LastDot(name) <= BaseLen + 1

-----------------------------------------------------------------------------
(* Directory entries, and how a path leads to one. *)

Entry(name, attr, first, size) ==
  [name |-> name, attr |-> attr, first |-> first, size |-> size]

Unused  == Entry(<<"00">>, "file", 0, 0)
Deleted == <<"e5">>      \* takes the name's place: all else stays
Cleared == [i \in 1..EntriesPerCluster |-> Unused]

NoEntry == [dir |-> 0, index |-> 0]
At(loc) == dirs[loc.dir][loc.index]

\* An entry that was never used ends the search.
FindIn(dir, name) ==
  LET hits == {k \in DOMAIN dirs[dir] :
                 /\ dirs[dir][k].name = NameIsEqual[name]
                 /\ \A j \in 1..k : dirs[dir][j].name # Unused.name}
  IN  IF hits = {} THEN NoEntry ELSE [dir |-> dir, index |-> Min(hits)]

(***************************************************************************)
(* A path: its elements, and whether a slash ends it.  FindFile follows it  *)
(* from the root; a file ends the search wherever it comes, and post_slash  *)
(* tells that the path went on.                                             *)
(***************************************************************************)
FindFile(path) ==
  LET last == Len(path.elems)
      look[dir \in DOMAIN dirs, i \in 1..last] ==
        LET loc == FindIn(dir, path.elems[i])
        IN  IF loc # NoEntry /\ i < last /\ At(loc).attr = "directory"
            THEN look[At(loc).first, i + 1]
            ELSE [loc |-> loc, post_slash |-> i < last \/ path.slash]
  IN  look[Root, 1]

-----------------------------------------------------------------------------
(* Allocation of clusters: the lowest free one goes to the end of a chain. *)

NextCluster(c) == IF fat[c] >= 268435448 THEN EndOfChain ELSE fat[c]

\* A cluster that is free leads to "cluster 0", memory before the first one;
\* its entry in the table, the medium's, ends a chain.
Mapped == Clusters \cup {0}

RECURSIVE ChainFrom(_)
ChainFrom(c) == IF c \in Mapped THEN <<c>> \o ChainFrom(NextCluster(c)) ELSE <<>>

\* Of a file without a cluster, first is 0.
Chain(first) == IF first = 0 THEN <<>> ELSE ChainFrom(first)

FreeClusters == {c \in Clusters : fat[c] = 0}

\* ExtendCluster does not look for the end of the table.
SpaceLeft == FreeClusters # {}

FirstFree == Min(FreeClusters)

ExtendCluster(c) == [fat EXCEPT ![Last(ChainFrom(c))] = FirstFree,
                                ![FirstFree] = EndOfChain]

AllocateClusterChain == [fat EXCEPT ![FirstFree] = EndOfChain]

-----------------------------------------------------------------------------
(* Creating and opening. *)

ClosedFile == [at |-> NoEntry, rdOff |-> 0, rdCluster |-> 0, rdClusterOff |-> 0,
               wrOff |-> 0, wrCluster |-> 0, wrClusterOff |-> 0, mapped |-> 0]

IsNew(fd)  == desc[fd].at = NoEntry
IsOpen(fd) == desc[fd].at.index # 0

OpenDescriptor(fd, loc) == desc' = [desc EXCEPT ![fd] = [ClosedFile EXCEPT !.at = loc]]

ParentDirectory(path) ==
  IF Len(path.elems) = 1 THEN Root
  ELSE LET parent == FindFile([elems |-> Front(path.elems), slash |-> FALSE]).loc
       IN  IF parent = NoEntry THEN 0 ELSE At(parent).first

\* CreateFile fails with kIsDirectory or kNoSuchEntry.
CanCreate(path) == ~path.slash /\ ParentDirectory(path) # 0

\* The entry to take; one behind the last when the directory is full.
AllocateEntry(dir) ==
  Min({k \in DOMAIN dirs[dir] : dirs[dir][k].name \in {Unused.name, Deleted}}
      \cup {Len(dirs[dir]) + 1})

\* The name and the size are set; attribute and clusters stay the entry's.
CreateFile(fd, path) ==
  LET dir  == ParentDirectory(path)
      k    == AllocateEntry(dir)
      full == k > Len(dirs[dir])
      held == IF full THEN [dirs EXCEPT ![dir] = @ \o Cleared] ELSE dirs
  IN  /\ full => SpaceLeft
      /\ fat' = IF full THEN ExtendCluster(dir) ELSE fat
      /\ dirs' = [held EXCEPT ![dir][k].name = SetFileName(Last(path.elems)),
                              ![dir][k].size = 0]
      /\ OpenDescriptor(fd, [dir |-> dir, index |-> k])
      /\ stale' = (stale \/ held[dir][k].first # 0 \/ held[dir][k].attr # "file")
      /\ misnamed' = IF Fits(Last(path.elems)) THEN misnamed
                     ELSE misnamed \cup {[dir |-> dir, index |-> k]}
      /\ UNCHANGED data

Refuse == UNCHANGED <<fat, dirs, data, desc, stale, misnamed>>

OpenFound(fd, loc) == OpenDescriptor(fd, loc) /\ UNCHANGED <<fat, dirs, data, stale, misnamed>>

OpenFile(fd, path, creat) ==
  LET found == FindFile(path)
  IN  /\ IsNew(fd)
      /\ got' = <<>>
      /\ IF found.loc = NoEntry
         THEN IF creat /\ CanCreate(path) THEN CreateFile(fd, path) ELSE Refuse
         ELSE IF At(found.loc).attr # "directory" /\ found.post_slash
         THEN Refuse ELSE OpenFound(fd, found.loc)

\* `command > file`
Redirect(fd, path) ==
  LET found == FindFile(path)
  IN  /\ IsNew(fd)
      /\ got' = <<>>
      /\ IF found.loc = NoEntry
         THEN IF CanCreate(path) THEN CreateFile(fd, path) ELSE Refuse
         ELSE IF At(found.loc).attr = "directory" \/ found.post_slash
         THEN Refuse ELSE OpenFound(fd, found.loc)

Close(fd) ==
  /\ IsOpen(fd)
  /\ desc' = [desc EXCEPT ![fd] = [ClosedFile EXCEPT !.at.dir = Root]]
  /\ got' = <<>>
  /\ UNCHANGED <<fat, dirs, data, stale, misnamed>>

-----------------------------------------------------------------------------
(* Reading and writing. *)

Opened(fd) == At(desc[fd].at)

ChainBytes(first) == FlattenSeq([i \in DOMAIN Chain(first) |-> data[Chain(first)[i]]])

\* Where one is after total bytes of the chain from the cluster first on.
ClusterAfter(first, total) ==
  IF total \div BytesPerCluster < Len(Chain(first))
  THEN Chain(first)[total \div BytesPerCluster + 1]
  ELSE IF first = 0 THEN 0 ELSE EndOfChain

\* min(len, file_size - rd_off_), without a sign: a place behind the end of
\* the file has more than len bytes before it.
ReadableAt(fd, place, len) ==
  IF place <= Opened(fd).size THEN Min({len, Opened(fd).size - place}) ELSE len

Readable(fd, len) == ReadableAt(fd, desc[fd].rdOff, len)

ReadFrom_Again(fd) == Opened(fd).first

ReadFrom(fd) == IF desc[fd].rdCluster = 0 THEN Opened(fd).first ELSE desc[fd].rdCluster

Read(fd, len) ==
  LET from == ReadFrom(fd)
      end  == desc[fd].rdClusterOff + Readable(fd, len)
  IN  /\ IsOpen(fd)
      /\ desc[fd].rdOff < MaxRead
      /\ end <= Len(ChainBytes(from)) \/ Readable(fd, len) = 0
      /\ got' = <<"bytes", SubSeq(ChainBytes(from), desc[fd].rdClusterOff + 1, end)>>
      /\ desc' = [desc EXCEPT ![fd].rdOff = @ + Readable(fd, len),
                              ![fd].rdCluster = ClusterAfter(from, end),
                              ![fd].rdClusterOff = end % BytesPerCluster]
      /\ UNCHANGED <<fat, dirs, data, stale, misnamed>>

\* A mapping has all pages of what is the file now.
Pages(size) == ((size + PageBytes - 1) \div PageBytes) * PageBytes

MapFile(fd) ==
  /\ IsOpen(fd)
  /\ desc' = [desc EXCEPT ![fd].mapped = Max({@, Pages(Opened(fd).size)})]
  /\ got' = <<>>
  /\ UNCHANGED <<fat, dirs, data, stale, misnamed>>

(***************************************************************************)
(* A page of a mapping, for a page fault in it, whatever fd has read.  The  *)
(* file may be shorter by then: that the page is in the mapping is all that *)
(* was looked at.                                                           *)
(***************************************************************************)
PageOf(fd, offset) == offset < desc[fd].mapped /\ offset % PageBytes = 0

LoadEnd(fd, offset) == offset + ReadableAt(fd, offset, PageBytes)

Load(fd, offset) ==
  /\ IsOpen(fd)
  /\ PageOf(fd, offset)
  /\ LoadEnd(fd, offset) <= Len(ChainBytes(Opened(fd).first))
  /\ got' = <<"bytes", SubSeq(ChainBytes(Opened(fd).first), offset + 1, LoadEnd(fd, offset))>>
  /\ UNCHANGED <<fat, dirs, data, desc, stale, misnamed>>

\* The chain ends before the bytes do: the cluster 0x0fffffff is not mapped.
BehindChain(fd) ==
  \/ \E len \in 1..MaxLen :
       /\ Readable(fd, len) > 0
       /\ desc[fd].rdClusterOff + Readable(fd, len) > Len(ChainBytes(ReadFrom(fd)))
  \/ \E offset \in 0..desc[fd].mapped - 1 :
       PageOf(fd, offset) /\ LoadEnd(fd, offset) > Len(ChainBytes(Opened(fd).first))

(***************************************************************************)
(* Write goes piece by piece, each as long as the cluster has room, but at  *)
(* most len: of a write that does not fit, the second piece is len again.   *)
(***************************************************************************)
Garbage == "?"

Written(room, bytes) ==
  IF room = 0 \/ Len(bytes) <= room THEN bytes
  ELSE bytes \o [i \in 1..room |-> Garbage]

\* total bytes into the clusters c, from off on, and into next behind it.
Stored(c, off, next, total) ==
  [x \in Mapped |->
     CASE x = c    -> [i \in 1..BytesPerCluster |->
                         IF i > off /\ i - off <= Len(total) THEN total[i - off] ELSE data[c][i]]
       [] x = next /\ x # c ->
                      [i \in 1..BytesPerCluster |->
                         IF i + BytesPerCluster - off <= Len(total)
                         THEN total[i + BytesPerCluster - off] ELSE data[next][i]]
       [] OTHER    -> data[x]]

\* 0 when the file has no cluster yet.
WriteFrom(fd) == IF desc[fd].wrCluster # 0 THEN desc[fd].wrCluster ELSE Opened(fd).first

MayWrite(fd) ==
  /\ IsOpen(fd)
  /\ Opened(fd).attr # "directory"     \* see the README
  /\ desc[fd].wrOff < MaxSize

\* A deleted entry of a long name has letters where a cluster should be.
NoSuchCluster(fd) == MayWrite(fd) /\ WriteFrom(fd) \notin Mapped

Write(fd, bytes) ==
  LET d     == desc[fd]
      empty == WriteFrom(fd) = 0
      c     == IF empty THEN FirstFree ELSE WriteFrom(fd)
      total == Written(BytesPerCluster - d.wrClusterOff, bytes)
      moves == d.wrClusterOff + Len(total) > BytesPerCluster
      extends == moves /\ NextCluster(c) = EndOfChain
      next  == IF ~moves THEN c ELSE IF extends THEN FirstFree ELSE NextCluster(c)
      off   == d.wrClusterOff + Len(total) - (IF moves THEN BytesPerCluster ELSE 0)
  IN  /\ MayWrite(fd) /\ WriteFrom(fd) \in Mapped
      /\ empty \/ extends => SpaceLeft
      /\ fat' = IF empty THEN AllocateClusterChain
                ELSE IF extends THEN ExtendCluster(c) ELSE fat
      /\ data' = Stored(c, d.wrClusterOff, next, total)
      /\ dirs' = [dirs EXCEPT ![d.at.dir][d.at.index].size = d.wrOff + Len(total),
                              ![d.at.dir][d.at.index].first = IF empty THEN c ELSE @]
      /\ desc' = [desc EXCEPT ![fd].wrOff = @ + Len(total),
                              ![fd].wrCluster = next, ![fd].wrClusterOff = off]
      /\ got' = <<>>
      /\ UNCHANGED <<stale, misnamed>>

\* A system call for any descriptor: it may not be open, and it takes 1024 bytes at most.
PutString(fd, bytes) ==
  IF ~IsOpen(fd) \/ Len(bytes) > MaxPut THEN Refuse /\ got' = <<>> ELSE Write(fd, bytes)

-----------------------------------------------------------------------------
(* Listing a directory: ListAllEntries with the names as FormatName has them. *)

Trimmed(field) == SubSeq(field, 1, Max({0} \cup {i \in DOMAIN field : field[i] # Blank}))

FormatName(name) ==
  LET base == Trimmed(SubSeq(name, 1, BaseLen))
      ext  == Trimmed(SubSeq(name, BaseLen + 1, Width))
  IN  IF ext = <<>> THEN base ELSE base \o <<".">> \o ext

ListAllEntries(dir) ==
  LET first  == Min({k \in DOMAIN dirs[dir] : dirs[dir][k].name = Unused.name} \cup {Len(dirs[dir]) + 1})
      IsListed(entry) == entry.name # Deleted /\ entry.attr # "longname"
      listed == SelectSeq(SubSeq(dirs[dir], 1, first - 1), IsListed)
  IN  got' = <<"names", [k \in DOMAIN listed |-> FormatName(listed[k].name)]>>

List(path) ==
  LET found == FindFile(path)
  IN  /\ IF path.elems = <<>> THEN ListAllEntries(Root)
         ELSE /\ found.loc # NoEntry
              /\ IF At(found.loc).attr = "directory" THEN ListAllEntries(At(found.loc).first)
                 ELSE /\ ~found.post_slash
                      /\ got' = <<"names", <<FormatName(At(found.loc).name)>>>>
      /\ UNCHANGED <<fat, dirs, data, desc, stale, misnamed>>

-----------------------------------------------------------------------------
(* Showing a file: `cat` reads it by a descriptor of its own, line by line. *)

Newline == "\n"

\* The bytes behind the first `from`, up to a delimiter and no more than fit.
ReadDelim(bytes, from) ==
  LET ends == {i \in (from + 1)..Len(bytes) : bytes[i] = Newline \/ i - from = LineLen - 1}
  IN  SubSeq(bytes, from + 1, Min(ends \cup {Len(bytes)}))

IsShown(path) ==
  LET found == FindFile(path)
  IN  path.elems # <<>> /\ found.loc # NoEntry /\ At(found.loc).attr = "file" /\ ~found.post_slash

\* Its chain has all of the file, or the reading of it walks off.
IsWhole(loc) == At(loc).size <= Len(ChainBytes(At(loc).first))

Contents(loc) == SubSeq(ChainBytes(At(loc).first), 1, At(loc).size)

Cat(path) ==
  LET bytes == Contents(FindFile(path).loc)
      shown[i \in 0..Len(bytes)] ==
        IF i = Len(bytes) THEN <<>>
        ELSE LET line == ReadDelim(bytes, i) IN line \o shown[i + Len(line)]
  IN  /\ IsShown(path) /\ IsWhole(FindFile(path).loc)
      /\ got' = <<"bytes", shown[0]>>
      /\ UNCHANGED <<fat, dirs, data, desc, stale, misnamed>>

-----------------------------------------------------------------------------
(***************************************************************************)
(* The volume as it comes: a root, one directory, one file of a cluster and *)
(* more, a deleted entry and the entry of a long name.  The host writes     *)
(* 0x0ffffff8 or 0x0fffffff as the end of a chain; it has freed the         *)
(* clusters of what it deleted, but the entry still names the first.        *)
(***************************************************************************)
Init ==
  /\ fat = [c \in 0..LastCluster |->
              CASE c = 5 -> 4 [] c = Root -> 268435448 [] c > 5 -> 0 [] OTHER -> EndOfChain]
  /\ \E deleted \in DeletedEntry :
       dirs = (Root :> <<Entry(SetFileName(<<"D">>), "directory", 3, 0),
                         Entry(SetFileName(<<"A">>), "file", 5, 3)>>)
              @@ (3 :> <<Entry(<<"LONG">>, "longname", 0, 0), deleted>>)
  /\ data = [c \in Mapped |-> [i \in 1..BytesPerCluster |-> "-"]]
  /\ desc = [fd \in Fd |-> ClosedFile]
  /\ got = <<>>
  /\ stale = FALSE /\ misnamed = {} /\ halted = FALSE

Call ==
  \E fd \in Fd :
    \/ \E path \in Path : OpenFile(fd, path, TRUE) \/ OpenFile(fd, path, FALSE)
    \/ \E path \in Path : Redirect(fd, path)
    \/ \E len \in 1..MaxLen : Read(fd, len)
    \/ MapFile(fd)
    \/ \E offset \in 0..desc[fd].mapped - 1 : Load(fd, offset)
    \/ \E bytes \in Input : PutString(fd, bytes)
    \/ Close(fd)

\* A page fault of the kernel's own: its handler waits for ever.
Fault ==
  /\ \/ \E fd \in Fd : IsOpen(fd) /\ (BehindChain(fd) \/ NoSuchCluster(fd))
     \/ \E path \in Path : IsShown(path) /\ ~IsWhole(FindFile(path).loc)
  /\ halted' = TRUE
  /\ UNCHANGED <<fat, dirs, data, desc, got, stale, misnamed>>

Next ==
  \/ ~halted /\ UNCHANGED halted /\ Call
  \/ ~halted /\ UNCHANGED halted /\ \E path \in Path : List(path) \/ Cat(path)
  \/ ~halted /\ Fault
  \/ halted /\ UNCHANGED vars

Spec == Init /\ [][Next]_vars

-----------------------------------------------------------------------------
(* What must hold of the volume. *)

InUse(dir) == {k \in DOMAIN dirs[dir] :
                 /\ dirs[dir][k].name \notin {Unused.name, Deleted}
                 /\ dirs[dir][k].attr \in {"file", "directory"}}

Files == {loc \in UNION {{[dir |-> dir, index |-> k] : k \in InUse(dir)} : dir \in DOMAIN dirs} :
            At(loc).attr = "file"}

Firsts == (DOMAIN dirs \cup {At(loc).first : loc \in Files}) \ {0}

(***************************************************************************)
(* The table and the directories agree after every sequence of creations    *)
(* and writes: chains end, share no cluster with each other, hold the bytes *)
(* of their file, no file begins in another's chain, and no cluster is      *)
(* taken without being in a chain.  CreateFile does not clear the clusters  *)
(* of the entry it takes: a file in a deleted one's place begins in a       *)
(* cluster that is free, or another's, and none of this is certain any more.*)
(***************************************************************************)
ChainsOK ==
  /\ \A first \in Firsts : IsInjective(Chain(first)) /\ NextCluster(Last(Chain(first))) = EndOfChain
  /\ \A f, g \in Firsts : f # g => Range(Chain(f)) \cap Range(Chain(g)) = {}
  /\ \A k, l \in Files : k # l /\ At(k).first = At(l).first => At(k).first = 0
  /\ \A dir \in DOMAIN dirs : Len(dirs[dir]) = Len(Chain(dir)) * EntriesPerCluster
  /\ \A loc \in Files : At(loc).size <= Len(Chain(At(loc).first)) * BytesPerCluster
  /\ UNION {Range(Chain(first)) : first \in Firsts} = {c \in Clusters : fat[c] # 0}

(***************************************************************************)
(* CreateFile is called when FindFile found nothing, and writes the name in *)
(* another form than FindFile compares it in: no two entries of a directory *)
(* have one name, so no file is hidden by another, unless one of them was   *)
(* created with a name that does not fit, which is cut, never found again   *)
(* and created as often as it is opened.                                    *)
(***************************************************************************)
OneEntryPerName ==
  \A dir \in DOMAIN dirs : \A k, l \in InUse(dir) :
    dirs[dir][k].name = dirs[dir][l].name =>
      k = l \/ \E m \in {k, l} : [dir |-> dir, index |-> m] \in misnamed

\* The volume is in order: both of the above.
VolumeOK == (stale \/ ChainsOK) /\ OneEntryPerName

(***************************************************************************)
(* On a volume that is not stale, the kernel takes a page fault of its own  *)
(* only when a descriptor had read, or mapped, to the end of a file, or     *)
(* further, that another one changed since.                                 *)
(***************************************************************************)
Astray == {fd \in Fd : /\ IsOpen(fd)
                       /\ \/ desc[fd].rdOff > Opened(fd).size
                          \/ desc[fd].rdCluster = EndOfChain}

-----------------------------------------------------------------------------
(***************************************************************************)
(* The volume implements the file system: files are the entries in use, a   *)
(* file's bytes what its chain holds up to its size, a name leads to the    *)
(* entry that FindFile finds, a descriptor is at its two offsets.           *)
(***************************************************************************)
FilePaths == {path.elems : path \in {p \in Path : ~p.slash /\ Fits(Last(p.elems))}}

\* What the names that do not fit are cut to.
CutNames == {SetFileName(name) : name \in {n \in Names : ~Fits(n)}}

\* The entry at a path, when it is a file's.
Located(elems) ==
  LET loc == FindFile([elems |-> elems, slash |-> FALSE]).loc
  IN  IF loc # NoEntry /\ At(loc).attr = "file" THEN loc ELSE NoEntry

FS == INSTANCE FileSystem WITH
  Path   <- FilePaths,
  CutPath <- {elems \in FilePaths : SetFileName(Last(elems)) \in CutNames},
  NoFile <- NoEntry,
  files  <- [loc \in Files |-> Contents(loc)],
  names  <- [elems \in FilePaths |-> Located(elems)],
  places <- [fd \in Fd |->
               IF IsOpen(fd) /\ Opened(fd).attr = "file"
               THEN [file |-> desc[fd].at, rd |-> desc[fd].rdOff, wr |-> desc[fd].wrOff,
                     mapped |-> desc[fd].mapped]
               ELSE [file |-> NoEntry, rd |-> 0, wr |-> 0, mapped |-> 0]],
  astray <- Astray,
  spoilt <- stale

(***************************************************************************)
(* Whatever is opened, created, written and read in whatever order by       *)
(* several descriptors of one file, every byte comes from where it was      *)
(* written: the chains, the two positions of a descriptor and the search    *)
(* for entries are invisible.                                               *)
(***************************************************************************)
IsFileSystem == FS!FSSpec

=============================================================================
