-------------------------------- MODULE Vfs ---------------------------------
(***************************************************************************)
(* kernel/fs.c: the RAM disk, an array of slots searched from slot 0.  A   *)
(* slot keeps at most 31 characters of a name (Trunc), while every search  *)
(* compares the whole name with strcmp.  A content is the sequence of the  *)
(* first size bytes of a slot's data; the bytes behind it are never read.  *)
(*                                                                         *)
(* The operations are given as what they return or leave in the array, for *)
(* the application handlers that call several of them in a row.            *)
(***************************************************************************)
EXTENDS Integers, Sequences

CONSTANTS MAX_FILES,      \* slots
          MAX_FILE_SIZE,  \* bytes of data in a slot
          Names,          \* the names applications use
          Trunc,          \* the name as a slot keeps it: its first 31 characters
          Byte,           \* values of a byte
          InitialFiles    \* what vfs_init creates, in order

ASSUME MaxFilesAssumption == MAX_FILES \in Nat \ {0}
ASSUME MaxFileSizeAssumption == MAX_FILE_SIZE \in Nat
ASSUME TruncAssumption ==
  /\ Trunc \in [Names -> Names]
  /\ \A n \in Names : Trunc[Trunc[n]] = Trunc[n]
ASSUME InitialFilesAssumption ==
  /\ InitialFiles \in Seq([name : Names, data : Seq(Byte)])
  /\ Len(InitialFiles) <= MAX_FILES
  /\ \A i, j \in 1 .. Len(InitialFiles) :
       InitialFiles[i].name = InitialFiles[j].name => i = j
  /\ \A i \in 1 .. Len(InitialFiles) :
       Trunc[InitialFiles[i].name] = InitialFiles[i].name

VARIABLE files

NULL == -1
Slots == 0 .. MAX_FILES - 1
Index == Slots \cup {NULL}
File == [used : BOOLEAN, name : Names, data : Seq(Byte)]

(* "if (len > MAX_FILE_SIZE) len = MAX_FILE_SIZE"                          *)
Clip(d) == IF Len(d) > MAX_FILE_SIZE THEN SubSeq(d, 1, MAX_FILE_SIZE) ELSE d

(* vfs_init: the names it creates differ and fit.                          *)
AnyName == CHOOSE n \in Names : TRUE
vfs_init ==
  files = [i \in Slots |->
    IF i < Len(InitialFiles)
    THEN [used |-> TRUE, name |-> InitialFiles[i + 1].name, data |-> Clip(InitialFiles[i + 1].data)]
    ELSE [used |-> FALSE, name |-> AnyName, data |-> <<>>]]
-----------------------------------------------------------------------------
Match(fs, name) == {i \in Slots : fs[i].used /\ fs[i].name = name}
Free(fs) == {i \in Slots : ~fs[i].used}

(* i is where a search from slot 0 for a slot of S ends.                   *)
First(S, i) ==
  \/ i \in S /\ \A j \in S : i <= j
  \/ i = NULL /\ S = {}

(* vfs_open(name) returns slot i, or NULL.                                 *)
vfs_open(fs, name, i) == First(Match(fs, name), i)

vfs_create_NoSearch(fs, name, i) ==
  IF i = NULL THEN fs
  ELSE [fs EXCEPT ![i] = [used |-> TRUE, name |-> Trunc[name], data |-> <<>>]]

(* The array after vfs_create(name), where i is the first free slot.       *)
vfs_create(fs, name, i) ==
  IF Match(fs, name) # {} \/ i = NULL THEN fs
  ELSE [fs EXCEPT ![i] = [used |-> TRUE, name |-> Trunc[name], data |-> <<>>]]

(* The array after vfs_write, where vfs_open returned i.                   *)
vfs_write(fs, i, d) == IF i = NULL THEN fs ELSE [fs EXCEPT ![i].data = Clip(d)]

(* The array after vfs_remove, where the search ended with i.              *)
vfs_remove(fs, i) == IF i = NULL THEN fs ELSE [fs EXCEPT ![i].used = FALSE]

(* vfs_get_by_index(i) finds a file.                                       *)
vfs_get_by_index(i) == i \in Slots /\ files[i].used
-----------------------------------------------------------------------------
(* Properties.                                                             *)

Sized(fs) == fs \in [Slots -> File] /\ \A i \in Slots : Len(fs[i].data) <= MAX_FILE_SIZE

(* A name no longer name is cut down to.                                   *)
Plain == {n \in Names : \A m \in Names : Trunc[m] = n => m = n}

(* "Check if already exists first": no two files have the same plain name, *)
(* whatever longer names were used besides.                                *)
Unique(fs) ==
  \A i, j \in Slots :
    fs[i].used /\ fs[j].used /\ fs[i].name = fs[j].name /\ fs[i].name \in Plain => i = j
PlainNamesUnique == Unique(files)

(* The array as a map from plain names to contents.                        *)
StoreOf(fs) == [n \in Plain |-> {fs[i].data : i \in Match(fs, n)}]
=============================================================================
