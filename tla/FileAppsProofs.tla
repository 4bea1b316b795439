--------------------------- MODULE FileAppsProofs ---------------------------
(***************************************************************************)
(* Proofs about the RAM disk and its applications, for every number and    *)
(* size of slots, every set of names and every way names are cut down.     *)
(* The lemmas say what one vfs_ operation does to an array fs: it keeps    *)
(* the contents in size and the plain names unique, and changes the store  *)
(* for at most one name.                                                   *)
(***************************************************************************)
EXTENDS FileApps, SequenceTheorems, TLAPS

(* A content is cut down to the size of a slot.                            *)
LEMMA ClipType ==
  ASSUME NEW d \in Seq(Byte)
  PROVE  Clip(d) \in Seq(Byte) /\ Len(Clip(d)) <= MAX_FILE_SIZE
<1>1. CASE Len(d) > MAX_FILE_SIZE
  <2>1. Len(d) \in Nat
    BY LenProperties
  <2>2. SubSeq(d, 1, MAX_FILE_SIZE) \in Seq(Byte) /\ Len(SubSeq(d, 1, MAX_FILE_SIZE)) = MAX_FILE_SIZE
    BY <1>1, <2>1, MaxFileSizeAssumption, SubSeqProperties
  <2> QED
    BY <1>1, <2>2, MaxFileSizeAssumption DEF Clip
<1>2. CASE ~(Len(d) > MAX_FILE_SIZE)
  BY <1>2, LenProperties, MaxFileSizeAssumption DEF Clip
<1> QED
  BY <1>1, <1>2

(* The editor cuts what it loads down to its buffer.                       *)
LEMMA LoadedType ==
  ASSUME NEW d \in Seq(Byte)
  PROVE  Loaded(d) \in Seq(Byte) /\ Len(Loaded(d)) < YANO_BUF_SIZE
<1> DEFINE m == YANO_BUF_SIZE - 1
<1>1. m \in Nat /\ m < YANO_BUF_SIZE /\ Len(d) \in Nat
  BY YanoBufAssumption, LenProperties
<1>2. CASE Len(d) > m
  <2>1. SubSeq(d, 1, m) \in Seq(Byte) /\ Len(SubSeq(d, 1, m)) = m
    BY <1>1, <1>2, SubSeqProperties
  <2> QED
    BY <1>1, <1>2, <2>1 DEF Loaded
<1>3. CASE ~(Len(d) > m)
  BY <1>1, <1>3, YanoBufAssumption DEF Loaded
<1> QED
  BY <1>2, <1>3

LEMMA EmptyType == <<>> \in Seq(Byte) /\ Len(<<>>) = 0
BY EmptySeq

(* vfs_create keeps the sizes and the plain names unique.                  *)
LEMMA CreateKeeps ==
  ASSUME NEW fs, Sized(fs), Unique(fs), NEW name \in Names, NEW free \in Index, First(Free(fs), free)
  PROVE  Sized(vfs_create(fs, name, free)) /\ Unique(vfs_create(fs, name, free))
<1>1. CASE Match(fs, name) # {} \/ free = NULL
  BY <1>1 DEF vfs_create
<1>2. CASE ~(Match(fs, name) # {} \/ free = NULL)
  <2> DEFINE new == [used |-> TRUE, name |-> Trunc[name], data |-> <<>>]
             gs == [fs EXCEPT ![free] = new]
  <2>1. vfs_create(fs, name, free) = gs /\ free \in Slots /\ Trunc[name] \in Names
    BY <1>2, TruncAssumption DEF vfs_create, Index
  <2>2. new \in File /\ Len(new.data) <= MAX_FILE_SIZE
    BY <2>1, EmptyType, MaxFileSizeAssumption DEF File
  <2>3. Sized(gs)
    BY <2>1, <2>2 DEF Sized
  <2>4. ASSUME NEW j \in Slots, j # free, gs[j].used, gs[j].name = Trunc[name], Trunc[name] \in Plain
        PROVE  FALSE
    <3>1. fs[j].used /\ fs[j].name = Trunc[name]
      BY <2>4 DEF Sized
    <3>2. Trunc[name] = name
      BY <2>4 DEF Plain
    <3> QED
      BY <1>2, <3>1, <3>2 DEF Match
  <2>5. Unique(gs)
    <3> SUFFICES ASSUME NEW i \in Slots, NEW j \in Slots, gs[i].used, gs[j].used,
                        gs[i].name = gs[j].name, gs[i].name \in Plain
                 PROVE  i = j
      BY DEF Unique
    <3>1. CASE i # free /\ j # free
      BY <3>1 DEF Unique, Sized
    <3>2. CASE i = free /\ j # free
      <4>1. gs[i].name = Trunc[name]
        BY <2>1, <3>2 DEF Sized
      <4> QED
        BY <2>4, <3>2, <4>1
    <3>3. CASE i # free /\ j = free
      <4>1. gs[j].name = Trunc[name]
        BY <2>1, <3>3 DEF Sized
      <4> QED
        BY <2>4, <3>3, <4>1
    <3> QED
      BY <3>1, <3>2, <3>3
  <2> QED
    BY <2>1, <2>3, <2>5
<1> QED
  BY <1>1, <1>2

(* So do vfs_write and vfs_remove, which give no slot a new name.          *)
LEMMA WriteKeeps ==
  ASSUME NEW fs, Sized(fs), Unique(fs), NEW i \in Index, NEW d \in Seq(Byte)
  PROVE  Sized(vfs_write(fs, i, d)) /\ Unique(vfs_write(fs, i, d))
<1>1. CASE i = NULL
  BY <1>1 DEF vfs_write
<1>2. CASE i # NULL
  <2> DEFINE c == Clip(d)
             gs == [fs EXCEPT ![i].data = c]
  <2>1. c \in Seq(Byte) /\ Len(c) <= MAX_FILE_SIZE
    BY ClipType
  <2>2. vfs_write(fs, i, d) = gs /\ i \in Slots
    BY <1>2 DEF vfs_write, Index
  <2> HIDE DEF c
  <2>3. Sized(gs)
    BY <2>1, <2>2 DEF Sized, File
  <2>4. Unique(gs)
    BY <2>2 DEF Sized, File, Unique
  <2> QED
    BY <2>2, <2>3, <2>4
<1> QED
  BY <1>1, <1>2

LEMMA RemoveKeeps ==
  ASSUME NEW fs, Sized(fs), Unique(fs), NEW i \in Index
  PROVE  Sized(vfs_remove(fs, i)) /\ Unique(vfs_remove(fs, i))
<1>1. CASE i = NULL
  BY <1>1 DEF vfs_remove
<1>2. CASE i # NULL
  <2> DEFINE gs == [fs EXCEPT ![i].used = FALSE]
  <2>1. vfs_remove(fs, i) = gs /\ i \in Slots
    BY <1>2 DEF vfs_remove, Index
  <2>2. Sized(gs)
    BY <2>1 DEF Sized, File
  <2>3. Unique(gs)
    BY <2>1 DEF Sized, File, Unique
  <2> QED
    BY <2>1, <2>2, <2>3
<1> QED
  BY <1>1, <1>2
-----------------------------------------------------------------------------
(* Two arrays that agree on name n give it the same contents.              *)
LEMMA SameContents ==
  ASSUME NEW fs, NEW gs, NEW n \in Plain, Match(gs, n) = Match(fs, n),
         \A i \in Match(fs, n) : gs[i].data = fs[i].data
  PROVE  StoreOf(gs)[n] = StoreOf(fs)[n]
BY DEF StoreOf

(* "gs differs from fs at most in the content of name, which is cs there". *)
OnlyChange(fs, gs, name, cs) ==
  \/ StoreOf(gs) = StoreOf(fs)
  \/ name \in Plain /\ StoreOf(gs) = [StoreOf(fs) EXCEPT ![name] = cs]

(* To show it, look at the names one by one.                               *)
LEMMA OneChange ==
  ASSUME NEW fs, NEW gs, NEW name, NEW cs,
         \A n \in Plain \ {name} : StoreOf(gs)[n] = StoreOf(fs)[n],
         name \in Plain => StoreOf(gs)[name] \in {cs, StoreOf(fs)[name]}
  PROVE  OnlyChange(fs, gs, name, cs)
<1> DEFINE F == StoreOf(fs)
           G == StoreOf(gs)
<1>1. /\ DOMAIN F = Plain /\ F = [n \in Plain |-> F[n]]
      /\ DOMAIN G = Plain /\ G = [n \in Plain |-> G[n]]
  BY DEF StoreOf
<1> HIDE DEF F, G
<1>2. CASE name \in Plain /\ G[name] = cs
  <2>1. G = [F EXCEPT ![name] = cs]
    BY <1>1, <1>2 DEF F, G
  <2> QED
    BY <1>2, <2>1 DEF OnlyChange, F, G
<1>3. CASE name \notin Plain \/ G[name] = F[name]
  <2>1. \A n \in Plain : G[n] = F[n]
    BY <1>3 DEF F, G
  <2>2. G = F
    BY <1>1, <2>1
  <2> QED
    BY <2>2 DEF OnlyChange, F, G
<1> QED
  BY <1>2, <1>3 DEF F, G

(* vfs_create gives the name an empty file, or changes nothing.            *)
LEMMA CreateStore ==
  ASSUME NEW fs, Sized(fs), NEW name \in Names, NEW free \in Index, First(Free(fs), free)
  PROVE  OnlyChange(fs, vfs_create(fs, name, free), name, {<<>>})
<1>1. CASE Match(fs, name) # {} \/ free = NULL
  BY <1>1 DEF vfs_create, OnlyChange
<1>2. CASE ~(Match(fs, name) # {} \/ free = NULL)
  <2> DEFINE new == [used |-> TRUE, name |-> Trunc[name], data |-> <<>>]
             gs == [fs EXCEPT ![free] = new]
  <2>1. vfs_create(fs, name, free) = gs /\ free \in Slots
    BY <1>2 DEF vfs_create, Index
  <2>2. ~fs[free].used
    BY <1>2 DEF First, Free, Index
  <2>3. /\ gs[free] = new
        /\ \A j \in Slots : j # free => gs[j] = fs[j]
    BY <2>1 DEF Sized
  <2>4. ASSUME NEW n \in Plain, n # name PROVE StoreOf(gs)[n] = StoreOf(fs)[n]
    <3>1. Trunc[name] # n
      BY <2>4 DEF Plain
    <3>2. Match(gs, n) = Match(fs, n) /\ free \notin Match(fs, n)
      BY <2>2, <2>3, <3>1 DEF Match
    <3>3. \A i \in Match(fs, n) : gs[i].data = fs[i].data
      BY <2>3, <3>2 DEF Match
    <3> HIDE DEF gs
    <3> QED
      BY <3>2, <3>3, SameContents
  <2>5. ASSUME name \in Plain PROVE StoreOf(gs)[name] \in {{<<>>}, StoreOf(fs)[name]}
    <3>1. CASE Trunc[name] = name
      <4>1. Match(gs, name) = {free}
        BY <1>2, <2>1, <2>3, <3>1 DEF Match
      <4>2. StoreOf(gs)[name] = {gs[free].data}
        BY <2>5, <4>1 DEF StoreOf
      <4>3. gs[free].data = <<>>
        BY <2>3
      <4> HIDE DEF gs
      <4> QED
        BY <4>2, <4>3
    <3>2. CASE Trunc[name] # name
      <4>1. Match(gs, name) = Match(fs, name) /\ Match(fs, name) = {}
        BY <1>2, <2>1, <2>2, <2>3, <3>2 DEF Match
      <4> HIDE DEF gs
      <4> QED
        BY <2>5, <4>1, SameContents
    <3> QED
      BY <3>1, <3>2
  <2> HIDE DEF gs
  <2> QED
    BY <2>1, <2>4, <2>5, OneChange
<1> QED
  BY <1>1, <1>2

(* vfs_write gives the name it opened the written content.                 *)
LEMMA WriteStore ==
  ASSUME NEW fs, Sized(fs), Unique(fs), NEW name \in Names, NEW i \in Index,
         vfs_open(fs, name, i), NEW d \in Seq(Byte)
  PROVE  OnlyChange(fs, vfs_write(fs, i, d), name, {Clip(d)})
<1>1. CASE i = NULL
  BY <1>1 DEF vfs_write, OnlyChange
<1>2. CASE i # NULL
  <2> DEFINE c == Clip(d)
             gs == [fs EXCEPT ![i].data = c]
  <2>1. vfs_write(fs, i, d) = gs /\ i \in Match(fs, name) /\ i \in Slots
    BY <1>2 DEF vfs_write, vfs_open, First, Match
  <2>2. /\ gs[i].data = c /\ gs[i].used = fs[i].used /\ gs[i].name = fs[i].name
        /\ \A j \in Slots : j # i => gs[j] = fs[j]
    BY <2>1 DEF Sized, File
  <2> HIDE DEF c
  <2>3. \A n : Match(gs, n) = Match(fs, n)
    BY <2>1, <2>2 DEF Match
  <2>4. ASSUME NEW n \in Plain, n # name PROVE StoreOf(gs)[n] = StoreOf(fs)[n]
    <3>1. i \notin Match(fs, n)
      BY <2>1, <2>4 DEF Match
    <3>2. \A j \in Match(fs, n) : gs[j].data = fs[j].data
      BY <2>2, <3>1 DEF Match
    <3> HIDE DEF gs
    <3> QED
      BY <2>3, <3>2, SameContents
  <2>5. ASSUME name \in Plain PROVE StoreOf(gs)[name] = {c}
    <3>1. Match(fs, name) = {i}
      BY <2>1, <2>5 DEF Match, Unique
    <3>2. StoreOf(gs)[name] = {gs[i].data}
      BY <2>3, <2>5, <3>1 DEF StoreOf
    <3> QED
      BY <2>2, <3>2
  <2> HIDE DEF gs
  <2>6. OnlyChange(fs, gs, name, {c})
    BY <2>4, <2>5, OneChange
  <2> QED
    BY <2>1, <2>6 DEF c
<1> QED
  BY <1>1, <1>2

(* vfs_remove leaves the name without a file.                              *)
LEMMA RemoveStore ==
  ASSUME NEW fs, Sized(fs), Unique(fs), NEW name \in Names, NEW i \in Index, vfs_open(fs, name, i)
  PROVE  OnlyChange(fs, vfs_remove(fs, i), name, {})
<1>1. CASE i = NULL
  BY <1>1 DEF vfs_remove, OnlyChange
<1>2. CASE i # NULL
  <2> DEFINE gs == [fs EXCEPT ![i].used = FALSE]
  <2>1. vfs_remove(fs, i) = gs /\ i \in Match(fs, name) /\ i \in Slots
    BY <1>2 DEF vfs_remove, vfs_open, First, Match
  <2>2. /\ ~gs[i].used
        /\ \A j \in Slots : j # i => gs[j] = fs[j]
    BY <2>1 DEF Sized, File
  <2>3. ASSUME NEW n \in Plain, n # name PROVE StoreOf(gs)[n] = StoreOf(fs)[n]
    <3>1. Match(gs, n) = Match(fs, n) /\ i \notin Match(fs, n)
      BY <2>1, <2>2, <2>3 DEF Match
    <3>2. \A j \in Match(fs, n) : gs[j].data = fs[j].data
      BY <2>2, <3>1 DEF Match
    <3> HIDE DEF gs
    <3> QED
      BY <3>1, <3>2, SameContents
  <2>4. ASSUME name \in Plain PROVE StoreOf(gs)[name] = {}
    <3>1. Match(gs, name) = {}
      BY <2>1, <2>2, <2>4 DEF Match, Unique
    <3> QED
      BY <2>4, <3>1 DEF StoreOf
  <2> HIDE DEF gs
  <2> QED
    BY <2>1, <2>3, <2>4, OneChange
<1> QED
  BY <1>1, <1>2
-----------------------------------------------------------------------------
(* A create and a write of the same name are one change of that name.      *)
LEMMA ChangeTwice ==
  ASSUME NEW fs, NEW ms, NEW gs, NEW name, NEW x, NEW y,
         OnlyChange(fs, ms, name, {x}), OnlyChange(ms, gs, name, {y})
  PROVE  OnlyChange(fs, gs, name, {x}) \/ OnlyChange(fs, gs, name, {y})
<1> DEFINE F == StoreOf(fs)
           M == StoreOf(ms)
           G == StoreOf(gs)
<1>1. F = [n \in Plain |-> F[n]] /\ M = [n \in Plain |-> M[n]] /\ G = [n \in Plain |-> G[n]]
  BY DEF StoreOf
<1>2. /\ M = F \/ (name \in Plain /\ M = [F EXCEPT ![name] = {x}])
      /\ G = M \/ (name \in Plain /\ G = [M EXCEPT ![name] = {y}])
  BY DEF OnlyChange
<1> HIDE DEF F, M, G
<1>3. \/ G = F
      \/ name \in Plain /\ G = [F EXCEPT ![name] = {x}]
      \/ name \in Plain /\ G = [F EXCEPT ![name] = {y}]
  BY <1>1, <1>2
<1> QED
  BY <1>3 DEF OnlyChange, F, G

(* What Save does, whoever calls it.                                       *)
LEMMA SaveStep ==
  ASSUME Sized(files), Unique(files), NEW name \in Names, NEW d \in Seq(Byte), Save(name, d)
  PROVE  /\ Sized(files') /\ Unique(files')
         /\ \E z \in {<<>>, Clip(d)} : OnlyChange(files, files', name, {z})
<1>1. PICK free \in Index, i \in Index :
        /\ First(Free(files), free)
        /\ vfs_open(vfs_create(files, name, free), name, i)
        /\ files' = vfs_write(vfs_create(files, name, free), i, d)
  BY DEF Save
<1> DEFINE created == vfs_create(files, name, free)
<1>2. Sized(created) /\ Unique(created)
  BY <1>1, CreateKeeps
<1>3. OnlyChange(files, created, name, {<<>>})
  BY <1>1, CreateStore
<1>4. vfs_open(created, name, i) /\ files' = vfs_write(created, i, d)
  BY <1>1
<1> HIDE DEF created
<1>5. Sized(files') /\ Unique(files')
  BY <1>2, <1>4, WriteKeeps
<1>6. OnlyChange(created, files', name, {Clip(d)})
  BY <1>2, <1>4, WriteStore
<1> DEFINE e == <<>>
           c == Clip(d)
<1>7. OnlyChange(files, created, name, {e}) /\ OnlyChange(created, files', name, {c})
  BY <1>3, <1>6
<1> HIDE DEF e, c
<1>8. OnlyChange(files, files', name, {e}) \/ OnlyChange(files, files', name, {c})
  BY <1>7, ChangeTwice
<1> QED
  BY <1>5, <1>8 DEF e, c

(* What launching yano with a name does.                                   *)
LEMMA LaunchStep ==
  ASSUME TypeOK, Unique(files), NEW name \in Names, yano_launch(name)
  PROVE  TypeOK' /\ Unique(files') /\ OnlyChange(files, files', Trunc[name], {<<>>})
<1>1. Trunc[name] \in Names
  BY TruncAssumption
<1>2. PICK free \in Index, i \in Index :
        /\ First(Free(files), free)
        /\ vfs_open(files, Trunc[name], i)
        /\ files' = IF i = NULL THEN vfs_create(files, Trunc[name], free) ELSE files
        /\ yano_buf' = IF i = NULL THEN <<>> ELSE Loaded(files[i].data)
  BY DEF yano_launch
<1>3. Sized(files') /\ Unique(files')
  BY <1>1, <1>2, CreateKeeps DEF TypeOK
<1>4. OnlyChange(files, files', Trunc[name], {<<>>})
  <2>1. CASE i = NULL
    BY <1>1, <1>2, <2>1, CreateStore DEF TypeOK
  <2>2. CASE i # NULL
    BY <1>2, <2>2 DEF OnlyChange
  <2> QED
    BY <2>1, <2>2
<1>5. yano_buf' \in Seq(Byte) /\ Len(yano_buf') < YANO_BUF_SIZE
  <2>1. CASE i = NULL
    BY <1>2, <2>1, EmptyType, YanoBufAssumption
  <2>2. CASE i # NULL
    <3>1. files[i].data \in Seq(Byte)
      BY <2>2 DEF TypeOK, Sized, File, Index
    <3> QED
      BY <1>2, <2>2, <3>1, LoadedType
  <2> QED
    BY <2>1, <2>2
<1>6. current_filename' \in Names /\ yano_open' \in BOOLEAN /\ current_image' \in Names
  BY <1>1 DEF yano_launch, TypeOK
<1> QED
  BY <1>3, <1>4, <1>5, <1>6 DEF TypeOK

(* The inductive invariant.                                                *)
Inv == TypeOK /\ PlainNamesUnique

LEMMA InitInv == Init => Inv
<1> SUFFICES ASSUME Init PROVE Inv
  OBVIOUS
<1>1. ASSUME NEW i \in Slots, i < Len(InitialFiles)
      PROVE  /\ i + 1 \in 1 .. Len(InitialFiles)
             /\ InitialFiles[i + 1] \in [name : Names, data : Seq(Byte)]
  <2>1. Len(InitialFiles) \in Nat
    BY InitialFilesAssumption, LenProperties
  <2>2. i + 1 \in 1 .. Len(InitialFiles)
    BY <1>1, <2>1, MaxFilesAssumption DEF Slots
  <2> QED
    BY <2>2, InitialFilesAssumption, ElementOfSeq
<1>2. AnyName \in Names
  BY NewTxtAssumption DEF AnyName
<1>3. ASSUME NEW i \in Slots
      PROVE  /\ files[i] \in File /\ Len(files[i].data) <= MAX_FILE_SIZE
             /\ files[i].used => i < Len(InitialFiles) /\ files[i].name = InitialFiles[i + 1].name
  <2>1. CASE i < Len(InitialFiles)
    <3>1. files[i] = [used |-> TRUE, name |-> InitialFiles[i + 1].name,
                      data |-> Clip(InitialFiles[i + 1].data)]
      BY <2>1 DEF Init, vfs_init
    <3>2. InitialFiles[i + 1].name \in Names /\ InitialFiles[i + 1].data \in Seq(Byte)
      BY <1>1, <2>1
    <3>3. /\ Clip(InitialFiles[i + 1].data) \in Seq(Byte)
          /\ Len(Clip(InitialFiles[i + 1].data)) <= MAX_FILE_SIZE
      BY <3>2, ClipType
    <3> QED
      BY <2>1, <3>1, <3>2, <3>3 DEF File
  <2>2. CASE ~(i < Len(InitialFiles))
    <3>1. files[i] = [used |-> FALSE, name |-> AnyName, data |-> <<>>]
      BY <2>2 DEF Init, vfs_init
    <3> QED
      BY <1>2, <3>1, EmptyType, MaxFileSizeAssumption DEF File
  <2> QED
    BY <2>1, <2>2
<1>4. files \in [Slots -> File]
  <2>1. files = [i \in Slots |-> files[i]]
    BY DEF Init, vfs_init
  <2> QED
    BY <1>3, <2>1
<1>5. PlainNamesUnique
  <2> SUFFICES ASSUME NEW i \in Slots, NEW j \in Slots, files[i].used, files[j].used,
                      files[i].name = files[j].name
               PROVE  i = j
    BY DEF PlainNamesUnique, Unique
  <2>1. i + 1 = j + 1
    BY <1>1, <1>3, InitialFilesAssumption
  <2> QED
    BY <2>1, MaxFilesAssumption DEF Slots
<1>6. yano_buf \in Seq(Byte) /\ Len(yano_buf) < YANO_BUF_SIZE
  BY EmptyType, YanoBufAssumption DEF Init
<1> QED
  BY <1>3, <1>4, <1>5, <1>6, NewTxtAssumption DEF Inv, TypeOK, Sized, Init

LEMMA NextInv == Inv /\ [Next]_vars => Inv'
<1> SUFFICES ASSUME Inv, [Next]_vars PROVE Inv'
  OBVIOUS
<1>0. TypeOK /\ Sized(files) /\ Unique(files)
  BY DEF Inv, TypeOK, PlainNamesUnique
<1>a. ASSUME Sized(files'), Unique(files'), UNCHANGED <<editor, current_image>> PROVE Inv'
  BY <1>0, <1>a DEF Inv, TypeOK, PlainNamesUnique, editor
<1>b. ASSUME UNCHANGED files, yano_buf' \in Seq(Byte), Len(yano_buf') < YANO_BUF_SIZE,
             current_filename' \in Names, yano_open' \in BOOLEAN, UNCHANGED current_image
      PROVE  Inv'
  BY <1>0, <1>b DEF Inv, TypeOK, PlainNamesUnique
<1>1. ASSUME NEW n \in Names, touch(n) PROVE Inv'
  <2>1. Sized(files') /\ Unique(files')
    BY <1>0, <1>1, CreateKeeps DEF touch
  <2> QED
    BY <1>1, <1>a, <2>1 DEF touch
<1>2. ASSUME NEW n \in Names, rm(n) PROVE Inv'
  <2>1. Sized(files') /\ Unique(files')
    BY <1>0, <1>2, RemoveKeeps DEF rm
  <2> QED
    BY <1>2, <1>a, <2>1 DEF rm
<1>3. ASSUME NEW n \in Names, NEW text \in Texts, write(n, text) PROVE Inv'
  <2>1. Sized(files') /\ Unique(files')
    BY <1>0, <1>3, SaveStep, TextsAssumption DEF write
  <2> QED
    BY <1>3, <1>a, <2>1 DEF write
<1>4. ASSUME NEW src \in Names, NEW dst \in Names, cp(src, dst) PROVE Inv'
  <2>1. PICK s \in Slots : Save(dst, files[s].data)
    BY <1>4 DEF cp
  <2>2. files[s].data \in Seq(Byte)
    BY <1>0 DEF Sized, File
  <2>3. Sized(files') /\ Unique(files')
    BY <1>0, <2>1, <2>2, SaveStep
  <2> QED
    BY <1>4, <1>a, <2>3 DEF cp
<1>5. ASSUME NEW n \in Names, yano_launch(n) PROVE Inv'
  BY <1>0, <1>5, LaunchStep DEF Inv, PlainNamesUnique
<1>6. CASE yano_launch_new
  BY <1>0, <1>6, <1>b, WelcomeAssumption, NewTxtAssumption DEF yano_launch_new, TypeOK
<1>7. CASE yano_save
  <2>1. Sized(files') /\ Unique(files')
    BY <1>0, <1>7, SaveStep DEF yano_save, TypeOK
  <2> QED
    BY <1>7, <1>a, <2>1 DEF yano_save
<1>8. ASSUME NEW c \in Typed, yano_type(c) PROVE Inv'
  <2>1. Len(yano_buf) \in Nat /\ c \in Byte
    BY <1>0, TextsAssumption, LenProperties DEF TypeOK
  <2>2. Append(yano_buf, c) \in Seq(Byte) /\ Len(Append(yano_buf, c)) = Len(yano_buf) + 1
    BY <1>0, <2>1, AppendProperties DEF TypeOK
  <2> QED
    BY <1>0, <1>8, <1>b, <2>1, <2>2, YanoBufAssumption DEF yano_type, TypeOK
<1>9. CASE yano_backspace
  <2>1. Len(yano_buf) \in Nat
    BY <1>0, LenProperties DEF TypeOK
  <2>2. /\ SubSeq(yano_buf, 1, Len(yano_buf) - 1) \in Seq(Byte)
        /\ Len(SubSeq(yano_buf, 1, Len(yano_buf) - 1)) = Len(yano_buf) - 1
    <3> DEFINE k == Len(yano_buf) - 1
    <3>1. k \in Nat /\ k <= Len(yano_buf) /\ yano_buf \in Seq(Byte)
      BY <1>0, <1>9, <2>1 DEF TypeOK, yano_backspace
    <3> HIDE DEF k
    <3>2. SubSeq(yano_buf, 1, k) \in Seq(Byte) /\ Len(SubSeq(yano_buf, 1, k)) = k
      BY <2>1, <3>1, SubSeqProperties
    <3> QED
      BY <3>2 DEF k
  <2> QED
    BY <1>0, <1>9, <1>b, <2>1, <2>2, YanoBufAssumption DEF yano_backspace, TypeOK
<1>10. CASE yano_exit
  BY <1>0, <1>10, <1>b DEF yano_exit, TypeOK
<1>11. ASSUME NEW row \in Slots, explorer_click(row) PROVE Inv'
  <2>1. files[row].name \in Names
    BY <1>0 DEF Sized, File
  <2>2. CASE files[row].name \in Images
    BY <1>0, <1>11, <2>1, <2>2 DEF explorer_click, Inv, TypeOK, PlainNamesUnique, editor
  <2>3. CASE files[row].name \notin Images
    BY <1>5, <1>11, <2>1, <2>3 DEF explorer_click
  <2> QED
    BY <2>2, <2>3
<1>12. CASE UNCHANGED vars
  BY <1>0, <1>12 DEF vars, editor, Inv, TypeOK, PlainNamesUnique
<1> QED
  BY <1>1, <1>2, <1>3, <1>4, <1>5, <1>6, <1>7, <1>8, <1>9, <1>10, <1>11, <1>12
     DEF Next, Terminal, Yano

(* No content outgrows its slot and the editor's text its buffer.          *)
THEOREM TypeCorrect == Spec => []TypeOK
<1>1. Inv => TypeOK
  BY DEF Inv
<1> QED
  BY InitInv, NextInv, <1>1, PTL DEF Spec

(* No sequence of commands, saves and clicks makes two files of one plain  *)
(* name.                                                                   *)
THEOREM NamesStayUnique == Spec => []PlainNamesUnique
<1>1. Inv => PlainNamesUnique
  BY DEF Inv
<1> QED
  BY InitInv, NextInv, <1>1, PTL DEF Spec
-----------------------------------------------------------------------------
(* A change of one name is a step of the abstract store, or none.          *)
LEMMA PutStep ==
  ASSUME NEW name, NEW x \in Seq(Byte), OnlyChange(files, files', name, {x})
  PROVE  Disk!Next \/ UNCHANGED StoreOf(files)
<1>1. CASE StoreOf(files') = StoreOf(files)
  BY <1>1
<1>2. CASE name \in Plain /\ StoreOf(files') = [StoreOf(files) EXCEPT ![name] = {x}]
  <2>1. DOMAIN StoreOf(files) = Plain
    BY DEF StoreOf
  <2>2. StoreOf(files')[name] = {x}
    BY <1>2, <2>1
  <2>3. Disk!Put(name)
    BY <1>2, <2>2 DEF Disk!Put
  <2> QED
    BY <1>2, <2>3 DEF Disk!Next
<1> QED
  BY <1>1, <1>2 DEF OnlyChange

LEMMA RemoveStep ==
  ASSUME NEW name, OnlyChange(files, files', name, {})
  PROVE  Disk!Next \/ UNCHANGED StoreOf(files)
<1>1. CASE StoreOf(files') = StoreOf(files)
  BY <1>1
<1>2. CASE name \in Plain /\ StoreOf(files') = [StoreOf(files) EXCEPT ![name] = {}]
  <2>1. CASE StoreOf(files)[name] # {}
    <3>1. Disk!Remove(name)
      BY <1>2, <2>1 DEF Disk!Remove
    <3> QED
      BY <1>2, <3>1 DEF Disk!Next
  <2>2. CASE StoreOf(files)[name] = {}
    <3>1. StoreOf(files) = [n \in Plain |-> StoreOf(files)[n]]
      BY DEF StoreOf
    <3>2. StoreOf(files') = StoreOf(files)
      BY <1>2, <2>2, <3>1
    <3> QED
      BY <3>2
  <2> QED
    BY <2>1, <2>2
<1> QED
  BY <1>1, <1>2 DEF OnlyChange

LEMMA InitStore == Inv => Disk!Init
<1> SUFFICES ASSUME Inv PROVE Disk!Init
  OBVIOUS
<1>1. Sized(files) /\ Unique(files)
  BY DEF Inv, TypeOK, PlainNamesUnique
<1>2. ASSUME NEW n \in Plain
      PROVE  \/ StoreOf(files)[n] = {}
             \/ \E d \in StoreOf(files)[n] : d \in Seq(Byte) /\ StoreOf(files)[n] = {d}
  <2>1. CASE Match(files, n) = {}
    BY <2>1 DEF StoreOf
  <2>2. CASE Match(files, n) # {}
    <3>1. PICK i : i \in Match(files, n)
      BY <2>2
    <3>2. Match(files, n) = {i} /\ i \in Slots
      BY <1>1, <3>1 DEF Match, Unique
    <3>3. StoreOf(files)[n] = {files[i].data} /\ files[i].data \in Seq(Byte)
      BY <1>1, <3>2 DEF StoreOf, Sized, File
    <3> QED
      BY <3>3
  <2> QED
    BY <2>1, <2>2
<1>3. DOMAIN StoreOf(files) = Plain
  BY DEF StoreOf
<1> QED
  BY <1>2, <1>3 DEF Disk!Init

LEMMA NextStore == Inv /\ [Next]_vars => [Disk!Next]_(StoreOf(files))
<1> SUFFICES ASSUME Inv, [Next]_vars PROVE Disk!Next \/ UNCHANGED StoreOf(files)
  OBVIOUS
<1>0. TypeOK /\ Sized(files) /\ Unique(files)
  BY DEF Inv, TypeOK, PlainNamesUnique
<1>s. ASSUME NEW name \in Names, NEW d \in Seq(Byte), Save(name, d)
      PROVE  Disk!Next \/ UNCHANGED StoreOf(files)
  <2>1. Clip(d) \in Seq(Byte) /\ <<>> \in Seq(Byte)
    BY ClipType, EmptyType
  <2>2. PICK z \in {<<>>, Clip(d)} : OnlyChange(files, files', name, {z})
    BY <1>0, <1>s, SaveStep
  <2> QED
    BY <2>1, <2>2, PutStep
<1>1. ASSUME NEW n \in Names, touch(n) PROVE Disk!Next \/ UNCHANGED StoreOf(files)
  <2>1. PICK free \in Index : First(Free(files), free) /\ files' = vfs_create(files, n, free)
    BY <1>1 DEF touch
  <2>2. OnlyChange(files, files', n, {<<>>})
    BY <1>0, <2>1, CreateStore
  <2> QED
    BY <2>2, EmptyType, PutStep
<1>2. ASSUME NEW n \in Names, rm(n) PROVE Disk!Next \/ UNCHANGED StoreOf(files)
  <2>1. PICK i \in Index : vfs_open(files, n, i) /\ files' = vfs_remove(files, i)
    BY <1>2 DEF rm
  <2>2. OnlyChange(files, files', n, {})
    BY <1>0, <2>1, RemoveStore
  <2> QED
    BY <2>2, RemoveStep
<1>3. ASSUME NEW n \in Names, NEW text \in Texts, write(n, text)
      PROVE  Disk!Next \/ UNCHANGED StoreOf(files)
  BY <1>3, <1>s, TextsAssumption DEF write
<1>4. ASSUME NEW src \in Names, NEW dst \in Names, cp(src, dst)
      PROVE  Disk!Next \/ UNCHANGED StoreOf(files)
  <2>1. PICK i \in Slots : Save(dst, files[i].data)
    BY <1>4 DEF cp
  <2>2. files[i].data \in Seq(Byte)
    BY <1>0 DEF Sized, File
  <2> QED
    BY <1>s, <2>1, <2>2
<1>5. ASSUME NEW n \in Names, yano_launch(n) PROVE Disk!Next \/ UNCHANGED StoreOf(files)
  <2>1. OnlyChange(files, files', Trunc[n], {<<>>})
    BY <1>0, <1>5, LaunchStep
  <2> QED
    BY <2>1, EmptyType, PutStep
<1>6. CASE yano_save
  BY <1>0, <1>6, <1>s DEF yano_save, TypeOK
<1>7. ASSUME NEW row \in Slots, explorer_click(row) PROVE Disk!Next \/ UNCHANGED StoreOf(files)
  <2>1. files[row].name \in Names
    BY <1>0 DEF Sized, File
  <2> QED
    BY <1>5, <1>7, <2>1 DEF explorer_click
<1>8. CASE UNCHANGED files
  BY <1>8
<1> QED
  BY <1>1, <1>2, <1>3, <1>4, <1>5, <1>6, <1>7, <1>8
     DEF Next, Terminal, Yano, yano_launch_new, yano_type, yano_backspace, yano_exit, vars

(* For the plain names the RAM disk implements the abstract store.         *)
THEOREM DiskImplementsStore == Spec => DiskIsStore
BY InitInv, NextInv, InitStore, NextStore, PTL DEF Spec, DiskIsStore, Disk!Spec
-----------------------------------------------------------------------------
(* The editor's file name always fits into a slot.                         *)
NameFits == Trunc[current_filename] = current_filename

LEMMA NameFitsInv == Spec => []NameFits
<1>1. Init => NameFits
  BY NewTxtAssumption DEF Init, NameFits
<1>2. TypeOK /\ NameFits /\ [Next]_vars => NameFits'
  <2> SUFFICES ASSUME TypeOK, NameFits, [Next]_vars PROVE NameFits'
    OBVIOUS
  <2>1. ASSUME NEW n \in Names, yano_launch(n) PROVE NameFits'
    BY <2>1, TruncAssumption DEF yano_launch, NameFits
  <2>2. ASSUME NEW row \in Slots, explorer_click(row) PROVE NameFits'
    <3>1. files[row].name \in Names
      BY DEF TypeOK, Sized, File
    <3> QED
      BY <2>1, <2>2, <3>1 DEF explorer_click, editor, NameFits
  <2>3. CASE yano_launch_new
    BY <2>3, NewTxtAssumption DEF yano_launch_new, NameFits
  <2>4. CASE UNCHANGED current_filename
    BY <2>4 DEF NameFits
  <2> QED
    BY <2>1, <2>2, <2>3, <2>4
       DEF Next, Terminal, Yano, touch, rm, write, cp, yano_save, yano_type, yano_backspace,
           yano_exit, editor, vars
<1> QED
  BY <1>1, <1>2, TypeCorrect, PTL DEF Spec

(* vfs_write changes no name: a search ends where it ended before.         *)
LEMMA WriteMatch ==
  ASSUME NEW fs, Sized(fs), NEW i \in Slots, NEW d \in Seq(Byte), NEW n
  PROVE  /\ Match(vfs_write(fs, i, d), n) = Match(fs, n)
         /\ vfs_write(fs, i, d)[i].data = Clip(d)
<1> DEFINE c == Clip(d)
           gs == [fs EXCEPT ![i].data = c]
<1>1. vfs_write(fs, i, d) = gs
  BY DEF vfs_write, NULL, Slots
<1> HIDE DEF c
<1>2. gs[i].data = c /\ \A j \in Slots : gs[j].used = fs[j].used /\ gs[j].name = fs[j].name
  BY DEF Sized, File
<1>3. Match(gs, n) = Match(fs, n)
  BY <1>2 DEF Match
<1> QED
  BY <1>1, <1>2, <1>3 DEF c

(* What yano saves can be read back, unless the disk is full.              *)
THEOREM SavesAreReadable == Spec => SavedIsReadable
<1> DEFINE Readable ==
      \/ Free(files) = {} /\ Match(files, current_filename) = {}
      \/ \E i \in Slots : /\ First(Match(files', current_filename), i)
                          /\ files'[i].data = Clip(yano_buf)
<1>1. TypeOK /\ PlainNamesUnique /\ NameFits /\ [Next]_vars => [yano_save => Readable]_vars
  <2> SUFFICES ASSUME TypeOK, PlainNamesUnique, NameFits, yano_save,
                      ~(Free(files) = {} /\ Match(files, current_filename) = {})
               PROVE  \E i \in Slots : /\ First(Match(files', current_filename), i)
                                       /\ files'[i].data = Clip(yano_buf)
    OBVIOUS
  <2> DEFINE cf == current_filename
  <2>1. cf \in Names /\ Sized(files) /\ Unique(files) /\ yano_buf \in Seq(Byte)
    BY DEF TypeOK, PlainNamesUnique
  <2>2. PICK free \in Index, i \in Index :
          /\ First(Free(files), free)
          /\ vfs_open(vfs_create(files, cf, free), cf, i)
          /\ files' = vfs_write(vfs_create(files, cf, free), i, yano_buf)
    BY DEF yano_save, Save
  <2> DEFINE created == vfs_create(files, cf, free)
  <2>3. Sized(created)
    BY <2>1, <2>2, CreateKeeps
  <2>4. Match(created, cf) # {}
    <3>1. CASE Match(files, cf) # {}
      BY <3>1 DEF vfs_create
    <3>2. CASE Match(files, cf) = {}
      <4>1. free \in Free(files) /\ free # NULL /\ free \in Slots
        BY <2>2, <3>2 DEF First, Free, Slots, NULL
      <4>2. created = [files EXCEPT ![free] = [used |-> TRUE, name |-> Trunc[cf], data |-> <<>>]]
        BY <3>2, <4>1 DEF vfs_create
      <4>3. created[free].used /\ created[free].name = cf
        BY <2>1, <4>1, <4>2 DEF Sized, NameFits
      <4> QED
        BY <4>1, <4>3 DEF Match
    <3> QED
      BY <3>1, <3>2
  <2>5. vfs_open(created, cf, i) /\ files' = vfs_write(created, i, yano_buf)
    BY <2>2
  <2> HIDE DEF created
  <2>6. i \in Slots /\ First(Match(created, cf), i)
    BY <2>4, <2>5 DEF vfs_open, First, Match
  <2>7. Match(files', cf) = Match(created, cf) /\ files'[i].data = Clip(yano_buf)
    BY <2>1, <2>3, <2>5, <2>6, WriteMatch
  <2> QED
    BY <2>6, <2>7
<1> QED
  BY <1>1, TypeCorrect, NamesStayUnique, NameFitsInv, PTL DEF Spec, SavedIsReadable
=============================================================================
