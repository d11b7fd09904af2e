----------------------------- MODULE VfsProofs -----------------------------
(***************************************************************************)
(* Proofs about Vfs, for every number of descriptors, every heap and every *)
(* volume: a descriptor keeps its own file through any sequence of calls,  *)
(* only a failed fopen loses memory, and the two levels of descriptors     *)
(* implement FileTable.                                                    *)
(***************************************************************************)
EXTENDS Vfs, TLAPS

FileDescriptors == [index : Fds, fs_file_descriptor : Segments]

(* The three contents of a segment are told apart by what they are.        *)
LEMMA ContentsDiffer ==
  /\ \A f \in FatDescriptors : f # NULL /\ f \notin FileDescriptors
  /\ \A d \in FileDescriptors : d # NULL
<1>1. ASSUME NEW f \in FatDescriptors, f \in FileDescriptors PROVE FALSE
  <2>1. DOMAIN f = {"unit", "file_position"}
    BY <1>1 DEF FatDescriptors
  <2>2. DOMAIN f = {"index", "fs_file_descriptor"}
    BY <1>1 DEF FileDescriptors
  <2>3. "unit" \in {"index", "fs_file_descriptor"}
    BY <2>1, <2>2
  <2> QED BY <2>3
<1> QED BY <1>1, VfsAssumption DEF FatDescriptors, FileDescriptors

LEMMA ConstantTypes ==
  /\ 0 \in Words
  /\ Fds \subseteq Nat
  /\ NULL \notin Segments
  /\ Files \cap Directories = {}
  /\ size \in [Files -> Words]
  BY VfsAssumption DEF Words, Fds

LEMMA NewFatType == ASSUME NEW u \in Units PROVE NewFat(u) \in FatDescriptors
  BY ConstantTypes DEF NewFat, FatDescriptors

(* Every seek leaves a word as the position.                               *)
LEMMA NewPositionType ==
  ASSUME NEW position \in Words, NEW offset \in Words, NEW whence \in Whences
  PROVE  NewPosition(position, offset, whence) \in Words
<1>1. (position + offset) % WordModulus \in Words
  BY VfsAssumption, SMT DEF Words
<1> QED BY <1>1 DEF NewPosition, Whences
-----------------------------------------------------------------------------
VfsInv == TypeOK /\ DescriptorsOwnFiles

(* What the invariant says of one open descriptor.                         *)
LEMMA OpenFile ==
  ASSUME VfsInv, NEW fd \in Fds, IsOpen(fd)
  PROVE  /\ fd_list[fd] \in Segments
         /\ heap[fd_list[fd]] \in FileDescriptors
         /\ heap[fd_list[fd]].index = fd
         /\ fs_file_descriptor(fd) \in Segments
         /\ heap[fs_file_descriptor(fd)] \in FatDescriptors
<1>1. fd_list[fd] \in Segments
  BY DEF VfsInv, TypeOK, IsOpen
<1>2. /\ heap[fd_list[fd]] \in [index : {fd}, fs_file_descriptor : Segments]
      /\ heap[fs_file_descriptor(fd)] \in FatDescriptors
  BY DEF VfsInv, DescriptorsOwnFiles
<1> QED BY <1>1, <1>2 DEF fs_file_descriptor, FileDescriptors

(* A segment of one kind is never the other kind's, nor free.              *)
LEMMA OpenApart ==
  ASSUME VfsInv, NEW fd \in Fds, IsOpen(fd), NEW other \in Fds, IsOpen(other)
  PROVE  /\ fs_file_descriptor(fd) # fd_list[other]
         /\ other # fd => /\ fd_list[other] # fd_list[fd]
                          /\ fs_file_descriptor(other) # fs_file_descriptor(fd)
<1>1. fs_file_descriptor(fd) # fd_list[other]
  BY OpenFile, ContentsDiffer
<1>2. other # fd => /\ fd_list[other] # fd_list[fd]
                    /\ fs_file_descriptor(other) # fs_file_descriptor(fd)
  BY DEF VfsInv, DescriptorsOwnFiles
<1> QED BY <1>1, <1>2

LEMMA FreeApart ==
  ASSUME VfsInv, NEW fd \in Fds, IsOpen(fd), NEW s, Free(s)
  PROVE  s # fd_list[fd] /\ s # fs_file_descriptor(fd)
  BY OpenFile, ContentsDiffer DEF Free

(* A step that writes one free segment keeps every open file.              *)
LEMMA WriteFree ==
  ASSUME VfsInv, NEW s \in Segments, Free(s), NEW f \in FatDescriptors,
         heap' = [heap EXCEPT ![s] = f], UNCHANGED fd_list,
         result' \in {Error, SUCCESS} \cup Fds,
         null_read' \in BOOLEAN, wild' \in BOOLEAN
  PROVE  VfsInv'
<1>1. TypeOK'
  BY DEF VfsInv, TypeOK
<1>2. ASSUME NEW fd \in Fds, IsOpen(fd)'
      PROVE  /\ IsOpen(fd)
             /\ heap'[fd_list'[fd]] = heap[fd_list[fd]]
             /\ fs_file_descriptor(fd)' = fs_file_descriptor(fd)
             /\ heap'[fs_file_descriptor(fd)'] = heap[fs_file_descriptor(fd)]
  <2>1. IsOpen(fd)
    BY <1>2 DEF IsOpen
  <2>2. /\ s # fd_list[fd] /\ s # fs_file_descriptor(fd)
        /\ fd_list[fd] \in Segments /\ fs_file_descriptor(fd) \in Segments
    BY <2>1, FreeApart, OpenFile
  <2>3. heap'[fd_list'[fd]] = heap[fd_list[fd]]
    BY <2>2 DEF VfsInv, TypeOK
  <2>4. fs_file_descriptor(fd)' = fs_file_descriptor(fd)
    BY <2>3 DEF fs_file_descriptor
  <2> QED BY <2>1, <2>2, <2>3, <2>4 DEF VfsInv, TypeOK
<1>3. DescriptorsOwnFiles'
  BY <1>2 DEF VfsInv, DescriptorsOwnFiles
<1> QED BY <1>1, <1>3 DEF VfsInv

(* What an fopen that succeeds does to the descriptors: a new one, and all *)
(* the others as they were.                                                *)
OpensAt(path, index, file_data, new_fd) ==
  /\ path \in Units
  /\ ~IsOpen(index) /\ result' = index
  /\ Free(file_data) /\ Free(new_fd) /\ file_data # new_fd
  /\ heap' = [heap EXCEPT
       ![file_data] = NewFat(path),
       ![new_fd] = [index |-> index, fs_file_descriptor |-> file_data]]
  /\ fd_list' = [fd_list EXCEPT ![index] = new_fd]
  /\ fd_list'[index] = new_fd /\ IsOpen(index)'
  /\ heap'[new_fd] = [index |-> index, fs_file_descriptor |-> file_data]
  /\ fs_file_descriptor(index)' = file_data
  /\ heap'[file_data] = NewFat(path)
  /\ \A fd \in Fds \ {index} :
       /\ fd_list'[fd] = fd_list[fd]
       /\ IsOpen(fd)' = IsOpen(fd)
       /\ IsOpen(fd) =>
            /\ heap'[fd_list[fd]] = heap[fd_list[fd]]
            /\ fs_file_descriptor(fd)' = fs_file_descriptor(fd)
            /\ heap'[fs_file_descriptor(fd)] = heap[fs_file_descriptor(fd)]

LEMMA OpenSlots ==
  ASSUME VfsInv, NEW path \in Paths, NEW mode \in Modes,
         FopenSucceeds(path, mode)
  PROVE  \E index \in Fds, file_data, new_fd \in Segments :
           OpensAt(path, index, file_data, new_fd)
<1>1. PICK index \in Fds, file_data \in Segments, new_fd \in Segments :
        /\ path \in Units
        /\ free_index(index) /\ result' = index
        /\ Free(file_data) /\ Free(new_fd) /\ file_data # new_fd
        /\ heap' = [heap EXCEPT
             ![file_data] = NewFat(path),
             ![new_fd] = [index |-> index, fs_file_descriptor |-> file_data]]
        /\ fd_list' = [fd_list EXCEPT ![index] = new_fd]
  BY DEF FopenSucceeds
<1>2. ~IsOpen(index)
  BY <1>1 DEF free_index, IsOpen
<1>3. fd_list'[index] = new_fd /\ IsOpen(index)'
  BY <1>1, ConstantTypes DEF VfsInv, TypeOK, IsOpen
<1>4. /\ heap'[new_fd] = [index |-> index, fs_file_descriptor |-> file_data]
      /\ heap'[file_data] = NewFat(path)
  BY <1>1 DEF VfsInv, TypeOK
<1>5. fs_file_descriptor(index)' = file_data
  BY <1>3, <1>4 DEF fs_file_descriptor
<1>6. ASSUME NEW fd \in Fds \ {index}
      PROVE  /\ fd_list'[fd] = fd_list[fd]
             /\ IsOpen(fd)' = IsOpen(fd)
             /\ IsOpen(fd) =>
                  /\ heap'[fd_list[fd]] = heap[fd_list[fd]]
                  /\ fs_file_descriptor(fd)' = fs_file_descriptor(fd)
                  /\ heap'[fs_file_descriptor(fd)]
                       = heap[fs_file_descriptor(fd)]
  <2>1. fd_list'[fd] = fd_list[fd]
    BY <1>1 DEF VfsInv, TypeOK
  <2>2. IsOpen(fd)' = IsOpen(fd)
    BY <2>1 DEF IsOpen
  <2>3. ASSUME IsOpen(fd)
        PROVE  /\ heap'[fd_list[fd]] = heap[fd_list[fd]]
               /\ heap'[fs_file_descriptor(fd)] = heap[fs_file_descriptor(fd)]
    <3>1. /\ fd_list[fd] \in Segments \ {file_data, new_fd}
          /\ fs_file_descriptor(fd) \in Segments \ {file_data, new_fd}
      BY <1>1, <2>3, FreeApart, OpenFile
    <3> QED BY <1>1, <3>1 DEF VfsInv, TypeOK
  <2>4. IsOpen(fd) => fs_file_descriptor(fd)' = fs_file_descriptor(fd)
    BY <2>1, <2>3 DEF fs_file_descriptor
  <2> QED BY <2>1, <2>2, <2>3, <2>4
<1> QED BY <1>1, <1>2, <1>3, <1>4, <1>5, <1>6 DEF OpensAt

LEMMA OpenKeepsInv ==
  ASSUME VfsInv, NEW path \in Units, NEW index \in Fds,
         NEW file_data \in Segments, NEW new_fd \in Segments,
         OpensAt(path, index, file_data, new_fd),
         null_read' \in BOOLEAN, wild' \in BOOLEAN
  PROVE  VfsInv'
<1> USE DEF OpensAt
<1>2. TypeOK'
  <2>1. NewFat(path) \in FatDescriptors
    BY NewFatType
  <2> QED BY <2>1 DEF VfsInv, TypeOK
<1>3. ASSUME NEW fd \in Fds, IsOpen(fd)'
      PROVE  /\ heap'[fd_list'[fd]]
                  \in [index : {fd}, fs_file_descriptor : Segments]
             /\ heap'[fs_file_descriptor(fd)'] \in FatDescriptors
             /\ \A other \in Fds \ {fd} : IsOpen(other)' =>
                  /\ fd_list'[other] # fd_list'[fd]
                  /\ fs_file_descriptor(other)' # fs_file_descriptor(fd)'
  <2>1. CASE fd = index
    <3>1. ASSUME NEW other \in Fds \ {fd}, IsOpen(other)'
          PROVE  /\ fd_list'[other] # fd_list'[fd]
                 /\ fs_file_descriptor(other)' # fs_file_descriptor(fd)'
      BY <2>1, <3>1, FreeApart
    <3> QED BY <2>1, <3>1, NewFatType
  <2>2. CASE fd # index
    <3>1. IsOpen(fd) /\ fd_list'[fd] = fd_list[fd]
          /\ fs_file_descriptor(fd)' = fs_file_descriptor(fd)
      BY <1>3, <2>2
    <3>2. ASSUME NEW other \in Fds \ {fd}, IsOpen(other)'
          PROVE  /\ fd_list'[other] # fd_list'[fd]
                 /\ fs_file_descriptor(other)' # fs_file_descriptor(fd)'
      <4>1. CASE other = index
        BY <3>1, <4>1, FreeApart
      <4>2. CASE other # index
        BY <3>1, <3>2, <4>2, OpenApart
      <4> QED BY <4>1, <4>2
    <3> QED BY <2>2, <3>1, <3>2 DEF VfsInv, DescriptorsOwnFiles
  <2> QED BY <2>1, <2>2
<1> QED BY <1>2, <1>3 DEF VfsInv, DescriptorsOwnFiles

(* A seek writes the fat16_file_descriptor of one descriptor, if any.      *)
SeeksAt(fd, f) ==
  /\ UNCHANGED fd_list
  /\ f \in FatDescriptors
  /\ f.unit = heap[fs_file_descriptor(fd)].unit
  /\ heap' = [heap EXCEPT ![fs_file_descriptor(fd)] = f]
  /\ heap'[fs_file_descriptor(fd)] = f
  /\ \A other \in Fds :
       /\ IsOpen(other)' = IsOpen(other)
       /\ IsOpen(other) =>
            /\ heap'[fd_list[other]] = heap[fd_list[other]]
            /\ fs_file_descriptor(other)' = fs_file_descriptor(other)
            /\ other # fd => heap'[fs_file_descriptor(other)]
                               = heap[fs_file_descriptor(other)]

LEMMA SeekSlots ==
  ASSUME VfsInv, NEW fd \in Fds, IsOpen(fd),
         NEW offset \in Words, NEW whence \in Whences,
         heap' = fat16_seek(fs_file_descriptor(fd), offset, whence),
         UNCHANGED fd_list
  PROVE  \E f \in FatDescriptors : SeeksAt(fd, f)
<1> DEFINE s == fs_file_descriptor(fd)
           f == heap'[s]
<1>1. s \in Segments /\ heap[s] \in FatDescriptors
  BY OpenFile
<1>2. f \in FatDescriptors /\ f.unit = heap[s].unit
      /\ heap' = [heap EXCEPT ![s] = f]
  <2>1. CASE heap' = heap
    BY <1>1, <2>1 DEF VfsInv, TypeOK
  <2>2. CASE heap' = [heap EXCEPT ![s].file_position =
                        NewPosition(@, offset, whence)]
    <3> DEFINE p == NewPosition(heap[s].file_position, offset, whence)
    <3>1. p \in Words
      BY <1>1, NewPositionType DEF FatDescriptors
    <3>2. heap' = [heap EXCEPT ![s] = [heap[s] EXCEPT !.file_position = p]]
      BY <2>2, <1>1 DEF VfsInv, TypeOK
    <3>3. f = [heap[s] EXCEPT !.file_position = p]
      BY <3>2, <1>1 DEF VfsInv, TypeOK
    <3> HIDE DEF p, s
    <3> QED BY <1>1, <3>1, <3>2, <3>3 DEF FatDescriptors
  <2> QED BY <2>1, <2>2 DEF fat16_seek
<1>3. ASSUME NEW other \in Fds
      PROVE  /\ IsOpen(other)' = IsOpen(other)
             /\ IsOpen(other) =>
                  /\ heap'[fd_list[other]] = heap[fd_list[other]]
                  /\ fs_file_descriptor(other)' = fs_file_descriptor(other)
                  /\ other # fd => heap'[fs_file_descriptor(other)]
                                     = heap[fs_file_descriptor(other)]
  <2>1. IsOpen(other)' = IsOpen(other)
    BY DEF IsOpen
  <2>2. ASSUME IsOpen(other)
        PROVE  /\ heap'[fd_list[other]] = heap[fd_list[other]]
               /\ other # fd => heap'[fs_file_descriptor(other)]
                                  = heap[fs_file_descriptor(other)]
    <3>1. /\ fd_list[other] \in Segments \ {s}
          /\ fs_file_descriptor(other) \in Segments
          /\ other # fd => fs_file_descriptor(other) # s
      BY <2>2, OpenFile, OpenApart
    <3> HIDE DEF s, f
    <3> QED BY <1>2, <3>1 DEF VfsInv, TypeOK
  <2>3. IsOpen(other) => fs_file_descriptor(other)' = fs_file_descriptor(other)
    BY <2>2 DEF fs_file_descriptor
  <2> QED BY <2>1, <2>2, <2>3
<1> QED BY <1>2, <1>3 DEF SeeksAt

LEMMA SeekKeepsInv ==
  ASSUME VfsInv, NEW fd \in Fds, IsOpen(fd), NEW f, SeeksAt(fd, f),
         result' = SUCCESS, null_read' \in BOOLEAN, wild' \in BOOLEAN
  PROVE  VfsInv'
<1> USE DEF SeeksAt
<1>1. TypeOK'
  BY OpenFile DEF VfsInv, TypeOK
<1>2. ASSUME NEW d \in Fds, IsOpen(d)'
      PROVE  /\ heap'[fd_list'[d]]
                  \in [index : {d}, fs_file_descriptor : Segments]
             /\ heap'[fs_file_descriptor(d)'] \in FatDescriptors
             /\ \A other \in Fds \ {d} : IsOpen(other)' =>
                  /\ fd_list'[other] # fd_list'[d]
                  /\ fs_file_descriptor(other)' # fs_file_descriptor(d)'
  BY <1>2 DEF VfsInv, DescriptorsOwnFiles
<1> QED BY <1>1, <1>2 DEF VfsInv, DescriptorsOwnFiles

(* fclose clears the entry it was asked for, frees the file behind it, and *)
(* leaves every other open file.                                           *)
ClosesAt(fd) ==
  /\ fd_list' = [fd_list EXCEPT ![fd] = NULL]
  /\ heap' = [heap EXCEPT ![fs_file_descriptor(fd)] = NULL]
  /\ ~IsOpen(fd)'
  /\ \A other \in Fds \ {fd} :
       /\ fd_list'[other] = fd_list[other]
       /\ IsOpen(other)' = IsOpen(other)
       /\ IsOpen(other) =>
            /\ heap'[fd_list[other]] = heap[fd_list[other]]
            /\ fs_file_descriptor(other)' = fs_file_descriptor(other)
            /\ heap'[fs_file_descriptor(other)]
                 = heap[fs_file_descriptor(other)]

LEMMA CloseSlots ==
  ASSUME VfsInv, NEW fd \in Fds, IsOpen(fd), FcloseOpen(fd)
  PROVE  ClosesAt(fd)
<1>1. /\ fd_list' = [fd_list EXCEPT ![fd] = NULL]
      /\ heap' = [heap EXCEPT ![fs_file_descriptor(fd)] = NULL]
  BY OpenFile DEF FcloseOpen
<1>2. ~IsOpen(fd)'
  BY <1>1 DEF IsOpen, VfsInv, TypeOK
<1>3. ASSUME NEW other \in Fds \ {fd}
      PROVE  /\ fd_list'[other] = fd_list[other]
             /\ IsOpen(other)' = IsOpen(other)
             /\ IsOpen(other) =>
                  /\ heap'[fd_list[other]] = heap[fd_list[other]]
                  /\ fs_file_descriptor(other)' = fs_file_descriptor(other)
                  /\ heap'[fs_file_descriptor(other)]
                       = heap[fs_file_descriptor(other)]
  <2>1. fd_list'[other] = fd_list[other]
    BY <1>1 DEF VfsInv, TypeOK
  <2>2. IsOpen(other)' = IsOpen(other)
    BY <2>1 DEF IsOpen
  <2>3. ASSUME IsOpen(other)
        PROVE  /\ heap'[fd_list[other]] = heap[fd_list[other]]
               /\ heap'[fs_file_descriptor(other)]
                    = heap[fs_file_descriptor(other)]
    <3>1. /\ fd_list[other] \in Segments
          /\ fs_file_descriptor(other) \in Segments
          /\ fd_list[other] # fs_file_descriptor(fd)
          /\ fs_file_descriptor(other) # fs_file_descriptor(fd)
      BY <2>3, OpenFile, OpenApart
    <3> QED BY <1>1, <3>1 DEF VfsInv, TypeOK
  <2>4. IsOpen(other) => fs_file_descriptor(other)' = fs_file_descriptor(other)
    BY <2>1, <2>3 DEF fs_file_descriptor
  <2> QED BY <2>1, <2>2, <2>3, <2>4
<1> QED BY <1>1, <1>2, <1>3 DEF ClosesAt

LEMMA CloseKeepsInv ==
  ASSUME VfsInv, NEW fd \in Fds, IsOpen(fd), ClosesAt(fd),
         result' = SUCCESS, null_read' \in BOOLEAN, wild' \in BOOLEAN
  PROVE  VfsInv'
<1> USE DEF ClosesAt
<1>1. TypeOK'
  BY OpenFile DEF VfsInv, TypeOK
<1>2. ASSUME NEW d \in Fds, IsOpen(d)'
      PROVE  /\ heap'[fd_list'[d]]
                  \in [index : {d}, fs_file_descriptor : Segments]
             /\ heap'[fs_file_descriptor(d)'] \in FatDescriptors
             /\ \A other \in Fds \ {d} : IsOpen(other)' =>
                  /\ fd_list'[other] # fd_list'[d]
                  /\ fs_file_descriptor(other)' # fs_file_descriptor(d)'
  BY <1>2 DEF VfsInv, DescriptorsOwnFiles
<1> QED BY <1>1, <1>2 DEF VfsInv, DescriptorsOwnFiles
-----------------------------------------------------------------------------
(* The five things that a call can do to the files.                        *)
Keeps ==
  /\ UNCHANGED <<fd_list, heap>>
  /\ \/ result' = Error
     \/ UNCHANGED result
     \/ result' = SUCCESS /\ \E fd \in Fds : IsOpen(fd)

Loses ==
  /\ UNCHANGED fd_list
  /\ result' = Error
  /\ \E s \in Segments, f \in FatDescriptors :
       Free(s) /\ heap' = [heap EXCEPT ![s] = f]

Opens ==
  \E path \in Units, index \in Fds, file_data, new_fd \in Segments :
    OpensAt(path, index, file_data, new_fd)

Seeks ==
  \E fd \in Fds, f \in FatDescriptors :
    IsOpen(fd) /\ SeeksAt(fd, f) /\ result' = SUCCESS

Closes == \E fd \in Fds : IsOpen(fd) /\ ClosesAt(fd) /\ result' = SUCCESS

LEMMA Effects ==
  ASSUME VfsInv, [Next]_vars
  PROVE  /\ Keeps \/ Loses \/ Opens \/ Seeks \/ Closes
         /\ null_read' \in BOOLEAN /\ wild' \in BOOLEAN
<1>0. null_read \in BOOLEAN /\ wild \in BOOLEAN
  BY DEF VfsInv, TypeOK
<1>1. ASSUME NEW path \in Paths, NEW mode \in Modes, vfs_fopen(path, mode)
      PROVE  /\ Keeps \/ Loses \/ Opens
             /\ null_read' \in BOOLEAN /\ wild' \in BOOLEAN
  <2>1. CASE FopenInvalidMode(path, mode)
    BY <1>0, <2>1 DEF FopenInvalidMode, Fails, Keeps
  <2>2. CASE FopenNoDrive(path, mode)
    BY <1>0, <2>2 DEF FopenNoDrive, Fails, Keeps
  <2>3. CASE FopenOtherDrive(path, mode)
    BY <1>0, <2>3 DEF FopenOtherDrive, Keeps
  <2>4. CASE FopenFails(path, mode)
    BY <1>0, <2>4 DEF FopenFails, Fails, Keeps
  <2>5. CASE FopenNoDescriptor(path, mode)
    <3>1. NewFat(path) \in FatDescriptors
      BY <2>5, NewFatType DEF FopenNoDescriptor
    <3> QED BY <1>0, <2>5, <3>1 DEF FopenNoDescriptor, Loses
  <2>6. CASE FopenSucceeds(path, mode)
    <3>1. path \in Units /\ UNCHANGED <<null_read, wild>>
      BY <2>6 DEF FopenSucceeds
    <3> QED BY <1>0, <2>6, <3>1, OpenSlots DEF Opens
  <2> QED BY <1>1, <2>1, <2>2, <2>3, <2>4, <2>5, <2>6 DEF vfs_fopen
<1>2. ASSUME NEW fd \in -1 .. FS_TOTAL_FILE_DESCRIPTORS
      PROVE  /\ vfs_get_file_descriptor(fd) # NULL <=> fd \in Fds /\ IsOpen(fd)
  BY DEF vfs_get_file_descriptor, IsOpen
<1>3. ASSUME NEW fd \in -1 .. FS_TOTAL_FILE_DESCRIPTORS,
             vfs_fread(fd) \/ vfs_fstat(fd)
      PROVE  Keeps /\ null_read' \in BOOLEAN /\ wild' \in BOOLEAN
  BY <1>0, <1>2, <1>3 DEF vfs_fread, vfs_fstat, Keeps
<1>4. ASSUME NEW fd \in -1 .. FS_TOTAL_FILE_DESCRIPTORS,
             NEW offset \in Words, NEW whence \in Whences,
             vfs_fseek(fd, offset, whence)
      PROVE  /\ Keeps \/ Seeks
             /\ null_read' \in BOOLEAN /\ wild' \in BOOLEAN
  <2>1. CASE vfs_get_file_descriptor(fd) = NULL
    BY <1>0, <1>4, <2>1 DEF vfs_fseek, Fails, Keeps
  <2>2. CASE vfs_get_file_descriptor(fd) # NULL
    <3>1. /\ fd \in Fds /\ IsOpen(fd)
          /\ heap' = fat16_seek(fs_file_descriptor(fd), offset, whence)
          /\ result' = SUCCESS /\ UNCHANGED <<fd_list, null_read, wild>>
      BY <1>2, <1>4, <2>2 DEF vfs_fseek
    <3>2. \E f \in FatDescriptors : SeeksAt(fd, f)
      BY <3>1, SeekSlots
    <3> QED BY <1>0, <3>1, <3>2 DEF Seeks
  <2> QED BY <2>1, <2>2
<1>5. ASSUME NEW fd \in -1 .. FS_TOTAL_FILE_DESCRIPTORS, vfs_fclose(fd)
      PROVE  /\ Keeps \/ Closes
             /\ null_read' \in BOOLEAN /\ wild' \in BOOLEAN
  <2>1. CASE vfs_get_file_descriptor(fd) = NULL
    BY <1>0, <1>5, <2>1 DEF vfs_fclose, Fails, Keeps, FcloseOpen
  <2>2. CASE vfs_get_file_descriptor(fd) # NULL
    <3>1. /\ fd \in Fds /\ IsOpen(fd) /\ FcloseOpen(fd)
          /\ result' = SUCCESS /\ UNCHANGED <<null_read, wild>>
      BY <1>2, <1>5, <2>2 DEF vfs_fclose, FcloseOpen
    <3> QED BY <1>0, <3>1, CloseSlots DEF Closes
  <2> QED BY <2>1, <2>2
<1>6. ASSUME Stopped \/ UNCHANGED vars
      PROVE  Keeps /\ null_read' \in BOOLEAN /\ wild' \in BOOLEAN
  BY <1>0, <1>6 DEF Stopped, vars, Keeps
<1> QED BY <1>1, <1>3, <1>4, <1>5, <1>6 DEF Next

LEMMA VfsInvInit == Init => VfsInv
  BY DEF Init, VfsInv, TypeOK, DescriptorsOwnFiles, IsOpen

LEMMA VfsInvStep == VfsInv /\ [Next]_vars => VfsInv'
<1> SUFFICES ASSUME VfsInv, [Next]_vars PROVE VfsInv'
  OBVIOUS
<1>0. null_read' \in BOOLEAN /\ wild' \in BOOLEAN
  BY Effects
<1>1. CASE Keeps
  <2>1. result' \in {Error, SUCCESS} \cup Fds
    BY <1>1 DEF Keeps, VfsInv, TypeOK
  <2>2. TypeOK'
    BY <1>0, <1>1, <2>1 DEF Keeps, VfsInv, TypeOK
  <2>3. DescriptorsOwnFiles'
    BY <1>1 DEF Keeps, VfsInv, DescriptorsOwnFiles, IsOpen, fs_file_descriptor
  <2> QED BY <2>2, <2>3 DEF VfsInv
<1>2. CASE Loses
  BY <1>0, <1>2, WriteFree DEF Loses
<1>3. CASE Opens
  BY <1>0, <1>3, OpenKeepsInv DEF Opens
<1>4. CASE Seeks
  BY <1>0, <1>4, SeekKeepsInv DEF Seeks
<1>5. CASE Closes
  BY <1>0, <1>5, CloseKeepsInv DEF Closes
<1> QED BY <1>1, <1>2, <1>3, <1>4, <1>5, Effects

LEMMA VfsInvariant == Spec => []VfsInv
  BY VfsInvInit, VfsInvStep, PTL DEF Spec

(* In every reachable state the table and the descriptors of both levels   *)
(* have their types, whatever was opened, lost, closed and opened again.   *)
THEOREM VfsTypeSafety == Spec => []TypeOK
<1>1. VfsInv => TypeOK
  BY DEF VfsInv
<1> QED BY <1>1, VfsInvariant, PTL

(* vfs_get_file_descriptor returns, for every open index, the descriptor   *)
(* of that index, whose fat16 descriptor is allocated and not shared.      *)
THEOREM VfsDescriptorsOwnFiles == Spec => []DescriptorsOwnFiles
<1>1. VfsInv => DescriptorsOwnFiles
  BY DEF VfsInv
<1> QED BY <1>1, VfsInvariant, PTL
-----------------------------------------------------------------------------
LEMMA LostStep ==
  ASSUME VfsInv, [Next]_vars, LostFiles' # LostFiles
  PROVE  result' = Error /\ UNCHANGED fd_list
<1>1. CASE Keeps
  <2>1. LostFiles' = LostFiles
    BY <1>1 DEF Keeps, LostFiles, IsOpen, fs_file_descriptor
  <2> QED BY <2>1
<1>2. CASE Loses
  BY <1>2 DEF Loses
<1>3. CASE Opens
  <2>1. PICK path \in Units, index \in Fds,
             file_data \in Segments, new_fd \in Segments :
          OpensAt(path, index, file_data, new_fd)
    BY <1>3 DEF Opens
  <2> USE DEF OpensAt
  <2>2. file_data \notin LostFiles /\ new_fd \notin LostFiles
    BY <2>1, ContentsDiffer DEF LostFiles, Free
  <2>3. file_data \notin LostFiles'
    BY <2>1 DEF LostFiles
  <2>4. new_fd \notin LostFiles'
    <3>1. heap'[new_fd] \in FileDescriptors
      BY <2>1 DEF FileDescriptors
    <3> QED BY <3>1, ContentsDiffer DEF LostFiles
  <2>5. ASSUME NEW s \in Segments \ {file_data, new_fd}
        PROVE  s \in LostFiles' <=> s \in LostFiles
    <3>1. heap'[s] = heap[s]
      BY <2>1 DEF VfsInv, TypeOK
    <3>2. ASSUME NEW fd \in Fds
          PROVE  (IsOpen(fd)' => fs_file_descriptor(fd)' # s)
                   <=> (IsOpen(fd) => fs_file_descriptor(fd) # s)
      <4>1. CASE fd = index
        BY <2>1, <4>1
      <4>2. CASE fd # index
        BY <2>1, <4>2
      <4> QED BY <4>1, <4>2
    <3> QED BY <3>1, <3>2 DEF LostFiles
  <2>6. LostFiles' \subseteq Segments /\ LostFiles \subseteq Segments
    BY DEF LostFiles
  <2> QED BY <2>2, <2>3, <2>4, <2>5, <2>6
<1>4. CASE Seeks
  <2>1. PICK fd \in Fds, f \in FatDescriptors : IsOpen(fd) /\ SeeksAt(fd, f)
    BY <1>4 DEF Seeks
  <2> USE DEF SeeksAt
  <2>2. ASSUME NEW s \in Segments
        PROVE  s \in LostFiles' <=> s \in LostFiles
    <3>1. heap'[s] \in FatDescriptors <=> heap[s] \in FatDescriptors
      BY <2>1, OpenFile DEF VfsInv, TypeOK
    <3>2. \A other \in Fds :
            (IsOpen(other)' => fs_file_descriptor(other)' # s)
              <=> (IsOpen(other) => fs_file_descriptor(other) # s)
      BY <2>1
    <3> QED BY <3>1, <3>2 DEF LostFiles
  <2>3. LostFiles' \subseteq Segments /\ LostFiles \subseteq Segments
    BY DEF LostFiles
  <2> QED BY <2>2, <2>3
<1>5. CASE Closes
  <2>1. PICK fd \in Fds : IsOpen(fd) /\ ClosesAt(fd)
    BY <1>5 DEF Closes
  <2> USE DEF ClosesAt
  <2> DEFINE closed == fs_file_descriptor(fd)
  <2>2. closed \in Segments /\ closed \notin LostFiles
    BY <2>1, OpenFile DEF LostFiles
  <2>3. closed \notin LostFiles'
    <3>1. heap'[closed] = NULL
      BY <2>1, <2>2 DEF VfsInv, TypeOK
    <3> QED BY <3>1, ContentsDiffer DEF LostFiles
  <2>4. ASSUME NEW s \in Segments \ {closed}
        PROVE  s \in LostFiles' <=> s \in LostFiles
    <3>1. heap'[s] = heap[s]
      BY <2>1 DEF VfsInv, TypeOK
    <3>2. \A other \in Fds :
            (IsOpen(other)' => fs_file_descriptor(other)' # s)
              <=> (IsOpen(other) => fs_file_descriptor(other) # s)
      BY <2>1
    <3> QED BY <3>1, <3>2 DEF LostFiles
  <2>5. LostFiles' \subseteq Segments /\ LostFiles \subseteq Segments
    BY DEF LostFiles
  <2> QED BY <2>2, <2>3, <2>4, <2>5
<1> QED BY <1>1, <1>2, <1>3, <1>4, <1>5, Effects

(* The memory of an open file is lost by nothing but an fopen that finds   *)
(* no free index or no memory for the second descriptor.                   *)
THEOREM VfsOnlyFailedOpenLoses == Spec => OnlyFailedOpenLosesFiles
<1>1. VfsInv /\ [Next]_vars
        => [LostFiles' # LostFiles => result' = Error /\ UNCHANGED fd_list]_vars
  BY LostStep
<1> QED BY <1>1, VfsInvariant, PTL DEF Spec, OnlyFailedOpenLosesFiles
-----------------------------------------------------------------------------
(* The table of open files that the two levels stand for.                  *)
OpenTable ==
  [fd \in Fds |-> IF IsOpen(fd) THEN heap[fs_file_descriptor(fd)] ELSE NULL]

LEMMA TableInit == Init => Table!Init
  BY DEF Init, Table!Init, IsOpen

LEMMA TableStep ==
  ASSUME VfsInv, [Next]_vars
  PROVE  Table!Next \/ UNCHANGED <<OpenTable, result>>
<1>0. OpenTable \in [Fds -> FatDescriptors \cup {NULL}]
  BY OpenFile DEF OpenTable
<1>1. CASE Keeps
  <2>1. OpenTable' = OpenTable
    BY <1>1 DEF Keeps, OpenTable, IsOpen, fs_file_descriptor
  <2>2. CASE result' = Error
    BY <2>1, <2>2 DEF Table!Next, Table!Fail, OpenTable
  <2>3. CASE UNCHANGED result
    BY <2>1, <2>3
  <2>4. CASE result' = SUCCESS /\ \E fd \in Fds : IsOpen(fd)
    <3>1. PICK fd \in Fds : IsOpen(fd)
      BY <2>4
    <3>2. OpenTable[fd] # NULL
      BY <3>1, OpenFile, ContentsDiffer DEF OpenTable
    <3> QED BY <2>1, <2>4, <3>1, <3>2 DEF Table!Next, Table!Use, OpenTable
  <2> QED BY <1>1, <2>2, <2>3, <2>4 DEF Keeps
<1>2. CASE Loses
  <2>1. PICK s \in Segments, f \in FatDescriptors :
          Free(s) /\ heap' = [heap EXCEPT ![s] = f]
    BY <1>2 DEF Loses
  <2>2. ASSUME NEW fd \in Fds
        PROVE  /\ IsOpen(fd)' = IsOpen(fd)
               /\ IsOpen(fd) => heap'[fs_file_descriptor(fd)']
                                  = heap[fs_file_descriptor(fd)]
    <3>1. IsOpen(fd)' = IsOpen(fd)
      BY <1>2 DEF Loses, IsOpen
    <3>2. ASSUME IsOpen(fd)
          PROVE  heap'[fs_file_descriptor(fd)'] = heap[fs_file_descriptor(fd)]
      <4>1. /\ fd_list[fd] \in Segments \ {s}
            /\ fs_file_descriptor(fd) \in Segments \ {s}
        BY <2>1, <3>2, FreeApart, OpenFile
      <4>2. heap'[fd_list'[fd]] = heap[fd_list[fd]]
        BY <1>2, <2>1, <4>1 DEF Loses, VfsInv, TypeOK
      <4>3. fs_file_descriptor(fd)' = fs_file_descriptor(fd)
        BY <4>2 DEF fs_file_descriptor
      <4> QED BY <2>1, <4>1, <4>3 DEF VfsInv, TypeOK
    <3> QED BY <3>1, <3>2
  <2>3. OpenTable' = OpenTable
    BY <2>2 DEF OpenTable
  <2> QED BY <1>2, <2>3 DEF Loses, Table!Next, Table!Fail, OpenTable
<1>3. CASE Opens
  <2>1. PICK path \in Units, index \in Fds,
             file_data \in Segments, new_fd \in Segments :
          OpensAt(path, index, file_data, new_fd)
    BY <1>3 DEF Opens
  <2> USE DEF OpensAt
  <2>2. OpenTable[index] = NULL
    BY <2>1 DEF OpenTable
  <2>3. OpenTable'[index] = [unit |-> path, file_position |-> 0]
    BY <2>1 DEF OpenTable, NewFat
  <2>4. \A fd \in Fds \ {index} : OpenTable'[fd] = OpenTable[fd]
    BY <2>1 DEF OpenTable
  <2>5. OpenTable' =
          [OpenTable EXCEPT ![index] = [unit |-> path, file_position |-> 0]]
    BY <1>0, <2>3, <2>4 DEF OpenTable
  <2>6. Table!Open(index, path)
    BY <2>1, <2>2, <2>5 DEF Table!Open, OpenTable
  <2> QED BY <2>6 DEF Table!Next
<1>4. CASE Seeks
  <2>1. PICK fd \in Fds, f \in FatDescriptors :
          IsOpen(fd) /\ SeeksAt(fd, f) /\ result' = SUCCESS
    BY <1>4 DEF Seeks
  <2> USE DEF SeeksAt
  <2> DEFINE position == f.file_position
  <2>2. OpenTable[fd] = heap[fs_file_descriptor(fd)] /\ OpenTable[fd] # NULL
    BY <2>1, OpenFile, ContentsDiffer DEF OpenTable
  <2>3. f = [OpenTable[fd] EXCEPT !.file_position = position]
    BY <2>1, <2>2, OpenFile DEF FatDescriptors
  <2>4. OpenTable'[fd] = f
    BY <2>1 DEF OpenTable
  <2>5. \A other \in Fds \ {fd} : OpenTable'[other] = OpenTable[other]
    BY <2>1 DEF OpenTable
  <2>6. OpenTable' = [OpenTable EXCEPT ![fd].file_position = position]
    BY <1>0, <2>3, <2>4, <2>5 DEF OpenTable
  <2>7. Table!Seek(fd, position) /\ position \in Words
    BY <2>1, <2>2, <2>6 DEF Table!Seek, OpenTable, FatDescriptors
  <2> QED BY <2>7 DEF Table!Next
<1>5. CASE Closes
  <2>1. PICK fd \in Fds : IsOpen(fd) /\ ClosesAt(fd) /\ result' = SUCCESS
    BY <1>5 DEF Closes
  <2> USE DEF ClosesAt
  <2>2. OpenTable[fd] # NULL
    BY <2>1, OpenFile, ContentsDiffer DEF OpenTable
  <2>3. OpenTable' = [OpenTable EXCEPT ![fd] = NULL]
    <3>1. OpenTable'[fd] = NULL
      BY <2>1 DEF OpenTable
    <3>2. \A other \in Fds \ {fd} : OpenTable'[other] = OpenTable[other]
      BY <2>1 DEF OpenTable
    <3> QED BY <1>0, <3>1, <3>2 DEF OpenTable
  <2>4. Table!Close(fd)
    BY <2>1, <2>2, <2>3 DEF Table!Close, OpenTable
  <2> QED BY <2>4 DEF Table!Next
<1> QED BY <1>1, <1>2, <1>3, <1>4, <1>5, Effects

(* fopen and its companions implement a table of open files: a descriptor  *)
(* belongs to one open file until it is closed, a call on it has no effect *)
(* on any other, and a call that fails changes no open file.               *)
THEOREM VfsImplementsFileTable == Spec => FileTableSpec
<1>1. VfsInv /\ [Next]_vars => [Table!Next]_(Table!vars)
  BY TableStep DEF Table!vars, OpenTable
<1>2. Init /\ [][Next]_vars /\ []VfsInv => Table!Init /\ [][Table!Next]_(Table!vars)
  BY TableInit, <1>1, PTL
<1> QED BY <1>2, VfsInvariant, PTL DEF Spec, FileTableSpec, Table!Spec
=============================================================================
