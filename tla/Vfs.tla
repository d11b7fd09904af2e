-------------------------------- MODULE Vfs --------------------------------
(***************************************************************************)
(* Open files: fs/vfs/vfs.c, the path parser as far as fopen sees it, and  *)
(* the descriptors of fs/fat16/fat16.c below them.  An open file is two    *)
(* segments of the kernel heap: the file_descriptor that fd_list points    *)
(* to, and the fat16_file_descriptor (with its unit) behind it.            *)
(*                                                                         *)
(* Paths are told apart by what they lead to: a unit of the volume,        *)
(* nothing, another drive, or no drive at all.  An allocation takes any    *)
(* free segment, and may fail at any time: other clients use the heap too. *)
(* When the kernel calls through a null file system the model stops.       *)
(***************************************************************************)
EXTENDS Integers, FiniteSets

CONSTANTS
  FS_TOTAL_FILE_DESCRIPTORS,
  Segments,                   \* segments of the kernel heap
  Files, Directories,         \* units of the volume
  size,                       \* the size of each file
  WordModulus,                \* 2^32
  NULL

Units == Files \cup Directories
Fds == 0 .. (FS_TOTAL_FILE_DESCRIPTORS - 1)
Words == 0 .. (WordModulus - 1)
Missing == "missing"
OtherDrive == "other_drive"
NoDrive == "no_drive"
Paths == Units \cup {Missing, OtherDrive, NoDrive}

ASSUME VfsAssumption ==
  /\ FS_TOTAL_FILE_DESCRIPTORS \in Nat \ {0}
  /\ WordModulus \in Nat \ {0}
  /\ size \in [Files -> Words]
  /\ Files \cap Directories = {}
  /\ NULL \notin Segments
  /\ {Missing, OtherDrive, NoDrive} \cap Units = {}
  /\ NULL \notin [unit : Units, file_position : Words]
  /\ NULL \notin [index : Fds, fs_file_descriptor : Segments]

VARIABLES
  fd_list,      \* the file_descriptor of each index, or NULL
  heap,         \* the contents of each segment, or NULL if it is free
  result,       \* what the last call returned
  null_read,    \* the code has read through a null pointer
  wild          \* the kernel has called a function of a null file system

vars == <<fd_list, heap, result, null_read, wild>>
-----------------------------------------------------------------------------
SUCCESS == 0
Error == -1         \* any of the negative codes
Modes == {"READ", "WRITE", "INVALID"}
Whences == {"SEEK_SET", "SEEK_CUR", "SEEK_END"}

Free(s) == heap[s] = NULL

vfs_get_file_descriptor(fd) == IF fd \in Fds THEN fd_list[fd] ELSE NULL

fs_file_descriptor(fd) == heap[fd_list[fd]].fs_file_descriptor

(* The first index without a descriptor.                                   *)
free_index(index) ==
  /\ index \in Fds
  /\ fd_list[index] = NULL
  /\ \A i \in 0 .. (index - 1) : fd_list[i] # NULL

NewFat(u) == [unit |-> u, file_position |-> 0]

Fails ==
  /\ result' = Error
  /\ UNCHANGED <<fd_list, heap, wild>>

FopenInvalidMode(path, mode) ==
  /\ mode = "INVALID"
  /\ Fails
  /\ UNCHANGED null_read

(* parse_path returns 0 and drive_id is read through it.  If that byte is  *)
(* no capital letter the call fails, else it selects one of the disks.     *)
FopenNoDrive(path, mode) ==
  /\ mode # "INVALID"
  /\ path = NoDrive
  /\ null_read' = TRUE
  /\ \/ Fails
     \/ /\ wild' = TRUE
        /\ UNCHANGED <<fd_list, heap, result>>

(* Only drive A is initialised: the file system of another disk is null.   *)
FopenOtherDrive(path, mode) ==
  /\ mode # "INVALID"
  /\ path = OtherDrive
  /\ wild' = TRUE
  /\ UNCHANGED <<fd_list, heap, result, null_read>>

(* fat16_open returns 0: the mode, the path, or no memory.                 *)
FopenFails(path, mode) ==
  /\ mode # "INVALID"
  /\ path \in Units \cup {Missing}
  /\ Fails
  /\ UNCHANGED null_read

(* There is no free index or no memory for the file_descriptor: what       *)
(* fat16_open has returned is lost.                                        *)
FopenNoDescriptor(path, mode) ==
  /\ mode = "READ"
  /\ path \in Units
  /\ \E file_data \in Segments :
       /\ Free(file_data)
       /\ heap' = [heap EXCEPT ![file_data] = NewFat(path)]
  /\ result' = Error
  /\ UNCHANGED <<fd_list, null_read, wild>>

IndexNotSet(path, mode) ==             \* variant: index stays 0
  /\ mode = "READ"
  /\ path \in Units
  /\ \E index \in Fds, file_data, new_fd \in Segments :
       /\ free_index(index)
       /\ Free(file_data) /\ Free(new_fd) /\ file_data # new_fd
       /\ heap' = [heap EXCEPT
            ![file_data] = NewFat(path),
            ![new_fd] = [index |-> 0, fs_file_descriptor |-> file_data]]
       /\ fd_list' = [fd_list EXCEPT ![index] = new_fd]
       /\ result' = index
  /\ UNCHANGED <<null_read, wild>>

FopenSucceeds(path, mode) ==
  /\ mode = "READ"
  /\ path \in Units
  /\ \E index \in Fds, file_data, new_fd \in Segments :
       /\ free_index(index)
       /\ Free(file_data) /\ Free(new_fd) /\ file_data # new_fd
       /\ heap' = [heap EXCEPT
            ![file_data] = NewFat(path),
            ![new_fd] = [index |-> index, fs_file_descriptor |-> file_data]]
       /\ fd_list' = [fd_list EXCEPT ![index] = new_fd]
       /\ result' = index
  /\ UNCHANGED <<null_read, wild>>

vfs_fopen(path, mode) ==
  /\ ~wild
  /\ \/ FopenInvalidMode(path, mode)
     \/ FopenNoDrive(path, mode)
     \/ FopenOtherDrive(path, mode)
     \/ FopenFails(path, mode)
     \/ FopenNoDescriptor(path, mode)
     \/ FopenSucceeds(path, mode)

(* The result of the file system is dropped, so that reading a directory,  *)
(* which fat16_read refuses, reports success; fat16_read counts its offset *)
(* in a variable of its own and leaves file_position as it is.             *)
vfs_fread(fd) ==
  /\ ~wild
  /\ result' = IF vfs_get_file_descriptor(fd) = NULL THEN Error ELSE SUCCESS
  /\ UNCHANGED <<fd_list, heap, null_read, wild>>

vfs_fstat(fd) ==
  /\ ~wild
  /\ result' = IF vfs_get_file_descriptor(fd) = NULL THEN Error ELSE SUCCESS
  /\ UNCHANGED <<fd_list, heap, null_read, wild>>

NewPosition(position, offset, whence) ==
  CASE whence = "SEEK_SET" -> offset
    [] whence = "SEEK_CUR" -> (position + offset) % WordModulus
    [] whence = "SEEK_END" -> position

SeekSharedByUnit(s, offset, whence) ==      \* variant: one position per file
  [x \in Segments |->
     IF heap[x] \in [unit : {heap[s].unit} \cap Files, file_position : Words]
     THEN [heap[x] EXCEPT !.file_position = NewPosition(@, offset, whence)]
     ELSE heap[x]]

(* The offset is compared with the size, not the position it leads to.     *)
fat16_seek(s, offset, whence) ==
  IF heap[s].unit \in Directories \/ offset >= size[heap[s].unit]
  THEN heap
  ELSE [heap EXCEPT ![s].file_position = NewPosition(@, offset, whence)]

(* A seek that is refused reports success all the same.                    *)
vfs_fseek(fd, offset, whence) ==
  /\ ~wild
  /\ \/ /\ vfs_get_file_descriptor(fd) = NULL
        /\ Fails
     \/ /\ vfs_get_file_descriptor(fd) # NULL
        /\ heap' = fat16_seek(fs_file_descriptor(fd), offset, whence)
        /\ result' = SUCCESS
        /\ UNCHANGED <<fd_list, wild>>
  /\ UNCHANGED null_read

CloseForgetsFile(fd) ==                \* variant: fat16_close is not called
  /\ vfs_get_file_descriptor(fd) # NULL
  /\ fd_list' = [fd_list EXCEPT ![heap[fd_list[fd]].index] = NULL]
  /\ result' = SUCCESS
  /\ UNCHANGED <<heap, wild>>

(* The entry is cleared and the fat16_file_descriptor freed with its unit; *)
(* the file_descriptor itself is not freed.                                *)
FcloseOpen(fd) ==
  /\ vfs_get_file_descriptor(fd) # NULL
  /\ fd_list' = [fd_list EXCEPT ![heap[fd_list[fd]].index] = NULL]
  /\ heap' = [heap EXCEPT ![fs_file_descriptor(fd)] = NULL]
  /\ result' = SUCCESS
  /\ UNCHANGED wild

vfs_fclose(fd) ==
  /\ ~wild
  /\ \/ vfs_get_file_descriptor(fd) = NULL /\ Fails
     \/ FcloseOpen(fd)
  /\ UNCHANGED null_read

Stopped == wild /\ UNCHANGED vars

(* file_init *)
Init ==
  /\ fd_list = [fd \in Fds |-> NULL]
  /\ heap = [s \in Segments |-> NULL]
  /\ result = SUCCESS
  /\ null_read = FALSE
  /\ wild = FALSE

(* -1 and FS_TOTAL_FILE_DESCRIPTORS are no descriptors.                    *)
Next ==
  \/ \E path \in Paths, mode \in Modes : vfs_fopen(path, mode)
  \/ \E fd \in -1 .. FS_TOTAL_FILE_DESCRIPTORS :
       \/ vfs_fread(fd)
       \/ vfs_fstat(fd)
       \/ \E offset \in Words, whence \in Whences :
            vfs_fseek(fd, offset, whence)
       \/ vfs_fclose(fd)
  \/ Stopped

Spec == Init /\ [][Next]_vars
-----------------------------------------------------------------------------
IsOpen(fd) == fd_list[fd] # NULL

FatDescriptors == [unit : Units, file_position : Words]

(* The table, the descriptors of both levels and the results have their    *)
(* types; in particular positions are words.                               *)
TypeOK ==
  /\ fd_list \in [Fds -> Segments \cup {NULL}]
  /\ heap \in [Segments ->
       {NULL} \cup FatDescriptors
         \cup [index : Fds, fs_file_descriptor : Segments]]
  /\ result \in {Error, SUCCESS} \cup Fds
  /\ null_read \in BOOLEAN
  /\ wild \in BOOLEAN

(* What each slot of fd_list leads to, even after segments were freed,     *)
(* reused and lost: a descriptor with its own index, and behind it a       *)
(* fat16_file_descriptor that is allocated and that no other slot uses.    *)
DescriptorsOwnFiles ==
  \A fd \in Fds : IsOpen(fd) =>
    /\ heap[fd_list[fd]] \in [index : {fd}, fs_file_descriptor : Segments]
    /\ heap[fs_file_descriptor(fd)] \in FatDescriptors
    /\ \A other \in Fds \ {fd} : IsOpen(other) =>
         /\ fd_list[other] # fd_list[fd]
         /\ fs_file_descriptor(other) # fs_file_descriptor(fd)

LostFiles ==
  {s \in Segments : /\ heap[s] \in FatDescriptors
                    /\ \A fd \in Fds : IsOpen(fd) => fs_file_descriptor(fd) # s}

(* The memory of an open file is lost only by an fopen that fails: never   *)
(* by fclose or by any other call.                                         *)
OnlyFailedOpenLosesFiles ==
  [][LostFiles' # LostFiles => result' = Error /\ UNCHANGED fd_list]_vars

(* The two levels implement a table of open files.                         *)
Table == INSTANCE FileTable WITH
  Positions <- Words,
  Closed <- NULL,
  table <- [fd \in Fds |->
              IF IsOpen(fd) THEN heap[fs_file_descriptor(fd)] ELSE NULL]

FileTableSpec == Table!Spec

(* fat16.c:619 "if going out of the file.", upon which a seek is refused:  *)
(* the position of an open file stays inside of the file.                  *)
PositionInFile ==
  \A fd \in Fds : IsOpen(fd) =>
    LET f == heap[fs_file_descriptor(fd)]
    IN  f.unit \in Files => f.file_position < size[f.unit] \/ f.file_position = 0

(* fat16.c:557 "cant fread a directory :(": the caller of fread is told.   *)
DirectoryReadFails ==
  [][\A fd \in Fds :
       (vfs_fread(fd) /\ IsOpen(fd)
          /\ heap[fs_file_descriptor(fd)].unit \in Directories)
       => result' = Error]_vars

(* parser.c:74 "returning 0x00 means, couldn't parse the path provided.":  *)
(* fopen does not read the path through that null pointer.                 *)
BadPathNotRead == ~null_read
=============================================================================
