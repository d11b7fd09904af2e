------------------------------ MODULE Fat16Dir ------------------------------
(***************************************************************************)
(* How fs/fat16/fat16.c finds a file by its path: fat16_get_unit, one      *)
(* action per unit of the path, behind the parser that makes the units.    *)
(*                                                                         *)
(* A directory is the sequence of its entries up to the first one whose    *)
(* name begins with 0x00.  An entry has a name, which stands for the pair  *)
(* of name and extension that fat16_get_full_relative_name joins with a    *)
(* dot, or is deleted: its first byte is 0xE5, and it matches no name.     *)
(* The volume has a root directory and one subdirectory, to which every    *)
(* entry of a directory leads; its entries "." and ".." are left out.      *)
(* Any allocation of the search may fail; those of the parser succeed.     *)
(***************************************************************************)
EXTENDS Parser, SequencesExt, FiniteSets

CONSTANTS
  Names,
  MaxEntries,         \* entries of a directory
  Paths               \* the paths asked for

Kinds == {"file", "directory", "deleted"}

ASSUME Fat16DirAssumption ==
  /\ MaxEntries \in Nat \ {0}
  /\ {"/", "null"} \cap Names = {}
  /\ \A p \in Paths : p \in Seq({p[i] : i \in DOMAIN p})

VARIABLES
  root, sub,         \* the entries of the two directories
  next_path_unit,    \* index of the next unit, 0 when the search is over
  current_unit,      \* the entry found, or NotFound
  no_memory,         \* an allocation for an entry that matches has failed
  null_read          \* the code has read through a null pointer

volume == <<root, sub>>
search == <<next_path_unit, current_unit, no_memory, null_read>>
search_vars == <<volume, parser_vars, search>>
-----------------------------------------------------------------------------
NotFound == [name |-> "0", kind |-> "0"]
Entries == [name : Names, kind : Kinds]
Deleted(e) == e.kind = "deleted"

(* Directories in which no name occurs twice.                              *)
Directories ==
  {d \in BoundedSeq(Entries, MaxEntries) :
     \A i, j \in DOMAIN d :
       d[i].name = d[j].name => i = j \/ Deleted(d[i]) \/ Deleted(d[j])}

(* The entries behind a unit that is a directory, when there is memory.    *)
fat16_load_directory(unit) == sub

CountOneLess(dir) ==                   \* variant: stops before the last
  Cardinality({i \in 1 .. (Len(dir) - 1) : ~Deleted(dir[i])})

fat16_total_files_in_directory(dir) ==
  Cardinality({i \in DOMAIN dir : ~Deleted(dir[i])})

(* The files of a directory are its first total_files entries, deleted     *)
(* ones included.  A name is one character; strncmp compares up to the end *)
(* of both strings.                                                        *)
Matches(dir, unit_str) ==
  {i \in 1 .. fat16_total_files_in_directory(dir) :
     <<dir[i].name>> = unit_str /\ ~Deleted(dir[i])}

(* The loop goes on behind a match: the last one counts.                   *)
fat16_find_unit_in_directory(dir, unit_str) ==
  LET m == Matches(dir, unit_str)
  IN  IF m = {} THEN NotFound
      ELSE dir[CHOOSE i \in m : \A j \in m : j <= i]

(* fat16_new_fat_unit_for_directory_unit for the entry that matches.  When *)
(* memory runs out there is no unit, as for a name that is not there, or a *)
(* unit whose directory or file is null, which nothing tests.              *)
NewUnit(found) ==
  \/ current_unit' = found /\ UNCHANGED no_memory
  \/ /\ found # NotFound
     /\ current_unit' \in {found, NotFound}
     /\ no_memory' = TRUE

LookupRoot ==
  /\ parsing = "done"
  /\ next_path_unit = 1
  /\ units[1] # NullUnit
  /\ NewUnit(fat16_find_unit_in_directory(root, units[1]))
  /\ next_path_unit' = IF current_unit' = NotFound \/ Len(units) = 1
                       THEN 0 ELSE 2
  /\ UNCHANGED <<volume, parser_vars, null_read>>

(* Nothing behind the drive: the names of the root directory are compared  *)
(* with what lies at address 0.                                            *)
LookupNullUnit ==
  /\ parsing = "done"
  /\ next_path_unit = 1
  /\ units[1] = NullUnit
  /\ null_read' = TRUE
  /\ current_unit' \in {NotFound} \cup
       {root[i] : i \in 1 .. fat16_total_files_in_directory(root)}
  /\ next_path_unit' = 0
  /\ UNCHANGED <<volume, parser_vars, no_memory>>

EnterFile ==                           \* variant: the type is not tested
  /\ next_path_unit > 1
  /\ current_unit.kind = "file"
  /\ next_path_unit' = 0
  /\ UNCHANGED <<volume, parser_vars, current_unit, no_memory, null_read>>

(* A file has no units below it.                                           *)
LookupInFile ==
  /\ next_path_unit > 1
  /\ current_unit.kind = "file"
  /\ current_unit' = NotFound
  /\ next_path_unit' = 0
  /\ UNCHANGED <<volume, parser_vars, no_memory, null_read>>

LookupStays ==                         \* variant: the path does not advance
  /\ next_path_unit > 1
  /\ current_unit.kind = "directory"
  /\ UNCHANGED search_vars

LookupInDirectory ==
  /\ next_path_unit > 1
  /\ current_unit.kind = "directory"
  /\ ~no_memory
  /\ NewUnit(fat16_find_unit_in_directory(fat16_load_directory(current_unit),
                                          units[next_path_unit]))
  /\ next_path_unit' = IF next_path_unit = Len(units)
                       THEN 0 ELSE next_path_unit + 1
  /\ UNCHANGED <<volume, parser_vars, null_read>>

(* A unit in the middle of the path was not found: its type is read        *)
(* through the null pointer, from page 0, which holds what the first       *)
(* kclear_display and stray writes left there.  If it reads as a file the  *)
(* search ends without a result, if it reads as a directory then any word  *)
(* of that page is taken for its entries.  The same for a directory that   *)
(* could not be loaded.                                                    *)
LookupInNull ==
  /\ next_path_unit > 1
  /\ \/ current_unit = NotFound
     \/ current_unit.kind = "directory" /\ no_memory
  /\ null_read' = TRUE
  /\ current_unit' \in Entries \cup {NotFound}
  /\ next_path_unit' = 0
  /\ UNCHANGED <<volume, parser_vars, no_memory>>

SearchInit ==
  /\ root \in Directories
  /\ sub \in Directories
  /\ path \in Paths
  /\ ParserInit
  /\ next_path_unit = 1
  /\ current_unit = NotFound
  /\ no_memory = FALSE
  /\ null_read = FALSE

Parse == (parse_path \/ parse_path_loop) /\ UNCHANGED <<volume, search>>

SearchNext == \/ Parse
        \/ LookupRoot \/ LookupNullUnit
        \/ LookupInFile \/ LookupInDirectory \/ LookupInNull

SearchSpec == SearchInit /\ [][SearchNext]_search_vars

(* Parser and search are part of a system call.                            *)
SearchFairSpec == SearchSpec /\ WF_search_vars(SearchNext)
-----------------------------------------------------------------------------
(* What the path names: the entry of its last name, if every name before   *)
(* it is that of a directory.                                              *)
NamesIn(t) ==
  LET names[i \in 0 .. Len(t)] ==
        IF i = 0 THEN <<>>
        ELSE IF t[i] = "/" THEN names[i - 1] ELSE Append(names[i - 1], t[i])
  IN  names[Len(t)]

Wanted == NamesIn(Text)

Named(dir, name) == {e \in Range(dir) : e.name = name /\ ~Deleted(e)}

Resolves(e) ==
  LET DirOf(i) == IF i = 1 THEN root ELSE sub
  IN  /\ Wanted # <<>>
      /\ e \in Named(DirOf(Len(Wanted)), Wanted[Len(Wanted)])
      /\ \A i \in 1 .. (Len(Wanted) - 1) :
           \E d \in Named(DirOf(i), Wanted[i]) : d.kind = "directory"

(* A drive, and then names and slashes in turn.                            *)
WellFormed ==
  /\ Len(path) > 3 /\ Len(path) <= FS_MAX_PATH_LENGTH
  /\ SubSeq(path, 1, 3) = <<"A", ":", "/">>
  /\ \A i \in DOMAIN Text : Text[i] = "/" <=> i % 2 = 0

Undeleted == \A e \in Range(root) \cup Range(sub) : ~Deleted(e)

(* fat16_open never opens a file other than the one that the path names,   *)
(* whatever slashes the path has too many and whichever allocation fails.  *)
NeverTheWrongFile ==
  (next_path_unit = 0 /\ ~null_read /\ current_unit # NotFound)
    => Resolves(current_unit)

(* On a volume without deleted entries, and with memory for the search,    *)
(* what a well formed path names is found, and without reading through a   *)
(* null pointer.                                                           *)
FoundWithoutDeletions ==
  (next_path_unit = 0 /\ WellFormed /\ Undeleted /\ ~no_memory)
    => \A e \in Range(root) \cup Range(sub) :
         Resolves(e) => current_unit = e /\ ~null_read

(* The search ends.                                                        *)
LookupEnds == <>(next_path_unit = 0 \/ parsing \in {"failed", "panic"})

(* fat16.c:141 "returns number of files in given directory", which the     *)
(* search takes for the number of entries to look at: every file that is   *)
(* there is found.                                                         *)
EveryFileFound ==
  (next_path_unit = 0 /\ WellFormed /\ ~no_memory) =>
    \A e \in Range(root) \cup Range(sub) : Resolves(e) => current_unit = e

(* fat16.c:428 "if the item passed is a file", unit->file =                *)
(* fat16_clone_file(...): what fat16_get_unit returns has its file.        *)
FoundHasItsFile ==
  (next_path_unit = 0 /\ current_unit # NotFound) => ~no_memory
=============================================================================
