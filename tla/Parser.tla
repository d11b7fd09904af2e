------------------------------- MODULE Parser -------------------------------
(***************************************************************************)
(* The path parser, fs/parser/parser.c: a path such as A:/d/f becomes the  *)
(* list of its units d, f.  One action takes the drive and the first unit, *)
(* another one each further unit.                                          *)
(*                                                                         *)
(* A path is a sequence of characters.  Allocations succeed here; none of  *)
(* the segments that hold the result is ever freed.                        *)
(***************************************************************************)
EXTENDS Integers, Sequences

CONSTANTS
  FS_MAX_PATH_LENGTH,
  FS_MAX_PATH_UNIT_LENGTH

ASSUME ParserAssumption ==
  /\ FS_MAX_PATH_LENGTH \in Nat
  /\ FS_MAX_PATH_UNIT_LENGTH \in Nat

VARIABLES
  path,        \* _path, what was asked for
  __path,      \* the rest of it
  units,       \* the list of units so far
  parsing      \* "start", "units", "done", "failed" (0 returned), "panic"

parser_vars == <<path, __path, units, parsing>>
-----------------------------------------------------------------------------
Capitals == {"A"}
NullUnit == <<"null">>                 \* a null unit_str; not a string

parse_drive(s) == Len(s) >= 3 /\ s[1] \in Capitals

(* Index of the first slash, or of the terminating zero.                   *)
UnitEnd(s) ==
  CHOOSE i \in 1 .. (Len(s) + 1) :
    /\ i = Len(s) + 1 \/ s[i] = "/"
    /\ \A j \in 1 .. (i - 1) : s[j] # "/"

KeepSlash(s) ==                        \* variant: advances to the slash
  IF s = <<>> THEN [unit |-> NullUnit, rest |-> s]
  ELSE [unit |-> SubSeq(s, 1, UnitEnd(s) - 1),
        rest |-> SubSeq(s, UnitEnd(s) + (IF UnitEnd(s) = 1 THEN 1 ELSE 0),
                        Len(s))]

(* The unit in front of the path, and the path behind it and its slash.    *)
path_get_current_unit_and_advance(s) ==
  IF s = <<>> THEN [unit |-> NullUnit, rest |-> s]
  ELSE [unit |-> SubSeq(s, 1, UnitEnd(s) - 1),
        rest |-> SubSeq(s, UnitEnd(s) + 1, Len(s))]

TakeUnit(s, next) ==
  LET u == path_get_current_unit_and_advance(s)
  IN  IF u.unit # NullUnit /\ Len(u.unit) > FS_MAX_PATH_UNIT_LENGTH
      THEN parsing' = "panic" /\ UNCHANGED <<__path, units>>
      ELSE parsing' = next /\ __path' = u.rest /\ units' = Append(units, u.unit)

(* parse_path up to its loop; the head of the list may have no string.     *)
parse_path ==
  /\ parsing = "start"
  /\ \/ /\ Len(path) > FS_MAX_PATH_LENGTH
        /\ parsing' = "panic"
        /\ UNCHANGED <<__path, units>>
     \/ /\ Len(path) <= FS_MAX_PATH_LENGTH
        /\ ~parse_drive(path)
        /\ parsing' = "failed"
        /\ UNCHANGED <<__path, units>>
     \/ /\ Len(path) <= FS_MAX_PATH_LENGTH
        /\ parse_drive(path)
        /\ TakeUnit(SubSeq(path, 4, Len(path)), "units")
  /\ UNCHANGED path

(* The loop over the further units, and its end.                           *)
parse_path_loop ==
  /\ parsing = "units"
  /\ \/ __path # <<>> /\ TakeUnit(__path, "units")
     \/ __path = <<>> /\ parsing' = "done" /\ UNCHANGED <<__path, units>>
  /\ UNCHANGED path

ParserInit ==
  /\ __path = <<>>
  /\ units = <<>>
  /\ parsing = "start"
-----------------------------------------------------------------------------
(* The text behind the drive.                                              *)
Text == SubSeq(path, 4, Len(path))

(* Units joined with slashes.                                              *)
Joined(us) ==
  LET join[i \in 0 .. Len(us)] ==
        IF i = 0 THEN <<>>
        ELSE IF i = 1 THEN us[1] ELSE join[i - 1] \o <<"/">> \o us[i]
  IN  join[Len(us)]

(* parser.c:81 "if path => C:/unit1/unit2/unit3 , the list would look      *)
(* like, (unit1) -> (unit2) -> (unit3)": joined with slashes the units     *)
(* give the text back, up to one slash at its end, and no unit has a slash.*)
UnitsAreTheSplit ==
  (parsing = "done" /\ Text # <<>>) =>
    /\ Text \in {Joined(units), Append(Joined(units), "/")}
    /\ \A i \in DOMAIN units : \A j \in DOMAIN units[i] : units[i][j] # "/"
=============================================================================
