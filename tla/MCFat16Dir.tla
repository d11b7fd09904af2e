----------------------------- MODULE MCFat16Dir -----------------------------
(* The instance of Fat16Dir for TLC: paths with and without a drive, with  *)
(* up to MaxText characters behind it.  Names have one character, which is *)
(* the bound here; units of two (a panic) occur in short paths only.       *)
EXTENDS Fat16Dir

CONSTANTS MaxText

DriveParts == {<<"A", ":", "/">>, <<"A", ":">>, <<"a", ":", "/">>,
               <<"A", ":", "/", "/">>}

Texts ==
  {t \in BoundedSeq(Names \cup {"/"}, MaxText) :
     \/ Len(t) <= 3
     \/ \A i \in 1 .. (Len(t) - 1) : "/" \in {t[i], t[i + 1]}}

MCPaths == {p \o t : p \in DriveParts, t \in Texts}
=============================================================================
