------------------------------ MODULE MCBuild -------------------------------
(* Small instances of Build for TLC. *)
EXTENDS BuildFresh

\* Texts: one that defines f and includes the header (armcc also reports a path
\* that does not exist), one that defines g, one that defines both, which does not
\* link with the first, and one that does not compile.
MCDefines  == [c \in Content |-> CASE c = "fh" -> {"f"} [] c = "g" -> {"g"}
                                   [] c = "fg" -> {"f", "g"} [] OTHER -> {}]
MCReports  == [c \in Content |-> IF c = "fh" THEN {Hdr, NotFound} ELSE {}]
MCStem == [s \in Source |-> IF s = 1 THEN "f" ELSE None]
MCCsv      == {<<"f", "g">>, <<"g", "f">>, <<"f">>}
MCCsvTwo   == {<<"f", "g">>, <<"f">>}

\* A project that builds, to edit from.
Start0 ==
  /\ src = [s \in Source |-> IF s = 1 THEN "fh" ELSE "g"]
  /\ header = "h1" /\ csv = <<"f", "g">> /\ flags = "o1" /\ cli = TRUE

MCAllDisturbances ==
  {EditDuringRegen, EditBeforeTarget, OldTimestamp, HandObjdiff, LoseHeader}

MCInit == Start0 /\ Init

MCSpec == MCInit /\ [][Next]_vars
MCFairSpec == MCSpec /\ WF_vars(BuildStep)
=============================================================================
