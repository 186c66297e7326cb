---------------------------- MODULE MCSplitCache ----------------------------
(* Small instances of SplitCache for TLC. *)
EXTENDS SplitCache

\* Two CSVs that share an object name, of which one has another beside it, so
\* that a leftover, an overwritten and a missing object are all possible, and one
\* that cannot be split.
MCPieceNames ==
  [c \in Csv |-> CASE c = "one" -> {"a", "b"}
                   [] c = "two" -> {"b"}
                   [] OTHER     -> {"a"}]

\* Every binary starts from the same versions; edits reach the others.
MCInit ==
  /\ Init
  /\ \A b, c \in Binary : orig[b] = orig[c] /\ csv[b] = csv[c]
  /\ exheader = CHOOSE x \in Exheader : TRUE
  /\ csv \in [Binary -> {"one", "two"}]
MCFairSpec == MCInit /\ [][Next]_vars /\ WF_vars(RunStep)

MCExheaderEdit    == {ExheaderEdit}
MCAllDisturbances == {EditDuringRun, ExheaderEdit, PartialRemoval}
=============================================================================
