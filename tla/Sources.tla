------------------------------ MODULE Sources -------------------------------
(***************************************************************************)
(* A project's sources, from cc.yaml to the symbols they own: the rules    *)
(* are resolved and the sources gathered as the project is loaded          *)
(* (CcRules), then get_source_map goes over what they define (Claims).     *)
(***************************************************************************)
EXTENDS Claims, CcRules

\* The sources depend on what is written and not on what is resolved.
SourcesInit ==
  /\ ConfigOK
  /\ load = "rules" /\ rules = <<>>
  /\ srcs = Gathered
  /\ Init

\* Nothing is claimed before the project is loaded.
SourcesNext ==
  \/ \E e \in Entries : Resolve(e) /\ UNCHANGED vars
  \/ load = "sources" /\ Next /\ UNCHANGED ccVars

SourcesSpec == SourcesInit /\ [][SourcesNext]_<<vars, ccVars>>
=============================================================================
