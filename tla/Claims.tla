------------------------------- MODULE Claims -------------------------------
(***************************************************************************)
(* How the owner of each symbol is found: the loops of _assign_owners,     *)
(* 3dsd/config.py, over the objects' symbols as get_source_map collects    *)
(* them.  Module SourceMap says what they should find.                     *)
(*                                                                         *)
(* Two loops over the project's own sources, then two over the vendored    *)
(* ones; in each pair the first claims the symbol a source is named after, *)
(* the second those its object defines.  A symbol goes to the first to     *)
(* claim it.  A later claim of it is warned of, unless both definitions    *)
(* are vague: a vtable or a template's instance, which the linker folds.   *)
(***************************************************************************)
EXTENDS SourceMap

VARIABLES
  all,      \* the CSV's symbols
  srcs,     \* the sources there are
  defs,     \* defs[s]: what the object of s defines; nothing where it is missing
  vague,    \* vague[s]: those of them that are vague
  pass,     \* which of the four loops, or 5
  left,     \* the sources that loop has still to go through
  owner,    \* owner[sym]: the source that owns it, or None
  folded,   \* the duplicates counted as folded
  warned    \* those warned of

vars == <<all, srcs, defs, vague, pass, left, owner, folded, warned>>

TypeOK ==
  /\ all \subseteq Symbol
  /\ srcs \subseteq Source
  /\ defs \in [srcs -> SUBSET Symbol]
  /\ vague \in [srcs -> SUBSET Symbol]
  /\ pass \in 1..5
  /\ left \subseteq srcs
  /\ owner \in [Symbol -> srcs \cup {None}]
  /\ folded \subseteq all /\ warned \subseteq all

\* (variant) Own and vendored sources in one list.
Group_Together(p) == srcs

\* The sources loop p goes through.
Group(p) == IF p <= 2 THEN srcs \ Vendored ELSE srcs \cap Vendored

\* The symbols source s claims in loop p.
Names(p, s) == IF p \in {1, 3} THEN {Stem[s]} \ {None} ELSE defs[s]

\* (variant) Any symbol is claimed.
Claimed_Any(s) == Names(pass, s)

\* What the CSV does not have is passed over.
Claimed(s) == Names(pass, s) \cap all

Init ==
  /\ all \in SUBSET Symbol
  /\ srcs \in SUBSET Source
  /\ defs \in [srcs -> SUBSET Symbol]
  /\ vague \in [srcs -> SUBSET Symbol] /\ \A s \in srcs : vague[s] \subseteq defs[s]
  /\ pass = 1 /\ left = Group(1)
  /\ owner = [sym \in Symbol |-> None]
  /\ folded = {} /\ warned = {}

\* (variant) All that is defined twice is warned of.
Folds_Never(sym, s) == FALSE

\* (variant) A vague definition is folded whatever it meets.
Folds_WithAny(sym, s) == sym \in vague[s]

\* Both definitions are vague.
Folds(sym, s) == sym \in vague[s] /\ sym \in vague[owner[sym]]

\* (variant) A claim is for good, whoever was first.
NewOwner_Last(sym, s) == s

\* The owner of a symbol that s claims.
NewOwner(sym, s) == IF owner[sym] = None THEN s ELSE owner[sym]

\* The next source claims: `claim` for each of its symbols, which are independent
\* of one another.
ClaimAll ==
  /\ left # {}
  /\ LET s         == FirstInPathOrder(left)
         contested == {sym \in Claimed(s) : owner[sym] \notin {None, s}}
         folding   == {sym \in contested : Folds(sym, s)}
     IN  /\ owner' = [sym \in Symbol |->
                        IF sym \in Claimed(s) THEN NewOwner(sym, s) ELSE owner[sym]]
         /\ folded' = folded \cup folding
         /\ warned' = warned \cup (contested \ folding)
         /\ left' = left \ {s}
  /\ UNCHANGED <<all, srcs, defs, vague, pass>>

NextLoop ==
  /\ left = {} /\ pass < 5
  /\ pass' = pass + 1
  /\ left' = IF pass < 4 THEN Group(pass + 1) ELSE {}
  /\ UNCHANGED <<all, srcs, defs, vague, owner, folded, warned>>

Next == ClaimAll \/ NextLoop

Spec == Init /\ [][Next]_vars

-----------------------------------------------------------------------------
Done == pass = 5

\* The loops give each symbol of the CSV the owner SourceMap defines, and no other
\* symbol one.
OwnersByPriority ==
  Done => owner = [sym \in Symbol |-> IF sym \in all THEN OwnerOf(sym, srcs, defs) ELSE None]

Claimants(sym) == {s \in srcs : Stem[s] = sym \/ sym \in defs[s]}

\* A vendored file never takes a symbol away from a source of the project's own,
\* and no file takes one from the one named after it, however many files are added
\* and whatever they define (_assign_owners's docstring).
NothingIsTaken ==
  Done => \A sym \in all :
    /\ Claimants(sym) \ Vendored # {} => owner[sym] \notin Vendored
    /\ (\E s \in srcs \ Vendored : Stem[s] = sym) => Stem[owner[sym]] = sym
    /\ Claimants(sym) # {} => owner[sym] # None

\* A symbol two objects define, one of them strongly, is warned of: "a strong
\* definition on either side is a real clash" (config.py:415), though a claim is
\* only ever compared with the first.
ClashIsWarned ==
  Done => \A sym \in all : \A s, t \in srcs :
    s # t /\ sym \in defs[s] \cap defs[t] /\ sym \notin vague[s] => sym \in warned

\* Nothing is warned of where all there is of a symbol is vague: "the duplication
\* is C++ working as specified" (config.py:414).
VagueIsSilent ==
  Done => \A sym \in all :
    (\A s \in Claimants(sym) : sym \in vague[s]) => sym \notin warned
=============================================================================
