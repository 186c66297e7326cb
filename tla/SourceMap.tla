----------------------------- MODULE SourceMap ------------------------------
(***************************************************************************)
(* Which source owns each symbol: ProjectConfig.get_source_map and         *)
(* _assign_owners, 3dsd/config.py, as definitions; module Claims has the   *)
(* loops that compute it.                                                  *)
(*                                                                         *)
(* A source is a number: its place in path order.                          *)
(***************************************************************************)
EXTENDS Numbering, Sequences

CONSTANTS
  Source,     \* the sources that may exist under src/<binary>/ and deps/
  Vendored,   \* those under deps/
  Symbol,     \* symbol names
  Stem,       \* Stem[s]: the symbol s is named after, or None
  None

ASSUME SourceMapAssumption ==
  /\ Source \subseteq Nat
  /\ Vendored \subseteq Source
  /\ Stem \in [Source -> Symbol \cup {None}]
  /\ None \notin Source
  /\ None \notin Symbol

FirstInPathOrder(S) == CHOOSE s \in S : \A t \in S : s <= t

\* The owner of `sym` among the sources `srcs`, whose objects define `defs`:
\* the project's own sources before vendored ones, in each group the file named
\* after the symbol before the files that define it, then path order.
OwnerOf(sym, srcs, defs) ==
  LET own      == srcs \ Vendored
      vendored == srcs \cap Vendored
      NamedAfter(group) == {s \in group : Stem[s] = sym}
      Defining(group)   == {s \in group : sym \in defs[s]}
  IN  CASE NamedAfter(own) # {}      -> FirstInPathOrder(NamedAfter(own))
        [] NamedAfter(own) = {} /\ Defining(own) # {}
                                     -> FirstInPathOrder(Defining(own))
        [] NamedAfter(own) \cup Defining(own) = {} /\ NamedAfter(vendored) # {}
                                     -> FirstInPathOrder(NamedAfter(vendored))
        [] NamedAfter(srcs) \cup Defining(own) = {} /\ Defining(vendored) # {}
                                     -> FirstInPathOrder(Defining(vendored))
        [] OTHER                     -> None

\* The sources the base links: those that own a symbol of the CSV, by the first symbol
\* each owns.  `csv` holds the names in address order, as `_split_names` leaves them: one
\* to an address, the last row's, and none at an address below 0 (ninja.py:93).
LinkOrder(csv, srcs, defs) ==
  LET owner  == [i \in DOMAIN csv |-> OwnerOf(csv[i], srcs, defs)]
      firsts == {i \in DOMAIN csv : owner[i] # None /\ \A j \in 1..(i - 1) : owner[j] # owner[i]}
  IN  [k \in 1..Cardinality(firsts) |-> owner[Nth(firsts, k)]]
=============================================================================
