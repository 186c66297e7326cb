---------------------------- MODULE MCRoundTrip -----------------------------
(* Small instances of RoundTrip for TLC. *)
EXTENDS RoundTrip

CONSTANTS LastAddr, Sizes, FewSizes, FewSegments

WithNames(c, ns) ==
  [i \in DOMAIN c |-> [addr |-> c[i].addr, size |-> c[i].size,
                       segment |-> c[i].segment, name |-> ns[i]]]

Sorted(c) == \A i \in 1..(Len(c) - 1) : c[i].addr <= c[i + 1].addr

\* Every CSV of at most two symbols in 0..LastAddr, those of three symbols with
\* fewer sizes and labels, those of two of one name, and one whose name is an address.
MCRow    == [addr : 0..LastAddr, size : Sizes, segment : Segment]
MCFewRow == [addr : 0..LastAddr, size : FewSizes, segment : FewSegments]
MCCsvs ==
  LET AllDifferent == <<Named(1), Named(2), Named(3)>>
  IN  UNION {{WithNames(c, AllDifferent) : c \in {d \in [1..k -> MCRow] : Sorted(d)}} :
               k \in 0..2}
      \cup {WithNames(c, AllDifferent) : c \in {d \in [1..3 -> MCFewRow] : Sorted(d)}}
      \cup {WithNames(c, <<Named(1), Named(1)>>) : c \in {d \in [1..2 -> MCFewRow] : Sorted(d)}}
      \cup {WithNames(<<r>>, <<Unnamed(1)>>) : r \in MCRow}
=============================================================================
