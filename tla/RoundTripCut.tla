---------------------------- MODULE RoundTripCut ----------------------------
(***************************************************************************)
(* What the two loops of the round trip come to: the objects the symbols   *)
(* cut a binary into, written down without a loop, and how far each loop   *)
(* has got with them.  Each symbol has the bytes up to its end, and what   *)
(* lies between that and the next symbol is an object of its own.          *)
(***************************************************************************)
EXTENDS RoundTrip

\* Where a stretch begins: at a symbol, or before them all.
Start == -1
Stops == Addrs \cup {Start}

\* The address of the next symbol, or the end of the binary.
NextAddr(a) ==
  LET later == {b \in Addrs : b > a}
  IN  IF later = {} THEN Size ELSE CHOOSE b \in later : \A c \in later : b <= c

\* Where the symbol's own bytes end, and the segment they are in.
End(a)       == IF a = Start THEN 0 ELSE Least(a + RowAt(a).size, NextAddr(a))
SegmentAt(a) == IF a = Start THEN ".text" ELSE RowAt(a).segment

Gaps == {a \in Stops : End(a) < NextAddr(a)}

SymbolObject(a) ==
  [name |-> RowAt(a).name, addr |-> a, size |-> BytesIn(a, End(a)), segment |-> SegmentAt(a)]

GapObject(a) ==
  [name |-> Unnamed(End(a)), addr |-> End(a), size |-> BytesIn(End(a), NextAddr(a)),
   segment |-> SegmentAt(a)]

Objects == {SymbolObject(a) : a \in Addrs} \cup {GapObject(a) : a \in Gaps}

\* The object of a symbol that another of its address follows.
Emptied(p) == [p EXCEPT !.size = 0]

-----------------------------------------------------------------------------
Cut == pc \notin {"load", "duplicate_names", "split"}
Listed == pc \in {"link", "link_failed", "mismatch", "verified"}

\* The rows are the CSV's, with other labels.
RowsAreTheCsv ==
  /\ csv \in Csvs
  /\ pc = "load" => cur = 0 /\ idx = 1 /\ last = ".text" /\ counted = 0 /\ written = 0
  /\ pc \in {"load", "duplicate_names"} => pieces = <<>>
  /\ pc # "load" => /\ DOMAIN rows = DOMAIN csv
                    /\ \A i \in DOMAIN csv : rows[i] = Placed(csv[i])
                    /\ pc # "duplicate_names" => UniqueNames
  /\ ~Cut => names = <<>>

\* What split_binary has passed before the i-th row, and whether for good.
PassedAt(i) == IF i = 1 THEN Start ELSE rows[i - 1].addr
Passed      == PassedAt(idx)
ForGood     == idx > Len(rows) \/ rows[idx].addr # Passed

\* Where split_binary is: at the end of the last symbol or at the next one, and
\* with totals that say so.
SplitIsOnTime ==
  pc = "split" =>
    /\ idx <= Len(rows) + 1
    /\ IF ForGood THEN cur \in {End(Passed), NextAddr(Passed)} ELSE cur = Passed
    /\ last = SegmentAt(Passed)
    /\ counted = cur /\ written = Least(cur, Size)

\* The pieces are these symbols and gaps and nothing that is not an object; what
\* comes after a piece with bytes is further on.
PiecesAre(symbols, gaps) ==
  /\ \A a \in symbols : \E i \in DOMAIN pieces : pieces[i] = SymbolObject(a)
  /\ \A a \in gaps \cap Gaps : \E i \in DOMAIN pieces : pieces[i] = GapObject(a)
  /\ \A i \in DOMAIN pieces : \E p \in Objects : pieces[i] \in {p, Emptied(p)}
  /\ \A i, j \in DOMAIN pieces :
       i < j /\ pieces[i].size > 0 => pieces[i].addr + pieces[i].size <= pieces[j].addr

SplitCuts ==
  /\ pc = "split" =>
       /\ PiecesAre({a \in Addrs : a < Passed \/ (a = Passed /\ ForGood)},
                    {a \in Stops : a < Passed \/ (a = Passed /\ ForGood /\ cur = NextAddr(a))})
       /\ \A i \in DOMAIN pieces : pieces[i].size > 0 => pieces[i].addr + pieces[i].size <= cur
  /\ Cut => PiecesAre(Addrs, Stops)

\* Where _split_names is.
NamedAt(i) == IF i = 1 THEN Start ELSE Distinct[i - 1].addr
LastNamed  == NamedAt(idx)

NamesAreOnTime ==
  pc = "name" => idx <= Len(Distinct) + 1 /\ cur \in {End(LastNamed), NextAddr(LastNamed)}

\* The names are those of these symbols and gaps, each once, and what is named after
\* an object with bytes is further on.
NamesOf(symbols, gaps) ==
  {RowAt(a).name : a \in symbols} \cup {Unnamed(End(a)) : a \in gaps \cap Gaps}

NamesAre(symbols, gaps) ==
  /\ {names[k] : k \in DOMAIN names} = NamesOf(symbols, gaps)
  /\ ~NameClash =>
       \A k, l \in DOMAIN names : k < l =>
         /\ names[k] # names[l]
         /\ \A p, q \in Objects :
              p.name = names[k] /\ q.name = names[l] /\ p.size > 0 => p.addr + p.size <= q.addr

NamesCut ==
  /\ pc = "name" =>
       /\ NamesAre({a \in Addrs : a <= LastNamed},
                   {a \in Stops : a < LastNamed \/ (a = LastNamed /\ cur = NextAddr(a))})
       /\ ~NameClash => \A k \in DOMAIN names : \A p \in Objects :
                          p.name = names[k] /\ p.size > 0 => p.addr + p.size <= cur
  /\ Listed => NamesAre(Addrs, Stops)

\* At most a piece and a name for each symbol passed and each stretch before it.
LoopsAdvance ==
  /\ pc = "split" =>
       Len(pieces) <= 2 * (idx - 1) + (IF ForGood /\ cur = NextAddr(Passed) THEN 1 ELSE 0)
  /\ Cut => Len(pieces) <= 2 * Len(csv) + 1
  /\ pc = "name" =>
       Len(names) <= 2 * (idx - 1) + (IF cur = NextAddr(LastNamed) THEN 1 ELSE 0)
  /\ Listed => Len(names) <= 2 * Len(csv) + 1

IInv ==
  /\ TypeOK /\ pc \notin {"overrun", "size_mismatch", "names_overrun"}
  /\ RowsAreTheCsv /\ SplitIsOnTime /\ SplitCuts /\ NamesAreOnTime /\ NamesCut /\ LoopsAdvance
=============================================================================
