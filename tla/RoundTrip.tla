----------------------------- MODULE RoundTrip ------------------------------
(***************************************************************************)
(* The round trip of one code.bin, `3dsd build --roundtrip`: the symbol    *)
(* CSV is loaded, split_binary takes the binary apart, _split_names names  *)
(* the objects of the link independently of it, and the objects are linked *)
(* by segment, flattened and compared with the original.                   *)
(* 3dsd/config.py, split.py, ninja.py, linker.ld and check.py.             *)
(*                                                                         *)
(* Addresses are relative to the binary.  A byte is its address: no two    *)
(* are taken to be equal.                                                  *)
(***************************************************************************)
EXTENDS Integers, Sequences, Numbering

CONSTANTS
  Size,                          \* bytes in the binary
  TextEnd, RodataEnd, DataEnd,   \* where the exheader says each segment ends
  Csvs                           \* symbol CSVs to start from

Segment == {".text", ".rodata", ".data", ".bss"}

\* An object is named after its symbol, or after its address.
Named(sym)     == <<"symbol", sym>>
Unnamed(addr)  == <<"address", addr>>
ObjectName     == {"symbol", "address"} \X Nat

\* A CSV's rows are given in address order, those of one address in file order.
Row == [addr : Nat, size : Nat, segment : Segment, name : ObjectName]

ASSUME RoundTripAssumption ==
  /\ Size \in Nat
  /\ TextEnd \in Nat /\ RodataEnd \in Nat /\ DataEnd \in Nat
  /\ TextEnd <= RodataEnd /\ RodataEnd <= DataEnd
  /\ Csvs \subseteq Seq(Row)
  /\ \A csv \in Csvs : \A i, j \in DOMAIN csv : i < j => csv[i].addr <= csv[j].addr

VARIABLES
  csv,        \* the CSV
  exheader,   \* is there an exheader.bin?
  pc,         \* where the round trip is, or how it ended
  rows,       \* the symbols as loaded
  cur, idx,   \* split_binary, then _split_names: cur_addr and the next symbol
  last,       \* split_binary: last_segment
  pieces,     \* split_binary: the objects in the order they are written
  counted,    \* split_binary: total_named + total_inter
  written,    \* split_binary: total_bin_data
  names       \* _split_names: the objects build.ninja links

vars == <<csv, exheader, pc, rows, cur, idx, last, pieces, counted, written, names>>

Piece == [name : ObjectName, addr : Nat, size : Nat, segment : Segment]

Ended == {"duplicate_names", "overrun", "size_mismatch", "names_overrun",
          "link_failed", "mismatch", "verified"}

TypeOK ==
  /\ csv \in Seq(Row) /\ exheader \in BOOLEAN
  /\ pc \in {"load", "split", "name", "link"} \cup Ended
  /\ rows \in Seq(Row)
  /\ cur \in Nat /\ idx \in Nat \ {0}
  /\ last \in Segment
  /\ pieces \in Seq(Piece)
  /\ counted \in Nat /\ written \in Nat
  /\ names \in Seq(ObjectName)

Init ==
  /\ csv \in Csvs /\ exheader \in BOOLEAN
  /\ pc = "load" /\ rows = <<>>
  /\ cur = 0 /\ idx = 1 /\ last = ".text"
  /\ pieces = <<>> /\ counted = 0 /\ written = 0 /\ names = <<>>

Least(a, b) == IF a <= b THEN a ELSE b

-----------------------------------------------------------------------------
(* Loading the CSV.                                                        *)

\* (variant) Two symbols may have one name.
UniqueNames_Unchecked == TRUE

\* _check_unique_names.
UniqueNames == \A i, j \in DOMAIN csv : i # j => csv[i].name # csv[j].name

\* ExHeader.segment_of, for an address inside the file.
SegmentOf(addr) ==
  IF addr < TextEnd THEN ".text"
  ELSE IF addr < RodataEnd THEN ".rodata"
  ELSE IF addr < DataEnd THEN ".data"
  ELSE ".bss"

\* (variant) The label is taken from the CSV.
Placed_Label(row) == row

\* _apply_exheader_segments: what lies past the file or in .bss keeps its label.
Placed(row) ==
  IF exheader /\ row.addr < Size /\ SegmentOf(row.addr) # ".bss"
  THEN [row EXCEPT !.segment = SegmentOf(row.addr)]
  ELSE row

Load ==
  /\ pc = "load"
  /\ \/ UniqueNames /\ pc' = "split"
     \/ ~UniqueNames /\ pc' = "duplicate_names"
  /\ rows' = [i \in DOMAIN csv |-> Placed(csv[i])]
  /\ UNCHANGED <<csv, exheader, cur, idx, last, pieces, counted, written, names>>

-----------------------------------------------------------------------------
(* split_binary.                                                           *)

\* symbol_dict has one symbol of each address, the last; addrs has the address
\* once for each.
RowAt(addr) ==
  LET is == {i \in DOMAIN rows : rows[i].addr = addr}
  IN  rows[CHOOSE i \in is : \A j \in is : j <= i]

\* (variant) A symbol is as long as the CSV says.
SymbolSize_Unbounded(i) == RowAt(rows[i].addr).size

\* A symbol ends at the next one, or at the end of the binary.  The last symbol
\* has a negative size where it lies past that, and takes cur back to the end.
SymbolSize(i) ==
  LET next == IF i < Len(rows) THEN rows[i + 1].addr ELSE Size
  IN  Least(RowAt(rows[i].addr).size, next - rows[i].addr)

AtSymbol == idx <= Len(rows) /\ cur = rows[idx].addr

\* How far the next piece goes: to the end, or to the next symbol, or over one.
NextSize ==
  IF idx > Len(rows) THEN Size - cur
  ELSE IF AtSymbol THEN SymbolSize(idx)
  ELSE rows[idx].addr - cur

\* len(bin_data[a:b])
BytesIn(a, b) == IF a < b THEN Least(b, Size) - Least(a, Size) ELSE 0

\* The object written at cur.  What is unnamed is put in the last segment.
NextPiece ==
  [name    |-> IF AtSymbol THEN RowAt(cur).name ELSE Unnamed(cur),
   addr    |-> cur,
   size    |-> BytesIn(cur, cur + NextSize),
   segment |-> IF AtSymbol THEN RowAt(cur).segment ELSE last]

MoreToSplit == idx <= Len(rows) \/ cur < Size
Overran     == idx <= Len(rows) /\ cur > rows[idx].addr

Split ==
  /\ pc = "split" /\ MoreToSplit
  /\ IF Overran
     THEN pc' = "overrun" /\ UNCHANGED <<cur, idx, last, pieces, counted, written>>
     ELSE /\ pieces' = Append(pieces, NextPiece)
          /\ cur' = cur + NextSize
          /\ idx' = IF AtSymbol THEN idx + 1 ELSE idx
          /\ last' = NextPiece.segment
          /\ counted' = counted + NextSize
          /\ written' = written + NextPiece.size
          /\ UNCHANGED pc
  /\ UNCHANGED <<csv, exheader, rows, names>>

\* (variant) The next loop starts one early.
SplitEnds_FromZero ==
  /\ pc = "split" /\ ~MoreToSplit
  /\ pc' = IF written # Size \/ counted # Size THEN "size_mismatch" ELSE "name"
  /\ cur' = 0 /\ idx' = 0
  /\ UNCHANGED <<csv, exheader, rows, last, pieces, counted, written, names>>

SplitEnds ==
  /\ pc = "split" /\ ~MoreToSplit
  /\ pc' = IF written # Size \/ counted # Size THEN "size_mismatch" ELSE "name"
  /\ cur' = 0 /\ idx' = 1
  /\ UNCHANGED <<csv, exheader, rows, last, pieces, counted, written, names>>

-----------------------------------------------------------------------------
(* _split_names, which goes over the same symbols without splitting, each  *)
(* address once.                                                           *)

\* (variant) One name for each row.
Distinct_Rows == rows

Addrs == {rows[i].addr : i \in DOMAIN rows}

Distinct == [k \in 1..Cardinality(Addrs) |-> RowAt(Nth(Addrs, k))]

\* (variant) A symbol of size zero is passed over without moving on.
NextIndex_IfAny(size) == IF size > 0 THEN idx + 1 ELSE idx

\* Whatever its size, the symbol is done.
NextIndex(size) == idx + 1

Name ==
  /\ pc = "name" /\ (idx <= Len(Distinct) \/ cur < Size)
  /\ IF idx > Len(Distinct)
     THEN names' = Append(names, Unnamed(cur)) /\ cur' = Size /\ UNCHANGED <<pc, idx>>
     ELSE LET sym  == Distinct[idx]
              next == IF idx < Len(Distinct) THEN Distinct[idx + 1].addr ELSE Size
          IN  IF cur = sym.addr
              THEN /\ names' = Append(names, sym.name)
                   /\ cur' = cur + Least(sym.size, next - cur)
                   /\ idx' = NextIndex(Least(sym.size, next - cur))
                   /\ UNCHANGED pc
              ELSE IF cur < sym.addr
              THEN /\ names' = Append(names, Unnamed(cur))
                   /\ cur' = sym.addr /\ UNCHANGED <<pc, idx>>
              ELSE pc' = "names_overrun" /\ UNCHANGED <<names, cur, idx>>
  /\ UNCHANGED <<csv, exheader, rows, last, pieces, counted, written>>

NamesEnd ==
  /\ pc = "name" /\ idx > Len(Distinct) /\ cur >= Size
  /\ pc' = "link"
  /\ UNCHANGED <<csv, exheader, rows, cur, idx, last, pieces, counted, written, names>>

-----------------------------------------------------------------------------
(* The link and the comparison.                                            *)

\* The object of this name holds what was written to it last.
ObjectOf(name) ==
  LET is == {i \in DOMAIN pieces : pieces[i].name = name}
  IN  pieces[CHOOSE i \in is : \A j \in is : j <= i]

\* ninja has no rule for an object that is not there; ld rejects one twice.
Linkable ==
  /\ \A i \in DOMAIN names : \E j \in DOMAIN pieces : pieces[j].name = names[i]
  /\ \A i, j \in DOMAIN names : i # j => names[i] # names[j]

\* linker.ld gathers .text, then .rodata, then .data; .bss has no bytes.
Rank(segment) == CASE segment = ".text" -> 1 [] segment = ".rodata" -> 2
                   [] segment = ".data" -> 3 [] segment = ".bss" -> 4

Gathered == {i \in DOMAIN names : LET p == ObjectOf(names[i])
                                 IN  p.size > 0 /\ p.segment # ".bss"}

LinkedBefore(i, j) ==
  LET r == Rank(ObjectOf(names[i]).segment)
      s == Rank(ObjectOf(names[j]).segment)
  IN  r < s \/ (r = s /\ i < j)

\* Where the last linked of these objects ends in the original.
EndOf(is) ==
  LET p == ObjectOf(names[CHOOSE i \in is : \A j \in is : i = j \/ LinkedBefore(j, i)])
  IN  IF is = {} THEN 0 ELSE p.addr + p.size

\* Each object follows the bytes it follows in the original.
IsTheBinary ==
  /\ \A j \in Gathered : ObjectOf(names[j]).addr = EndOf({i \in Gathered : LinkedBefore(i, j)})
  /\ EndOf(Gathered) = Size

Verify ==
  /\ pc = "link"
  /\ \/ ~Linkable /\ pc' = "link_failed"
     \/ Linkable /\ ~IsTheBinary /\ pc' = "mismatch"
     \/ Linkable /\ IsTheBinary /\ pc' = "verified"
  /\ UNCHANGED <<csv, exheader, rows, cur, idx, last, pieces, counted, written, names>>

Next == Load \/ Split \/ SplitEnds \/ Name \/ NamesEnd \/ Verify

Spec == Init /\ [][Next]_vars

-----------------------------------------------------------------------------
\* A symbol has the name an unnamed stretch elsewhere gets.
NameClash == \E i \in DOMAIN csv : csv[i].name[1] = "address"

\* The labels follow the addresses, and .bss labels nothing in the file.
LabelsInOrder ==
  \A i, j \in DOMAIN csv : i <= j =>
    /\ Rank(csv[i].segment) <= Rank(csv[j].segment)
    /\ csv[i].segment = ".bss" => csv[i].addr >= Size

\* Only .data labels the padding after .data.
PaddingIsData ==
  \A i \in DOMAIN csv : DataEnd <= csv[i].addr /\ csv[i].addr < Size
                          => csv[i].segment = ".data"

\* Symbols of any sizes and overlaps, several at one address, past the end of the
\* file as those of .bss are, none at all: split_binary does not raise, neither
\* for a symbol it has passed nor for its totals (split.py:57, 68).
SplitAccepts ==
  pc \notin {"overrun", "size_mismatch"}

\* Both loops end, and with an object for each symbol and each stretch between
\* them: no step leaves both the address and the index where they were, though a
\* symbol of size zero moves the first by nothing.
LoopsEnd ==
  Len(pieces) <= 2 * Len(csv) + 1 /\ Len(names) <= 2 * Len(csv) + 1

\* build.ninja links the objects the split writes: each piece that has bytes is
\* named, in order, "exactly as split_binary cuts it" (ninja.py:91).
GraphLinksTheSplit ==
  ~NameClash /\ pc \in {"names_overrun", "link", "link_failed", "mismatch", "verified"} =>
    LET full == {i \in DOMAIN pieces : pieces[i].size > 0}
        Names(k, i) == names[k] = pieces[i].name
    IN  /\ pc # "names_overrun"
        /\ \A k \in DOMAIN names : \E i \in DOMAIN pieces : Names(k, i)
        /\ \A i \in full : \E k \in DOMAIN names : Names(k, i)
        /\ \A i, j \in full : \A k, l \in DOMAIN names :
             Names(k, i) /\ Names(l, j) => (i < j <=> k < l)

\* Each byte of the original is in exactly one of the objects build.ninja links:
\* none is lost to an object written over it, which the totals split_binary checks
\* (split.py:67) would not show, and none is there twice.
EveryByteIsLinkedOnce ==
  ~NameClash /\ pc \in {"link", "mismatch", "verified"} =>
    \A b \in 0..(Size - 1) :
      LET Holding == {i \in DOMAIN names : LET p == ObjectOf(names[i])
                                           IN  p.addr <= b /\ b < p.addr + p.size}
      IN  \E i \in Holding : Holding = {i}

\* The relinked binary is the original byte for byte, whatever the CSV names:
\* with an exheader whatever it labels the segments' symbols, without one when the
\* labels are in order.
RoundTripIsExact ==
  /\ ~NameClash
  /\ IF exheader THEN PaddingIsData ELSE LabelsInOrder
  => pc \notin {"link_failed", "mismatch"}

\* With an exheader no byte is written to an object of .bss, which has none: the
\* padding after .data is in the file, and writing it as .bss "would drop those
\* bytes from the relink" (config.py:506).
PaddingIsKept ==
  exheader => \A i \in DOMAIN pieces : pieces[i].segment = ".bss" => pieces[i].size = 0
=============================================================================
