----------------------------- MODULE TargetCut ------------------------------
(***************************************************************************)
(* How a binary is laid out as an objdiff target: 3dsd/objdiff.py          *)
(* build_target and the passes it is made of, with elf.py's layout.        *)
(*                                                                         *)
(* The CSV's mapping rows are placed, every row is routed to a section,    *)
(* the gaps are filled and settled, functions the base has cut are cut,    *)
(* and the runs of one section are laid back to back.  Each pass relies on *)
(* the one before to leave neither gap nor overlap.                        *)
(*                                                                         *)
(* Addresses are relative to the binary.                                   *)
(***************************************************************************)
EXTENDS BaseCut

CONSTANTS
  Size,      \* bytes in the binary
  Align,     \* what an offset must agree with its address modulo: 4
  Name,      \* symbol names, as numbers: their order is that of the names
  Families   \* sets of inputs: CSVs, mapping rows, decompiled data and bases

DataSegments == {".rodata", ".data"}
Skip         == Plain(".undecompiled")

\* A CSV row, one of its mapping rows, and a symbol of the target.  The labels
\* made from mapping rows have a name no one asks for.
Row == [name : Name \cup {None}, addr : Nat, size : Nat, segment : {".text", ".bss"} \cup DataSegments,
        mode : Mode, std : BOOLEAN]
Mark == [addr : Nat, mode : Mode, size : Nat, segment : {".text"} \cup DataSegments]
Section == ({".text", ".pool", ".bss", Skip[1]} \cup DataSegments) \X (Name \cup {None})
Symbol == [name : Name \cup {None}, addr : Nat, size : Nat, section : Section,
           mode : Mode, std : BOOLEAN, pad : BOOLEAN]

\* What a target is cut from: a CSV that names no symbol twice (_check_unique_names),
\* its mapping rows in the binary, in address order, each at an address of its own; and
\* what armcc made, its functions with a size and in their section.
Input(rs, ms, compiled, elf) ==
  /\ rs \in Seq(Row) /\ ms \in Seq(Mark)
  /\ \A i \in DOMAIN rs : rs[i].name \in Name /\ \A j \in DOMAIN rs : rs[j].name = rs[i].name => j = i
  /\ \A k \in DOMAIN ms : ms[k].addr < Size /\ \A l \in 1..(k - 1) : ms[l].addr < ms[k].addr
  /\ compiled \in [Name -> DataSegments \cup {None}]
  /\ elf # None => /\ elf.objects \in Seq([name : Name, segment : DataSegments])
                   /\ \A f \in elf.functions : f.start < f.end /\ f.end <= elf.length
                   /\ elf.sized \subseteq Nat

ASSUME TargetCutAssumption ==
  /\ Size \in Nat /\ Align \in Nat \ {0}
  /\ Name \subseteq Nat /\ None \notin Nat
  /\ \A family \in Families : \A in \in family : Input(in.csv, in.marks, in.decompiled, in.base)

VARIABLES
  csv, marks,    \* the symbol CSV, and its mapping rows in address order
  decompiled,    \* decompiled[n]: the section armcc put the data object n in, or None
  base,          \* the base as linked, or None
  pc,
  rows,          \* the CSV's rows and the labels made from mapping rows
  syms,          \* the target's symbols, as the last pass left them
  cur, todo,     \* _complete_symbols: cur, and the addresses still to come
  mapping,       \* mapping symbols of markers inside symbols: {<<addr, mode>>}
  runs           \* the target's bytes: [section, start, end, off]

inputs == <<csv, marks, decompiled, base>>
vars   == <<inputs, pc, rows, syms, cur, todo, mapping, runs>>

Run == [section : Section, start : Nat, end : Int, off : Int]

TypeOK ==
  /\ pc \in {"place", "complete", "settle", "cut", "write", "written"}
  /\ rows \in Seq(Row)
  /\ syms \in Seq(Symbol)
  /\ cur \in 0..Size /\ todo \subseteq 0..Size
  /\ mapping \subseteq (0..Size) \X Mode
  /\ runs \in Seq(Run)

Init ==
  /\ \E family \in Families : \E in \in family :
       /\ csv = in.csv /\ marks = in.marks
       /\ decompiled = in.decompiled /\ base = in.base
  /\ pc = "place" /\ rows = <<>> /\ syms = <<>> /\ cur = 0 /\ todo = {}
  /\ mapping = {} /\ runs = <<>>

Least(a, b) == IF a <= b THEN a ELSE b
End(r) == r.addr + r.size

-----------------------------------------------------------------------------
(* _place_markers.                                                         *)

Extents == {i \in DOMAIN csv : csv[i].segment = ".text" /\ csv[i].size > 0 /\ csv[i].addr < Size}

\* The order of the extents: by address, end, name.
Before(i, j) ==
  \/ csv[i].addr < csv[j].addr
  \/ csv[i].addr = csv[j].addr /\ End(csv[i]) < End(csv[j])
  \/ csv[i].addr = csv[j].addr /\ End(csv[i]) = End(csv[j]) /\ csv[i].name < csv[j].name

StartedBy(a) == {i \in Extents : csv[i].addr <= a}
LastStarted(a) == CHOOSE i \in StartedBy(a) : \A j \in StartedBy(a) \ {i} : Before(j, i)

\* The row the k-th mapping row is inside of.
Inside(k) == StartedBy(marks[k].addr) # {} /\ marks[k].addr < End(csv[LastStarted(marks[k].addr)])
RowOf(k)  == csv[LastStarted(marks[k].addr)]

\* It runs until the next one, or the end of its symbol, or the next symbol.
Limit(k) ==
  LET nextMark == IF k < Len(marks) THEN marks[k + 1].addr ELSE Size
      later    == {csv[i].addr : i \in {i \in DOMAIN csv : csv[i].addr > marks[k].addr}}
  IN  IF Inside(k) THEN Least(nextMark, End(RowOf(k)))
      ELSE Least(nextMark, Min(later \cup {Size}))

\* A $d ends where its Size does, if that is sooner.
EndOf(k) ==
  IF marks[k].mode = "$d" /\ marks[k].size > 0 /\ marks[k].addr + marks[k].size < Limit(k)
  THEN marks[k].addr + marks[k].size ELSE Limit(k)

\* (variant) It is the function's own.
Resumed_Row(k) == RowOf(k).mode

\* The mode code is in after it: that of the last code mark in the function so
\* far, or the function's own.
Resumed(k) ==
  LET code == {j \in 1..(k - 1) : Inside(j) /\ RowOf(j) = RowOf(k) /\ marks[j].mode # "$d"}
  IN  IF code = {} THEN RowOf(k).mode ELSE marks[Max(code)].mode

\* What the mapping rows make of the function `n`: {<<start, end, mode>>}.
Inner(n) ==
  LET ks == {k \in DOMAIN marks : Inside(k) /\ RowOf(k).name = n}
  IN  {<<marks[k].addr, EndOf(k), marks[k].mode>> : k \in ks}
      \cup {<<EndOf(k), Limit(k), Resumed(k)>> : k \in {j \in ks : EndOf(j) < Limit(j)}}

\* A $d outside every symbol is a label of its own.
Labels ==
  LET outside  == {k \in DOMAIN marks : ~Inside(k) /\ marks[k].mode = "$d"}
      Label(k) == [name |-> None, addr |-> marks[k].addr, size |-> EndOf(k) - marks[k].addr,
                   segment |-> marks[k].segment, mode |-> "$d", std |-> FALSE]
  IN  [i \in 1..Cardinality(outside) |-> Label(Nth(outside, i))]

PlaceMarkers ==
  /\ pc = "place"
  /\ rows' = csv \o Labels
  /\ todo' = {rows'[i].addr : i \in {i \in DOMAIN rows' : rows'[i].addr < Size}}
  /\ mapping' = {<<r[1], r[3]>> : r \in UNION {Inner(csv[i].name) : i \in Extents}}
  /\ pc' = "complete"
  /\ UNCHANGED <<inputs, syms, cur, runs>>

-----------------------------------------------------------------------------
(* _route_data: the section of the i-th row.                               *)

IsLabelIn(r) == r.segment = ".text" /\ r.mode = "$d"

\* The order of the rows: by address, as they come where that is the same.
Precedes(j, i) == rows[j].addr < rows[i].addr \/ (rows[j].addr = rows[i].addr /\ j < i)

CodeBefore(i) == {j \in DOMAIN rows : rows[j].segment = ".text" /\ rows[j].mode # "$d" /\ Precedes(j, i)}
LastOf(is)    == rows[CHOOSE i \in is : \A j \in is \ {i} : Precedes(j, i)]

\* (variant) Library functions own their pools too.
Owner_Std(i) == IF CodeBefore(i) = {} THEN None ELSE LastOf(CodeBefore(i)).name

\* _pool_owners: the last function before a label, unless it is a library's.
Owner(i) ==
  LET before == CodeBefore(i)
  IN  IF before = {} \/ LastOf(before).std THEN None ELSE LastOf(before).name

HasOwnSection(n) == base # None /\ n \in Alone(base)
SectionInBase(n) ==
  <<base.objects[CHOOSE i \in DOMAIN base.objects : base.objects[i].name = n].segment, n>>

\* Compiled data goes where the base has it, in a section of its own if it is in one
\* there; data that is not out of the way; a label in the code to the pool of the
\* function before it.
Routed(i) ==
  LET r == rows[i] IN
  IF IsLabelIn(r) THEN IF Owner(i) = None THEN Skip ELSE PoolOf(Owner(i))
  ELSE IF r.segment \notin DataSegments THEN Plain(r.segment)
  ELSE IF r.name = None \/ decompiled[r.name] = None THEN Skip
  ELSE IF HasOwnSection(r.name) THEN SectionInBase(r.name)
  ELSE Plain(decompiled[r.name])

-----------------------------------------------------------------------------
(* _complete_symbols.                                                      *)

\* The row of an address is the last there.
RowAt(addr) == Max({i \in DOMAIN rows : rows[i].addr = addr})

\* The section and the library of the last symbol, for the gap after it.
LastSection == IF syms = <<>> THEN Plain(".text") ELSE syms[Len(syms)].section
GapIsStd    == /\ syms # <<>> /\ syms[Len(syms)].std
               /\ todo # {} /\ rows[RowAt(Min(todo))].std

Gap(size) ==
  [name |-> None, addr |-> cur, size |-> size, section |-> LastSection,
   mode |-> "$a", std |-> GapIsStd, pad |-> TRUE]

\* (variant) A symbol is as long as the CSV says.
SizeOf_Unbounded(r, next) == r.size

\* A symbol ends at the next one.
SizeOf(r, next) == Least(r.size, next - cur)

CompleteSymbol ==
  /\ pc = "complete" /\ todo # {} /\ cur = Min(todo)
  /\ LET i    == RowAt(cur)
         next == Min((todo \ {cur}) \cup {Size})
         size == SizeOf(rows[i], next)
     IN  /\ syms' = Append(syms, [name |-> rows[i].name, addr |-> cur, size |-> size,
                                  section |-> Routed(i), mode |-> rows[i].mode,
                                  std |-> rows[i].std, pad |-> FALSE])
         /\ cur' = cur + size
  /\ todo' = todo \ {cur}
  /\ UNCHANGED <<inputs, pc, rows, mapping, runs>>

CompleteGap ==
  /\ pc = "complete"
  /\ LET next == Min(todo \cup {Size})
     IN  /\ cur < next
         /\ syms' = Append(syms, Gap(next - cur))
         /\ cur' = next
  /\ UNCHANGED <<inputs, pc, rows, todo, mapping, runs>>

\* "Address tracking error": a symbol ran past the next, and neither action is
\* possible.
AddressError == pc = "complete" /\ todo # {} /\ cur > Min(todo)

CompleteEnds ==
  /\ pc = "complete" /\ todo = {} /\ cur >= Size
  /\ pc' = "settle"
  /\ UNCHANGED <<inputs, rows, syms, cur, todo, mapping, runs>>

-----------------------------------------------------------------------------
(* _skip_data_padding, then _keep_text_gaps.                               *)

IsData(section) == section[1] \in DataSegments \cup {".pool"}

\* (variant) A gap in the data stays where it is.
Unpadded_Kept(s) == s

Unpadded(s) == IF s.pad /\ IsData(s.section) THEN [s EXCEPT !.section = Skip] ELSE s

LabelEnds == {End(rows[i]) : i \in {i \in DOMAIN rows : IsLabelIn(rows[i])}}

\* Between two labels of one pool.
InPool(i) ==
  /\ 1 < i /\ i < Len(syms)
  /\ syms[i - 1].section = syms[i + 1].section /\ syms[i - 1].section[1] = ".pool"

\* (variant) A gap after a label goes with the skipped data.
Settled_Skipped(i) ==
  IF ~syms[i].pad \/ syms[i].addr \notin LabelEnds \/ ~InPool(i) THEN Unpadded(syms[i])
  ELSE [syms[i] EXCEPT !.section = syms[i - 1].section]

\* A gap after a label is the pool's where it is inside one, and code elsewhere.
Settled(i) ==
  IF ~syms[i].pad \/ syms[i].addr \notin LabelEnds THEN Unpadded(syms[i])
  ELSE [syms[i] EXCEPT !.section = IF InPool(i) THEN syms[i - 1].section ELSE Plain(".text")]

Settle ==
  /\ pc = "settle"
  /\ syms' = [i \in DOMAIN syms |-> Settled(i)]
  /\ pc' = "cut"
  /\ UNCHANGED <<inputs, rows, cur, todo, mapping, runs>>

-----------------------------------------------------------------------------
(* _cut_pools.                                                             *)

CutInBase(n) == base # None /\ \E f \in Cut(base) : f.name = n

\* The pieces of a function with these runs inside: each run, what is left before
\* it, and what is left after the last.  Only the first piece of code has the name.
Pieces(s, inner) ==
  LET sorted == Ascending(inner)
      Piece(from, to, mode) ==
        [s EXCEPT !.name = None, !.addr = from, !.size = to - from, !.mode = mode,
                  !.section = IF mode = "$d" THEN PoolOf(s.name) ELSE CodeOf(s.name)]
      \* [out, cur, mode] after the first k runs
      After[k \in 0..Len(sorted)] ==
        IF k = 0 THEN [out |-> <<>>, cur |-> s.addr, mode |-> s.mode]
        ELSE LET run == sorted[k]
                 w   == After[k - 1]
             IN  [out  |-> w.out \o (IF run[1] > w.cur THEN <<Piece(w.cur, run[1], w.mode)>>
                                                       ELSE <<>>)
                                 \o <<Piece(run[1], run[2], run[3])>>,
                  cur  |-> Max({w.cur, run[2]}),
                  mode |-> IF run[3] = "$d" THEN w.mode ELSE run[3]]
      w   == After[Len(sorted)]
      out == w.out \o (IF w.cur < End(s) THEN <<Piece(w.cur, End(s), w.mode)>> ELSE <<>>)
      code == {i \in DOMAIN out : out[i].section = CodeOf(s.name)}
  IN  [i \in DOMAIN out |->
         IF code # {} /\ i = Min(code) THEN [out[i] EXCEPT !.name = s.name] ELSE out[i]]

Marked(n) == \E r \in Inner(n) : r[3] = "$d"

\* (variant) The pools stay in the code section.
CutOut_Whole(s) ==
  IF s.section # Plain(".text") \/ s.name = None \/ ~CutInBase(s.name) THEN <<s>>
  ELSE <<[s EXCEPT !.section = CodeOf(s.name)]>>

\* What a symbol becomes: a function the base has not cut stays as it is, one whose
\* pools the CSV does not mark stays whole.
CutOut(s) ==
  IF s.section # Plain(".text") \/ s.name = None \/ ~CutInBase(s.name) THEN <<s>>
  ELSE IF ~Marked(s.name) THEN <<[s EXCEPT !.section = CodeOf(s.name)]>>
  ELSE Pieces(s, Inner(s.name))

\* A cut function's markers are spent: its pieces have their own modes.
Spent(a) ==
  \E i \in DOMAIN syms : /\ syms[i].section = Plain(".text") /\ syms[i].name # None
                         /\ CutInBase(syms[i].name) /\ Marked(syms[i].name)
                         /\ syms[i].addr <= a /\ a < End(syms[i])

CutPools ==
  /\ pc = "cut"
  /\ syms' = FlattenSeq([i \in DOMAIN syms |-> CutOut(syms[i])])
  /\ mapping' = {m \in mapping : ~Spent(m[1])}
  /\ pc' = "write"
  /\ UNCHANGED <<inputs, rows, cur, todo, runs>>

-----------------------------------------------------------------------------
(* elf.py _segment_runs and _TargetLayout.                                 *)

\* Where a run begins: at the first symbol, and wherever the section changes.
Begins(i) == i = 1 \/ syms[i].section # syms[i - 1].section

\* (variant) Runs are laid back to back in every section.
Offset_Packed(section, used, start) == used

\* An offset agrees with its address modulo Align, except in the sections of one
\* function or object, which have no padding.
Offset(section, used, start) ==
  IF section[2] = None THEN used + ((start - used) % Align) ELSE used

Layout ==
  LET firsts == {i \in DOMAIN syms : Begins(i)}
      n      == Cardinality(firsts)
      SectionOf(k) == syms[Nth(firsts, k)].section
      StartOf(k)   == syms[Nth(firsts, k)].addr
      StopOf(k)    == IF k < n THEN StartOf(k + 1) ELSE Size
      laid[k \in 0..n] ==
        IF k = 0 THEN <<>>
        ELSE LET before == {j \in 1..(k - 1) : SectionOf(j) = SectionOf(k)}
                 used   == IF before = {} THEN 0
                           ELSE LET r == laid[k - 1][Max(before)] IN r.off + r.end - r.start
             IN  Append(laid[k - 1],
                        [section |-> SectionOf(k), start |-> StartOf(k), end |-> StopOf(k),
                         off |-> Offset(SectionOf(k), used, StartOf(k))])
  IN  laid[n]

Write ==
  /\ pc = "write"
  /\ runs' = Layout
  /\ pc' = "written"
  /\ UNCHANGED <<inputs, rows, syms, cur, todo, mapping>>

Next ==
  \/ PlaceMarkers \/ CompleteSymbol \/ CompleteGap \/ CompleteEnds
  \/ Settle \/ CutPools \/ Write

Spec == Init /\ [][Next]_vars

-----------------------------------------------------------------------------
(* The target as it is read.                                               *)

\* place: the run of an address, and where its byte is.
RunOf(a)   == runs[CHOOSE k \in DOMAIN runs :
                     /\ runs[k].start <= a
                     /\ \A j \in DOMAIN runs : runs[j].start <= a => j <= k]
PlaceOf(a) == <<RunOf(a).section, RunOf(a).off + a - RunOf(a).start>>

\* The mapping symbols at or before an address, in its section, closest first: the
\* modes of those at the last place that has any.
MappingSymbols == {<<PlaceOf(syms[i].addr), syms[i].mode>> : i \in DOMAIN syms}
                    \cup {<<PlaceOf(m[1]), m[2]>> : m \in mapping}
ModesAt(a) ==
  LET at    == PlaceOf(a)
      sofar == {m \in MappingSymbols : m[1][1] = at[1] /\ m[1][2] <= at[2]}
      last  == Max({m[1][2] : m \in sofar})
  IN  {m[2] : m \in {n \in sofar : n[1][2] = last}}

BytesIn(section) ==
  LET ks == {k \in DOMAIN runs : runs[k].section = section}
  IN  BytesOf([i \in 1..Cardinality(ks) |-> <<runs[Nth(ks, i)].start, runs[Nth(ks, i)].end>>])

Byte == 0..(Size - 1)
Code(r) == r.segment = ".text" /\ r.mode # "$d"

-----------------------------------------------------------------------------
(* Properties.                                                             *)

\* Nothing begins inside a function that the CSV gives a size.
ExtentsApart ==
  \A i \in Extents : \A j \in DOMAIN csv : ~(csv[i].addr < csv[j].addr /\ csv[j].addr < End(csv[i]))

\* No two rows begin at one address, and none begins inside another.
RowsApart ==
  \A i, j \in DOMAIN rows :
    i # j => rows[i].addr # rows[j].addr /\ ~(rows[i].addr < rows[j].addr /\ rows[j].addr < End(rows[i]))

\* Every byte of the binary is in the target once: none is lost, none is there
\* twice or where another is, and none moves off its alignment except in the
\* sections of one function or object -- whatever rows overlap, coincide or run
\* past the end, as long as nothing begins inside a function.
EveryByteIsPlacedOnce ==
  /\ ~AddressError
  /\ pc = "written" /\ ExtentsApart =>
       /\ \A k \in DOMAIN runs : runs[k].start <= runs[k].end
       /\ \A b \in Byte : \E k \in DOMAIN runs :
            /\ runs[k].start <= b /\ b < runs[k].end
            /\ \A j \in DOMAIN runs \ {k} : ~(runs[j].start <= b /\ b < runs[j].end)
       /\ \A a, b \in Byte : a # b => PlaceOf(a) # PlaceOf(b)
       /\ \A b \in Byte : LET p == PlaceOf(b)
                         IN  p[1][2] = None => (p[2] - b) % Align = 0

\* The CSV says of the code what armcc's symbols say of the base: the same functions,
\* the same marks but those at a function's start, no $d shorter than its pool, and
\* neither code nor an object with a size outside the functions.
Mirrors ==
  /\ base # None /\ base.length = Size
  /\ \A i \in DOMAIN csv : Code(csv[i]) /\ ~csv[i].std
  /\ \A k \in DOMAIN marks : marks[k].segment = ".text"
  /\ {[name |-> csv[i].name, start |-> csv[i].addr, end |-> End(csv[i])] : i \in DOMAIN csv}
       = base.functions
  /\ {[addr |-> marks[k].addr, mode |-> marks[k].mode] : k \in DOMAIN marks}
       = {m \in base.marks : \A f \in base.functions : m.addr # f.start}
  /\ \A k \in DOMAIN marks : EndOf(k) = Limit(k)
  /\ \A m \in base.marks :
       /\ m.mode # "$d" => \E f \in base.functions : f.start <= m.addr /\ m.addr < f.end
       /\ \A i \in DOMAIN csv : csv[i].addr = m.addr => csv[i].mode = m.mode
  /\ \A v \in base.sized : \E f \in base.functions : f.start <= v /\ v < f.end

\* Both sides of a function compare: where the CSV describes the code as armcc does,
\* the sections _cut_pools and _route_data make of the binary for a function have the
\* bytes, in the order, of those datasplit makes of the base.
PoolsCompare ==
  pc = "written" /\ Mirrors /\ RowsApart =>
    /\ \A f \in Cut(base) : BytesIn(CodeOf(f.name)) = CodeBytes(base, f)
    /\ \A f \in Pooled(base) : BytesIn(PoolOf(f.name)) = PoolBytes(base, f)

\* A byte no row names is never measured as data because of what is before it: after
\* code it is code, after data it is skipped (after .bss it stays there), and after a
\* label it is code or, between two labels of one pool, the pool's (README.md:68).
\* Left out: where a mapping row is the label, or stands in the gap, the bytes up to
\* the next label are "taken for code, never as more of the pool" (README.md:87), which
\* the code does not do; and a gap where a label ends passes for the label's also if a
\* row without a size is in between.
GapsAreSettled ==
  pc = "written" /\ RowsApart /\ (\A i \in DOMAIN rows : rows[i].addr \in LabelEnds => rows[i].size > 0) =>
    \A b \in Byte :
      LET named  == \E i \in DOMAIN rows : rows[i].addr <= b /\ b < End(rows[i])
          before == {i \in DOMAIN rows : rows[i].addr <= b}
          after  == {i \in DOMAIN rows : b < rows[i].addr /\ rows[i].addr < Size}
          last   == CHOOSE i \in before : \A j \in before \ {i} : Precedes(j, i)
          next   == RowAt(Min({rows[i].addr : i \in after}))
          within == \E f \in Name : {Routed(last), Routed(next)} = {PoolOf(f)}
          marked == \E k \in DOMAIN marks : rows[last].addr <= marks[k].addr /\ marks[k].addr <= b
          disputed == before # {} /\ after # {} /\ within /\ marked
      IN  ~named /\ ~disputed => PlaceOf(b)[1] =
            IF before = {} \/ Code(rows[last]) THEN Plain(".text")
            ELSE IF rows[last].segment = ".bss" THEN Plain(".bss")
            ELSE IF ~IsLabelIn(rows[last]) THEN Skip
            ELSE IF after # {} /\ within THEN Routed(last)
            ELSE Plain(".text")

\* What a function's pool section holds is its own: every byte comes after the function
\* begins, no other code in between, and a library function has none unless the base
\* has it, cut.
PoolIsOfItsFunction ==
  pc = "written" /\ ExtentsApart =>
    \A b \in Byte : PlaceOf(b)[1][1] = ".pool" =>
      \E i \in DOMAIN csv :
        /\ Code(csv[i]) /\ csv[i].addr <= b /\ (csv[i].std => CutInBase(csv[i].name))
        /\ PlaceOf(b)[1] = PoolOf(csv[i].name)
        /\ \A j \in DOMAIN csv : Code(csv[j]) => ~(csv[i].addr < csv[j].addr /\ csv[j].addr <= b)

\* A marker at the start of a row says what the row says.
StartsAgree ==
  \A k \in DOMAIN marks, i \in DOMAIN csv : csv[i].addr = marks[k].addr => csv[i].mode = marks[k].mode

\* A byte of a function is decoded as the CSV says: by the last marker up to it, by
\* the code before a $d that has ended, or by the function's row, also where taking
\* pools out has moved it.
ModeIsKept ==
  pc = "written" /\ RowsApart /\ StartsAgree =>
    \A i \in Extents : \A b \in csv[i].addr..(Least(End(csv[i]), Size) - 1) :
      LET upto == {k \in DOMAIN marks : csv[i].addr <= marks[k].addr /\ marks[k].addr <= b
                                         /\ ~(marks[k].mode = "$d" /\ EndOf(k) <= b)}
      IN  Code(csv[i]) =>
            ModesAt(b) = {IF upto = {} THEN csv[i].mode ELSE marks[Max(upto)].mode}

\* "Return a symbol list covering every byte": each pass leaves the symbols in address
\* order, so no run ends before it starts.
RunsAreInOrder == pc = "written" => \A k \in DOMAIN runs : runs[k].start <= runs[k].end
=============================================================================
