---------------------------- MODULE MCTargetCut -----------------------------
(* Small instances of TargetCut for TLC. *)
EXTENDS TargetCut

\* Names 1 and 2 are the code's and the labels', 3 and 4 of compiled data, 5 and 6 of
\* data that is not.
MCName == 1..6
MCDecompiled == [n \in MCName |-> IF n \in {3, 4} THEN ".data" ELSE None]

Kind == {"arm", "thumb", "std", "label", "compiled", "data", "bss"}
RowOfKind(kind, i, addr, size) ==
  [name    |-> CASE kind = "compiled" -> i + 2 [] kind = "data" -> i + 4 [] OTHER -> i,
   addr    |-> addr, size |-> size,
   segment |-> CASE kind \in {"compiled", "data"} -> ".rodata" [] kind = "bss" -> ".bss"
                 [] OTHER -> ".text",
   mode    |-> CASE kind \in {"arm", "std"} -> "$a" [] kind = "thumb" -> "$t" [] OTHER -> "$d",
   std     |-> kind = "std"]

\* The i-th rows of a CSV, and the mapping rows, at distinct addresses.
MCRows(i, kinds, addrs, sizes) ==
  {RowOfKind(t[1], i, t[2], t[3]) : t \in kinds \X addrs \X sizes}
MCMarks(kinds, most) ==
  LET At(as, f) == LET ms == Ascending({<<a, f[a][1], f[a][2]>> : a \in as})
                   IN  [k \in DOMAIN ms |-> [addr |-> ms[k][1], mode |-> ms[k][2],
                                             size |-> ms[k][3], segment |-> ".text"]]
  IN  UNION {{At(as, f) : f \in [as -> kinds]} : as \in {s \in SUBSET Byte : Cardinality(s) <= most}}

CSV(c, ms, b) == [csv |-> c, marks |-> ms, decompiled |-> MCDecompiled, base |-> b]

\* A base that cuts function 1, and has the first compiled object in a section of its own.
CuttingBase ==
  [length |-> Size, functions |-> {[name |-> 1, start |-> 0, end |-> 3]}, sized |-> {4},
   marks |-> {[addr |-> 0, mode |-> "$a"], [addr |-> 1, mode |-> "$d"], [addr |-> 2, mode |-> "$a"]},
   objects |-> <<[name |-> 3, segment |-> ".rodata"]>>]

\* Any two rows, overlapping, coincident, empty, past the end, in either order.
TwoRows ==
  {CSV(<<r, s>>, ms, b) :
     r \in MCRows(1, Kind \ {"thumb"}, 0..Size, {0, 1, 3}),
     s \in MCRows(2, {"arm", "label", "data"}, 0..Size, {0, 1, 3}),
     ms \in MCMarks({<<"$d", 0>>}, 1), b \in {None, CuttingBase}}

\* A function with up to three mapping rows in and after it, and a row more.
Marked1 ==
  {CSV(<<r>> \o s, ms, b) :
     r \in MCRows(1, {"arm"}, {0, 1}, {1, 3, 4}),
     s \in {<<>>} \cup {<<t>> : t \in MCRows(2, {"thumb", "std", "label", "compiled"}, 2..Size, {0, 1})},
     ms \in MCMarks({<<"$t", 0>>, <<"$d", 0>>, <<"$d", 1>>}, 3), b \in {None, CuttingBase}}

\* One or two functions with any marks, and the CSV that says the same.
MCBaseMarks ==
  UNION {{{[addr |-> a, mode |-> f[a]] : a \in as} : f \in [as -> {"$a", "$d"}]} : as \in SUBSET Byte}
Described ==
  LET Function(n, r) == [name |-> n, start |-> r[1], end |-> r[2]]
      Bases == {[length |-> Size, functions |-> fs, sized |-> ss, marks |-> ms, objects |-> <<>>] :
                  fs \in {{Function(1, r)} : r \in {<<0, 3>>, <<1, 4>>, <<0, Size>>}} \cup
                         {{Function(1, r), Function(2, q)} :
                            r \in {<<0, 2>>, <<0, 3>>, <<1, 3>>},
                            q \in {<<Size - 2, Size - 1>>, <<Size - 2, Size>>, <<Size - 1, Size>>}},
                  ss \in {{}, {1}}, ms \in MCBaseMarks}
      RowsOf(b) == LET fs == Ascending({<<f.start, f.end, f.name>> : f \in b.functions})
                   IN  [i \in DOMAIN fs |-> RowOfKind("arm", fs[i][3], fs[i][1], fs[i][2] - fs[i][1])]
      MarksOf(b) == LET Apart(m) == \A f \in b.functions : f.start # m.addr
                        ms == Ascending({<<m.addr, m.mode>> : m \in {k \in b.marks : Apart(k)}})
                    IN  [k \in DOMAIN ms |-> [addr |-> ms[k][1], mode |-> ms[k][2], size |-> 0,
                                              segment |-> ".text"]]
  IN  {CSV(RowsOf(b), MarksOf(b), b) : b \in Bases}

MCFamilies == {TwoRows, Marked1, Described}

\* A label in a function whose pool is after it.
MCOverlapping ==
  {{CSV(<<RowOfKind("arm", 1, 0, 4), RowOfKind("arm", 2, 2, 0)>>, ms, CuttingBase) :
      ms \in MCMarks({<<"$d", 0>>, <<"$d", 1>>}, 2)}}
=============================================================================
