----------------------------- MODULE RelocBase ------------------------------
(***************************************************************************)
(* The base as relocation recovery reads it: 3dsd/reloc.py BaseObject and  *)
(* read_base.                                                              *)
(*                                                                         *)
(* A section is <<".text", "">>, or <<".text", "f">> where it was split    *)
(* off for one object.  Its contents are cells by offset; relocations are  *)
(* by section and offset, and name their symbol by its index in the symbol *)
(* table.  Where nothing is found, an index is 0.                          *)
(***************************************************************************)
EXTENDS RelocCodec, Sequences, FiniteSets

CONSTANT StringCells  \* how many cells a string may be read for

Undefined == <<"", "">>
IsSplit(section) == section[2] # ""

\* Where the symbol's first byte is: bit 0 of a function's value is its Thumb bit.
Start(s) == IF s.kind = "func" THEN AlignDown(s.value, 2) ELSE s.value

AddendOf(base, sec, off) ==
  ImplicitAddend(base.relocs[sec][off].type, base.contents[sec][off])

SymOf(base, sec, off) == base.syms[base.relocs[sec][off].sym]

\* The offset a relocation refers to in its symbol's section.
ReachOf(base, sec, off) ==
  SymOf(base, sec, off).value + AddendOf(base, sec, off)
    + Bias(base.relocs[sec][off].type)

\* Bytes of a section's contents; a section without bits has none.
Length(cells) ==
  IF DOMAIN cells = {} THEN 0
  ELSE LET last == CHOOSE o \in DOMAIN cells : \A p \in DOMAIN cells : p <= o
       IN last + Width(cells[last])

\* The symbols of a section that count, by index, and the named ones with a size.
Ordered(base, sec) ==
  {i \in DOMAIN base.syms : base.syms[i].sec = sec /\ base.syms[i].kind # "section"}
Named(base, sec) ==
  {i \in Ordered(base, sec) : base.syms[i].name # "" /\ base.syms[i].size > 0}

\* The base's definition of `name` in a section.  A section holding a single
\* split object pairs whole, whatever each side calls the object in it.
Twin(base, name, section) ==
  LET named  == {i \in Named(base, section) : base.syms[i].name = name}
      inside == Named(base, section)
  IN CASE named # {} -> CHOOSE i \in named : \A j \in named : i <= j
       [] named = {} /\ IsSplit(section) /\ Cardinality(inside) = 1
            -> CHOOSE i \in inside : TRUE
       [] OTHER -> 0

\* The relocations inside a symbol, by offset from its start.
RelocsIn(base, i) ==
  LET s == base.syms[i]
  IN {o - Start(s) : o \in {o \in DOMAIN base.relocs[s.sec] :
                              Start(s) <= o /\ o < Start(s) + s.size}}

\* The named symbol covering an offset of a section: the last that starts at or
\* before it, if it reaches that far.
NamedAt(base, sec, off) ==
  LET before  == {i \in Named(base, sec) : Start(base.syms[i]) <= off}
      closest == {i \in before : \A j \in before :
                    Start(base.syms[j]) <= Start(base.syms[i])}
      last    == CHOOSE i \in closest : \A j \in closest : j <= i
  IN IF before # {} /\ off < Start(base.syms[last]) + base.syms[last].size THEN last ELSE 0

\* The symbol and addend objdiff shows for a relocation.  A section-relative one
\* is retargeted to the first symbol, by size, at the closest address at or
\* below it that is not a sized symbol ending before it.
ObjdiffView(base, sec, off) ==
  LET sym     == SymOf(base, sec, off)
      target  == sym.value + AddendOf(base, sec, off)
      before  == {i \in Ordered(base, sym.sec) : base.syms[i].value <= target}
      closest == {i \in before : \A j \in before : base.syms[j].value <= base.syms[i].value}
      fits    == {i \in closest : ~(base.syms[i].size > 0
                                    /\ base.syms[i].value + base.syms[i].size <= target)}
      first   == CHOOSE i \in fits : \A j \in fits :
                   \/ base.syms[i].size < base.syms[j].size
                   \/ base.syms[i].size = base.syms[j].size /\ i <= j
  IN CASE sym.kind # "section" -> [name |-> sym.name, addend |-> AddendOf(base, sec, off)]
       [] sym.kind = "section" /\ fits # {}
            -> [name |-> base.syms[first].name, addend |-> target - base.syms[first].value]
       [] OTHER -> [name |-> sym.sec[1], addend |-> AddendOf(base, sec, off)]

\* One past the NUL of the string at an offset, or the offset itself.
StringEnd(base, sec, off) ==
  LET cells == base.contents[sec]
      ends  == {o \in DOMAIN cells : /\ off <= o /\ o < off + 4 * StringCells
                                     /\ cells[o].op = "str"}
  IN IF ends = {} THEN off ELSE (CHOOSE o \in ends : \A p \in ends : o <= p) + 4
=============================================================================
