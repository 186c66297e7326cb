------------------------------ MODULE MCReloc -------------------------------
(***************************************************************************)
(* Reloc on one function `f`, or one table `w`, and all it refers to: an   *)
(* ARM function g, a Thumb function h, a veneer to each, two words v, a    *)
(* static t, a static Thumb function u, two strings and a bss z.           *)
(*                                                                         *)
(* An item is a place of f that is free: two instructions and two words of *)
(* its pool.  `made` are the items of the source the binary was made from, *)
(* `ours` those of the source the base is compiled from.                   *)
(***************************************************************************)
EXTENDS Reloc, TLC

MCBaseAddr == 1000
MCStringCells == 2

\* As wide as they are: 24, 22, 11 and 8 bits; a word has 20 for 32.
MCSlots == [t \in RelocType |->
  CASE t \in ArmBranches -> 16777216 [] t = "THM_PC22" -> 4194304 [] t = "THM_JUMP11" -> 2048
    [] t = "THM_JUMP8" -> 256 [] OTHER -> 1048576]

Text   == <<".text", "">>
Data   == <<".data", "">>
Rodata == <<".rodata", "">>
C(op, imm) == [op |-> op, imm |-> imm]
Field(t, addend) == (addend \div Unit(t)) % MCSlots[t]

\* Items: the cell, and its relocation as [type, symbol] if it has one.
Ref(op, type, sym, addend) ==
  [cell |-> C(op, Field(type, addend)), type |-> type, sym |-> sym]
Plain_(op, imm) == [cell |-> C(op, imm), type |-> "", sym |-> ""]
Word(sym, addend) == Ref("word", "ABS32", sym, addend)

ArmCode ==
  {Ref("bl", "CALL", "g", -8), Ref("bl", "CALL", "h", -8), Ref("b", "JUMP24", "g", -8),
   Ref("b", "JUMP24", "h", -8), Ref("bne", "JUMP24", "g", -8), Ref("bl", "PC24", "g", -8),
   Ref("bl", "CALL", ".text", 64), Plain_("op", 1), Plain_("b", 0)}
ThumbCode ==
  {Ref("tbl", "THM_PC22", "g", -4), Ref("tbl", "THM_PC22", "h", -4),
   Ref("tb", "THM_JUMP11", "h", -4), Ref("tb", "THM_JUMP11", "g", -4),
   Ref("tbeq", "THM_JUMP8", "h", -4), Plain_("top", 1), Plain_("tb", 0)}
Pool ==
  {Word("v", 0), Word("v", 4), Word("h", 0), Word("z", 0), Word(".data", 8),
   Word(".rodata", 4), Word(".rodata", 8), Word(".text", 73), Plain_("word", 5)}

VItem == {Plain_("word", 4), Word("h", 0), Word("v", 4), Word("z", 0)}

-----------------------------------------------------------------------------
(* Where the five items are: four in f and the second word of v.  f's pool *)
(* is behind its code ("end"), or half of it in the middle, and then whole *)
(* ("mixed") or split off ("split").                                       *)

F == 8     \* f's address

Layout(thumb, shape) ==
  LET split == shape = "split"
      code  == IF split THEN <<".text", "f">> ELSE Text
      pool  == IF split THEN <<".pool", "f">> ELSE Text
      op    == IF thumb THEN "tldr" ELSE "ldr"
      \* at F + at, and where it is in the base once the pools are split off
      On(sec, at, off) == [at |-> F + at, sec |-> sec, off |-> IF split THEN off ELSE at]
      Load(at, off, cell) == On(code, at, off) @@ [cell |-> cell]
      Second == [at |-> 104, sec |-> Data, off |-> 4]
  IN CASE shape = "end" /\ thumb ->
            [items |-> <<On(code, 0, 0), On(code, 4, 4), On(pool, 12, 0), On(pool, 16, 4), Second>>,
             loads |-> {Load(8, 8, C(op, 0)), Load(10, 10, C(op, 1))}, size |-> 20, code |-> 20]
       [] shape = "end" /\ ~thumb ->
            [items |-> <<On(code, 0, 0), On(code, 4, 4), On(pool, 16, 0), On(pool, 20, 4), Second>>,
             loads |-> {Load(8, 8, C(op, 0)), Load(12, 12, C(op, 0))}, size |-> 24, code |-> 24]
       [] OTHER ->
            [items |-> <<On(code, 0, 0), On(code, 12, 8), On(pool, 8, 0), On(pool, 20, 4), Second>>,
             loads |-> {Load(4, 4, C(op, IF thumb THEN 0 ELSE -4)),
                        Load(16, 12, C(op, IF thumb THEN 0 ELSE -4))}
                       \cup IF thumb THEN {Load(6, 6, C("top", 0)), Load(18, 14, C("top", 0))} ELSE {},
             size |-> 24, code |-> IF split THEN 16 ELSE 24]

\* The cells of a layout with its items filled in; a halfword is followed by another.
Placed(lay, items) ==
  LET At(n, by, cell) == [at |-> lay.items[n].at + by, sec |-> lay.items[n].sec,
                          off |-> lay.items[n].off + by, cell |-> cell]
  IN lay.loads
       \cup {At(n, 0, items[n].cell) : n \in 1..5}
       \cup {At(n, 2, C("top", 0)) : n \in {n \in 1..5 : Width(items[n].cell) = 2}}

-----------------------------------------------------------------------------
(* The base.                                                               *)

BSym(name, value, size, kind, sec) ==
  [name |-> name, value |-> value, size |-> size, kind |-> kind, sec |-> sec]

Sections(shape) ==
  {Text, Data, Rodata, Undefined} \cup (IF shape = "split" THEN {<<".text", "f">>, <<".pool", "f">>} ELSE {})

\* `named`: t has a symbol, as at -O0.
Syms(thumb, shape, named) ==
  LET lay == Layout(thumb, shape)
  IN <<BSym("", 0, 0, "section", Text), BSym("", 0, 0, "section", Data),
       BSym("", 0, 0, "section", Rodata),
       BSym("f", IF thumb THEN 1 ELSE 0, lay.code, "func", lay.items[1].sec),
       BSym("h", 65, 8, "func", Text), BSym("u", 73, 4, "func", Text), BSym("g", 0, 0, "none", Undefined),
       BSym("z", 0, 0, "none", Undefined), BSym("$d", 0, 0, "none", Data),
       BSym("v", 0, 8, "object", Data)>>
     \o (IF shape = "split" THEN <<BSym("f", 0, 8, "object", <<".pool", "f">>)>> ELSE <<>>)
     \o (IF named THEN <<BSym("t", 8, 4, "object", Data)>> ELSE <<>>)

Index(syms, name) ==
  CASE name = ".text"   -> 1
    [] name = ".data"   -> 2
    [] name = ".rodata" -> 3
    [] OTHER -> CHOOSE i \in DOMAIN syms :
                  syms[i].name = name /\ \A j \in DOMAIN syms : syms[j].name = name => i <= j

Fixed == {[sec |-> Text, off |-> o, cell |-> C("top", 9)] : o \in {64, 66, 68, 70, 72, 74}}
           \cup {[sec |-> Data, off |-> 0, cell |-> C("word", 3)],
                 [sec |-> Data, off |-> 8, cell |-> C("word", 7)],
                 [sec |-> Rodata, off |-> 0, cell |-> C("word", 2)],
                 [sec |-> Rodata, off |-> 4, cell |-> C("str", 1)],
                 [sec |-> Rodata, off |-> 8, cell |-> C("str", 2)]}

Base(thumb, shape, named, items) ==
  LET lay    == Layout(thumb, shape)
      syms   == Syms(thumb, shape, named)
      cells  == Fixed \cup {[sec |-> p.sec, off |-> p.off, cell |-> p.cell] : p \in Placed(lay, items)}
      rel(s) == {n \in 1..5 : items[n].type # "" /\ lay.items[n].sec = s}
  IN [syms     |-> syms,
      contents |-> [s \in Sections(shape) |->
                      [o \in {c.off : c \in {c \in cells : c.sec = s}} |->
                         (CHOOSE c \in cells : c.sec = s /\ c.off = o).cell]],
      relocs   |-> [s \in Sections(shape) |->
                      [o \in {lay.items[n].off : n \in rel(s)} |->
                         LET n == CHOOSE n \in rel(s) : lay.items[n].off = o
                         IN [type |-> items[n].type, sym |-> Index(syms, items[n].sym)]]]]

-----------------------------------------------------------------------------
(* The binary.                                                             *)

Link(thumb) ==
  [at     |-> [f |-> F, g |-> 64, h |-> 72, v |-> 100, t |-> 108, z |-> 200],
   homes  |-> {[sec |-> Text, start |-> 64, size |-> 8, addr |-> 72],
               [sec |-> Text, start |-> 72, size |-> 4, addr |-> 116],
               [sec |-> Data, start |-> 0, size |-> 8, addr |-> 100],
               [sec |-> Data, start |-> 8, size |-> 4, addr |-> 108],
               [sec |-> Rodata, start |-> 4, size |-> 4, addr |-> 112],
               [sec |-> Rodata, start |-> 8, size |-> 4, addr |-> 120]},
   thumb  |-> (72..79) \cup (116..119) \cup (IF thumb THEN F..60 ELSE {}),
   veneer |-> (72 :> 80) @@ (64 :> 88)]

Around ==
  [a \in {64, 68} |-> C("op", 9)] @@ [a \in {72, 74, 76, 78, 116, 118} |-> C("top", 9)]
    @@ (80 :> C("ldrpc", 0)) @@ (84 :> C("word", MCBaseAddr + 73))
    @@ (88 :> C("bxpc", 0)) @@ (92 :> C("b", (-36 \div 4) % MCSlots["JUMP24"]))
    @@ (96 :> C("op", 0)) @@ (100 :> C("word", 3)) @@ (108 :> C("word", 7))
    @@ (112 :> C("str", 1)) @@ (120 :> C("str", 2))

\* The binary of a source, its f behind `shift` bytes of other code.
Binary(thumb, shape, named, items, shift) ==
  LET lay    == Layout(thumb, shape)
      placed == Placed(lay, items)
      object == Base(thumb, shape, named, items)
      To(p)  == IF p.at < 64 THEN p.at + shift ELSE p.at
      Made(p) == IF p.off \in DOMAIN object.relocs[p.sec]
                 THEN Linked(Link(thumb), object, p.sec, p.off, To(p)) ELSE p.cell
      first  == IF shift = 0 THEN {} ELSE IF thumb THEN {F, F + 2} ELSE {F}
  IN [a \in {To(p) : p \in placed} |-> Made(CHOOSE p \in placed : To(p) = a)]
       @@ [a \in first |-> C(IF thumb THEN "top" ELSE "op", 3)] @@ Around

Sym(name, addr, size, mode, seg) ==
  [name |-> name, addr |-> addr, size |-> size, mode |-> mode, segment |-> seg,
   std |-> name = "g", pad |-> name = "pad_96"]

\* The CSV's symbols in address order, and the target's: f in its pieces if split.
\* Where the CSV lacks g, what it has there starts at half an instruction.
Csv(thumb, size, absent) ==
  SelectSeq(<<Sym("f", F, size, IF thumb THEN "$t" ELSE "$a", Text),
              Sym("early", 62, 18, "$a", Text), Sym("g", 64, 8, "$a", Text),
              Sym("h", 72, 8, "$t", Text), Sym("veneer_h", 80, 8, "$a", Text),
              Sym("veneer_g", 88, 8, "$t", Text), Sym("pad_96", 96, 4, "$d", Text),
              Sym("v", 100, 8, "$d", Data), Sym("v_label", 100, 0, "$d", Data),
              Sym("t", 108, 4, "$d", Data), Sym("t_label", 108, 0, "$d", Data),
              Sym("u", 116, 4, "$t", Text), Sym("z", 200, 4, "$d", <<".bss", "">>)>>,
            LAMBDA s : s.name \notin absent)

Target(thumb, shape, size) ==
  LET mode == IF thumb THEN "$t" ELSE "$a"
      f    == IF shape # "split" THEN <<Sym("f", F, size, mode, Text)>>
              ELSE <<Sym("f", F, 8, mode, <<".text", "f">>),
                     Sym("f_pool", F + 8, 4, "$d", <<".pool", "f">>),
                     Sym("", F + 12, 8, mode, <<".text", "f">>),
                     Sym("", F + 20, 4, "$d", <<".pool", "f">>)>>
  IN f \o <<Sym("g", 64, 8, "$a", Text), Sym("pad_96", 96, 4, "$d", Text),
            Sym("v", 100, 8, "$d", Data)>>

Input(thumb, shape, named, made, ours, shift, pointers, absent, marked) ==
  LET size == Layout(thumb, shape).size + shift
  IN [orig |-> Binary(thumb, shape, named, made, shift), size |-> 124,
      csv |-> Csv(thumb, size, absent), syms |-> Target(thumb, shape, size),
      base |-> Base(thumb, shape, named, ours), pointers |-> pointers,
      marked |-> marked, link |-> Link(thumb), shift |-> shift]

\* The same with a table w of two pointers, split off: one to a piece, or with the
\* second across two.
WithTable(given, word, straddles) ==
  LET sec   == <<".rodata", "w">>
      first == IF straddles THEN 6 ELSE 4
      value == Ref("word", "ABS32", word, 0).cell
      parts == <<[Sym("w", 128, first, "$d", sec) EXCEPT !.std = FALSE],
                 Sym("", 136, 8 - first, "$d", sec)>>
      to    == C("word", MCBaseAddr + given.link.at[word] + (IF word = "h" THEN 1 ELSE 0))
      n     == Index(given.base.syms, word)
  IN [given EXCEPT
        !.size = 140,
        !.orig = @ @@ (128 :> to)
                   @@ (IF straddles THEN (132 :> C("top", 1)) @@ (136 :> C("top", 2)) ELSE 136 :> to),
        !.csv  = SubSeq(@, 1, Len(@) - 1) \o <<Sym("w", 128, 12, "$d", Rodata)>> \o SubSeq(@, Len(@), Len(@)),
        !.syms = @ \o parts,
        !.base.syms = @ \o <<BSym("w", 0, 8, "object", sec)>>,
        !.base.contents = @ @@ (sec :> (0 :> value @@ 4 :> value)),
        !.base.relocs = @ @@ (sec :> [o \in {0, 4} |-> [type |-> "ABS32", sym |-> n]])]

-----------------------------------------------------------------------------
Instrs(thumb) == IF thumb THEN ThumbCode ELSE ArmCode
CallG(thumb)  == IF thumb THEN Ref("tbl", "THM_PC22", "g", -4) ELSE Ref("bl", "CALL", "g", -8)
Number == Plain_("word", 4)

\* The binary was made from the same source: whatever it calls and points at, in
\* one piece or split, and alone or behind other code.
Same(thumb) ==
  {{Input(thumb, shape, FALSE, <<a, b, p, q, Number>>, <<a, b, p, q, Number>>, shift, TRUE, {}, {}) :
      b \in Instrs(thumb), q \in {Word("v", 0), Word(".data", 8)}} :
     shape \in {"end", "mixed"}, shift \in {0, 4}, a \in Instrs(thumb), p \in Pool}
  \cup
  {{Input(thumb, "split", FALSE, <<a, b, p, q, Number>>, <<a, b, p, q, Number>>, 0, TRUE, {}, {}) :
      b \in Instrs(thumb), q \in {Word("v", 0), Word(".data", 8)}} :
     a \in Instrs(thumb), p \in Pool}

\* It was made from another: an instruction and a word of the pool may differ.
Other(thumb) ==
  {{Input(thumb, shape, FALSE, <<a, CallG(thumb), p, Word("v", 0), Number>>,
          <<x, CallG(thumb), y, Word("v", 0), Number>>, 0, TRUE, {}, {}) :
      p \in {Word(".data", 8), Word(".rodata", 4)}, y \in Pool} :
     shape \in {"end", "split"}, a \in Instrs(thumb), x \in Instrs(thumb)}

\* The CSV lacks names, or marks the pools; words are no addresses.
Given(thumb) ==
  {{Input(thumb, "end", named, <<CallG(thumb), a, p, Word("v", 0), Word("v", 4)>>,
          <<CallG(thumb), a, p, Word("v", 0), Word("v", 4)>>, shift, pointers, absent, marked) :
      a \in Instrs(thumb), p \in Pool} :
     named \in BOOLEAN, shift \in {0, 4}, pointers \in BOOLEAN, marked \in {{}, {"f"}},
     absent \in {{}, {"g", "t"}, {"h", "v", "v_label"}}}

\* A word of v points, and the table is there.
Tables(thumb) ==
  {{WithTable(Input(thumb, shape, FALSE, <<CallG(thumb), CallG(thumb), p, p, w>>,
                    <<CallG(thumb), CallG(thumb), p, p, w>>, 0, TRUE, {}, {}), word, straddles) :
      p \in Pool, w \in VItem, word \in {"h", "v", "z"}, straddles \in BOOLEAN} :
     shape \in {"end", "split"}}

\* Where the source calls g the binary branches to it, before another branch.
MCHiddenFamilies ==
  {{Input(FALSE, "end", FALSE, <<a, Ref("b", "JUMP24", "g", -8), p, p, Number>>,
          <<Ref("bl", "CALL", "g", -8), Ref("b", "JUMP24", "g", -8), p, p, Number>>,
          0, TRUE, {}, {}) :
      a \in ArmCode, p \in Pool}}

MCFamilies ==
  UNION {Same(thumb) \cup Other(thumb) \cup Given(thumb) \cup Tables(thumb) : thumb \in BOOLEAN}
=============================================================================
