------------------------------- MODULE Reloc --------------------------------
(***************************************************************************)
(* Relocations for the objdiff target, recovered with the base as a guide: *)
(* 3dsd/reloc.py RelocRecovery.                                            *)
(*                                                                         *)
(* The target is cut from a linked binary, where calls and pointers hold   *)
(* addresses; the base is not linked.  `run` goes over the symbols that    *)
(* have a twin in the base, finds the places that may need a relocation,   *)
(* names what each reaches after the CSV or after the twin's own           *)
(* relocations, and rewrites the bytes as the compiler left them.          *)
(*                                                                         *)
(* Addresses are relative to the binary.  A symbol of the CSV, by name,    *)
(* `std` and `pad`, and of the target is                                   *)
(*   [name, addr, size, mode, segment, std, pad].                          *)
(***************************************************************************)
EXTENDS ArmLink, FiniteSetsExt

CONSTANT Families      \* sets of inputs

VARIABLES
  in,          \* [orig, size, csv, syms, base, pointers, marked], with the link that
               \* made it: what RelocRecovery is given
  pc,          \* "next" symbol, "scan" of one, or "done"
  todo,        \* the symbols and split sections `run` has not come to
  job,         \* the one it is on
  cands,       \* its candidates still to come
  unused,      \* the twin's relocations no candidate was given yet
  data,        \* the patched copy of the binary
  relocs,      \* the relocations recovered, by address
  unresolved,  \* how many places reach nothing the CSV names
  mapping      \* {<<addr, mode>>}: mapping symbols of the pools found

vars == <<in, pc, todo, job, cands, unused, data, relocs, unresolved, mapping>>

base == in.base
csv  == in.csv
CellAt(a)  == IF a \in DOMAIN in.orig THEN in.orig[a] ELSE [op |-> "none", imm |-> 0]
Value(a)   == CellAt(a).imm - BaseAddr        \* a word, as the address it may be
Larger(m, n) == IF m > n THEN m ELSE n

-----------------------------------------------------------------------------
(* The CSV, by address.                                                    *)

\* The symbol at the closest address whose extent covers `off`, if there is one: a
\* sized one wins over a label, the last of two alike.
Containing(off) ==
  LET below   == {i \in DOMAIN csv : csv[i].addr <= off}
      nearest == {i \in below : \A j \in below : csv[j].addr <= csv[i].addr}
      covers  == {i \in nearest : off < csv[i].addr + Larger(csv[i].size, 1)}
  IN {i \in covers : \A j \in covers :
        csv[j].size < csv[i].size \/ (csv[j].size = csv[i].size /\ j <= i)}

IsThumbFunction(s) == s.mode = "$t" /\ s.segment = <<".text", "">>

\* The CSV is in address order, and one name stands for its last symbol.
CsvNamed(name) ==
  {i \in DOMAIN csv : csv[i].name = name /\ \A j \in DOMAIN csv : csv[j].name = name => j <= i}

\* (variant) The Thumb bit is counted in the addend.
Addend_Even(s, reach, type) == reach - s.addr - Bias(type)

\* The addend that reaches `reach` from a symbol that covers it.
Addend(s, reach, type) ==
  LET bit == IF type = "ABS32" /\ reach % 2 = 1 /\ IsThumbFunction(s) THEN 1 ELSE 0
  IN reach - s.addr - bit - Bias(type)

Covers(s, reach, type) ==
  LET at == IF type = "ABS32" /\ IsThumbFunction(s) THEN AlignDown(reach, 2) ELSE reach
  IN s.addr <= at /\ at < s.addr + Larger(s.size, 1)

\* A pointer to Thumb code: odd, and the byte before it is in a Thumb function.
IsThumbCode(reach) ==
  reach % 2 = 1 /\ \E i \in Containing(reach - 1) : IsThumbFunction(csv[i])

\* The nearest CSV symbol a reference reaches, if there is one.
Resolved(reach, type) ==
  IF type = "ABS32" /\ IsThumbCode(reach) THEN Containing(reach - 1) ELSE Containing(reach)

\* (variant) Veneers are not followed.
ThroughVeneer_Not(reach) == reach

\* Where a branch really goes, if it lands on a linker veneer: two hops at most.
ThroughVeneer(reach) ==
  LET Hop(r) ==
        CASE ~(0 <= r /\ r <= in.size - 8)  -> r
          [] CellAt(r).op = "ldrpc"         -> AlignDown(Value(r + 4), 2)
          [] CellAt(r).op = "bxpc" /\ CellAt(r + 4).op = "b"
               -> r + 4 + 8 + ImplicitAddend("JUMP24", CellAt(r + 4))
          [] OTHER -> r
  IN Hop(Hop(reach))

-----------------------------------------------------------------------------
(* The masked search over one function.                                    *)

ArmPools(start, end) ==
  {a \in {o + 8 + CellAt(o).imm : o \in {o \in start..(end - 4) :
                                           (o - start) % 4 = 0 /\ CellAt(o).op = "ldr"}} :
     start <= a /\ a <= end - 4 /\ a % 4 = 0}

ThumbPools(start, end) ==
  {a \in {AlignDown(o + 4, 4) + 4 * CellAt(o).imm :
            o \in {o \in start..(end - 2) : (o - start) % 2 = 0 /\ CellAt(o).op = "tldr"}} :
     start <= a /\ a <= end - 4}

\* The branches by their opcode bits: where one goes, and the types it may have.
Branch(off) ==
  LET c == CellAt(off)
      Arm(t) == [first |-> t, other |-> "PC24",
                 reach |-> off + 8 + ImplicitAddend("PC24", c) + (IF c.op = "blxh" THEN 2 ELSE 0)]
      Thumb(t, from) == [first |-> t, other |-> t, reach |-> from + ImplicitAddend(t, c)]
  IN CASE c.op \in {"bl", "blx", "blxh"} -> Arm("CALL")
       [] c.op \in {"b", "bne"} -> Arm("JUMP24")
       [] c.op = "tbl"  -> Thumb("THM_PC22", off + 4)
       [] c.op = "tblx" -> Thumb("THM_PC22", AlignDown(off + 4, 4))
       [] c.op = "tb"   -> Thumb("THM_JUMP11", off + 4)
       [] c.op = "tbeq" -> Thumb("THM_JUMP8", off + 4)
       [] OTHER         -> [first |-> "none", other |-> "none", reach |-> off]

\* The type a branch has here: the first of its own that the twin uses.
Pick(branch, types) ==
  IF branch.first \in types THEN {branch.first} ELSE {branch.other} \cap types

\* The candidates at the places the search looks at: pool words, and branches out
\* of the function.
Scan(places, start, end, types, pools) ==
  LET Leaves(a) == ~(start <= Branch(a).reach /\ Branch(a).reach < end)
      words     == IF "ABS32" \in types THEN places \cap pools ELSE {}
      branches  == {a \in places \ pools : Leaves(a) /\ a + Width(CellAt(a)) <= end}
  IN {[off |-> a, type |-> "ABS32", reach |-> Value(a)] : a \in words}
       \cup UNION {{[off |-> a, type |-> t, reach |-> Branch(a).reach] :
                      t \in Pick(Branch(a), types)} : a \in branches}

\* An ARM function is looked at word by word.  A Thumb function is walked: past a
\* pool word and past both halves of a bl, and by halfwords otherwise.
ArmPlaces(start, end) == {a \in start..(end - 4) : (a - start) % 4 = 0}
ThumbPlaces(start, end, pools) ==
  LET walked[a \in Int] ==
        IF a >= end - 1 THEN {}
        ELSE {a} \cup walked[IF a \in pools \/ (CellAt(a).op \in {"tbl", "tblx"} /\ a + 4 <= end)
                             THEN a + 4 ELSE a + 2]
  IN walked[start]

-----------------------------------------------------------------------------
(* `run`: what is looked at.                                               *)

Parts(segment) == {i \in DOMAIN in.syms : in.syms[i].segment = segment}

\* The pieces of a split section, laid end to end as the base has them.
Pieces(segment) ==
  {[addr |-> in.syms[i].addr, size |-> in.syms[i].size,
    base |-> MapThenSumSet(LAMBDA j : in.syms[j].size,
               {j \in Parts(segment) : in.syms[j].addr < in.syms[i].addr})] :
     i \in Parts(segment)}

ToCompact(pieces, addr) ==
  LET on == {p \in pieces : p.addr <= addr /\ addr < p.addr + p.size}
  IN IF on = {} THEN -1 ELSE LET p == CHOOSE p \in on : TRUE IN p.base + addr - p.addr

ToOrig(pieces, off) ==
  LET on == {p \in pieces : p.base <= off /\ off < p.base + p.size}
  IN IF on = {} THEN -1 ELSE LET p == CHOOSE p \in on : TRUE IN p.addr + off - p.base

Whole(i) == ~IsSplit(in.syms[i].segment)

\* The symbols, and of a split section its first part.
Units == {i \in DOMAIN in.syms : Whole(i) \/ \A j \in Parts(in.syms[i].segment) : i <= j}

\* The symbols in their order, then the split sections in that of their first part.
Due(i) ==
  /\ i \in todo
  /\ \A j \in todo : IF Whole(i) = Whole(j) THEN i <= j ELSE Whole(i)

\* The symbol a split section is looked up by: its first named part.
NamedPart(i) ==
  LET parts == Parts(in.syms[i].segment)
      named == {j \in parts : in.syms[j].name # "" /\ ~in.syms[j].pad}
  IN IF Whole(i) THEN i
     ELSE IF named # {} THEN CHOOSE j \in named : \A k \in named : j <= k ELSE i

TwinOf(i) == Twin(base, in.syms[NamedPart(i)].name, in.syms[i].segment)

PassedBy(i) ==
  \/ Whole(i) /\ (in.syms[i].std \/ in.syms[i].pad)
  \/ TwinOf(i) = 0

-----------------------------------------------------------------------------
(* One symbol or split section.                                            *)

RelocAt(key)  == base.relocs[job.sec][job.from + key]
OffsetOf(key) == job.from + key
SameBytes(key, off) ==
  /\ OffsetOf(key) \in DOMAIN base.contents[job.sec]
  /\ base.contents[job.sec][OffsetOf(key)] = CellAt(off)

\* The words a twin keeps without a relocation: its constants.
Plain(key) == base.contents[job.sec][OffsetOf(key)]
PlainWords ==
  {Plain(k) : k \in {k \in 0..(job.size - 4) :
                       /\ k % 4 = 0 /\ k \notin job.twin
                       /\ OffsetOf(k) \in DOMAIN base.contents[job.sec]}}

JobOf(i, code, pieces) ==
  LET twin == base.syms[TwinOf(i)]
  IN [code |-> code, sec |-> twin.sec, from |-> Start(twin), size |-> twin.size,
      pieces |-> pieces, twin |-> RelocsIn(base, TwinOf(i)), addr |-> in.syms[NamedPart(i)].addr]

\* The offset in the twin of a place in the target, or -1.
KeyOf(off) ==
  IF job.pieces = {} THEN off - job.addr ELSE ToCompact(job.pieces, off)

\* (variant) Nothing is marked behind a pool.
PoolMapping_Before(pools, end, mode) == {<<a, "$d">> : a \in {a \in pools : a - 4 \notin pools}}

PoolMapping(pools, end, mode) ==
  {<<a, "$d">> : a \in {a \in pools : a - 4 \notin pools}}
    \cup {<<a + 4, mode>> : a \in {a \in pools : a + 4 \notin pools /\ a + 4 < end}}

\* A function: candidates by a masked search over its extent.  Where its pools
\* were cut out, they are what lies between its pieces, and are left alone.
TakeFunction(i) ==
  LET s      == in.syms[NamedPart(i)]
      whole  == Whole(i)
      pieces == IF whole THEN {} ELSE Pieces(s.segment)
      start  == IF whole THEN s.addr ELSE Min({p.addr : p \in pieces})
      end    == IF whole THEN s.addr + s.size ELSE Max({p.addr + p.size : p \in pieces})
      pools  == CASE whole /\ s.mode = "$t" -> ThumbPools(start, end)
                  [] whole /\ s.mode # "$t" -> ArmPools(start, end)
                  [] OTHER -> {a \in ArmPlaces(start, end) : ToCompact(pieces, a) = -1}
      places == IF s.mode = "$t" THEN ThumbPlaces(start, end, pools) ELSE ArmPlaces(start, end)
      twin   == base.syms[TwinOf(i)]
      types  == {base.relocs[twin.sec][Start(twin) + k].type : k \in RelocsIn(base, TwinOf(i))}
                  \ (IF whole THEN {} ELSE {"ABS32"})
  IN /\ pc = "next" /\ Due(i) /\ ~PassedBy(i)
     /\ s.segment[1] = ".text"
     /\ pc' = "scan" /\ todo' = todo \ {i}
     /\ job' = JobOf(i, TRUE, pieces)
     /\ cands' = Scan(places, start, end, types, pools)
     /\ unused' = RelocsIn(base, TwinOf(i))
     /\ mapping' = IF whole /\ s.name \notin in.marked
                   THEN mapping \cup PoolMapping(pools, end, s.mode) ELSE mapping
     /\ UNCHANGED <<in, data, relocs, unresolved>>

\* A data object: pointers at the offsets the twin has them, unless the word
\* straddles two pieces.
TakeData(i) ==
  LET s      == in.syms[NamedPart(i)]
      pieces == IF IsSplit(s.segment) THEN Pieces(s.segment) ELSE {}
      twin   == base.syms[TwinOf(i)]
      At(k)  == IF pieces # {} THEN ToOrig(pieces, k)
                ELSE IF k + 4 <= s.size THEN s.addr + k ELSE -1
      kept   == {k \in RelocsIn(base, TwinOf(i)) :
                   /\ base.relocs[twin.sec][Start(twin) + k].type = "ABS32"
                   /\ At(k) # -1
                   /\ pieces # {} => ToOrig(pieces, k + 3) = At(k) + 3}
  IN /\ pc = "next" /\ Due(i) /\ ~PassedBy(i)
     /\ s.segment[1] # ".text"
     /\ pc' = "scan" /\ todo' = todo \ {i}
     /\ job' = JobOf(i, FALSE, pieces)
     /\ cands' = {[off |-> At(k), type |-> "ABS32", reach |-> Value(At(k))] : k \in kept}
     /\ unused' = {}
     /\ UNCHANGED <<in, data, relocs, unresolved, mapping>>

\* A library function, padding, or what the base does not define.
PassBy(i) ==
  /\ pc = "next" /\ Due(i) /\ PassedBy(i)
  /\ todo' = todo \ {i}
  /\ UNCHANGED <<in, pc, job, cands, unused, data, relocs, unresolved, mapping>>

TakeNext ==
  /\ pc = "scan" /\ cands = {}
  /\ pc' = "next"
  /\ UNCHANGED <<in, todo, job, cands, unused, data, relocs, unresolved, mapping>>

Finish ==
  /\ pc = "next" /\ todo = {}
  /\ pc' = "done"
  /\ UNCHANGED <<in, todo, job, cands, unused, data, relocs, unresolved, mapping>>

-----------------------------------------------------------------------------
(* One candidate.                                                          *)

Key(c)  == KeyOf(c.off)

\* The twin's relocation at the same place, if it fits the instruction.
HasPartner(c) == Key(c) \in job.twin /\ SameClass(RelocAt(Key(c)).type, c.type)
Type(c)       == IF HasPartner(c) THEN RelocAt(Key(c)).type ELSE c.type

\* Outside the pieces; bytes that already match; a constant of the twin's; and
\* where words are not addresses at all, every word.
Passed(c) ==
  \/ job.code /\ Key(c) = -1
  \/ job.code /\ ~HasPartner(c) /\ SameBytes(Key(c), c.off)
  \/ job.code /\ ~HasPartner(c) /\ c.type = "ABS32" /\ CellAt(c.off) \in PlainWords
  \/ Type(c) = "ABS32" /\ ~in.pointers

\* (variant) Only the relocation at the same place is looked at.
Options_Partner(c) ==
  {k \in (IF HasPartner(c) THEN {Key(c)} ELSE {}) : SameClass(RelocAt(k).type, Type(c))}

\* The relocations of the twin a candidate may be one of, and their order: its
\* partner first, then those no one was given yet.
Options(c) ==
  {k \in (IF HasPartner(c) THEN {Key(c)} ELSE {}) \cup unused : SameClass(RelocAt(k).type, Type(c))}
Foremost(c, options) ==
  {k \in options : \A j \in options : IF HasPartner(c) /\ Key(c) \in options THEN k = Key(c)
                                      ELSE k <= j}

\* What a Python slice of the binary from `reach` to `reach + size` begins at, if
\* it has all of these bytes: a negative address counts from the end.
Slice(reach, size) ==
  LET Index(x) == IF x < 0 THEN Larger(in.size + x, 0) ELSE x
  IN IF Index(reach + size) <= in.size /\ Index(reach + size) - Index(reach) = size
     THEN {Index(reach)} ELSE {}

\* (variant) Only that the bytes are there is asked.
BytesAgree_There(sec, off, reach, size) ==
  off + size <= Length(base.contents[sec]) /\ Slice(reach, size) # {}

\* Whether the base's bytes and the original's match, pointers aside.
BytesAgree(sec, off, reach, size) ==
  /\ off + size <= Length(base.contents[sec])
  /\ \E from \in Slice(reach, size) :
       \A o \in {o \in DOMAIN base.contents[sec] : off <= o /\ o < off + size} :
         \/ o \in DOMAIN base.relocs[sec]
         \/ base.contents[sec][o] = CellAt(from + o - off)

\* Whether a section-relative reference of the twin and the target's point at the
\* same thing: the same name at the same offset if the base names it, the same
\* bytes otherwise, to the end of the CSV's symbol or of a string.
SameReferent(k, to) ==
  LET rel    == RelocAt(k)
      sec    == SymOf(base, job.sec, OffsetOf(k)).sec
      odd    == rel.type = "ABS32" /\ IsThumbCode(to)
      reach  == IF odd THEN to - 1 ELSE to
      offset == ReachOf(base, job.sec, OffsetOf(k))
      off    == IF odd THEN AlignDown(offset, 2) ELSE offset
      there  == Containing(reach)
      named  == NamedAt(base, sec, off)
  IN CASE named # 0 ->
            \E i \in there : /\ csv[i].name = base.syms[named].name
                             /\ reach - csv[i].addr = off - Start(base.syms[named])
       [] named = 0 /\ ~(off \in 0..(Length(base.contents[sec]) - 1) /\ reach < in.size) -> FALSE
       [] named = 0 /\ (\E i \in there : ~csv[i].pad) ->
            \E i \in there :
              /\ csv[i].addr + csv[i].size > reach
              /\ BytesAgree(sec, off, reach, csv[i].addr + csv[i].size - reach)
       [] OTHER ->
            /\ StringEnd(base, sec, off) > off
            /\ BytesAgree(sec, off, reach, StringEnd(base, sec, off) - off)

BySection(c) ==
  {k \in Options(c) : /\ SymOf(base, job.sec, OffsetOf(k)).kind = "section"
                      /\ SameReferent(k, c.reach)}

Reach(c) == IF Type(c) = "ABS32" THEN c.reach ELSE ThroughVeneer(c.reach)

\* One address has as many names as the CSV gives the symbols around it; the
\* twin's own is taken where it reaches the same byte with the same addend.
ByName(c) ==
  {k \in Options(c) :
     /\ SymOf(base, job.sec, OffsetOf(k)).kind # "section"
     /\ \E i \in CsvNamed(SymOf(base, job.sec, OffsetOf(k)).name) :
          /\ Covers(csv[i], Reach(c), Type(c))
          /\ Addend(csv[i], Reach(c), Type(c)) = AddendOf(base, job.sec, OffsetOf(k))}

\* The candidate whose turn it is.
Trying(c) == pc = "scan" /\ c \in cands /\ \A d \in cands : c.off <= d.off

DataAt(a) == IF a \in DOMAIN data THEN data[a] ELSE CellAt(a)

Add(c, type, name, addend, how) ==
  /\ data' = [a \in DOMAIN data \cup {c.off} |->
               IF a = c.off THEN Encode(type, DataAt(a), addend) ELSE data[a]]
  /\ relocs' = [a \in DOMAIN relocs \cup {c.off} |->
                 IF a = c.off THEN [type |-> type, name |-> name, how |-> how] ELSE relocs[a]]
  /\ cands' = cands \ {c}
  /\ UNCHANGED <<in, pc, todo, job, unresolved, mapping>>

Pass(c) ==
  /\ Trying(c) /\ Passed(c)
  /\ cands' = cands \ {c}
  /\ UNCHANGED <<in, pc, todo, job, unused, data, relocs, unresolved, mapping>>

EmitBySection(c) ==
  /\ Trying(c) /\ ~Passed(c)
  /\ \E k \in Foremost(c, BySection(c)) :
       LET view == ObjdiffView(base, job.sec, OffsetOf(k))
       IN /\ Add(c, RelocAt(k).type, view.name, view.addend, "section")
          /\ unused' = unused \ {k}

EmitByName(c) ==
  /\ Trying(c) /\ ~Passed(c) /\ BySection(c) = {}
  /\ \E k \in Foremost(c, ByName(c)) :
       /\ Add(c, Type(c), SymOf(base, job.sec, OffsetOf(k)).name,
              AddendOf(base, job.sec, OffsetOf(k)), "name")
       /\ unused' = unused \ {k}

EmitNearest(c) ==
  /\ Trying(c) /\ ~Passed(c) /\ BySection(c) = {} /\ ByName(c) = {}
  /\ \E i \in Resolved(Reach(c), Type(c)) :
       Add(c, Type(c), csv[i].name, Addend(csv[i], Reach(c), Type(c)), "nearest")
  /\ UNCHANGED unused

Unresolved(c) ==
  /\ Trying(c) /\ ~Passed(c) /\ BySection(c) = {} /\ ByName(c) = {}
  /\ Resolved(Reach(c), Type(c)) = {}
  /\ unresolved' = unresolved + 1
  /\ cands' = cands \ {c}
  /\ UNCHANGED <<in, pc, todo, job, unused, data, relocs, mapping>>

-----------------------------------------------------------------------------
\* What is read of a base, a binary and a CSV: every relocation is of a known type
\* and on bytes the section has, as _read_relocs keeps them.
Readable ==
  /\ \A a \in DOMAIN in.orig : a \in Int /\ in.orig[a] \in Cell
  /\ \A i \in DOMAIN csv : csv[i].addr \in Nat /\ csv[i].size \in Nat
  /\ \A i \in DOMAIN base.syms :
       /\ i \in Nat \ {0} /\ base.syms[i].value \in Nat /\ base.syms[i].size \in Nat
       /\ base.syms[i].sec \in DOMAIN base.relocs
  /\ \A s \in DOMAIN base.relocs : \A o \in DOMAIN base.relocs[s] :
       /\ o \in Nat /\ o \in DOMAIN base.contents[s] /\ base.contents[s][o] \in Cell
       /\ base.relocs[s][o].type \in RelocType /\ base.relocs[s][o].sym \in DOMAIN base.syms

\* Where a branch or a pointer of the binary goes: veneers are followed.
Goes(a, type) == IF type = "ABS32" THEN Value(a) ELSE ThroughVeneer(Branch(a).reach)

Init ==
  /\ \E family \in Families : in \in family
  /\ Readable
  /\ pc = "next" /\ todo = Units
  /\ job = [code |-> FALSE, sec |-> Undefined, from |-> 0, size |-> 0, pieces |-> {},
            twin |-> {}, addr |-> 0]
  /\ cands = {} /\ unused = {}
  /\ data = in.orig /\ relocs = <<>>
  /\ unresolved = 0 /\ mapping = {}

Next ==
  \/ \E i \in DOMAIN in.syms : TakeFunction(i)
  \/ \E i \in DOMAIN in.syms : TakeData(i)
  \/ \E i \in DOMAIN in.syms : PassBy(i)
  \/ TakeNext \/ Finish
  \/ \E c \in cands : Pass(c)
  \/ \E c \in cands : EmitBySection(c)
  \/ \E c \in cands : EmitByName(c)
  \/ \E c \in cands : EmitNearest(c)
  \/ \E c \in cands : Unresolved(c)

Spec == Init /\ [][Next]_vars

-----------------------------------------------------------------------------
\* What the variables hold; a recovered relocation's bytes fit its field.
TypeOK ==
  /\ pc \in {"next", "scan", "done"}
  /\ todo \subseteq Units
  /\ \A c \in cands : c.type \in RelocType /\ c.reach \in Int
  /\ unused \subseteq job.twin
  /\ DOMAIN data = DOMAIN in.orig \cup DOMAIN relocs
  /\ \A a \in DOMAIN data : data[a] \in Cell
  /\ \A a \in DOMAIN relocs :
       relocs[a].type \in RelocType /\ data[a].imm \in 0..(Slots[relocs[a].type] - 1)
  /\ unresolved \in Nat

\* The place of a twin's byte in the target, were the code the same but for
\* `shift` bytes inserted at its start.
Place(i, key) ==
  IF ~Whole(i) THEN ToOrig(Pieces(in.syms[i].segment), key)
  ELSE in.syms[i].addr + key + (IF in.syms[i].segment[1] = ".text" THEN in.shift ELSE 0)

\* What a twin and the target have at corresponding places.
Pairs ==
  UNION {LET t == base.syms[TwinOf(i)]
         IN {[sec |-> t.sec, off |-> o, addr |-> Place(i, o - Start(t))] :
               o \in {o \in DOMAIN base.contents[t.sec] : Start(t) <= o /\ o < Start(t) + t.size}} :
           i \in {i \in Units : ~PassedBy(i)}}

Relocated(p) == p.off \in DOMAIN base.relocs[p.sec]
Dest(p)      == Destination(in.link, base, p.sec, p.off)
Expected(p)  == IF Relocated(p) THEN Linked(in.link, base, p.sec, p.off, p.addr)
                ELSE base.contents[p.sec][p.off]

\* objdiff shows no difference: the same instruction or word, and where the base
\* has a relocation, one that is shown alike.
Matches(p) ==
  LET view == ObjdiffView(base, p.sec, p.off)
  IN IF Relocated(p)
     THEN /\ p.addr \in DOMAIN relocs
          /\ relocs[p.addr].name = view.name
          /\ ImplicitAddend(relocs[p.addr].type, data[p.addr]) = view.addend
          /\ data[p.addr].op = base.contents[p.sec][p.off].op
     ELSE p.addr \notin DOMAIN relocs /\ data[p.addr] = base.contents[p.sec][p.off]

\* The CSV says of what a relocation points at as much as recovery asks for: its
\* name, if the base has one for it; else it is a string, or has some sized
\* symbol.  And where words are not addresses, it is no word.
Findable(p) ==
  LET type  == base.relocs[p.sec][p.off].type
      sym   == SymOf(base, p.sec, p.off)
      off   == ReachOf(base, p.sec, p.off)
      named == NamedAt(base, sym.sec, IF sym.sec[1] = ".text" THEN AlignDown(off, 2) ELSE off)
  IN /\ type = "ABS32" => in.pointers
     /\ CASE sym.kind # "section" -> \E i \in CsvNamed(sym.name) :
                                       csv[i].addr = in.link.at[sym.name]
                                       /\ Covers(csv[i], Dest(p), "CALL")
          [] sym.kind = "section" /\ named # 0 ->
               \E i \in CsvNamed(base.syms[named].name) :
                 csv[i].addr <= Dest(p) /\ Dest(p) < csv[i].addr + csv[i].size
          [] OTHER -> \/ StringEnd(base, sym.sec, off) > off
                      \/ \E i \in Containing(Dest(p)) :
                           Dest(p) < csv[i].addr + csv[i].size

\* A function or data object that was compiled to what the binary holds shows no
\* difference, whatever it calls and points at, in one piece or cut, through
\* veneers and section symbols: "A function whose compiled code is identical to
\* the original therefore never reached 100%" (reloc.py:10) is over.
IdenticalCodeMatches ==
  pc = "done" /\ in.shift = 0 =>
    \A p \in Pairs :
      CellAt(p.addr) = Expected(p) /\ (Relocated(p) => Findable(p)) => Matches(p)

\* Where a branch has moved to, the twin has a branch of another kind.
Misled(p) ==
  LET there == p.off + in.shift
  IN /\ there \in DOMAIN base.relocs[p.sec]
     /\ base.relocs[p.sec][there].type # base.relocs[p.sec][p.off].type
     /\ SameClass(base.relocs[p.sec][there].type, base.relocs[p.sec][p.off].type)

\* "so a call still pairs when the code around it has shifted" (reloc.py:20): with
\* instructions inserted before it, each call and pointer is still shown alike,
\* but where it takes the place of a branch of another kind.
ShiftedCodePairs ==
  pc = "done" /\ in.shift > 0 =>
    \A p \in Pairs :
      Relocated(p) /\ ~Misled(p) /\ CellAt(p.addr) = Expected(p) /\ Findable(p) => Matches(p)

\* No relocation is made to match what goes elsewhere: where objdiff sees the two
\* sides alike, the original goes where the compiled code does, or to the same
\* bytes of a string or of data the base has no name for.
MatchReachesTheSame ==
  pc = "done" /\ in.shift = 0 =>
    \A p \in Pairs :
      Relocated(p) /\ Matches(p) =>
        LET sym   == SymOf(base, p.sec, p.off)
            to    == Goes(p.addr, relocs[p.addr].type)
            there == IF relocs[p.addr].type = "ABS32" /\ IsThumbCode(to) THEN to - 1 ELSE to
            off   == ReachOf(base, p.sec, p.off)
        IN \/ there = Dest(p)
           \/ sym.kind = "section" /\ NamedAt(base, sym.sec, off) = 0
              /\ CellAt(there) = base.contents[sym.sec][off]

\* Every relocation that is named after the CSV reaches, from there and by the
\* addend in its bytes, what the original reaches: linked again, the target goes
\* where the binary goes, also where it matches nothing.  Bit 0 of a pointer into
\* a Thumb function is no address.  An addend the field cannot hold, too far into
\* a symbol or between two instructions, is cut to the field: what is read of it is
\* off by whole ranges of the field, and by less than a unit.
RelocationsReach ==
  \A a \in DOMAIN relocs :
    relocs[a].how # "section" =>
      LET type == relocs[a].type
          to   == Goes(a, type)
          read == ImplicitAddend(type, data[a])
      IN \E i \in DOMAIN csv :
           LET bit    == IF type = "ABS32" /\ IsThumbFunction(csv[i]) THEN to % 2 ELSE 0
               addend == to - bit - csv[i].addr - Bias(type)
           IN /\ csv[i].name = relocs[a].name
              /\ InField(type, addend) => read = addend
              /\ (addend - read) % (Unit(type) * Slots[type]) < Unit(type)

\* The symbols of the target lie apart, as those of a CSV do whose rows do not overlap.
Apart ==
  \A i \in DOMAIN in.syms :
    /\ in.syms[i].addr \in Nat /\ in.syms[i].size \in Nat
    /\ \A j \in DOMAIN in.syms \ {i} : \/ in.syms[i].addr + in.syms[i].size <= in.syms[j].addr
                                     \/ in.syms[j].addr + in.syms[j].size <= in.syms[i].addr

\* The pools found in a function decode as data, to their last byte, and the rest of
\* it as code, where the symbols lie apart.
PoolsDecodeAsData ==
  pc = "done" /\ Apart =>
    \A i \in Units :
      LET s      == in.syms[i]
          end    == s.addr + s.size
          pools  == IF s.mode = "$t" THEN ThumbPools(s.addr, end) ELSE ArmPools(s.addr, end)
          before(a) == {m \in mapping : s.addr <= m[1] /\ m[1] <= a}
          shown(a)  == IF before(a) = {} THEN {s.mode}
                       ELSE {m[2] : m \in {m \in before(a) : \A n \in before(a) : n[1] <= m[1]}}
      IN s.segment = <<".text", "">> /\ ~PassedBy(i) /\ s.name \notin in.marked =>
           \A a \in s.addr..(end - 1) :
             shown(a) = {IF AlignDown(a, 4) \in pools THEN "$d" ELSE s.mode}

\* Where objdiff sees the two sides alike the instructions are the same: recovery
\* puts bytes "back in unlinked form" (README.md:427) and changes no instruction
\* into another, so that Code % counts the "functions that match exactly"
\* (README.md:455).
NothingIsHidden ==
  pc = "done" /\ in.shift = 0 =>
    \A p \in Pairs :
      Relocated(p) /\ Matches(p) => CellAt(p.addr).op = Expected(p).op
=============================================================================
