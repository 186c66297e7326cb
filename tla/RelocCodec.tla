----------------------------- MODULE RelocCodec -----------------------------
(***************************************************************************)
(* Instructions, literals and the addends they carry: 3dsd/reloc.py's      *)
(* _sext, implicit_addend, encode and the table of branch biases.          *)
(*                                                                         *)
(* A cell is an instruction or a word of data: what it is, and the field   *)
(* it carries as the bits hold it.  A word's field is the whole word.      *)
(* The low half of a Thumb bl is part of its cell.                         *)
(***************************************************************************)
EXTENDS Integers

CONSTANT Slots  \* Slots[t]: how many values the field of relocation type t holds

ArmBranches == {"CALL", "JUMP24", "PC24"}
ThumbShort  == {"THM_JUMP11", "THM_JUMP8"}
RelocType   == ArmBranches \cup ThumbShort \cup {"THM_PC22", "ABS32"}

\* A branch field counts words in ARM and halfwords in Thumb code.
Unit(t) == CASE t \in ArmBranches -> 4 [] t = "ABS32" -> 1 [] OTHER -> 2

ASSUME SlotsAssumption ==
  /\ \A t \in RelocType : Slots[t] \in Nat /\ Slots[t] >= 8 /\ Slots[t] % 2 = 0
  /\ \A s, t \in ArmBranches : Slots[s] = Slots[t]

ArmOps   == {"bl", "blx", "blxh", "b", "bne", "ldr", "op", "ldrpc", "bxpc"}
ThumbOps == {"tbl", "tblx", "tb", "tbeq", "tldr", "top"}
Cell     == [op : ArmOps \cup ThumbOps \cup {"word", "str"}, imm : Int]

AlignDown(a, n) == a - (a % n)

\* Bytes of a cell.
Width(c) == IF c.op \in {"tb", "tbeq", "tldr", "top"} THEN 2 ELSE 4

\* Where a branch's pc reads from, relative to the instruction.
Bias(t) == CASE t \in ArmBranches -> 8 [] t = "ABS32" -> 0 [] OTHER -> 4

\* A field of n values read as a signed number.
Sext(v, n) == IF (v % n) < (n \div 2) THEN v % n ELSE (v % n) - n

\* The addend a REL relocation carries in its bytes, as objdiff decodes it.
ImplicitAddend(t, c) == Unit(t) * Sext(c.imm, Slots[t])

\* Whether a field holds an addend: a whole number of units, not out of range.
InField(t, addend) ==
  /\ addend \in Int /\ addend % Unit(t) = 0
  /\ -(Unit(t) * Slots[t]) <= 2 * addend /\ 2 * addend < Unit(t) * Slots[t]

\* (variant) The addend is not cut to the field.
Encode_Uncut(t, c, addend) ==
  [op |-> IF t = "CALL" THEN "bl" ELSE c.op, imm |-> addend \div Unit(t)]

\* `c` rewritten to carry `addend`, as the compiler leaves it: a call is always
\* written as bl, and so is a blx under whatever type.
Encode(t, c, addend) ==
  [op  |-> CASE t = "CALL" \/ (t \in ArmBranches /\ c.op \in {"blx", "blxh"}) -> "bl"
             [] t = "THM_PC22" -> "tbl"
             [] t = "ABS32"    -> "word"
             [] OTHER          -> c.op,
   imm |-> (addend \div Unit(t)) % Slots[t]]

\* Two types that fit the same instruction.
SameClass(s, t) == s = t \/ (s \in ArmBranches /\ t \in ArmBranches)
=============================================================================
