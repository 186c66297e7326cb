------------------------------ MODULE ArmLink -------------------------------
(***************************************************************************)
(* What a linker makes of a base's relocations, as far as the binaries     *)
(* 3dsd/reloc.py reads depend on it.  External: the linker is armlink, and *)
(* this is what reloc.py's decoding and its comments say of its output.    *)
(*                                                                         *)
(* A link is where it put things: `at` for the symbols by name, `homes`    *)
(* for the parts of the base's sections, `thumb` for the addresses of      *)
(* Thumb code, and `veneer` for branches that cannot change mode.          *)
(***************************************************************************)
EXTENDS RelocBase

CONSTANT BaseAddr    \* the address the binary is loaded at

ASSUME BaseAddrAssumption == BaseAddr \in Nat

\* Where a relocation's symbol and addend lie in the binary.
Destination(link, base, sec, off) ==
  LET sym    == SymOf(base, sec, off)
      addend == AddendOf(base, sec, off) + Bias(base.relocs[sec][off].type)
      bit    == IF sym.kind = "section" THEN addend % 2 ELSE 0
      within == Start(sym) + addend - bit
  IN IF sym.name \in DOMAIN link.at THEN link.at[sym.name] + addend
     ELSE LET home == CHOOSE h \in link.homes :
                        h.sec = sym.sec /\ h.start <= within /\ within < h.start + h.size
          IN home.addr + within - home.start

\* The cell `place` holds once linked.  A bl to the other mode becomes a blx, a
\* plain branch goes through a veneer, and a pointer to Thumb code is odd.
LinkedTo(link, type, c, place, dest) ==
  LET crosses == (dest \in link.thumb) # (type \notin ArmBranches)
      to      == IF crosses /\ c.op \notin {"bl", "tbl"} THEN link.veneer[dest] ELSE dest
      pc      == place + Bias(type)
      aligned == AlignDown(pc, 4)
  IN CASE type = "ABS32" ->
            [op |-> "word",
             imm |-> (BaseAddr + dest + (IF dest \in link.thumb THEN 1 ELSE 0))
                       % Slots["ABS32"]]
       [] crosses /\ c.op = "bl" ->
            [op |-> IF (dest - pc) % 4 = 2 THEN "blxh" ELSE "blx",
             imm |-> ((dest - pc) \div 4) % Slots[type]]
       [] crosses /\ c.op = "tbl" ->
            [op |-> "tblx", imm |-> ((dest - aligned) \div 2) % Slots[type]]
       [] OTHER -> [op |-> c.op, imm |-> ((to - pc) \div Unit(type)) % Slots[type]]

Linked(link, base, sec, off, place) ==
  LinkedTo(link, base.relocs[sec][off].type, base.contents[sec][off], place,
           Destination(link, base, sec, off))
=============================================================================
