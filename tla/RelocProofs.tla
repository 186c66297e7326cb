----------------------------- MODULE RelocProofs ----------------------------
(***************************************************************************)
(* A relocation that is recovered reaches, by the bytes it leaves, what    *)
(* the binary reaches: for every binary, CSV and base, whatever the base   *)
(* has in the place and whichever of its relocations is taken.  And the    *)
(* pools found on the way, and nothing else, are shown as data.            *)
(***************************************************************************)
EXTENDS Reloc, WellFoundedInduction, FiniteSetTheorems, TLAPS

\* What a place may be given: bytes that were a branch are given a branch's type.
Raw(a, type) == IF type = "ABS32" THEN Value(a) ELSE Branch(a).reach

\* Every candidate refers to what its bytes do.
CandidatesAreRead ==
  \A c \in cands :
    /\ c.reach = Raw(c.off, c.type)
    /\ c.type # "ABS32" => /\ Branch(c.off).first # "none"
                           /\ SameClass(c.type, Branch(c.off).first)

\* The twin's relocations are the base's.
TwinIsOfTheBase ==
  /\ unused \subseteq job.twin
  /\ \A k \in job.twin : /\ job.sec \in DOMAIN base.relocs
                         /\ job.from + k \in DOMAIN base.relocs[job.sec]

\* The addend that reaches `to` from a symbol of the CSV.
AddendFrom(i, to, t) ==
  to - (IF t = "ABS32" /\ IsThumbFunction(csv[i]) THEN to % 2 ELSE 0) - csv[i].addr - Bias(t)

IInv == Readable /\ TypeOK /\ CandidatesAreRead /\ TwinIsOfTheBase /\ RelocationsReach

-----------------------------------------------------------------------------
(* The codec.                                                              *)

\* Bytes to a unit of a branch's field, and what it is counted from.
LEMMA UnitsAndBiases ==
  /\ \A t \in ArmBranches : Unit(t) = 4 /\ Bias(t) = 8
  /\ Unit("ABS32") = 1 /\ Bias("ABS32") = 0
  /\ \A t \in ThumbShort \cup {"THM_PC22"} : Unit(t) = 2 /\ Bias(t) = 4
  BY Zenon DEF Unit, Bias, ArmBranches, ThumbShort

\* A number that fits `n` values is what its bits read as.
LEMMA SextOfMod ==
  ASSUME NEW h \in Nat \ {0}, NEW v \in Int, -h <= v, v < h
  PROVE  Sext(v % (2 * h), 2 * h) = v
<1>1. (2 * h) \div 2 = h
  OBVIOUS
<1>2. CASE v >= 0
  <2>1. v % (2 * h) = v /\ (v % (2 * h)) % (2 * h) = v
    BY <1>2
  <2> QED
    BY <2>1, <1>1 DEF Sext
<1>3. CASE v < 0
  <2>1. v % (2 * h) = v + 2 * h
    BY <1>3
  <2>2. (v + 2 * h) % (2 * h) = v + 2 * h
    BY <1>3
  <2> QED
    BY <2>1, <2>2, <1>1, <1>3 DEF Sext
<1> QED
  BY <1>2, <1>3

\* A field's number is one of its values, whatever the bits.
LEMMA SextFits ==
  ASSUME NEW n \in Nat \ {0}, n % 2 = 0, NEW v \in Int
  PROVE  Sext(v, n) \in Int /\ -n <= 2 * Sext(v, n) /\ 2 * Sext(v, n) < n
<1>1. v % n \in 0..(n - 1)
  OBVIOUS
<1>2. 2 * (n \div 2) = n
  OBVIOUS
<1> QED
  BY <1>1, <1>2 DEF Sext

\* What `encode` writes, `implicit_addend` and so objdiff reads back: in every
\* instruction class, and whatever the bytes were.
THEOREM EncodeDecodes ==
  ASSUME NEW t \in RelocType, NEW c, NEW addend, InField(t, addend)
  PROVE  ImplicitAddend(t, Encode(t, c, addend)) = addend
<1> DEFINE n == Slots[t]
           u == Unit(t)
           v == addend \div u
<1>1. n \in Nat /\ n >= 8 /\ n % 2 = 0
  BY SlotsAssumption
<1>2. u \in {1, 2, 4}
  BY DEF Unit
<1>3. addend \in Int /\ addend % u = 0 /\ -(u * n) <= 2 * addend /\ 2 * addend < u * n
  BY DEF InField
<1>4. v \in Int /\ addend = u * v
  BY <1>2, <1>3
<1>5. PICK h \in Nat : n = 2 * h /\ h > 0
  <2>1. n = 2 * (n \div 2) /\ n \div 2 \in Nat
    BY <1>1
  <2> QED
    BY <2>1, <1>1
<1>6. -h <= v /\ v < h
  BY <1>2, <1>3, <1>4, <1>5
<1>7. Sext(v % n, n) = v
  BY <1>4, <1>5, <1>6, SextOfMod
<1>8. Encode(t, c, addend).imm = v % n
  BY DEF Encode
<1> QED
  BY <1>4, <1>7, <1>8 DEF ImplicitAddend

\* What bytes hold of an addend: all of it if the field can, else what is left of it
\* in the field's range and units.
Carries(t, c, addend) ==
  /\ InField(t, addend) => ImplicitAddend(t, c) = addend
  /\ (addend - ImplicitAddend(t, c)) % (Unit(t) * Slots[t]) < Unit(t)

\* The rest of a division is what is left when whole multiples are taken off.
LEMMA RestOf ==
  ASSUME NEW m \in Nat \ {0}, NEW k \in Int, NEW r \in 0..(m - 1)
  PROVE  (m * k + r) % m = r
<1> DEFINE x == m * k + r
           q == x \div m
           s == x % m
<1>1. x \in Int /\ m * k \in Int
  OBVIOUS
<1>2. q \in Int /\ s \in 0..(m - 1) /\ x = m * q + s
  BY <1>1
<1> HIDE DEF q, s
<1>3. m * k + r = m * q + s
  BY <1>2
<1>4. m * (k - q) = s - r
  <2>1. m * (k - q) = m * k - m * q
    BY <1>2
  <2> QED
    BY <1>2, <1>3, <2>1
<1>5. ~(k - q >= 1)
  <2> SUFFICES ASSUME k - q >= 1 PROVE FALSE
    OBVIOUS
  <2>1. m * (k - q) >= m
    BY <1>2
  <2> QED
    BY <1>2, <1>4, <2>1
<1>6. ~(k - q <= -1)
  <2> SUFFICES ASSUME k - q <= -1 PROVE FALSE
    OBVIOUS
  <2>1. m * (k - q) <= -m
    BY <1>2
  <2> QED
    BY <1>2, <1>4, <2>1
<1>7. k = q
  BY <1>2, <1>5, <1>6
<1>8. r = s
  BY <1>2, <1>3, <1>7
<1> QED
  BY <1>8 DEF s

\* The bits of a number, read again, are off by whole ranges.
LEMMA SextOfBits ==
  ASSUME NEW n \in Nat \ {0}, NEW v \in Int
  PROVE  \E k \in Int : v = n * k + Sext(v % n, n) /\ Sext(v % n, n) \in Int
<1> DEFINE q == v \div n
           w == v % n
<1>1. q \in Int /\ w \in 0..(n - 1) /\ v = n * q + w
  OBVIOUS
<1>2. w % n = w
  <2>1. (n * 0 + w) % n = w
    BY <1>1, RestOf
  <2>2. n * 0 + w = w
    BY <1>1
  <2> QED
    BY <2>1, <2>2
<1> HIDE DEF q, w
<1>3. Sext(w, n) = w \/ Sext(w, n) = w - n
  BY <1>1, <1>2 DEF Sext
<1>4. CASE Sext(w, n) = w
  BY <1>1, <1>4 DEF w
<1>5. CASE Sext(w, n) = w - n
  <2>1. n * (q + 1) = n * q + n
    BY <1>1
  <2>2. v = n * (q + 1) + (w - n) /\ w - n \in Int /\ q + 1 \in Int
    BY <1>1, <2>1
  <2> QED
    BY <1>5, <2>2 DEF w
<1> QED
  BY <1>3, <1>4, <1>5

\* What `encode` writes holds of the addend what the field can.
LEMMA EncodeCarries ==
  ASSUME NEW t \in RelocType, NEW c, NEW addend \in Int
  PROVE  Carries(t, Encode(t, c, addend), addend)
<1> DEFINE n == Slots[t]
           u == Unit(t)
           v == addend \div u
           r == addend % u
           s == Sext(v % n, n)
<1>1. n \in Nat \ {0}
  BY SlotsAssumption
<1>2. u \in {1, 2, 4}
  BY DEF Unit
<1>3. v \in Int /\ r \in 0..(u - 1) /\ addend = u * v + r
  <2>1. CASE u = 1
    BY <2>1, SMTT(30)
  <2>2. CASE u = 2
    BY <2>2, SMTT(30)
  <2>3. CASE u = 4
    BY <2>3, SMTT(30)
  <2> QED
    BY <1>2, <2>1, <2>2, <2>3
<1>4. ImplicitAddend(t, Encode(t, c, addend)) = u * s
  BY DEF ImplicitAddend, Encode
<1> HIDE DEF n, u, v, r, s
<1>5. PICK k \in Int : v = n * k + s /\ s \in Int
  BY <1>1, <1>3, SextOfBits DEF s
<1>6. addend - u * s = (u * n) * k + r
  <2>1. u * v = (u * n) * k + u * s
    BY <1>1, <1>2, <1>5
  <2> QED
    BY <1>1, <1>2, <1>3, <1>5, <2>1
<1>7. u * n \in Nat \ {0} /\ u <= u * n /\ r \in 0..(u * n - 1)
  BY <1>1, <1>2, <1>3
<1>8. (addend - u * s) % (u * n) = r
  BY <1>5, <1>6, <1>7, RestOf
<1>9. (addend - u * s) % (u * n) < u
  BY <1>2, <1>3, <1>8
<1>10. (addend - ImplicitAddend(t, Encode(t, c, addend))) % (Unit(t) * Slots[t]) < Unit(t)
  BY <1>4, <1>9 DEF u, n
<1> QED
  BY <1>10, EncodeDecodes DEF Carries

\* An addend that was read fits, also in another type of the same class.
LEMMA ReadFits ==
  ASSUME NEW s \in RelocType, NEW t \in RelocType, SameClass(s, t),
         NEW c, c.imm \in Int
  PROVE  InField(t, ImplicitAddend(s, c))
<1> DEFINE n == Slots[s]
           u == Unit(s)
           v == Sext(c.imm, n)
<1>1. n \in Nat /\ n >= 8 /\ n % 2 = 0 /\ n = Slots[t] /\ u = Unit(t)
  <2>1. n \in Nat /\ n >= 8 /\ n % 2 = 0
    BY SlotsAssumption
  <2>2. CASE s = t
    BY <2>1, <2>2
  <2>3. CASE s \in ArmBranches /\ t \in ArmBranches
    <3>1. n = Slots[t]
      BY <2>3, SlotsAssumption
    <3> QED
      BY <2>1, <2>3, <3>1, UnitsAndBiases
  <2> QED
    BY <2>2, <2>3 DEF SameClass
<1>2. v \in Int /\ -n <= 2 * v /\ 2 * v < n
  BY <1>1, SextFits
<1>3. u \in {1, 2, 4}
  BY DEF Unit
<1>4. (u * v) % u = 0 /\ -(u * n) <= 2 * (u * v) /\ 2 * (u * v) < u * n
  BY <1>1, <1>2, <1>3
<1> QED
  BY <1>1, <1>2, <1>3, <1>4 DEF ImplicitAddend, InField
-----------------------------------------------------------------------------
(* What is read.                                                           *)

\* The bytes of any place, and what is read off them.
LEMMA CellAtFacts ==
  ASSUME Readable, NEW a
  PROVE  /\ CellAt(a).imm \in Int /\ Value(a) \in Int
         /\ CellAt(a).op # "none" => a \in DOMAIN in.orig /\ a \in Int /\ CellAt(a) \in Cell
<1>1. a \in DOMAIN in.orig => a \in Int /\ in.orig[a] \in Cell
  BY DEF Readable
<1>2. CellAt(a).imm \in Int
  BY <1>1 DEF CellAt, Cell
<1> QED
  BY <1>1, <1>2, BaseAddrAssumption DEF CellAt, Value

LEMMA AddendIsInt ==
  ASSUME NEW t \in RelocType, NEW c, c.imm \in Int
  PROVE  ImplicitAddend(t, c) \in Int
<1>1. SameClass(t, t)
  BY DEF SameClass
<1> QED
  BY <1>1, ReadFits DEF InField

LEMMA BranchFacts ==
  ASSUME Readable, NEW a, Branch(a).first # "none"
  PROVE  /\ a \in DOMAIN in.orig /\ Branch(a).reach \in Int
         /\ Branch(a).first \in RelocType \ {"ABS32"}
         /\ Branch(a).other \in RelocType /\ SameClass(Branch(a).other, Branch(a).first)
<1> DEFINE c == CellAt(a)
<1>1. CASE c.op = "none"
  BY <1>1 DEF Branch
<1>2. CASE c.op # "none"
  <2>1. a \in DOMAIN in.orig /\ a \in Int /\ c.imm \in Int
    BY <1>2, CellAtFacts
  <2>2. \A t \in RelocType : ImplicitAddend(t, c) \in Int
    BY <2>1, AddendIsInt
  <2>3. {"PC24", "THM_PC22", "THM_JUMP11", "THM_JUMP8"} \subseteq RelocType
    BY DEF RelocType, ArmBranches, ThumbShort
  <2>4. AlignDown(a + 4, 4) \in Int
    BY <2>1 DEF AlignDown
  <2>5. Branch(a).reach \in Int
    BY <2>1, <2>2, <2>3, <2>4 DEF Branch
  <2>6. Branch(a).first \in RelocType \ {"ABS32"} /\ Branch(a).other \in RelocType
        /\ SameClass(Branch(a).other, Branch(a).first)
    BY DEF Branch, RelocType, ArmBranches, ThumbShort, SameClass
  <2> QED
    BY <2>1, <2>5, <2>6
<1> QED
  BY <1>1, <1>2

LEMMA VeneerIsInt ==
  ASSUME Readable, NEW r \in Int
  PROVE  ThroughVeneer(r) \in Int
<1> DEFINE Hop(x) ==
      CASE ~(0 <= x /\ x <= in.size - 8)  -> x
        [] CellAt(x).op = "ldrpc"         -> AlignDown(Value(x + 4), 2)
        [] CellAt(x).op = "bxpc" /\ CellAt(x + 4).op = "b"
             -> x + 4 + 8 + ImplicitAddend("JUMP24", CellAt(x + 4))
        [] OTHER -> x
<1>1. \A x \in Int : Hop(x) \in Int
  <2> TAKE x \in Int
  <2>1. Value(x + 4) \in Int /\ CellAt(x + 4).imm \in Int
    BY CellAtFacts
  <2>2. ImplicitAddend("JUMP24", CellAt(x + 4)) \in Int
    BY <2>1, AddendIsInt DEF RelocType, ArmBranches
  <2>3. AlignDown(Value(x + 4), 2) \in Int
    BY <2>1 DEF AlignDown
  <2> QED
    BY <2>2, <2>3
<1>2. Hop(Hop(r)) \in Int
  BY <1>1
<1> QED
  BY <1>2 DEF ThroughVeneer

LEMMA GoesIsInt ==
  ASSUME Readable, NEW a, NEW t, t # "ABS32" => Branch(a).first # "none"
  PROVE  Goes(a, t) \in Int /\ Raw(a, t) \in Int
  BY CellAtFacts, BranchFacts, VeneerIsInt DEF Goes, Raw

\* Which type a branch is given depends on its class alone.
LEMMA PickIsOfTheClass ==
  ASSUME Readable, NEW a, NEW types \in SUBSET RelocType, NEW t \in Pick(Branch(a), types)
  PROVE  Branch(a).first # "none" /\ t # "ABS32" /\ SameClass(t, Branch(a).first)
<1>1. t \in RelocType /\ t \in {Branch(a).first, Branch(a).other}
  BY DEF Pick
<1>2. "none" \notin RelocType
  BY DEF RelocType, ArmBranches, ThumbShort
<1>3. Branch(a).first # "none"
  BY <1>1, <1>2 DEF Branch
<1> QED
  BY <1>1, <1>3, BranchFacts DEF SameClass, ArmBranches

LEMMA ContainingCovers ==
  ASSUME Readable, NEW r \in Int, NEW i \in Containing(r)
  PROVE  /\ i \in DOMAIN csv /\ csv[i].addr <= r
         /\ r < csv[i].addr + Larger(csv[i].size, 1)
  BY DEF Containing

-----------------------------------------------------------------------------
(* The steps.                                                              *)

\* A nonempty set of numbers has a least one.
LEMMA LeastNumber ==
  ASSUME NEW T \in SUBSET Nat, T # {}
  PROVE  \E m \in T : \A n \in T : m <= n
<1>1. IsWellFoundedOn(OpToRel(<, Nat), Nat)
  BY NatLessThanWellFounded
<1>2. PICK m \in T : \A n \in T : ~(<<n, m>> \in OpToRel(<, Nat))
  BY <1>1, WFMin
<1>3. \A n \in T : ~(n < m)
  BY <1>2 DEF OpToRel
<1>4. \A n \in T : n \in Nat /\ m \in Nat
  OBVIOUS
<1> QED
  BY <1>3, <1>4

\* Nothing that is read changes.
LEMMA InputStays ==
  ASSUME in' = in
  PROVE  /\ Readable' = Readable
         /\ Units' = Units
         /\ \A a, t : Goes(a, t)' = Goes(a, t) /\ Raw(a, t)' = Raw(a, t)
         /\ \A a : Branch(a)' = Branch(a)
         /\ csv' = csv /\ base' = base
<1>1. csv' = csv /\ base' = base
  BY DEF csv, base
<1>2. \A a : CellAt(a)' = CellAt(a)
  BY DEF CellAt
<1>3. \A a : Value(a)' = Value(a)
  BY <1>2 DEF Value
<1>4. \A a : Branch(a)' = Branch(a)
  <2> TAKE a
  <2>1. CellAt(a)' = CellAt(a)
    BY <1>2
  <2> QED
    BY <2>1, Zenon DEF Branch
<1>5. \A r : ThroughVeneer(r)' = ThroughVeneer(r)
  BY <1>2, <1>3, Zenon DEF ThroughVeneer
<1>6. \A a, t : Goes(a, t)' = Goes(a, t) /\ Raw(a, t)' = Raw(a, t)
  BY <1>3, <1>4, <1>5 DEF Goes, Raw
<1>7. Readable' = Readable
  BY <1>1 DEF Readable
<1>10. Units' = Units
  BY DEF Units, Whole, Parts
<1> QED
  BY <1>1, <1>4, <1>6, <1>7, <1>10

\* The symbol a unit pairs with is one of the base's.
LEMMA TwinIsASymbol ==
  ASSUME Readable, NEW i, TwinOf(i) # 0
  PROVE  TwinOf(i) \in DOMAIN base.syms
<1> DEFINE section == in.syms[i].segment
           inside  == Named(base, section)
           named   == {j \in inside : base.syms[j].name = in.syms[NamedPart(i)].name}
<1>1. inside \subseteq DOMAIN base.syms /\ named \subseteq DOMAIN base.syms
  BY DEF Named, Ordered
<1>2. DOMAIN base.syms \subseteq Nat
  BY DEF Readable
<1>3. CASE named # {}
  <2>1. \E j \in named : \A k \in named : j <= k
    BY <1>1, <1>2, <1>3, LeastNumber
  <2>2. TwinOf(i) = CHOOSE j \in named : \A k \in named : j <= k
    BY <1>3, Zenon DEF TwinOf, Twin
  <2> QED
    BY <1>1, <2>1, <2>2
<1>4. CASE named = {}
  <2>1. IsSplit(section) /\ Cardinality(inside) = 1
    BY <1>4, Zenon DEF TwinOf, Twin
  <2>2. inside # {}
    BY <2>1, FS_EmptySet
  <2>3. TwinOf(i) = CHOOSE j \in inside : TRUE
    BY <1>4, <2>1, Zenon DEF TwinOf, Twin
  <2> QED
    BY <1>1, <2>2, <2>3
<1> QED
  BY <1>3, <1>4

\* The relocations inside a symbol are in its section.
LEMMA RelocsAreThere ==
  ASSUME Readable, NEW i \in DOMAIN base.syms
  PROVE  LET s == base.syms[i]
         IN /\ s.sec \in DOMAIN base.relocs
            /\ \A k \in RelocsIn(base, i) : /\ k \in Int
                                            /\ Start(s) + k \in DOMAIN base.relocs[s.sec]
<1> DEFINE s == base.syms[i]
<1>1. s.sec \in DOMAIN base.relocs /\ s.value \in Nat
  BY DEF Readable
<1>2. PICK start \in Int : start = Start(s)
  BY <1>1 DEF Start, AlignDown
<1>3. \A o \in DOMAIN base.relocs[s.sec] : o \in Nat
  BY <1>1 DEF Readable
<1>4. \A k \in RelocsIn(base, i) : \E o \in DOMAIN base.relocs[s.sec] : k = o - start
  BY <1>2 DEF RelocsIn
<1> QED
  BY <1>1, <1>2, <1>3, <1>4

\* What objdiff shows for a relocation has an addend.
LEMMA ViewHasAnAddend ==
  ASSUME Readable, NEW sec \in DOMAIN base.relocs, NEW o \in DOMAIN base.relocs[sec]
  PROVE  ObjdiffView(base, sec, o).addend \in Int
<1> DEFINE sym == SymOf(base, sec, o)
<1>1. /\ sym.value \in Nat /\ base.relocs[sec][o].type \in RelocType
      /\ base.contents[sec][o].imm \in Int
  BY DEF Readable, SymOf, Cell
<1>2. AddendOf(base, sec, o) \in Int
  BY <1>1, AddendIsInt DEF AddendOf
<1>3. PICK target \in Int : target = sym.value + AddendOf(base, sec, o)
  BY <1>1, <1>2
<1> DEFINE before  == {i \in Ordered(base, sym.sec) : base.syms[i].value <= target}
           closest == {i \in before : \A j \in before : base.syms[j].value <= base.syms[i].value}
           fits    == {i \in closest : ~(base.syms[i].size > 0
                                         /\ base.syms[i].value + base.syms[i].size <= target)}
           Best(i) == \A j \in fits :
                        \/ base.syms[i].size < base.syms[j].size
                        \/ base.syms[i].size = base.syms[j].size /\ i <= j
<1>4. fits \subseteq DOMAIN base.syms
  BY DEF Ordered
<1>5. \A i \in DOMAIN base.syms : /\ i \in Nat /\ base.syms[i].size \in Nat
                                  /\ base.syms[i].value \in Nat
  BY DEF Readable
<1>6. CASE fits # {}
  <2> DEFINE sizes == {base.syms[i].size : i \in fits}
  <2>1. PICK z \in sizes : \A y \in sizes : z <= y
    <3>1. sizes \in SUBSET Nat /\ sizes # {}
      BY <1>4, <1>5, <1>6
    <3> QED
      BY <3>1, LeastNumber
  <2> DEFINE least == {i \in fits : base.syms[i].size = z}
  <2>2. least \in SUBSET Nat /\ least # {}
    BY <1>4, <1>5, <2>1
  <2>3. PICK i \in least : \A j \in least : i <= j
    BY <2>2, LeastNumber
  <2>4. \A j \in fits : z <= base.syms[j].size /\ base.syms[j].size \in Nat /\ z \in Nat
    BY <1>4, <1>5, <2>1
  <2>5. \A j \in fits : base.syms[j].size # z => z < base.syms[j].size
    BY <2>4
  <2>6. i \in fits /\ Best(i)
    BY <2>3, <2>5
  <2>7. (CHOOSE j \in fits : Best(j)) \in fits
    BY <2>6
  <2>8. CASE sym.kind = "section"
    <3>1. ObjdiffView(base, sec, o).addend = target - base.syms[CHOOSE j \in fits : Best(j)].value
      BY <1>3, <1>6, <2>8, Zenon DEF ObjdiffView
    <3>2. PICK k \in fits : k = CHOOSE j \in fits : Best(j)
      BY <2>7
    <3>3. base.syms[k].value \in Nat
      BY <1>4, <1>5, <3>2
    <3>4. ObjdiffView(base, sec, o).addend = target - base.syms[k].value
      BY <3>1, <3>2, Zenon
    <3> QED
      BY <3>3, <3>4
  <2>9. CASE sym.kind # "section"
    BY <1>2, <2>9, Zenon DEF ObjdiffView
  <2> QED
    BY <2>8, <2>9
<1>7. CASE fits = {}
  BY <1>2, <1>3, <1>7, Zenon DEF ObjdiffView
<1> QED
  BY <1>6, <1>7

\* What is written is a cell, and its number is cut to the field.
LEMMA EncodeIsACell ==
  ASSUME NEW t \in RelocType, NEW c, NEW addend \in Int,
         t \notin {"CALL", "THM_PC22", "ABS32"} => c \in Cell
  PROVE  /\ Encode(t, c, addend) \in Cell
         /\ Encode(t, c, addend).imm \in 0..(Slots[t] - 1)
<1> DEFINE ops == ArmOps \cup ThumbOps \cup {"word", "str"}
           e   == Encode(t, c, addend)
<1>1. {"bl", "tbl", "word"} \subseteq ops
  BY DEF ArmOps, ThumbOps
<1>2. t \notin {"CALL", "THM_PC22", "ABS32"} => c.op \in ops
  BY DEF Cell
<1>3. e.op \in ops
  <2> HIDE DEF ops
  <2> QED
    BY <1>1, <1>2, Zenon DEF Encode
<1>4. Unit(t) \in Nat \ {0} /\ Slots[t] \in Nat \ {0}
  BY SlotsAssumption DEF Unit
<1>5. e.imm \in 0..(Slots[t] - 1) /\ e.imm \in Int
  BY <1>4 DEF Encode
<1>6. PICK op : e = [op |-> op, imm |-> (addend \div Unit(t)) % Slots[t]]
  BY Zenon DEF Encode
<1> QED
  BY <1>3, <1>5, <1>6 DEF Cell

\* A relocation is given to a candidate: where it is named after the CSV, its
\* addend reaches what the bytes reached.
LEMMA AddKeepsIInv ==
  ASSUME IInv, NEW c \in cands, NEW t \in RelocType, SameClass(t, c.type),
         NEW name, NEW addend \in Int, NEW how, Add(c, t, name, addend, how),
         unused' \subseteq unused,
         how # "section" =>
           \E i \in DOMAIN csv :
             csv[i].name = name /\ addend = AddendFrom(i, Goes(c.off, t), t)
  PROVE  IInv'
<1> DEFINE e == Encode(t, DataAt(c.off), addend)
<1> USE DEF IInv
<1>1. in' = in /\ pc' = pc /\ todo' = todo /\ job' = job /\ unresolved' = unresolved
      /\ cands' \subseteq cands
  BY DEF Add
<1>2. Readable' /\ CandidatesAreRead' /\ TwinIsOfTheBase' /\ Units' = Units
  BY <1>1, InputStays DEF CandidatesAreRead, TwinIsOfTheBase
<1>3. /\ DOMAIN data' = DOMAIN data \cup {c.off} /\ data'[c.off] = e
      /\ \A a \in DOMAIN data \ {c.off} : data'[a] = data[a]
  BY DEF Add
<1>4. /\ DOMAIN relocs' = DOMAIN relocs \cup {c.off}
      /\ relocs'[c.off] = [type |-> t, name |-> name, how |-> how]
      /\ \A a \in DOMAIN relocs \ {c.off} : relocs'[a] = relocs[a]
  BY DEF Add
<1>5. t \notin {"CALL", "THM_PC22", "ABS32"} => DataAt(c.off) \in Cell
  <2> SUFFICES ASSUME t \notin {"CALL", "THM_PC22", "ABS32"}  PROVE DataAt(c.off) \in Cell
    OBVIOUS
  <2>1. c.type # "ABS32"
    BY DEF SameClass, ArmBranches
  <2>2. c.off \in DOMAIN data
    BY <2>1, BranchFacts DEF CandidatesAreRead, TypeOK
  <2> QED
    BY <2>2 DEF DataAt, TypeOK
<1>6. e \in Cell /\ e.imm \in 0..(Slots[t] - 1)
  BY <1>5, EncodeIsACell
<1>7. TypeOK'
  <2>1. pc' \in {"next", "scan", "done"} /\ todo' \subseteq Units' /\ unresolved' \in Nat
        /\ unused' \subseteq job'.twin
        /\ (\A d \in cands' : d.type \in RelocType /\ d.reach \in Int)
    BY <1>1, <1>2 DEF TypeOK
  <2>2. DOMAIN data' = DOMAIN in'.orig \cup DOMAIN relocs'
    BY <1>1, <1>3, <1>4 DEF TypeOK
  <2>3. \A a \in DOMAIN data' : data'[a] \in Cell
    BY <1>3, <1>6 DEF TypeOK
  <2>4. \A a \in DOMAIN relocs' :
          relocs'[a].type \in RelocType /\ data'[a].imm \in 0..(Slots[relocs'[a].type] - 1)
    <3> TAKE a \in DOMAIN relocs'
    <3>1. CASE a = c.off
      BY <1>3, <1>4, <1>6, <3>1
    <3>2. CASE a # c.off
      <4>1. a \in DOMAIN relocs /\ a \in DOMAIN data
        BY <1>4, <3>2 DEF TypeOK
      <4> QED
        BY <1>3, <1>4, <3>2, <4>1 DEF TypeOK
    <3> QED
      BY <3>1, <3>2
  <2> QED
    BY <2>1, <2>2, <2>3, <2>4 DEF TypeOK
<1>8. RelocationsReach'
  <2> SUFFICES ASSUME NEW a \in DOMAIN relocs', relocs'[a].how # "section"
               PROVE  \E i \in DOMAIN csv :
                        csv[i].name = relocs'[a].name
                        /\ Carries(relocs'[a].type, data'[a],
                                   AddendFrom(i, Goes(a, relocs'[a].type), relocs'[a].type))
    <3>1. \A d, u : Goes(d, u)' = Goes(d, u)
      BY <1>1, InputStays
    <3>2. csv' = csv
      BY <1>1, InputStays
    <3> QED
      BY <3>1, <3>2 DEF RelocationsReach, IsThumbFunction, Carries, AddendFrom
  <2>1. CASE a = c.off
    <3>1. how # "section" /\ relocs'[a].type = t /\ relocs'[a].name = name /\ data'[a] = e
      BY <1>3, <1>4, <2>1
    <3>2. Carries(t, e, addend)
      BY EncodeCarries
    <3> QED
      BY <2>1, <3>1, <3>2
  <2>2. CASE a # c.off
    <3>1. a \in DOMAIN relocs /\ a \in DOMAIN data
      BY <1>4, <2>2 DEF TypeOK
    <3>2. relocs'[a] = relocs[a] /\ data'[a] = data[a]
      BY <1>3, <1>4, <2>2, <3>1
    <3> QED
      BY <3>1, <3>2 DEF RelocationsReach, IsThumbFunction, Carries, AddendFrom
  <2> QED
    BY <2>1, <2>2
<1> QED
  BY <1>2, <1>7, <1>8

\* Nothing is recovered by a step: what it leaves to look at has been read.
LEMMA OthersKeepIInv ==
  ASSUME IInv, in' = in, data' = data, relocs' = relocs,
         pc' \in {"next", "scan", "done"}, todo' \subseteq todo, unresolved' \in Nat,
         \A c \in cands' : /\ c.type \in RelocType /\ c.reach = Raw(c.off, c.type)
                           /\ c.type # "ABS32" => /\ Branch(c.off).first # "none"
                                                  /\ SameClass(c.type, Branch(c.off).first),
         unused' \subseteq job'.twin,
         \A k \in job'.twin : /\ job'.sec \in DOMAIN base.relocs
                              /\ job'.from + k \in DOMAIN base.relocs[job'.sec]
  PROVE  IInv'
<1> USE DEF IInv
<1>1. /\ Readable' /\ Units' = Units /\ csv' = csv /\ base' = base
      /\ \A a, t : Goes(a, t)' = Goes(a, t) /\ Raw(a, t)' = Raw(a, t)
      /\ \A a : Branch(a)' = Branch(a)
  BY InputStays
<1>2. CandidatesAreRead'
  <2> SUFFICES ASSUME NEW c \in cands'
               PROVE  /\ c.reach = Raw(c.off, c.type)
                      /\ c.type # "ABS32" => /\ Branch(c.off).first # "none"
                                             /\ SameClass(c.type, Branch(c.off).first)
    BY <1>1 DEF CandidatesAreRead
  <2> QED
    OBVIOUS
<1>5. TwinIsOfTheBase'
  BY <1>1 DEF TwinIsOfTheBase
<1>3. TypeOK'
  <2>1. \A c \in cands' : c.type \in RelocType /\ c.reach \in Int
    <3> TAKE c \in cands'
    <3>1. c.type \in RelocType /\ c.reach = Raw(c.off, c.type)
          /\ (c.type # "ABS32" => Branch(c.off).first # "none")
      OBVIOUS
    <3>2. Raw(c.off, c.type) \in Int
      BY <3>1, GoesIsInt
    <3> QED
      BY <3>1, <3>2
  <2> QED
    BY <1>1, <2>1 DEF TypeOK
<1>4. RelocationsReach'
  BY <1>1 DEF RelocationsReach, IsThumbFunction
<1> QED
  BY <1>1, <1>2, <1>3, <1>4, <1>5

\* The masked search reads what it finds.
LEMMA ScanReads ==
  ASSUME Readable, NEW places, NEW start, NEW end, NEW types \in SUBSET RelocType, NEW pools,
         NEW c \in Scan(places, start, end, types, pools)
  PROVE  /\ c.type \in RelocType /\ c.reach = Raw(c.off, c.type)
         /\ c.type # "ABS32" => /\ Branch(c.off).first # "none"
                                /\ SameClass(c.type, Branch(c.off).first)
<1>1. CASE \E a : c = [off |-> a, type |-> "ABS32", reach |-> Value(a)]
  BY <1>1 DEF Raw, RelocType
<1>2. CASE \E a : \E t \in Pick(Branch(a), types) :
               c = [off |-> a, type |-> t, reach |-> Branch(a).reach]
  <2>1. PICK a : \E t \in Pick(Branch(a), types) :
               c = [off |-> a, type |-> t, reach |-> Branch(a).reach]
    BY <1>2
  <2>3. PICK t \in Pick(Branch(a), types) :
               c = [off |-> a, type |-> t, reach |-> Branch(a).reach]
    BY <2>1
  <2>2. t \in RelocType
    BY DEF Pick
  <2> QED
    BY <2>3, <2>2, PickIsOfTheClass DEF Raw
<1> QED
  BY <1>1, <1>2 DEF Scan

\* What a candidate is given a relocation for.
LEMMA CandidateFacts ==
  ASSUME IInv, NEW c \in cands
  PROVE  /\ Type(c) \in RelocType /\ SameClass(Type(c), c.type)
         /\ Reach(c) = Goes(c.off, Type(c)) /\ Reach(c) \in Int
         /\ Type(c) # "ABS32" => /\ Branch(c.off).first # "none"
                                 /\ SameClass(Type(c), Branch(c.off).first)
<1> USE DEF IInv
<1>1. c.type \in RelocType
  BY DEF TypeOK
<1>2. Type(c) \in RelocType /\ SameClass(Type(c), c.type)
  <2>1. CASE HasPartner(c)
    BY <2>1 DEF HasPartner, Type, RelocAt, TwinIsOfTheBase, Readable
  <2>2. CASE ~HasPartner(c)
    BY <1>1, <2>2 DEF Type, SameClass
  <2> QED
    BY <2>1, <2>2
<1>3. (Type(c) = "ABS32") = (c.type = "ABS32")
  BY <1>2 DEF SameClass, ArmBranches
<1>4. Reach(c) = Goes(c.off, Type(c))
  BY <1>3 DEF CandidatesAreRead, Reach, Goes, Raw
<1>5. Type(c) # "ABS32" => /\ Branch(c.off).first # "none"
                           /\ SameClass(Type(c), Branch(c.off).first)
  BY <1>2, <1>3 DEF CandidatesAreRead, SameClass
<1> QED
  BY <1>2, <1>4, <1>5, GoesIsInt

\* The relocation that is taken for a candidate is the twin's, and fits it.
LEMMA OptionFacts ==
  ASSUME IInv, NEW c \in cands, NEW S \in SUBSET Options(c), NEW k \in Foremost(c, S)
  PROVE  /\ k \in S /\ k \in job.twin
         /\ job.sec \in DOMAIN base.relocs /\ OffsetOf(k) \in DOMAIN base.relocs[job.sec]
         /\ RelocAt(k) = base.relocs[job.sec][OffsetOf(k)]
         /\ RelocAt(k).type \in RelocType /\ SameClass(RelocAt(k).type, Type(c))
         /\ base.contents[job.sec][OffsetOf(k)].imm \in Int
<1>1. k \in S /\ k \in Options(c)
  BY DEF Foremost
<1>2. k \in job.twin /\ SameClass(RelocAt(k).type, Type(c))
  BY <1>1 DEF Options, HasPartner, IInv, TwinIsOfTheBase
<1>3. job.sec \in DOMAIN base.relocs /\ OffsetOf(k) \in DOMAIN base.relocs[job.sec]
  BY <1>2 DEF IInv, TwinIsOfTheBase, OffsetOf
<1> QED
  BY <1>1, <1>2, <1>3 DEF IInv, Readable, RelocAt, OffsetOf, Cell

\* The addend read off a symbol of the CSV reaches from there.
LEMMA AddendReaches ==
  ASSUME Readable, NEW i \in DOMAIN csv, NEW reach \in Int, NEW t \in RelocType
  PROVE  /\ Addend(csv[i], reach, t) = AddendFrom(i, reach, t)
         /\ AddendFrom(i, reach, t) \in Int
<1>1. csv[i].addr \in Int
  BY DEF Readable
<1>2. Bias(t) \in Int
  BY UnitsAndBiases DEF RelocType
<1> DEFINE odd == t = "ABS32" /\ IsThumbFunction(csv[i])
           a   == csv[i].addr
           b   == Bias(t)
<1>3. reach % 2 \in {0, 1}
  OBVIOUS
<1>4. Addend(csv[i], reach, t) = reach - a - (IF odd /\ reach % 2 = 1 THEN 1 ELSE 0) - b
  <2>1. (IF t = "ABS32" /\ reach % 2 = 1 /\ IsThumbFunction(csv[i]) THEN 1 ELSE 0)
          = (IF odd /\ reach % 2 = 1 THEN 1 ELSE 0)
    BY Zenon
  <2> QED
    BY <2>1 DEF Addend
<1>5. AddendFrom(i, reach, t) = reach - (IF odd THEN reach % 2 ELSE 0) - a - b
  BY DEF AddendFrom
<1>6. a \in Int /\ b \in Int
  BY <1>1, <1>2
<1> HIDE DEF odd, a, b
<1>7. CASE odd /\ reach % 2 = 1
  BY <1>4, <1>5, <1>6, <1>7
<1>8. CASE ~(odd /\ reach % 2 = 1)
  BY <1>3, <1>4, <1>5, <1>6, <1>8
<1> QED
  BY <1>7, <1>8

LEMMA InitIsRead == Init => IInv
<1> SUFFICES ASSUME Init PROVE IInv
  OBVIOUS
<1>1. /\ Readable /\ pc = "next" /\ todo = Units /\ cands = {} /\ unused = {}
      /\ data = in.orig /\ relocs = <<>> /\ unresolved = 0 /\ job.twin = {}
  BY DEF Init
<1>2. DOMAIN relocs = {}
  BY <1>1
<1>3. TypeOK
  BY <1>1, <1>2 DEF TypeOK, Readable
<1> QED
  BY <1>1, <1>2, <1>3 DEF IInv, CandidatesAreRead, TwinIsOfTheBase, RelocationsReach

\* A symbol or split section is taken: what its twin has becomes the job's.
LEMMA TakeFacts ==
  ASSUME IInv, NEW i \in DOMAIN in.syms, TwinOf(i) # 0, NEW code, NEW pieces,
         job' = JobOf(i, code, pieces)
  PROVE  /\ job'.twin = RelocsIn(base, TwinOf(i))
         /\ \A k \in job'.twin : /\ job'.sec \in DOMAIN base.relocs
                                 /\ job'.from + k \in DOMAIN base.relocs[job'.sec]
         /\ \A k \in RelocsIn(base, TwinOf(i)) :
              base.relocs[base.syms[TwinOf(i)].sec][Start(base.syms[TwinOf(i)]) + k].type
                \in RelocType
<1>1. Readable /\ TwinOf(i) \in DOMAIN base.syms
  BY TwinIsASymbol DEF IInv
<1>2. job'.twin = RelocsIn(base, TwinOf(i)) /\ job'.sec = base.syms[TwinOf(i)].sec
      /\ job'.from = Start(base.syms[TwinOf(i)])
  BY DEF JobOf
<1>3. LET s == base.syms[TwinOf(i)]
      IN /\ s.sec \in DOMAIN base.relocs
         /\ \A k \in RelocsIn(base, TwinOf(i)) : Start(s) + k \in DOMAIN base.relocs[s.sec]
  BY <1>1, RelocsAreThere
<1> QED
  BY <1>1, <1>2, <1>3 DEF Readable

\* Every step keeps what the reaching rests on.
LEMMA StepKeepsIInv == IInv /\ [Next]_vars => IInv'
<1> SUFFICES ASSUME IInv, [Next]_vars PROVE IInv'
  OBVIOUS
<1> DEFINE IsRead(c) ==
             /\ c.type \in RelocType /\ c.reach = Raw(c.off, c.type)
             /\ c.type # "ABS32" => /\ Branch(c.off).first # "none"
                                    /\ SameClass(c.type, Branch(c.off).first)
<1>1. /\ Readable /\ TypeOK /\ TwinIsOfTheBase
      /\ \A c \in cands : IsRead(c)
  BY DEF IInv, CandidatesAreRead, TypeOK
<1>2. /\ pc \in {"next", "scan", "done"} /\ unresolved \in Nat /\ unused \subseteq job.twin
      /\ \A k \in job.twin : /\ job.sec \in DOMAIN base.relocs
                             /\ job.from + k \in DOMAIN base.relocs[job.sec]
  BY <1>1 DEF TypeOK, TwinIsOfTheBase
<1>3. ASSUME NEW i \in DOMAIN in.syms, TakeFunction(i) PROVE IInv'
  <2> DEFINE twin  == base.syms[TwinOf(i)]
             found == {base.relocs[twin.sec][Start(twin) + k].type : k \in RelocsIn(base, TwinOf(i))}
             whole == Whole(i)
             types == found \ (IF whole THEN {} ELSE {"ABS32"})
  <2>1. TwinOf(i) # 0
    BY <1>3 DEF TakeFunction, PassedBy
  <2>2. /\ in' = in /\ data' = data /\ relocs' = relocs /\ unresolved' = unresolved
        /\ pc' = "scan" /\ todo' \subseteq todo /\ unused' = RelocsIn(base, TwinOf(i))
        /\ \E pieces : job' = JobOf(i, TRUE, pieces)
    BY <1>3 DEF TakeFunction
  <2>3. \E places, start, end, pools : cands' = Scan(places, start, end, types, pools)
    BY <1>3, Zenon DEF TakeFunction
  <2>4. /\ job'.twin = RelocsIn(base, TwinOf(i)) /\ found \subseteq RelocType
        /\ \A k \in job'.twin : /\ job'.sec \in DOMAIN base.relocs
                                /\ job'.from + k \in DOMAIN base.relocs[job'.sec]
    BY <2>1, <2>2, TakeFacts
  <2>5. types \in SUBSET RelocType
    BY <2>4
  <2> HIDE DEF types
  <2>6. \A c \in cands' : IsRead(c)
    BY <1>1, <2>3, <2>5, ScanReads
  <2> QED
    BY <1>2, <2>2, <2>4, <2>6, OthersKeepIInv
<1>4. ASSUME NEW i \in DOMAIN in.syms, TakeData(i) PROVE IInv'
  <2>1. TwinOf(i) # 0
    BY <1>4 DEF TakeData, PassedBy
  <2>2. /\ in' = in /\ data' = data /\ relocs' = relocs /\ unresolved' = unresolved
        /\ pc' = "scan" /\ todo' \subseteq todo /\ unused' = {}
        /\ \E pieces : job' = JobOf(i, FALSE, pieces)
        /\ \A c \in cands' : \E a : c = [off |-> a, type |-> "ABS32", reach |-> Value(a)]
    BY <1>4 DEF TakeData
  <2>3. \A k \in job'.twin : /\ job'.sec \in DOMAIN base.relocs
                             /\ job'.from + k \in DOMAIN base.relocs[job'.sec]
    BY <2>1, <2>2, TakeFacts
  <2>4. \A c \in cands' : IsRead(c)
    BY <2>2 DEF Raw, RelocType
  <2> QED
    BY <1>2, <2>2, <2>3, <2>4, OthersKeepIInv
<1>5. ASSUME NEW i \in DOMAIN in.syms, PassBy(i) PROVE IInv'
  BY <1>1, <1>2, <1>5, OthersKeepIInv DEF PassBy
<1>6. CASE TakeNext
  BY <1>1, <1>2, <1>6, OthersKeepIInv DEF TakeNext
<1>7. CASE Finish
  BY <1>1, <1>2, <1>7, OthersKeepIInv DEF Finish
<1>8. ASSUME NEW c \in cands, Pass(c) PROVE IInv'
  <2>1. cands' \subseteq cands
    BY <1>8 DEF Pass
  <2> QED
    BY <1>1, <1>2, <1>8, <2>1, OthersKeepIInv DEF Pass
<1>9. ASSUME NEW c \in cands, EmitBySection(c) PROVE IInv'
  <2> DEFINE view(k) == ObjdiffView(base, job.sec, OffsetOf(k))
  <2>1. PICK k \in Foremost(c, BySection(c)) :
          /\ Add(c, RelocAt(k).type, view(k).name, view(k).addend, "section")
          /\ unused' = unused \ {k}
    BY <1>9 DEF EmitBySection
  <2>2. BySection(c) \in SUBSET Options(c)
    BY DEF BySection
  <2>3. /\ job.sec \in DOMAIN base.relocs /\ OffsetOf(k) \in DOMAIN base.relocs[job.sec]
        /\ RelocAt(k).type \in RelocType /\ SameClass(RelocAt(k).type, Type(c))
    BY <2>1, <2>2, OptionFacts
  <2>4. SameClass(RelocAt(k).type, c.type)
    BY <2>3, CandidateFacts DEF SameClass
  <2>5. view(k).addend \in Int
    BY <1>1, <2>3, ViewHasAnAddend
  <2> HIDE DEF view
  <2> QED
    BY <2>1, <2>3, <2>4, <2>5, AddKeepsIInv
<1>10. ASSUME NEW c \in cands, EmitByName(c) PROVE IInv'
  <2> DEFINE name(k)   == SymOf(base, job.sec, OffsetOf(k)).name
             addend(k) == AddendOf(base, job.sec, OffsetOf(k))
  <2>1. PICK k \in Foremost(c, ByName(c)) :
          /\ Add(c, Type(c), name(k), addend(k), "name")
          /\ unused' = unused \ {k}
    BY <1>10 DEF EmitByName
  <2>2. ByName(c) \in SUBSET Options(c)
    BY DEF ByName
  <2>3. /\ k \in ByName(c) /\ RelocAt(k) = base.relocs[job.sec][OffsetOf(k)]
        /\ RelocAt(k).type \in RelocType /\ SameClass(RelocAt(k).type, Type(c))
        /\ base.contents[job.sec][OffsetOf(k)].imm \in Int
    BY <2>1, <2>2, OptionFacts
  <2>4. /\ Type(c) \in RelocType /\ SameClass(Type(c), c.type)
        /\ Reach(c) = Goes(c.off, Type(c)) /\ Reach(c) \in Int
    BY CandidateFacts
  <2>5. addend(k) \in Int
    BY <2>3, AddendIsInt DEF AddendOf
  <2>6. PICK i \in DOMAIN csv : csv[i].name = name(k) /\ Addend(csv[i], Reach(c), Type(c)) = addend(k)
    BY <2>3 DEF ByName, CsvNamed
  <2>7. addend(k) = AddendFrom(i, Reach(c), Type(c))
    BY <1>1, <2>4, <2>6, AddendReaches
  <2> HIDE DEF name, addend
  <2> QED
    BY <2>1, <2>4, <2>5, <2>6, <2>7, AddKeepsIInv
<1>11. ASSUME NEW c \in cands, EmitNearest(c) PROVE IInv'
  <2>1. PICK i \in Resolved(Reach(c), Type(c)) :
          Add(c, Type(c), csv[i].name, Addend(csv[i], Reach(c), Type(c)), "nearest")
    BY <1>11 DEF EmitNearest
  <2>2. /\ Type(c) \in RelocType /\ SameClass(Type(c), c.type)
        /\ Reach(c) = Goes(c.off, Type(c)) /\ Reach(c) \in Int
        /\ Type(c) # "ABS32" => /\ Branch(c.off).first # "none"
                                /\ SameClass(Type(c), Branch(c.off).first)
    BY CandidateFacts
  <2>3. i \in DOMAIN csv
    BY DEF Resolved, Containing
  <2>4. /\ Addend(csv[i], Reach(c), Type(c)) = AddendFrom(i, Reach(c), Type(c))
        /\ Addend(csv[i], Reach(c), Type(c)) \in Int
    BY <1>1, <2>2, <2>3, AddendReaches
  <2>6. unused' = unused
    BY <1>11 DEF EmitNearest
  <2> QED
    BY <2>1, <2>2, <2>3, <2>4, <2>6, AddKeepsIInv
<1>12. ASSUME NEW c \in cands, Unresolved(c) PROVE IInv'
  <2>1. cands' \subseteq cands /\ unresolved' \in Nat
    BY <1>2, <1>12 DEF Unresolved
  <2> QED
    BY <1>1, <1>2, <1>12, <2>1, OthersKeepIInv DEF Unresolved
<1>13. CASE UNCHANGED vars
  BY <1>1, <1>2, <1>13, OthersKeepIInv DEF vars
<1> QED
  BY <1>3, <1>4, <1>5, <1>6, <1>7, <1>8, <1>9, <1>10, <1>11, <1>12, <1>13 DEF Next

\* What the variables hold, for every base, binary and CSV that is read.
THEOREM TypeIsOK == Spec => []TypeOK
<1>1. IInv => TypeOK
  BY DEF IInv
<1> QED
  BY <1>1, InitIsRead, StepKeepsIInv, PTL DEF Spec

\* However much the base differs from the binary, what is recovered after the CSV
\* reaches what the binary reaches: no bytes are rewritten to go elsewhere.
THEOREM EveryRelocationReaches == Spec => []RelocationsReach
<1>1. IInv => RelocationsReach
  BY DEF IInv
<1> QED
  BY <1>1, InitIsRead, StepKeepsIInv, PTL DEF Spec
-----------------------------------------------------------------------------
(* The pools of a function.                                                *)

\* The literal pools found in a whole function, and the marks they are given.
EndOf(i) == in.syms[i].addr + in.syms[i].size
PoolsOf(i) ==
  IF in.syms[i].mode = "$t" THEN ThumbPools(in.syms[i].addr, EndOf(i))
  ELSE ArmPools(in.syms[i].addr, EndOf(i))
MarksOf(i) == PoolMapping(PoolsOf(i), EndOf(i), in.syms[i].mode)

\* The functions that are searched for pools.
Searched ==
  {i \in Units : /\ Whole(i) /\ in.syms[i].segment[1] = ".text"
                 /\ ~PassedBy(i) /\ in.syms[i].name \notin in.marked}

\* What has been marked is the pools of the functions that were taken up.
PoolInv ==
  /\ Readable
  /\ todo \subseteq Units
  /\ pc = "done" => todo = {}
  /\ mapping = UNION {MarksOf(i) : i \in Searched \ todo}

\* The four bytes a byte is in.
LEMMA AlignedWord ==
  ASSUME NEW a \in Int
  PROVE  LET q == AlignDown(a, 4)
         IN q \in Int /\ q % 4 = 0 /\ q <= a /\ a < q + 4
  BY DEF AlignDown

\* The last of some numbers that go no further than `a`.
LEMMA LastNumber ==
  ASSUME NEW T \in SUBSET Int, T # {}, NEW a \in Int, \A x \in T : x <= a
  PROVE  \E m \in T : \A n \in T : n <= m
<1> DEFINE S == {a - x : x \in T}
<1>0. \A x \in T : x \in Int /\ x <= a /\ a - x \in Nat
  OBVIOUS
<1>1. S \subseteq Nat /\ S # {}
  <2>1. PICK x \in T : TRUE
    OBVIOUS
  <2>2. a - x \in S
    OBVIOUS
  <2> QED
    BY <1>0, <2>2
<1>2. PICK l \in S : \A n \in S : l <= n
  BY <1>1, LeastNumber
<1>3. PICK m \in T : l = a - m
  BY <1>2
<1>4. \A n \in T : a - m <= a - n
  BY <1>2, <1>3
<1>5. m \in Int /\ \A n \in T : n \in Int
  OBVIOUS
<1>6. \A n \in T : n <= m
  BY <1>4, <1>5
<1> QED
  BY <1>3, <1>6

\* From a word in a set down to one that is not, there is one whose neighbour below
\* is the first outside.
LEMMA RunStarts ==
  ASSUME NEW pools \in SUBSET Int, NEW start \in Int, \A p \in pools : start <= p,
         NEW q \in pools
  PROVE  \E n \in Nat : /\ q - 4 * n \in pools /\ q - 4 * n - 4 \notin pools
                        /\ \A j \in 0..n : q - 4 * j \in pools
<1> DEFINE out == {n \in Nat : q - 4 * n \notin pools}
<1>1. q \in Int /\ start <= q
  OBVIOUS
<1>2. q - start + 1 \in Nat /\ q - 4 * (q - start + 1) < start
  BY <1>1
<1>3. q - start + 1 \in out
  BY <1>2
<1>4. PICK m \in out : \A k \in out : m <= k
  BY <1>3, LeastNumber
<1>5. m \in Nat /\ q - 4 * m \notin pools
  OBVIOUS
<1>6. m # 0
  <2>1. q - 4 * 0 = q
    BY <1>1
  <2> QED
    BY <1>5, <2>1
<1>7. PICK n \in Nat : n = m - 1
  BY <1>5, <1>6
<1>8. ASSUME NEW j \in 0..n PROVE q - 4 * j \in pools
  <2>1. j \in Nat /\ ~(m <= j)
    BY <1>5, <1>7
  <2> QED
    BY <1>4, <2>1
<1>9. q - 4 * n - 4 = q - 4 * m
  BY <1>1, <1>5, <1>7
<1>10. n \in 0..n
  BY <1>7
<1> QED
  BY <1>5, <1>8, <1>9, <1>10

\* And from a word in a set up to one that is not.
LEMMA RunEnds ==
  ASSUME NEW pools, NEW p \in Int, p \in pools, NEW q \in Int, q \notin pools,
         p <= q, (q - p) % 4 = 0
  PROVE  \E r \in Int : p < r /\ r <= q /\ r \notin pools /\ r - 4 \in pools
<1> DEFINE out == {n \in Nat : p + 4 * n \notin pools}
<1>1. PICK d \in Nat : q = p + 4 * d
  <2>1. (q - p) \div 4 \in Nat /\ q = p + 4 * ((q - p) \div 4)
    OBVIOUS
  <2> QED
    BY <2>1
<1>2. d \in out
  BY <1>1
<1>3. PICK m \in out : \A k \in out : m <= k
  BY <1>2, LeastNumber
<1>4. m \in Nat /\ p + 4 * m \notin pools /\ m <= d
  BY <1>2, <1>3
<1>5. m # 0
  <2>1. p + 4 * 0 = p
    OBVIOUS
  <2> QED
    BY <1>4, <2>1
<1>6. m - 1 \in Nat /\ ~(m <= m - 1)
  BY <1>4, <1>5
<1>7. p + 4 * (m - 1) \in pools
  BY <1>3, <1>6
<1>8. p + 4 * (m - 1) = p + 4 * m - 4 /\ p < p + 4 * m /\ p + 4 * m <= q
  BY <1>1, <1>4, <1>5
<1> QED
  BY <1>4, <1>7, <1>8

\* The pools the searches find: whole words, inside the function.
LEMMA PoolsAreWords ==
  ASSUME Readable, NEW start \in Nat, NEW end \in Int,
         NEW pools, pools = ThumbPools(start, end) \/ pools = ArmPools(start, end)
  PROVE  \A a \in pools : a \in Int /\ start <= a /\ a + 4 <= end /\ a % 4 = 0
<1>1. \A o : CellAt(o).imm \in Int
  BY CellAtFacts
<1>2. CASE pools = ArmPools(start, end)
  <2> SUFFICES ASSUME NEW a \in pools PROVE a \in Int /\ start <= a /\ a + 4 <= end /\ a % 4 = 0
    OBVIOUS
  <2>1. PICK o \in start..(end - 4) : a = o + 8 + CellAt(o).imm
    BY <1>2 DEF ArmPools
  <2>2. a \in Int
    BY <1>1, <2>1
  <2>3. start <= a /\ a <= end - 4 /\ a % 4 = 0
    BY <1>2 DEF ArmPools
  <2> QED
    BY <2>2, <2>3
<1>3. CASE pools = ThumbPools(start, end)
  <2> SUFFICES ASSUME NEW a \in pools PROVE a \in Int /\ start <= a /\ a + 4 <= end /\ a % 4 = 0
    OBVIOUS
  <2>1. PICK o \in start..(end - 2) : a = AlignDown(o + 4, 4) + 4 * CellAt(o).imm
    BY <1>3 DEF ThumbPools
  <2>2. PICK imm \in Int : imm = CellAt(o).imm
    BY <1>1
  <2>3. PICK q \in Int : q = AlignDown(o + 4, 4) /\ q % 4 = 0
    <3>1. o + 4 \in Int
      OBVIOUS
    <3> QED
      BY <3>1, AlignedWord
  <2>4. a = q + 4 * imm
    BY <2>1, <2>2, <2>3
  <2>5. a \in Int /\ a % 4 = 0
    BY <2>3, <2>4
  <2>6. start <= a /\ a <= end - 4
    BY <1>3 DEF ThumbPools
  <2> QED
    BY <2>5, <2>6
<1> QED
  BY <1>2, <1>3

\* Addresses of whole words of a function.
WordsWithin(pools, start, end) ==
  \A p \in pools : p \in Int /\ start <= p /\ p + 4 <= end /\ p % 4 = 0

\* The marks from an address to another, and what the last of some says.
Between(marks, start, a) == {m \in marks : start <= m[1] /\ m[1] <= a}
Shown(before, mode) ==
  IF before = {} THEN {mode}
  ELSE {m[2] : m \in {m \in before : \A n \in before : n[1] <= m[1]}}

\* A byte of a function is shown as the last mark before it says: data in the four
\* bytes of a pool, and code elsewhere.
LEMMA MarksShowThePools ==
  ASSUME NEW start \in Int, NEW end \in Int, NEW mode, NEW pools,
         WordsWithin(pools, start, end), NEW a \in start..(end - 1)
  PROVE  Shown(Between(PoolMapping(pools, end, mode), start, a), mode)
           = {IF AlignDown(a, 4) \in pools THEN "$d" ELSE mode}
<1> DEFINE before == Between(PoolMapping(pools, end, mode), start, a)
           last == {m \in before : \A n \in before : n[1] <= m[1]}
           Starts(m) == m[2] = "$d" /\ m[1] \in pools /\ m[1] - 4 \notin pools
           Ends(m)   == m[2] = mode /\ m[1] \notin pools /\ m[1] - 4 \in pools
<1>0. /\ pools \in SUBSET Int
      /\ \A p \in pools : p \in Int /\ start <= p /\ p + 4 <= end /\ p % 4 = 0
  BY DEF WordsWithin
<1> USE <1>0
<1>1. PICK q \in Int : q = AlignDown(a, 4) /\ q % 4 = 0 /\ q <= a /\ a < q + 4
  <2>1. a \in Int
    OBVIOUS
  <2> QED
    BY <2>1, AlignedWord
<1>2. \A m \in before : m[1] \in Int /\ m[1] <= a /\ (Starts(m) \/ Ends(m))
  <2> SUFFICES ASSUME NEW m \in before PROVE m[1] \in Int /\ m[1] <= a /\ (Starts(m) \/ Ends(m))
    OBVIOUS
  <2>1. m \in PoolMapping(pools, end, mode) /\ m[1] <= a
    BY DEF Between
  <2>2. CASE \E p \in pools : p - 4 \notin pools /\ m = <<p, "$d">>
    BY <2>1, <2>2
  <2>3. CASE \E p \in pools : p + 4 \notin pools /\ m = <<p + 4, mode>>
    <3>1. PICK p \in pools : p + 4 \notin pools /\ m = <<p + 4, mode>>
      BY <2>3
    <3>2. p \in Int /\ p + 4 - 4 = p
      OBVIOUS
    <3> QED
      BY <2>1, <3>1, <3>2
  <2> QED
    BY <2>1, <2>2, <2>3 DEF PoolMapping
<1>3. \A r \in pools : r - 4 \notin pools /\ r <= a => <<r, "$d">> \in before
  BY DEF PoolMapping, Between
<1>4. \A r \in Int : r \notin pools /\ r - 4 \in pools /\ r <= a => <<r, mode>> \in before
  <2> SUFFICES ASSUME NEW r \in Int, r \notin pools, r - 4 \in pools, r <= a
               PROVE  <<r, mode>> \in before
    OBVIOUS
  <2>1. r = (r - 4) + 4 /\ (r - 4) + 4 < end /\ start <= r
    OBVIOUS
  <2>2. <<(r - 4) + 4, mode>> \in PoolMapping(pools, end, mode)
    BY <2>1 DEF PoolMapping
  <2> QED
    BY <2>1, <2>2 DEF Between
<1> HIDE DEF before
<1>5. before # {} => last # {}
  <2> SUFFICES ASSUME before # {} PROVE last # {}
    OBVIOUS
  <2> DEFINE T == {m[1] : m \in before}
  <2>1. T \in SUBSET Int /\ T # {} /\ \A x \in T : x <= a
    BY <1>2
  <2>2. a \in Int
    OBVIOUS
  <2>3. PICK x \in T : \A y \in T : y <= x
    <3> HIDE DEF T
    <3> QED
      BY <2>1, <2>2, LastNumber
  <2>4. PICK m \in before : x = m[1]
    BY <2>3
  <2>5. \A n \in before : n[1] \in T
    OBVIOUS
  <2> QED
    BY <2>3, <2>4, <2>5
<1> HIDE DEF Starts, Ends
<1>6. CASE q \in pools
  <2>1. PICK n \in Nat : /\ q - 4 * n \in pools /\ q - 4 * n - 4 \notin pools
                         /\ \A j \in 0..n : q - 4 * j \in pools
    BY <1>6, RunStarts
  <2>2. PICK r \in Int : r = q - 4 * n /\ r <= q /\ r % 4 = 0
    BY <1>1
  <2>3. <<r, "$d">> \in before
    BY <1>1, <1>3, <2>1, <2>2
  <2>4. ASSUME NEW m \in last PROVE m[2] = "$d"
    <3>1. m \in before /\ r <= m[1]
      BY <2>3
    <3>2. m[1] \in Int /\ m[1] <= a /\ (Starts(m) \/ Ends(m))
      BY <1>2, <3>1
    <3>3. CASE Ends(m)
      <4>1. m[1] \notin pools /\ m[1] - 4 \in pools
        BY <3>3 DEF Ends
      <4>2. (m[1] - 4) % 4 = 0
        BY <4>1
      <4>3. m[1] % 4 = 0
        BY <3>2, <4>2
      <4>4. m[1] <= q
        BY <1>1, <3>2, <4>3
      <4>5. PICK j \in 0..n : m[1] = q - 4 * j
        <5>1. (q - m[1]) % 4 = 0
          BY <1>1, <3>2, <4>3
        <5>2. PICK j \in Int : q - m[1] = 4 * j
          BY <3>2, <5>1
        <5>3. j \in 0..n
          BY <2>2, <3>1, <3>2, <4>4, <5>2
        <5> QED
          BY <3>2, <5>2, <5>3
      <4> QED
        BY <2>1, <4>1, <4>5
    <3>4. CASE Starts(m)
      BY <3>4 DEF Starts
    <3> QED
      BY <3>2, <3>3, <3>4
  <2>5. before # {} /\ last # {}
    BY <1>5, <2>3
  <2> HIDE DEF last
  <2>6. {m[2] : m \in last} = {"$d"}
    BY <2>4, <2>5
  <2> QED
    BY <1>1, <1>6, <2>5, <2>6 DEF last, Shown, before
<1>7. CASE q \notin pools
  <2>1. ASSUME NEW m \in last PROVE m[2] = mode
    <3>1. m \in before /\ \A k \in before : k[1] <= m[1]
      OBVIOUS
    <3>2. m[1] \in Int /\ m[1] <= a /\ (Starts(m) \/ Ends(m))
      BY <1>2, <3>1
    <3>3. CASE Starts(m)
      <4>1. m[1] \in pools
        BY <3>3 DEF Starts
      <4>2. m[1] % 4 = 0
        BY <4>1
      <4>3. m[1] <= q /\ (q - m[1]) % 4 = 0
        BY <1>1, <3>2, <4>2
      <4>4. PICK r \in Int : m[1] < r /\ r <= q /\ r \notin pools /\ r - 4 \in pools
        BY <1>7, <3>2, <4>1, <4>3, RunEnds
      <4>5. r <= a
        BY <1>1, <4>4
      <4>6. <<r, mode>> \in before
        BY <1>4, <4>4, <4>5
      <4>7. r <= m[1]
        BY <3>1, <4>6
      <4> QED
        BY <3>2, <4>4, <4>7
    <3>4. CASE Ends(m)
      BY <3>4 DEF Ends
    <3> QED
      BY <3>2, <3>3, <3>4
  <2>2. before # {} => {m[2] : m \in last} = {mode}
    <3> HIDE DEF last
    <3> QED
      BY <1>5, <2>1
  <2> QED
    BY <1>1, <1>7, <2>2 DEF Shown, before
<1> QED
  BY <1>6, <1>7 DEF before

\* What is marked of a function, and which are searched, is of the input alone.
LEMMA MarksStay ==
  ASSUME in' = in
  PROVE  /\ Readable' = Readable /\ Units' = Units /\ Searched' = Searched
         /\ \A i : MarksOf(i)' = MarksOf(i)
<1>1. Readable' = Readable
  BY DEF Readable, base, csv
<1>3. Units' = Units
  BY DEF Units, Whole, Parts
<1>4. \A o : CellAt(o)' = CellAt(o)
  BY DEF CellAt
<1>5. \A i : EndOf(i)' = EndOf(i)
  BY DEF EndOf
<1>6. \A s, e : ThumbPools(s, e)' = ThumbPools(s, e) /\ ArmPools(s, e)' = ArmPools(s, e)
  BY <1>4 DEF ThumbPools, ArmPools
<1>7. \A i : MarksOf(i)' = MarksOf(i)
  BY <1>5, <1>6 DEF MarksOf, PoolsOf
<1>8. \A i : PassedBy(i)' = PassedBy(i)
  BY DEF PassedBy, TwinOf, NamedPart, Whole, Parts, base
<1>9. Searched' = Searched
  BY <1>3, <1>8 DEF Searched, Whole
<1> QED
  BY <1>1, <1>3, <1>7, <1>9

\* A step that takes up no function to search, and one that does.
LEMMA OthersKeepPoolInv ==
  ASSUME PoolInv, in' = in, mapping' = mapping, todo' \subseteq todo,
         todo \ todo' \subseteq DOMAIN in.syms \ Searched,
         pc' = "done" => todo' = {}
  PROVE  PoolInv'
<1>1. /\ Readable' = Readable /\ Units' = Units /\ Searched' = Searched
      /\ \A i : MarksOf(i)' = MarksOf(i)
  BY MarksStay
<1>2. Searched \ todo' = Searched \ todo
  OBVIOUS
<1>3. mapping' = (UNION {MarksOf(i) : i \in Searched \ todo})'
  <2>1. mapping = UNION {MarksOf(i) : i \in Searched \ todo}
    BY DEF PoolInv
  <2> QED
    BY <1>1, <1>2, <2>1
<1> QED
  BY <1>1, <1>3 DEF PoolInv

LEMMA SearchKeepsPoolInv ==
  ASSUME PoolInv, NEW i \in DOMAIN in.syms, i \in todo, i \in Searched,
         in' = in, mapping' = mapping \cup MarksOf(i), todo' = todo \ {i}, pc' # "done"
  PROVE  PoolInv'
<1>1. /\ Readable' = Readable /\ Units' = Units /\ Searched' = Searched
      /\ \A j : MarksOf(j)' = MarksOf(j)
  BY MarksStay
<1>2. Searched \ todo' = (Searched \ todo) \cup {i}
  OBVIOUS
<1>3. mapping' = UNION {MarksOf(j) : j \in Searched \ todo'}
  <2>1. mapping = UNION {MarksOf(j) : j \in Searched \ todo}
    BY DEF PoolInv
  <2> QED
    BY <1>2, <2>1
<1>4. mapping' = (UNION {MarksOf(j) : j \in Searched \ todo})'
  BY <1>1, <1>3
<1> QED
  BY <1>1, <1>4 DEF PoolInv

LEMMA InitHasNoMarks == Init => PoolInv
<1> SUFFICES ASSUME Init PROVE PoolInv
  OBVIOUS
<1>1. Readable /\ pc = "next" /\ todo = Units /\ mapping = {}
  BY DEF Init
<1>2. Searched \ todo = {}
  BY <1>1 DEF Searched
<1> QED
  BY <1>1, <1>2 DEF PoolInv

LEMMA StepKeepsPoolInv == PoolInv /\ [Next]_vars => PoolInv'
<1> SUFFICES ASSUME PoolInv, [Next]_vars PROVE PoolInv'
  OBVIOUS
<1>1. ASSUME NEW i \in DOMAIN in.syms, TakeFunction(i) PROVE PoolInv'
  <2>1. /\ in' = in /\ i \in todo /\ todo' = todo \ {i} /\ pc' = "scan" /\ ~PassedBy(i)
        /\ in.syms[NamedPart(i)].segment[1] = ".text"
    BY <1>1 DEF TakeFunction, Due
  <2>2. i \in Units
    BY <2>1 DEF PoolInv
  <2>3. CASE Whole(i) /\ in.syms[i].name \notin in.marked
    <3>1. NamedPart(i) = i
      BY <2>3 DEF NamedPart
    <3>2. i \in Searched
      BY <2>1, <2>2, <2>3, <3>1 DEF Searched
    <3>3. mapping' = mapping \cup MarksOf(i)
      BY <1>1, <2>3, <3>1, Zenon DEF TakeFunction, MarksOf, PoolsOf, EndOf
    <3> QED
      BY <2>1, <3>2, <3>3, SearchKeepsPoolInv
  <2>4. CASE ~Whole(i)
    <3>1. mapping' = mapping
      BY <1>1, <2>4, Zenon DEF TakeFunction
    <3> QED
      BY <2>1, <2>4, <3>1, OthersKeepPoolInv DEF Searched
  <2>5. CASE Whole(i) /\ in.syms[i].name \in in.marked
    <3>1. NamedPart(i) = i
      BY <2>5 DEF NamedPart
    <3>2. mapping' = mapping
      BY <1>1, <2>5, <3>1, Zenon DEF TakeFunction
    <3> QED
      BY <2>1, <2>5, <3>2, OthersKeepPoolInv DEF Searched
  <2> QED
    BY <2>3, <2>4, <2>5
<1>2. ASSUME NEW i \in DOMAIN in.syms, TakeData(i) PROVE PoolInv'
  <2>1. /\ in' = in /\ todo' = todo \ {i} /\ pc' = "scan" /\ mapping' = mapping
        /\ in.syms[NamedPart(i)].segment[1] # ".text"
    BY <1>2 DEF TakeData
  <2>2. i \notin Searched
    BY <2>1 DEF Searched, NamedPart
  <2> QED
    BY <2>1, <2>2, OthersKeepPoolInv
<1>3. ASSUME NEW i \in DOMAIN in.syms, PassBy(i) PROVE PoolInv'
  <2>1. /\ in' = in /\ todo' = todo \ {i} /\ pc' = "next" /\ mapping' = mapping
    BY <1>3 DEF PassBy
  <2>2. i \notin Searched
    BY <1>3 DEF Searched, PassBy
  <2> QED
    BY <2>1, <2>2, OthersKeepPoolInv
<1>4. ASSUME in' = in, mapping' = mapping, todo' = todo, pc' = "done" => todo = {}
      PROVE  PoolInv'
  BY <1>4, OthersKeepPoolInv
<1>5. CASE TakeNext
  BY <1>4, <1>5 DEF TakeNext
<1>6. CASE Finish
  BY <1>4, <1>6 DEF Finish
<1>7. ASSUME NEW c \in cands,
             Pass(c) \/ EmitBySection(c) \/ EmitByName(c) \/ EmitNearest(c) \/ Unresolved(c)
      PROVE  PoolInv'
  <2>1. pc = "scan" /\ in' = in /\ mapping' = mapping /\ todo' = todo /\ pc' = pc
    BY <1>7, Zenon DEF Pass, EmitBySection, EmitByName, EmitNearest, Unresolved, Add, Trying
  <2> QED
    BY <1>4, <2>1
<1>8. CASE UNCHANGED vars
  BY <1>4, <1>8 DEF vars, PoolInv
<1> QED
  BY <1>1, <1>2, <1>3, <1>5, <1>6, <1>7, <1>8 DEF Next

\* The pools of a function of the target.
LEMMA PoolsAreInside ==
  ASSUME Readable, Apart, NEW i \in DOMAIN in.syms
  PROVE  /\ in.syms[i].addr \in Nat /\ EndOf(i) \in Nat
         /\ \A a \in PoolsOf(i) : a \in Int /\ in.syms[i].addr <= a /\ a + 4 <= EndOf(i) /\ a % 4 = 0
<1>1. in.syms[i].addr \in Nat /\ EndOf(i) \in Nat
  BY DEF Apart, EndOf
<1>2. \/ PoolsOf(i) = ThumbPools(in.syms[i].addr, EndOf(i))
      \/ PoolsOf(i) = ArmPools(in.syms[i].addr, EndOf(i))
  BY DEF PoolsOf
<1>3. EndOf(i) \in Int
  BY <1>1
<1> QED
  BY <1>1, <1>2, <1>3, PoolsAreWords, Zenon

\* The marks in a function are its own: another's are in another.
LEMMA MarksAreInside ==
  ASSUME Readable, Apart, NEW i \in DOMAIN in.syms, NEW m \in MarksOf(i)
  PROVE  m[1] \in Int /\ in.syms[i].addr <= m[1] /\ m[1] < EndOf(i)
<1>1. in.syms[i].addr \in Nat /\ EndOf(i) \in Nat
  BY PoolsAreInside
<1>2. \A a \in PoolsOf(i) : a \in Int /\ in.syms[i].addr <= a /\ a + 4 <= EndOf(i)
  BY PoolsAreInside
<1>3. CASE \E a \in PoolsOf(i) : m = <<a, "$d">>
  BY <1>1, <1>2, <1>3
<1>4. CASE \E a \in PoolsOf(i) : a + 4 < EndOf(i) /\ m = <<a + 4, in.syms[i].mode>>
  BY <1>1, <1>2, <1>4
<1> QED
  BY <1>3, <1>4 DEF MarksOf, PoolMapping

\* What a byte of a searched function is shown as once all is done.
LEMMA FunctionShows ==
  ASSUME PoolInv, pc = "done", Apart, NEW i \in Searched, NEW start, NEW end,
         start = in.syms[i].addr, end = EndOf(i), NEW a \in start..(end - 1)
  PROVE  Shown(Between(mapping, start, a), in.syms[i].mode)
           = {IF AlignDown(a, 4) \in PoolsOf(i) THEN "$d" ELSE in.syms[i].mode}
<1>1. Readable /\ Apart /\ mapping = UNION {MarksOf(j) : j \in Searched}
  BY DEF PoolInv
<1>2. i \in DOMAIN in.syms /\ Searched \subseteq DOMAIN in.syms
  BY DEF Units, Searched
<1>3. start \in Nat /\ end \in Nat
  BY <1>1, <1>2, PoolsAreInside
<1>4. \A p \in PoolsOf(i) : p \in Int /\ start <= p /\ p + 4 <= end /\ p % 4 = 0
  BY <1>1, <1>2, PoolsAreInside
<1>5. Between(mapping, start, a) = Between(MarksOf(i), start, a)
  <2>1. ASSUME NEW m \in mapping, start <= m[1], m[1] <= a PROVE m \in MarksOf(i)
    <3>1. PICK j \in Searched : m \in MarksOf(j)
      BY <1>1
    <3>2. m[1] \in Int /\ in.syms[j].addr <= m[1] /\ m[1] < EndOf(j)
      BY <1>1, <1>2, <3>1, MarksAreInside
    <3>3. start <= m[1] /\ m[1] <= a /\ a < end /\ a \in Int
      BY <1>3, <2>1
    <3>4. CASE j = i
      BY <3>1, <3>3, <3>4
    <3>5. CASE j # i
      <4>1. in.syms[j].addr \in Nat /\ EndOf(j) \in Nat
        BY <1>1, <1>2 DEF Apart, EndOf
      <4>2. end <= in.syms[j].addr \/ EndOf(j) <= start
        BY <1>1, <1>2, <3>5 DEF Apart, EndOf
      <4> QED
        BY <1>3, <3>2, <3>3, <4>1, <4>2
    <3> QED
      BY <3>4, <3>5
  <2>2. ASSUME NEW m \in MarksOf(i) PROVE m \in mapping
    BY <1>1
  <2> QED
    BY <2>1, <2>2, Zenon DEF Between
<1>6. start \in Int /\ end \in Int
  BY <1>3
<1>7. MarksOf(i) = PoolMapping(PoolsOf(i), end, in.syms[i].mode)
  BY DEF MarksOf
<1>8. WordsWithin(PoolsOf(i), start, end)
  BY <1>4 DEF WordsWithin
<1> QED
  <2>1. Shown(Between(PoolMapping(PoolsOf(i), end, in.syms[i].mode), start, a), in.syms[i].mode)
          = {IF AlignDown(a, 4) \in PoolsOf(i) THEN "$d" ELSE in.syms[i].mode}
    BY ONLY a \in start..(end - 1), <1>6, <1>8, MarksShowThePools
  <2> QED
    BY <1>5, <1>7, <2>1, Zenon

\* The section of a function that was not split off.
LEMMA TextIsWhole ==
  ASSUME NEW segment, segment = <<".text", "">>
  PROVE  segment[1] = ".text" /\ ~IsSplit(segment)
  BY DEF IsSplit

LEMMA PoolInvShows == PoolInv => PoolsDecodeAsData
<1> SUFFICES ASSUME PoolInv, pc = "done", Apart PROVE PoolsDecodeAsData
  BY DEF PoolsDecodeAsData
<1>1. ASSUME NEW i \in Units, in.syms[i].segment = <<".text", "">>, ~PassedBy(i),
             in.syms[i].name \notin in.marked
      PROVE  i \in Searched
  BY <1>1, TextIsWhole, Zenon DEF Searched, Whole
<1>2. ASSUME NEW i \in Searched, NEW a \in in.syms[i].addr..(EndOf(i) - 1)
      PROVE  Shown(Between(mapping, in.syms[i].addr, a), in.syms[i].mode)
               = {IF AlignDown(a, 4) \in PoolsOf(i) THEN "$d" ELSE in.syms[i].mode}
  BY <1>2, FunctionShows, Zenon
<1> QED
  BY <1>1, <1>2, Zenon DEF PoolsDecodeAsData, PoolsOf, EndOf, Shown, Between

\* The pools that are found in a function are shown as data, and the rest of it as
\* code, to the byte: for any functions and any pools, one next to another, at the
\* end of the function or between two instructions.
THEOREM PoolsAreData == Spec => []PoolsDecodeAsData
  BY InitHasNoMarks, StepKeepsPoolInv, PoolInvShows, PTL DEF Spec
=============================================================================
