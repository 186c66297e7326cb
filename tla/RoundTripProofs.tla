--------------------------- MODULE RoundTripProofs --------------------------
(***************************************************************************)
(* The round trip, for any binary, exheader and CSV: the objects of        *)
(* RoundTripCut are apart and cover the binary, split_binary writes them,  *)
(* _split_names names them, and linked by segment they are the binary.     *)
(***************************************************************************)
EXTENDS RoundTripCut, NumberingProofs

-----------------------------------------------------------------------------
(* The cut of a binary, for any rows.                                      *)

\* The bytes between two addresses are those of the file.
LEMMA BytesBetween ==
  ASSUME Size \in Nat, NEW a \in Nat, NEW b \in Nat
  PROVE  /\ BytesIn(a, b) \in Nat
         /\ BytesIn(a, b) > 0 <=> a < b /\ a < Size
         /\ BytesIn(a, b) > 0 => a + BytesIn(a, b) = Least(b, Size)
         /\ a <= b => Least(a, Size) + BytesIn(a, b) = Least(b, Size)
         /\ a >= Size => BytesIn(a, b) = 0
BY DEF BytesIn, Least

\* The addresses are as many as the rows, or fewer.
LEMMA AddrsAreNumbers ==
  ASSUME rows \in Seq(Row)
  PROVE  /\ Addrs \in SUBSET Nat /\ (\A a \in Addrs : a \in Nat) /\ IsFiniteSet(Addrs)
         /\ Cardinality(Addrs) \in Nat /\ Cardinality(Addrs) <= Len(rows)
         /\ \A i \in DOMAIN rows : rows[i].addr \in Addrs /\ rows[i].size \in Nat
<1>1. Len(rows) \in Nat /\ DOMAIN rows = 1..Len(rows)
  OBVIOUS
<1>2. \A i \in DOMAIN rows : rows[i].addr \in Nat /\ rows[i].size \in Nat
  <2>1. \A i \in DOMAIN rows : rows[i] \in Row
    OBVIOUS
  <2> QED
    BY <2>1 DEF Row
<1>3. IsFiniteSet(1..Len(rows)) /\ Cardinality(1..Len(rows)) = Len(rows)
  BY <1>1, FS_Interval
<1> DEFINE at == [i \in 1..Len(rows) |-> rows[i].addr]
<1>4. at \in Surjection(1..Len(rows), Addrs)
  BY <1>1 DEF Addrs, Surjection
<1>5. IsFiniteSet(Addrs) /\ Cardinality(Addrs) <= Len(rows)
  <2> HIDE DEF at
  <2> QED
    BY <1>3, <1>4, FS_Surjection
<1>6. Cardinality(Addrs) \in Nat
  BY <1>5, FS_CardinalityType
<1> QED
  BY <1>2, <1>5, <1>6 DEF Addrs

\* The symbol of an address is one of the rows there.
LEMMA RowAtIsARow ==
  ASSUME rows \in Seq(Row), NEW a \in Addrs
  PROVE  /\ \E i \in DOMAIN rows : RowAt(a) = rows[i] /\ rows[i].addr = a
         /\ RowAt(a) \in Row /\ RowAt(a).addr = a /\ RowAt(a).size \in Nat
<1> DEFINE is == {i \in DOMAIN rows : rows[i].addr = a}
           i0 == CHOOSE i \in is : \A j \in is : j <= i
<1>1. is \in SUBSET (0..Len(rows)) /\ is # {} /\ Len(rows) \in Nat
  BY DEF Addrs
<1>2. i0 \in is
  <2> HIDE DEF is
  <2>1. \E i \in is : \A j \in is : j <= i
    BY <1>1, LastOfNumbers
  <2> QED
    BY <2>1
<1>3. RowAt(a) = rows[i0]
  BY DEF RowAt
<1>4. rows[i0] \in Row
  BY <1>2
<1> QED
  BY <1>2, <1>3, <1>4 DEF Row

\* What comes next is the least address further on, if there is one.
LEMMA NextAddrIs ==
  ASSUME rows \in Seq(Row), NEW a \in Int
  PROVE  LET d == NextAddr(a)
         IN  \/ d = Size /\ \A b \in Addrs : b <= a
             \/ d \in Addrs /\ a < d /\ \A b \in Addrs : b <= a \/ d <= b
<1> DEFINE later == {b \in Addrs : b > a}
<1>1. Addrs \in SUBSET Nat
  BY AddrsAreNumbers
<1>2. CASE later = {}
  <2>1. NextAddr(a) = Size
    BY <1>2 DEF NextAddr
  <2> QED
    BY <1>1, <1>2, <2>1
<1>3. CASE later # {}
  <2>1. NextAddr(a) = CHOOSE b \in later : \A c \in later : b <= c
    BY <1>3 DEF NextAddr
  <2>2. NextAddr(a) \in later /\ \A c \in later : NextAddr(a) <= c
    <3>1. later \in SUBSET Nat
      BY <1>1
    <3> HIDE DEF later
    <3> QED
      BY <1>3, <2>1, <3>1, LeastOfNumbers
  <2> QED
    BY <1>1, <2>2
<1> QED
  BY <1>2, <1>3

\* The stops lie in order: after one come the end of its bytes, the next one, and
\* every other.  Only a symbol past the end of the file ends before it begins.
LEMMA StopsInOrder ==
  ASSUME RoundTripAssumption, rows \in Seq(Row), NEW a \in Stops
  PROVE  /\ a \in Int /\ a >= -1 /\ (a = Start \/ (a \in Addrs /\ a \in Nat))
         /\ End(a) \in Nat /\ NextAddr(a) \in Nat /\ End(a) <= NextAddr(a)
         /\ a <= End(a) \/ (End(a) = Size /\ NextAddr(a) = Size /\ a > Size)
         /\ a \in Gaps => a <= End(a)
         /\ \A b \in Stops : a < b => /\ b \in Addrs /\ NextAddr(a) \in Addrs
                                      /\ a < NextAddr(a) /\ NextAddr(a) <= b /\ a <= End(a)
         /\ a \in Addrs => End(a) = Least(a + RowAt(a).size, NextAddr(a))
<1>1. Addrs \in SUBSET Nat /\ Size \in Nat
  BY AddrsAreNumbers DEF RoundTripAssumption
<1>2. a \in Int /\ a >= -1 /\ (a = Start \/ (a \in Addrs /\ a \in Nat /\ a # Start))
  BY <1>1 DEF Stops, Start
<1>3. NextAddr(a) \in Nat
  BY <1>1, <1>2, NextAddrIs
<1>4. CASE a = Start
  <2>1. End(a) = 0
    BY <1>4 DEF End
  <2>3. \A b \in Stops : a < b => /\ b \in Addrs /\ NextAddr(a) \in Addrs
                                  /\ a < NextAddr(a) /\ NextAddr(a) <= b
    BY <1>1, <1>2, <1>3, <1>4, NextAddrIs DEF Stops, Start
  <2>4. a <= End(a) /\ a \notin Addrs
    BY <1>1, <1>4, <2>1 DEF Start
  <2>5. End(a) \in Nat /\ End(a) <= NextAddr(a)
    BY <1>3, <2>1
  <2> QED
    BY <1>2, <1>3, <2>3, <2>4, <2>5
<1>5. CASE a \in Addrs /\ a # Start
  <2>1. RowAt(a).size \in Nat
    BY <1>5, RowAtIsARow
  <2>2. End(a) = Least(a + RowAt(a).size, NextAddr(a))
    BY <1>5 DEF End
  <2>3. a < NextAddr(a) \/ (NextAddr(a) = Size /\ \A b \in Addrs : b <= a)
    BY <1>2, NextAddrIs
  <2>4. /\ End(a) \in Nat /\ End(a) <= NextAddr(a)
        /\ a <= End(a) \/ (End(a) = Size /\ NextAddr(a) = Size /\ a > Size)
    BY <1>1, <1>2, <1>3, <1>5, <2>1, <2>2, <2>3 DEF Least
  <2>5. \A b \in Stops : a < b => /\ b \in Addrs /\ NextAddr(a) \in Addrs
                                  /\ a < NextAddr(a) /\ NextAddr(a) <= b
    BY <1>1, <1>2, <1>3, <1>5, NextAddrIs DEF Stops, Start
  <2>6. a < NextAddr(a) => a <= End(a)
    BY <1>1, <1>2, <1>3, <1>5, <2>1, <2>2 DEF Least
  <2>7. a \in Gaps => a <= End(a)
    BY <1>1, <2>4 DEF Gaps
  <2> QED
    BY <1>2, <1>3, <2>2, <2>4, <2>5, <2>6, <2>7
<1> QED
  BY <1>2, <1>4, <1>5

\* The next address is the one nothing is between.
LEMMA NextAddrIsThis ==
  ASSUME RoundTripAssumption, rows \in Seq(Row), NEW a \in Int
  PROVE  /\ \A d \in Addrs : a < d /\ (\A b \in Addrs : b <= a \/ d <= b) => NextAddr(a) = d
         /\ (\A b \in Addrs : b <= a) => NextAddr(a) = Size
<1>1. Addrs \in SUBSET Nat /\ Size \in Nat
  BY AddrsAreNumbers DEF RoundTripAssumption
<1>2. ASSUME NEW d \in Addrs, a < d, \A b \in Addrs : b <= a \/ d <= b
      PROVE  NextAddr(a) = d
  <2>0. \A b \in Addrs : b \in Nat
    BY AddrsAreNumbers
  <2>1. NextAddr(a) \in Addrs /\ a < NextAddr(a) /\ NextAddr(a) <= d
    BY <1>1, <1>2, NextAddrIs
  <2>2. d <= NextAddr(a) /\ d \in Nat /\ NextAddr(a) \in Nat
    BY <1>2, <2>0, <2>1
  <2> QED
    BY <2>1, <2>2
<1>3. ASSUME \A b \in Addrs : b <= a PROVE NextAddr(a) = Size
  <2>1. \A b \in Addrs : b \in Nat /\ ~(a < b)
    BY <1>3, AddrsAreNumbers
  <2> QED
    BY <2>1, NextAddrIs
<1> QED
  BY <1>2, <1>3

\* The fields of a symbol's object.
LEMMA SymbolObjectIs ==
  ASSUME RoundTripAssumption, rows \in Seq(Row), NEW a \in Addrs
  PROVE  LET p == SymbolObject(a)
         IN  /\ p \in Piece /\ p \in Objects /\ a \in Stops
             /\ p.name = RowAt(a).name /\ p.addr = a /\ p.segment = SegmentAt(a)
             /\ p.size = BytesIn(a, End(a)) /\ p.size \in Nat
             /\ p.size > 0 => /\ a < Size /\ a < End(a) /\ a + p.size = Least(End(a), Size)
<1>1. a \in Stops /\ a \in Nat /\ End(a) \in Nat /\ Size \in Nat /\ a # Start
  BY AddrsAreNumbers, StopsInOrder DEF Stops, Start, RoundTripAssumption
<1>2. RowAt(a) \in Row
  BY RowAtIsARow
<1>3. RowAt(a).name \in ObjectName /\ SegmentAt(a) \in Segment
  BY <1>1, <1>2 DEF Row, SegmentAt
<1>4. BytesIn(a, End(a)) \in Nat
  BY <1>1, BytesBetween
<1>5. BytesIn(a, End(a)) > 0 => a < Size /\ a < End(a) /\ a + BytesIn(a, End(a)) = Least(End(a), Size)
  BY <1>1, BytesBetween
<1> QED
  BY <1>1, <1>3, <1>4, <1>5 DEF SymbolObject, Piece, Objects

\* The fields of the object between two symbols.
LEMMA GapObjectIs ==
  ASSUME RoundTripAssumption, rows \in Seq(Row), NEW a \in Gaps
  PROVE  LET p == GapObject(a)
         IN  /\ p \in Piece /\ p \in Objects /\ a \in Stops
             /\ p.name = Unnamed(End(a)) /\ p.addr = End(a) /\ p.segment = SegmentAt(a)
             /\ End(a) < NextAddr(a) /\ a <= End(a)
             /\ p.size = BytesIn(End(a), NextAddr(a)) /\ p.size \in Nat
             /\ p.size > 0 => End(a) < Size /\ End(a) + p.size = Least(NextAddr(a), Size)
<1>1. a \in Stops /\ End(a) < NextAddr(a)
  BY DEF Gaps
<1>2. End(a) \in Nat /\ NextAddr(a) \in Nat /\ Size \in Nat /\ a <= End(a)
  BY <1>1, StopsInOrder DEF RoundTripAssumption
<1>3. Unnamed(End(a)) \in ObjectName
  BY <1>2 DEF Unnamed, ObjectName
<1>4. SegmentAt(a) \in Segment
  <2>1. CASE a = Start
    BY <2>1 DEF SegmentAt, Segment
  <2>2. CASE a # Start
    <3>1. a \in Addrs
      BY <1>1, <2>2 DEF Stops
    <3>2. RowAt(a) \in Row
      BY <3>1, RowAtIsARow
    <3> QED
      BY <2>2, <3>2 DEF SegmentAt, Row
  <2> QED
    BY <2>1, <2>2
<1>5. BytesIn(End(a), NextAddr(a)) \in Nat
  BY <1>2, BytesBetween
<1>6. BytesIn(End(a), NextAddr(a)) > 0 =>
        End(a) < Size /\ End(a) + BytesIn(End(a), NextAddr(a)) = Least(NextAddr(a), Size)
  BY <1>2, BytesBetween
<1> QED
  BY <1>1, <1>2, <1>3, <1>4, <1>5, <1>6 DEF GapObject, Piece, Objects

\* What an object with bytes spans: from one stop to the next, the symbol before its
\* end and the gap after it.
LEMMA ObjectSpans ==
  ASSUME RoundTripAssumption, rows \in Seq(Row), NEW p \in Objects
  PROVE  /\ p \in Piece /\ p.addr \in Nat /\ p.size \in Nat
         /\ p.size > 0 =>
              /\ p.addr + p.size <= Size
              /\ \E a \in Stops :
                   /\ p.segment = SegmentAt(a)
                   /\ a <= p.addr /\ p.addr + p.size <= NextAddr(a)
                   /\ \/ a \in Addrs /\ p = SymbolObject(a) /\ p.addr + p.size <= End(a)
                      \/ a \in Gaps /\ p = GapObject(a) /\ End(a) <= p.addr
<1>0. Size \in Nat
  BY DEF RoundTripAssumption
<1>1. CASE \E a \in Addrs : p = SymbolObject(a)
  <2>1. PICK a \in Addrs : p = SymbolObject(a)
    BY <1>1
  <2>2. /\ p \in Piece /\ p.addr = a /\ p.size \in Nat /\ p.segment = SegmentAt(a) /\ a \in Stops
        /\ p.size > 0 => p.addr + p.size = Least(End(a), Size)
    BY <2>1, SymbolObjectIs
  <2>3. a \in Nat /\ End(a) \in Nat /\ NextAddr(a) \in Nat /\ End(a) <= NextAddr(a)
    BY <2>2, AddrsAreNumbers, StopsInOrder
  <2>4. p.size > 0 => /\ p.addr + p.size <= Size /\ p.addr + p.size <= End(a)
                      /\ p.addr + p.size <= NextAddr(a) /\ a <= p.addr
    BY <1>0, <2>2, <2>3 DEF Least
  <2> QED
    BY <2>1, <2>2, <2>3, <2>4
<1>2. CASE \E a \in Gaps : p = GapObject(a)
  <2>1. PICK a \in Gaps : p = GapObject(a)
    BY <1>2
  <2>2. /\ p \in Piece /\ p.addr = End(a) /\ p.size \in Nat /\ p.segment = SegmentAt(a)
        /\ a \in Stops /\ a <= End(a)
        /\ p.size > 0 => p.addr + p.size = Least(NextAddr(a), Size)
    BY <2>1, GapObjectIs
  <2>3. End(a) \in Nat /\ NextAddr(a) \in Nat
    BY <2>2, StopsInOrder
  <2>4. p.size > 0 => /\ p.addr + p.size <= Size /\ p.addr + p.size <= NextAddr(a)
                      /\ a <= p.addr /\ End(a) <= p.addr
    BY <1>0, <2>2, <2>3 DEF Least
  <2> QED
    BY <2>1, <2>2, <2>3, <2>4
<1> QED
  BY <1>1, <1>2 DEF Objects

\* No byte is in two objects.
LEMMA ObjectsAreApart ==
  ASSUME RoundTripAssumption, rows \in Seq(Row), NEW p \in Objects, NEW q \in Objects,
         p.size > 0, q.size > 0, p # q
  PROVE  p.addr + p.size <= q.addr \/ q.addr + q.size <= p.addr
<1>1. p.addr \in Nat /\ p.size \in Nat /\ q.addr \in Nat /\ q.size \in Nat
  BY ObjectSpans
<1>2. PICK a \in Stops : /\ a <= p.addr /\ p.addr + p.size <= NextAddr(a)
                         /\ \/ a \in Addrs /\ p = SymbolObject(a) /\ p.addr + p.size <= End(a)
                            \/ a \in Gaps /\ p = GapObject(a) /\ End(a) <= p.addr
  BY ObjectSpans
<1>3. PICK b \in Stops : /\ b <= q.addr /\ q.addr + q.size <= NextAddr(b)
                         /\ \/ b \in Addrs /\ q = SymbolObject(b) /\ q.addr + q.size <= End(b)
                            \/ b \in Gaps /\ q = GapObject(b) /\ End(b) <= q.addr
  BY ObjectSpans
<1>4. a \in Int /\ b \in Int /\ NextAddr(a) \in Nat /\ NextAddr(b) \in Nat
      /\ End(a) \in Nat /\ End(b) \in Nat
  BY StopsInOrder
<1>5. CASE a < b
  <2>1. NextAddr(a) <= b
    BY <1>5, StopsInOrder
  <2> QED
    BY <1>1, <1>2, <1>3, <1>4, <2>1
<1>6. CASE b < a
  <2>1. NextAddr(b) <= a
    BY <1>6, StopsInOrder
  <2> QED
    BY <1>1, <1>2, <1>3, <1>4, <2>1
<1>7. CASE a = b
  BY <1>1, <1>2, <1>3, <1>4, <1>7
<1> QED
  BY <1>4, <1>5, <1>6, <1>7

\* Every byte of the file is in an object.
LEMMA ObjectsCover ==
  ASSUME RoundTripAssumption, rows \in Seq(Row), NEW x \in 0..(Size - 1)
  PROVE  \E p \in Objects : p.addr <= x /\ x < p.addr + p.size
<1>1. Size \in Nat /\ x \in Nat /\ x < Size /\ \A b \in Addrs : b \in Nat
  BY AddrsAreNumbers DEF RoundTripAssumption
<1>2. PICK a \in Stops : a <= x /\ x < NextAddr(a)
  <2> DEFINE S == {b \in Addrs : b <= x}
  <2>1. CASE S = {}
    <3>1. Start \in Stops /\ Start <= x /\ Start \in Int
      BY <1>1 DEF Start, Stops
    <3>2. \A b \in Addrs : ~(b <= x) /\ b \in Nat
      BY <1>1, <2>1
    <3>3. NextAddr(Start) = Size \/ NextAddr(Start) \in Addrs
      BY <3>1, NextAddrIs
    <3>4. x < NextAddr(Start)
      BY <1>1, <3>2, <3>3
    <3> QED
      BY <3>1, <3>4
  <2>2. CASE S # {}
    <3>1. PICK a \in S : \A b \in S : b <= a
      <4>1. S \in SUBSET (0..x)
        <5>1. \A b \in S : b \in 0..x
          BY <1>1
        <5> QED
          BY <5>1
      <4> HIDE DEF S
      <4> QED
        BY <1>1, <2>2, <4>1, LastOfNumbers
    <3>2. a \in Addrs /\ a \in Stops /\ a \in Nat /\ a <= x
      BY <1>1, <3>1 DEF Stops
    <3>3. x < NextAddr(a)
      <4>1. CASE NextAddr(a) = Size
        BY <1>1, <4>1
      <4>2. CASE NextAddr(a) \in Addrs /\ a < NextAddr(a)
        <5>1. \A d \in Addrs : d \in Nat /\ (a < d => ~(d <= a))
          BY <1>1, <3>2
        <5>2. \A d \in Addrs : a < d => ~(d <= x)
          BY <3>1, <5>1
        <5>3. \A d \in Addrs : a < d => x < d
          BY <1>1, <5>2
        <5> QED
          BY <4>2, <5>3
      <4> QED
        BY <3>2, <4>1, <4>2, NextAddrIs
    <3> QED
      BY <3>2, <3>3
  <2> QED
    BY <2>1, <2>2
<1>3. a \in Int /\ (a = Start \/ (a \in Addrs /\ a \in Nat)) /\ End(a) \in Nat /\ NextAddr(a) \in Nat
  BY StopsInOrder
<1>4. CASE x < End(a)
  <2>1. a # Start
    BY <1>1, <1>4 DEF End
  <2>2. a \in Addrs /\ a \in Nat
    BY <1>3, <2>1
  <2>3. a < End(a) /\ a < Size
    BY <1>1, <1>2, <1>3, <1>4
  <2>4. BytesIn(a, End(a)) > 0 /\ a + BytesIn(a, End(a)) = Least(End(a), Size)
    BY <1>1, <1>3, <2>2, <2>3, BytesBetween
  <2>5. SymbolObject(a) \in Objects /\ SymbolObject(a).addr = a
        /\ SymbolObject(a).size = BytesIn(a, End(a))
    BY <2>2, SymbolObjectIs
  <2>6. x < Least(End(a), Size)
    BY <1>1, <1>4 DEF Least
  <2> QED
    BY <1>2, <2>4, <2>5, <2>6
<1>5. CASE End(a) <= x
  <2>1. a \in Gaps
    BY <1>1, <1>2, <1>3, <1>5 DEF Gaps
  <2>2. End(a) < NextAddr(a) /\ End(a) < Size
    BY <1>1, <1>2, <1>3, <1>5
  <2>3. BytesIn(End(a), NextAddr(a)) > 0
        /\ End(a) + BytesIn(End(a), NextAddr(a)) = Least(NextAddr(a), Size)
    BY <1>1, <1>3, <2>2, BytesBetween
  <2>4. GapObject(a) \in Objects /\ GapObject(a).addr = End(a)
        /\ GapObject(a).size = BytesIn(End(a), NextAddr(a))
    BY <2>1, GapObjectIs
  <2>5. x < Least(NextAddr(a), Size)
    BY <1>1, <1>2 DEF Least
  <2> QED
    BY <1>5, <2>3, <2>4, <2>5
<1> QED
  BY <1>1, <1>3, <1>4, <1>5

\* Two symbols have two names, and none the name of an unnamed stretch.
NamesDiffer ==
  /\ \A i, j \in DOMAIN rows : i # j => rows[i].name # rows[j].name
  /\ \A i \in DOMAIN rows : rows[i].name[1] # "address"

\* Then no two objects have one name.
LEMMA OneObjectOfAName ==
  ASSUME RoundTripAssumption, rows \in Seq(Row), NamesDiffer
  PROVE  /\ \A a, b \in Addrs : RowAt(a).name = RowAt(b).name => a = b
         /\ \A a, b \in Gaps : Unnamed(End(a)) = Unnamed(End(b)) => a = b
         /\ \A a \in Addrs, b \in Gaps : RowAt(a).name # Unnamed(End(b))
         /\ \A p, q \in Objects : p.name = q.name => p = q
<1>1. ASSUME NEW a \in Addrs, NEW b \in Addrs, RowAt(a).name = RowAt(b).name
      PROVE  a = b
  <2>1. PICK i \in DOMAIN rows : RowAt(a) = rows[i] /\ rows[i].addr = a
    BY RowAtIsARow
  <2>2. PICK j \in DOMAIN rows : RowAt(b) = rows[j] /\ rows[j].addr = b
    BY RowAtIsARow
  <2> QED
    BY <1>1, <2>1, <2>2 DEF NamesDiffer
<1>2. ASSUME NEW a \in Gaps, NEW b \in Gaps, a < b PROVE End(a) # End(b)
  <2>1. a \in Stops /\ b \in Stops /\ End(a) < NextAddr(a) /\ b <= End(b)
    BY GapObjectIs
  <2>2. NextAddr(a) <= b
    BY <1>2, <2>1, StopsInOrder
  <2>3. b \in Int /\ End(a) \in Nat /\ NextAddr(a) \in Nat /\ End(b) \in Nat
    BY <2>1, StopsInOrder
  <2> QED
    BY <2>1, <2>2, <2>3
<1>3. ASSUME NEW a \in Gaps, NEW b \in Gaps, Unnamed(End(a)) = Unnamed(End(b))
      PROVE  a = b
  <2>1. End(a) = End(b)
    BY <1>3 DEF Unnamed
  <2>2. a \in Int /\ b \in Int
    BY StopsInOrder DEF Gaps
  <2>3. a < b \/ b < a \/ a = b
    BY <2>2
  <2> QED
    BY <1>2, <2>1, <2>3
<1>4. ASSUME NEW a \in Addrs, NEW b \in Gaps PROVE RowAt(a).name # Unnamed(End(b))
  <2>1. PICK i \in DOMAIN rows : RowAt(a) = rows[i]
    BY RowAtIsARow
  <2>2. Unnamed(End(b))[1] = "address"
    BY DEF Unnamed
  <2> QED
    BY <2>1, <2>2 DEF NamesDiffer
<1>5. \A p \in Objects : \/ \E a \in Addrs : p = SymbolObject(a) /\ p.name = RowAt(a).name
                         \/ \E a \in Gaps : p = GapObject(a) /\ p.name = Unnamed(End(a))
  BY SymbolObjectIs, GapObjectIs DEF Objects
<1>6. \A p, q \in Objects : p.name = q.name => p = q
  BY <1>1, <1>3, <1>4, <1>5
<1> QED
  BY <1>1, <1>3, <1>4, <1>6

\* Emptying an object leaves its name, address and segment.
LEMMA EmptiedIs ==
  ASSUME NEW p \in Piece
  PROVE  /\ Emptied(p) \in Piece /\ Emptied(p).size = 0
         /\ Emptied(p).name = p.name /\ Emptied(p).addr = p.addr /\ Emptied(p).segment = p.segment
         /\ p.size = 0 => Emptied(p) = p
BY DEF Emptied, Piece

\* What is in the file of an object when the binary is cut is the object: several
\* symbols of one address write it, and the last of them has the bytes.
LEMMA ObjectOfIsTheObject ==
  ASSUME RoundTripAssumption, rows \in Seq(Row), pieces \in Seq(Piece), NamesDiffer,
         PiecesAre(Addrs, Stops), NEW p \in Objects
  PROVE  /\ \E i \in DOMAIN pieces : pieces[i] = p
         /\ ObjectOf(p.name) = p
<1>1. PICK i \in DOMAIN pieces : pieces[i] = p
  <2>1. \A a \in Gaps : a \in Stops
    BY DEF Gaps
  <2> QED
    BY <2>1 DEF PiecesAre, Objects
<1> DEFINE is == {j \in DOMAIN pieces : pieces[j].name = p.name}
           k  == CHOOSE j \in is : \A l \in is : l <= j
<1>2. k \in is /\ \A l \in is : l <= k
  <2>1. is \in SUBSET (0..Len(pieces)) /\ Len(pieces) \in Nat /\ i \in is
    BY <1>1
  <2> HIDE DEF is
  <2>2. \E j \in is : \A l \in is : l <= j
    BY <2>1, LastOfNumbers
  <2> QED
    BY <2>2
<1>3. ObjectOf(p.name) = pieces[k]
  BY DEF ObjectOf
<1>4. k \in DOMAIN pieces /\ pieces[k].name = p.name /\ i <= k
  BY <1>1, <1>2
<1> HIDE DEF k
<1>5. \A q \in Objects : /\ q \in Piece /\ q.addr \in Nat /\ q.size \in Nat /\ Emptied(q).name = q.name
                         /\ Emptied(q).size = 0 /\ Emptied(q).addr = q.addr
                         /\ q.size = 0 => Emptied(q) = q
  BY ObjectSpans, EmptiedIs
<1>6. pieces[k] \in {p, Emptied(p)}
  <2>1. PICK q \in Objects : pieces[k] \in {q, Emptied(q)}
    BY <1>4 DEF PiecesAre
  <2>2. q.name = p.name
    BY <1>4, <1>5, <2>1
  <2> QED
    BY <2>1, <2>2, OneObjectOfAName
<1>7. pieces[k] = p
  <2> SUFFICES ASSUME pieces[k] = Emptied(p), p.size # 0 PROVE FALSE
    BY <1>5, <1>6
  <2>1. pieces[i].size > 0 /\ pieces[k].size = 0 /\ pieces[k].addr = p.addr /\ i # k
    BY <1>1, <1>5
  <2>2. i < k
    BY <1>4, <2>1
  <2>3. p.addr + p.size <= p.addr
    BY <1>1, <1>4, <2>1, <2>2 DEF PiecesAre
  <2> QED
    BY <1>5, <2>1, <2>3
<1> QED
  BY <1>1, <1>3, <1>7

-----------------------------------------------------------------------------
(* Where the loops are.                                                    *)

RowsInOrder == \A i, j \in DOMAIN rows : i < j => rows[i].addr <= rows[j].addr

\* Between two rows split_binary is at a stop, and the next row is of the same
\* address or of the next one.
LEMMA PassedIs ==
  ASSUME RoundTripAssumption, rows \in Seq(Row), RowsInOrder, NEW i \in 1..(Len(rows) + 1)
  PROVE  /\ PassedAt(i) \in Stops
         /\ i <= Len(rows) =>
              /\ rows[i].addr \in Addrs /\ PassedAt(i) <= rows[i].addr
              /\ PassedAt(i + 1) = rows[i].addr
              /\ rows[i].addr # PassedAt(i) => NextAddr(PassedAt(i)) = rows[i].addr
         /\ i > Len(rows) => NextAddr(PassedAt(i)) = Size /\ \A b \in Addrs : b <= PassedAt(i)
<1>1. Len(rows) \in Nat /\ DOMAIN rows = 1..Len(rows)
  OBVIOUS
<1>2. \A j \in DOMAIN rows : rows[j].addr \in Addrs /\ rows[j].addr \in Nat
  BY AddrsAreNumbers
<1>3. PassedAt(i) \in Stops /\ PassedAt(i) \in Int
  <2>1. CASE i = 1
    BY <2>1 DEF PassedAt, Stops, Start
  <2>2. CASE i # 1
    <3>1. i - 1 \in DOMAIN rows
      BY <1>1, <2>2
    <3> QED
      BY <1>2, <2>2, <3>1 DEF PassedAt, Stops
  <2> QED
    BY <2>1, <2>2
<1>4. \A j \in DOMAIN rows : j < i => rows[j].addr <= PassedAt(i)
  <2> SUFFICES ASSUME NEW j \in DOMAIN rows, j < i PROVE rows[j].addr <= PassedAt(i)
    OBVIOUS
  <2>1. i # 1 /\ i - 1 \in DOMAIN rows /\ (j = i - 1 \/ j < i - 1)
    BY <1>1
  <2>2. PassedAt(i) = rows[i - 1].addr
    BY <2>1 DEF PassedAt
  <2> QED
    BY <1>2, <2>1, <2>2 DEF RowsInOrder
<1>5. ASSUME i <= Len(rows)
      PROVE  /\ rows[i].addr \in Addrs /\ PassedAt(i) <= rows[i].addr
             /\ PassedAt(i + 1) = rows[i].addr
  <2>1. i \in DOMAIN rows /\ i + 1 # 1 /\ (i + 1) - 1 = i
    BY <1>1, <1>5
  <2>2. PassedAt(i) <= rows[i].addr
    <3>1. CASE i = 1
      BY <1>2, <2>1, <3>1 DEF PassedAt, Start
    <3>2. CASE i # 1
      <4>1. i - 1 \in DOMAIN rows /\ i - 1 < i
        BY <1>1, <3>2
      <4> QED
        BY <2>1, <3>2, <4>1 DEF PassedAt, RowsInOrder
    <3> QED
      BY <3>1, <3>2
  <2> QED
    BY <1>2, <2>1, <2>2 DEF PassedAt
<1>6. ASSUME i <= Len(rows), rows[i].addr # PassedAt(i)
      PROVE  NextAddr(PassedAt(i)) = rows[i].addr
  <2>1. i \in DOMAIN rows /\ PassedAt(i) < rows[i].addr
    BY <1>1, <1>2, <1>3, <1>5, <1>6
  <2>2. ASSUME NEW b \in Addrs PROVE b <= PassedAt(i) \/ rows[i].addr <= b
    <3>1. PICK j \in DOMAIN rows : b = rows[j].addr
      BY DEF Addrs
    <3>2. j < i \/ j = i \/ i < j
      BY <1>1
    <3>3. CASE j < i
      BY <1>4, <3>1, <3>3
    <3>4. CASE j = i
      BY <1>2, <3>1, <3>4
    <3>5. CASE i < j
      BY <2>1, <3>1, <3>5 DEF RowsInOrder
    <3> QED
      BY <3>2, <3>3, <3>4, <3>5
  <2> QED
    BY <1>3, <1>5, <1>6, <2>1, <2>2, NextAddrIsThis
<1>7. ASSUME i > Len(rows)
      PROVE  NextAddr(PassedAt(i)) = Size /\ \A b \in Addrs : b <= PassedAt(i)
  <2>1. ASSUME NEW b \in Addrs PROVE b <= PassedAt(i)
    <3>1. PICK j \in DOMAIN rows : b = rows[j].addr
      BY DEF Addrs
    <3> QED
      BY <1>1, <1>4, <1>7, <3>1
  <2> QED
    BY <1>3, <2>1, NextAddrIsThis
<1> QED
  BY <1>3, <1>5, <1>6, <1>7

\* Between two addresses _split_names is at a stop, and the next address is the next.
LEMMA NamedIs ==
  ASSUME RoundTripAssumption, rows \in Seq(Row), NEW i \in 1..(Len(Distinct) + 1)
  PROVE  /\ Len(Distinct) \in Nat /\ Len(Distinct) <= Len(rows)
         /\ NamedAt(i) \in Stops
         /\ i <= Len(Distinct) =>
              /\ Distinct[i].addr \in Addrs /\ Distinct[i] = RowAt(Distinct[i].addr)
              /\ NamedAt(i) < Distinct[i].addr
              /\ NamedAt(i + 1) = Distinct[i].addr
              /\ NextAddr(NamedAt(i)) = Distinct[i].addr
         /\ i > Len(Distinct) => NextAddr(NamedAt(i)) = Size /\ \A b \in Addrs : b <= NamedAt(i)
<1> DEFINE m == Cardinality(Addrs)
<1>1. m \in Nat /\ m <= Len(rows) /\ IsFiniteSet(Addrs) /\ \A a \in Addrs : a \in Nat
  BY AddrsAreNumbers
<1>2. Addrs \in SUBSET Int
  BY <1>1
<1>3. /\ \A k \in 1..m : Nth(Addrs, k) \in Addrs
      /\ \A a \in Addrs : \E k \in 1..m : Nth(Addrs, k) = a
      /\ \A j, k \in 1..m : j < k => Nth(Addrs, j) < Nth(Addrs, k)
  BY <1>1, <1>2, NthOfNumbers
<1>4. Len(Distinct) = m /\ \A k \in 1..m : Distinct[k] = RowAt(Nth(Addrs, k))
  <2>1. Distinct = [k \in 1..m |-> RowAt(Nth(Addrs, k))]
    BY DEF Distinct
  <2> HIDE DEF m
  <2> QED
    BY <1>1, <2>1
<1> HIDE DEF m
<1>5. \A k \in 1..m : Distinct[k].addr = Nth(Addrs, k) /\ Distinct[k].addr \in Addrs
  BY <1>3, <1>4, RowAtIsARow
<1>6. \A k \in 1..m : Distinct[k] = RowAt(Distinct[k].addr)
  BY <1>4, <1>5
<1>7. NamedAt(i) \in Stops /\ NamedAt(i) \in Int
  <2>1. CASE i = 1
    BY <2>1 DEF NamedAt, Stops, Start
  <2>2. CASE i # 1
    <3>1. i - 1 \in 1..m
      BY <1>1, <1>4, <2>2
    <3> QED
      BY <1>1, <1>5, <2>2, <3>1 DEF NamedAt, Stops
  <2> QED
    BY <2>1, <2>2
<1>8. \A k \in 1..m : k < i => Nth(Addrs, k) <= NamedAt(i)
  <2> SUFFICES ASSUME NEW k \in 1..m, k < i PROVE Nth(Addrs, k) <= NamedAt(i)
    OBVIOUS
  <2>1. i # 1 /\ i - 1 \in 1..m /\ (k = i - 1 \/ k < i - 1)
    BY <1>1, <1>4
  <2>2. NamedAt(i) = Nth(Addrs, i - 1)
    BY <1>5, <2>1 DEF NamedAt
  <2>3. Nth(Addrs, k) \in Nat /\ Nth(Addrs, i - 1) \in Nat
    BY <1>1, <1>3, <2>1
  <2>4. CASE k = i - 1
    BY <2>2, <2>3, <2>4
  <2>5. CASE k < i - 1
    BY <1>3, <2>1, <2>2, <2>3, <2>5
  <2> QED
    BY <2>1, <2>4, <2>5
<1>9. ASSUME i <= m
      PROVE  /\ Distinct[i].addr \in Addrs /\ Distinct[i] = RowAt(Distinct[i].addr)
             /\ NamedAt(i) < Distinct[i].addr
             /\ NamedAt(i + 1) = Distinct[i].addr
             /\ NextAddr(NamedAt(i)) = Distinct[i].addr
  <2>1. i \in 1..m /\ i + 1 # 1 /\ (i + 1) - 1 = i
    BY <1>1, <1>4, <1>9
  <2>2. Distinct[i].addr \in Addrs /\ Distinct[i].addr = Nth(Addrs, i) /\ Distinct[i].addr \in Nat
    BY <1>1, <1>5, <2>1
  <2>3. NamedAt(i + 1) = Distinct[i].addr
    BY <2>1 DEF NamedAt
  <2>4. NamedAt(i) < Distinct[i].addr
    <3>1. CASE i = 1
      BY <2>2, <3>1 DEF NamedAt, Start
    <3>2. CASE i # 1
      <4>1. i - 1 \in 1..m /\ i - 1 < i
        BY <1>1, <2>1, <3>2
      <4> QED
        BY <1>3, <1>5, <2>1, <2>2, <3>2, <4>1 DEF NamedAt
    <3> QED
      BY <3>1, <3>2
  <2>5. ASSUME NEW b \in Addrs PROVE b <= NamedAt(i) \/ Distinct[i].addr <= b
    <3>1. PICK k \in 1..m : Nth(Addrs, k) = b
      BY <1>3
    <3>2. k < i \/ k = i \/ i < k
      BY <2>1
    <3>3. CASE k < i
      BY <1>8, <3>1, <3>3
    <3>4. CASE k = i
      BY <2>2, <3>1, <3>4
    <3>5. CASE i < k
      BY <1>1, <1>3, <2>1, <2>2, <3>1, <3>5
    <3> QED
      BY <3>2, <3>3, <3>4, <3>5
  <2> QED
    BY <1>6, <1>7, <2>1, <2>2, <2>3, <2>4, <2>5, NextAddrIsThis
<1>10. ASSUME i > m
       PROVE  NextAddr(NamedAt(i)) = Size /\ \A b \in Addrs : b <= NamedAt(i)
  <2>1. ASSUME NEW b \in Addrs PROVE b <= NamedAt(i)
    <3>1. PICK k \in 1..m : Nth(Addrs, k) = b
      BY <1>3
    <3>2. k < i
      BY <1>1, <1>4, <1>10
    <3> QED
      BY <1>8, <3>1, <3>2
  <2> QED
    BY <1>7, <2>1, NextAddrIsThis
<1> QED
  BY <1>1, <1>4, <1>7, <1>9, <1>10

-----------------------------------------------------------------------------
(* split_binary.                                                           *)

\* Loading relabels rows and moves none.
LEMMA LoadedRows ==
  ASSUME RoundTripAssumption, csv \in Csvs,
         rows \in Seq(Row), DOMAIN rows = DOMAIN csv, \A i \in DOMAIN csv : rows[i] = Placed(csv[i])
  PROVE  /\ RowsInOrder /\ Len(rows) = Len(csv)
         /\ UniqueNames /\ ~NameClash => NamesDiffer
<1>1. csv \in Seq(Row) /\ \A i, j \in DOMAIN csv : i < j => csv[i].addr <= csv[j].addr
  BY DEF RoundTripAssumption
<1>2. \A row \in Row : Placed(row).addr = row.addr /\ Placed(row).name = row.name
  BY DEF Placed, Row
<1>3. \A i \in DOMAIN csv : rows[i].addr = csv[i].addr /\ rows[i].name = csv[i].name
  BY <1>1, <1>2
<1>4. Len(rows) = Len(csv)
  BY <1>1
<1>5. RowsInOrder
  BY <1>1, <1>3 DEF RowsInOrder
<1>6. UniqueNames /\ ~NameClash => NamesDiffer
  BY <1>3 DEF UniqueNames, NameClash, NamesDiffer
<1> QED
  BY <1>4, <1>5, <1>6

\* One step of the loop writes the object of the symbol it is at, emptied when
\* another of its address follows, or that of the gap after the last symbol.
LEMMA SplitWrites ==
  ASSUME RoundTripAssumption, TypeOK, RowsInOrder, SplitIsOnTime, pc = "split", MoreToSplit
  PROVE  /\ ~Overran /\ idx \in 1..(Len(rows) + 1) /\ Passed \in Stops
         /\ \/ /\ AtSymbol /\ cur \in Addrs /\ Passed <= cur /\ PassedAt(idx + 1) = cur
               /\ idx < Len(rows) /\ rows[idx + 1].addr = cur
               /\ NextSize = 0 /\ NextPiece = Emptied(SymbolObject(cur))
            \/ /\ AtSymbol /\ cur \in Addrs /\ Passed <= cur /\ PassedAt(idx + 1) = cur
               /\ idx >= Len(rows) \/ rows[idx + 1].addr # cur
               /\ NextSize \in Int /\ cur + NextSize = End(cur) /\ NextPiece = SymbolObject(cur)
            \/ /\ ~AtSymbol /\ ForGood /\ Passed \in Gaps /\ cur = End(Passed)
               /\ NextSize \in Int /\ cur + NextSize = NextAddr(Passed)
               /\ NextPiece = GapObject(Passed)
<1>1. /\ Size \in Nat /\ rows \in Seq(Row) /\ cur \in Nat /\ idx \in 1..(Len(rows) + 1)
      /\ Len(rows) \in Nat /\ DOMAIN rows = 1..Len(rows)
  BY DEF RoundTripAssumption, TypeOK, SplitIsOnTime
<1>2. \A a \in Addrs : a \in Nat /\ a # Start /\ a \in Stops
  BY <1>1, AddrsAreNumbers DEF Start, Stops
<1>3. /\ Passed \in Stops /\ Passed \in Int
      /\ End(Passed) \in Nat /\ NextAddr(Passed) \in Nat /\ End(Passed) <= NextAddr(Passed)
  BY <1>1, PassedIs, StopsInOrder DEF Passed
<1>4. CASE AtSymbol
  <2>1. /\ idx <= Len(rows) /\ idx \in DOMAIN rows /\ cur = rows[idx].addr
        /\ cur \in Addrs /\ Passed <= cur /\ PassedAt(idx + 1) = cur
    BY <1>1, <1>4, PassedIs DEF AtSymbol, Passed
  <2>2. ~Overran
    BY <1>1, <2>1 DEF Overran
  <2>3. RowAt(cur).size \in Nat /\ RowAt(cur) \in Row /\ RowAt(cur).segment = SegmentAt(cur)
    BY <1>1, <1>2, <2>1, RowAtIsARow DEF SegmentAt
  <2>4. NextSize = SymbolSize(idx)
    BY <1>1, <1>4, <2>1 DEF NextSize
  <2>5. NextPiece = [name |-> RowAt(cur).name, addr |-> cur,
                     size |-> BytesIn(cur, cur + NextSize), segment |-> SegmentAt(cur)]
    BY <1>4, <2>3 DEF NextPiece
  <2>6. CASE idx < Len(rows) /\ rows[idx + 1].addr = cur
    <3>1. NextSize = Least(RowAt(cur).size, cur - cur)
      BY <2>1, <2>4, <2>6 DEF SymbolSize
    <3>2. NextSize = 0 /\ cur + NextSize = cur
      BY <1>1, <2>3, <3>1 DEF Least
    <3>3. BytesIn(cur, cur + NextSize) = 0
      BY <1>1, <3>2 DEF BytesIn
    <3>4. NextPiece = Emptied(SymbolObject(cur))
      BY <2>5, <3>3 DEF Emptied, SymbolObject
    <3> QED
      BY <1>1, <1>3, <1>4, <2>1, <2>2, <2>6, <3>2, <3>4
  <2>7. CASE idx >= Len(rows) \/ rows[idx + 1].addr # cur
    <3>1. IF idx < Len(rows) THEN NextAddr(cur) = rows[idx + 1].addr ELSE NextAddr(cur) = Size
      <4>1. idx + 1 \in 1..(Len(rows) + 1)
        BY <1>1, <2>1
      <4>2. idx < Len(rows) => idx + 1 <= Len(rows) /\ rows[idx + 1].addr # PassedAt(idx + 1)
        BY <1>1, <2>1, <2>7
      <4>3. ~(idx < Len(rows)) => idx + 1 > Len(rows)
        BY <1>1, <2>1
      <4> QED
        BY <1>1, <2>1, <4>1, <4>2, <4>3, PassedIs
    <3>2. NextSize = Least(RowAt(cur).size, NextAddr(cur) - cur)
      BY <2>1, <2>4, <3>1 DEF SymbolSize
    <3>3. NextAddr(cur) \in Nat /\ End(cur) = Least(cur + RowAt(cur).size, NextAddr(cur))
      BY <1>1, <1>2, <2>1, StopsInOrder
    <3>4. NextSize \in Int /\ cur + NextSize = End(cur)
      BY <1>1, <2>3, <3>2, <3>3 DEF Least
    <3>5. NextPiece = SymbolObject(cur)
      BY <2>5, <3>4 DEF SymbolObject
    <3> QED
      BY <1>1, <1>3, <1>4, <2>1, <2>2, <2>7, <3>4, <3>5
  <2> QED
    BY <1>1, <2>6, <2>7
<1>5. CASE ~AtSymbol
  <2>1. ForGood
    <3>1. ~ForGood => idx <= Len(rows) /\ cur = rows[idx].addr
      BY <1>1 DEF ForGood, SplitIsOnTime
    <3> QED
      BY <1>5, <3>1 DEF AtSymbol
  <2>2. IF idx <= Len(rows) THEN NextAddr(Passed) = rows[idx].addr ELSE NextAddr(Passed) = Size
    <3>1. idx <= Len(rows) => rows[idx].addr # Passed
      BY <1>1, <2>1 DEF ForGood
    <3>2. ~(idx <= Len(rows)) => idx > Len(rows)
      BY <1>1
    <3> QED
      BY <1>1, <3>1, <3>2, PassedIs DEF Passed
  <2>3. cur # NextAddr(Passed)
    BY <1>1, <1>5, <2>2 DEF AtSymbol, MoreToSplit
  <2>4. cur = End(Passed) /\ cur < NextAddr(Passed) /\ Passed \in Gaps
    <3>1. cur = End(Passed)
      BY <2>1, <2>3 DEF SplitIsOnTime
    <3>2. cur < NextAddr(Passed)
      BY <1>3, <2>3, <3>1
    <3> QED
      BY <1>3, <3>1, <3>2 DEF Gaps
  <2>5. ~Overran
    BY <1>1, <1>3, <2>2, <2>4 DEF Overran
  <2>6. NextSize = NextAddr(Passed) - cur
    BY <1>1, <1>5, <2>2 DEF NextSize
  <2>7. NextSize \in Int /\ cur + NextSize = NextAddr(Passed)
    BY <1>1, <1>3, <2>6
  <2>8. NextPiece = GapObject(Passed)
    BY <1>5, <2>4, <2>7 DEF NextPiece, GapObject, SplitIsOnTime
  <2> QED
    BY <1>1, <1>3, <1>5, <2>1, <2>4, <2>5, <2>7, <2>8
<1> QED
  BY <1>4, <1>5

\* The cut is the rows', and changes with them alone.
LEMMA CutStays ==
  ASSUME rows' = rows
  PROVE  /\ Addrs' = Addrs /\ Stops' = Stops /\ Gaps' = Gaps /\ Objects' = Objects
         /\ Distinct' = Distinct
         /\ \A a : RowAt(a)' = RowAt(a)
         /\ \A a : End(a)' = End(a)
         /\ \A a : NextAddr(a)' = NextAddr(a)
         /\ \A a : SegmentAt(a)' = SegmentAt(a)
         /\ \A a : SymbolObject(a)' = SymbolObject(a)
         /\ \A a : GapObject(a)' = GapObject(a)
         /\ \A i : PassedAt(i)' = PassedAt(i)
         /\ \A i : NamedAt(i)' = NamedAt(i)
<1>1. Addrs' = Addrs
  BY DEF Addrs
<1>2. \A a : RowAt(a)' = RowAt(a)
  BY DEF RowAt
<1>3. \A a : NextAddr(a)' = NextAddr(a)
  BY <1>1 DEF NextAddr
<1>4. Stops' = Stops
  BY <1>1 DEF Stops
<1>5. \A a : End(a)' = End(a)
  BY <1>2, <1>3 DEF End
<1>6. \A a : SegmentAt(a)' = SegmentAt(a)
  BY <1>2 DEF SegmentAt
<1>7. Gaps' = Gaps
  BY <1>3, <1>4, <1>5 DEF Gaps
<1>8. \A a : SymbolObject(a)' = SymbolObject(a)
  BY <1>2, <1>5, <1>6 DEF SymbolObject
<1>9. \A a : GapObject(a)' = GapObject(a)
  BY <1>3, <1>5, <1>6 DEF GapObject
<1>10. Objects' = Objects
  BY <1>1, <1>7, <1>8, <1>9 DEF Objects
<1>11. Distinct' = Distinct
  BY <1>1, <1>2 DEF Distinct
<1>12. \A i : PassedAt(i)' = PassedAt(i)
  BY DEF PassedAt
<1>13. \A i : NamedAt(i)' = NamedAt(i)
  BY <1>11 DEF NamedAt
<1> QED
  BY <1>1, <1>2, <1>3, <1>4, <1>5, <1>6, <1>7, <1>8, <1>9, <1>10, <1>11, <1>12, <1>13

\* A sequence with one more at its end.
LEMMA OneMore ==
  ASSUME NEW S, NEW s \in Seq(S), NEW e \in S
  PROVE  /\ Append(s, e) \in Seq(S) /\ Len(Append(s, e)) = Len(s) + 1 /\ Len(s) \in Nat
         /\ DOMAIN Append(s, e) = DOMAIN s \cup {Len(s) + 1}
         /\ \A i \in DOMAIN s : i < Len(s) + 1 /\ Append(s, e)[i] = s[i] /\ i \in Nat
         /\ Append(s, e)[Len(s) + 1] = e
<1>1. Append(s, e) \in Seq(S) /\ Len(Append(s, e)) = Len(s) + 1 /\ Len(s) \in Nat
  OBVIOUS
<1>2. DOMAIN s = 1..Len(s) /\ DOMAIN Append(s, e) = 1..(Len(s) + 1)
  BY <1>1
<1> QED
  BY <1>1, <1>2

\* What the pieces are with one more.
PieceAdded(p, symbols, gaps) ==
  /\ pieces' \in Seq(Piece) /\ Len(pieces') = Len(pieces) + 1
  /\ \A a \in symbols : \E i \in DOMAIN pieces' : pieces'[i] = SymbolObject(a)
  /\ \A a \in gaps \cap Gaps : \E i \in DOMAIN pieces' : pieces'[i] = GapObject(a)
  /\ \A i \in DOMAIN pieces' : \E q \in Objects : pieces'[i] \in {q, Emptied(q)}
  /\ \A i, j \in DOMAIN pieces' :
       i < j /\ pieces'[i].size > 0 => pieces'[i].addr + pieces'[i].size <= pieces'[j].addr
  /\ \A i \in DOMAIN pieces' : i \in DOMAIN pieces \/ pieces'[i] = p
  /\ \A i \in DOMAIN pieces : pieces'[i] = pieces[i]

\* A piece written where the last one with bytes has ended.
LEMMA PieceWritten ==
  ASSUME pieces \in Seq(Piece), NEW symbols, NEW gaps, PiecesAre(symbols, gaps),
         \A i \in DOMAIN pieces : pieces[i].size > 0 => pieces[i].addr + pieces[i].size <= cur,
         NEW p \in Piece, p.addr = cur, \E q \in Objects : p \in {q, Emptied(q)},
         pieces' = Append(pieces, p),
         NEW symbols2, \A a \in symbols2 : a \in symbols \/ p = SymbolObject(a),
         NEW gaps2, \A a \in gaps2 : a \in Gaps => a \in gaps \/ p = GapObject(a)
  PROVE  PieceAdded(p, symbols2, gaps2)
<1> DEFINE n == Len(pieces) + 1
<1>1. /\ pieces' \in Seq(Piece) /\ Len(pieces') = n
      /\ DOMAIN pieces' = DOMAIN pieces \cup {n}
      /\ \A i \in DOMAIN pieces : pieces'[i] = pieces[i] /\ i < n /\ i \in Nat
      /\ pieces'[n] = p /\ n \in Nat
  BY OneMore
<1> HIDE DEF n
<1>2. \A a \in symbols2 : \E i \in DOMAIN pieces' : pieces'[i] = SymbolObject(a)
  BY <1>1 DEF PiecesAre
<1>3. \A a \in gaps2 \cap Gaps : \E i \in DOMAIN pieces' : pieces'[i] = GapObject(a)
  <2> SUFFICES ASSUME NEW a \in gaps2, a \in Gaps
               PROVE  \E i \in DOMAIN pieces' : pieces'[i] = GapObject(a)
    OBVIOUS
  <2>1. CASE a \in gaps
    BY <1>1, <2>1 DEF PiecesAre
  <2>2. CASE p = GapObject(a)
    BY <1>1, <2>2
  <2> QED
    BY <2>1, <2>2
<1>4. \A i \in DOMAIN pieces' : \E q \in Objects : pieces'[i] \in {q, Emptied(q)}
  BY <1>1 DEF PiecesAre
<1>5. ASSUME NEW i \in DOMAIN pieces', NEW j \in DOMAIN pieces', i < j, pieces'[i].size > 0
      PROVE  pieces'[i].addr + pieces'[i].size <= pieces'[j].addr
  <2>1. i \in DOMAIN pieces
    BY <1>1, <1>5
  <2>2. CASE j \in DOMAIN pieces
    BY <1>1, <1>5, <2>1, <2>2 DEF PiecesAre
  <2>3. CASE j = n
    BY <1>1, <1>5, <2>1, <2>3
  <2> QED
    BY <1>1, <2>2, <2>3
<1> QED
  BY <1>1, <1>2, <1>3, <1>4, <1>5 DEF n, PieceAdded

\* A step of the loop keeps what it is past and where it is.
LEMMA SplitStep ==
  ASSUME RoundTripAssumption, IInv, Split
  PROVE  /\ TypeOK' /\ pc' = "split" /\ SplitIsOnTime' /\ SplitCuts' /\ LoopsAdvance'
<1> USE DEF IInv
<1>1. pc = "split" /\ MoreToSplit /\ rows' = rows /\ UNCHANGED <<csv, exheader, names>>
  BY DEF Split
<1>2. rows \in Seq(Row) /\ RowsInOrder /\ Len(rows) = Len(csv)
  BY <1>1, LoadedRows DEF RowsAreTheCsv, TypeOK
<1>3. /\ ~Overran /\ idx \in 1..(Len(rows) + 1) /\ Passed \in Stops
      /\ Size \in Nat /\ cur \in Nat /\ Len(rows) \in Nat /\ pieces \in Seq(Piece) /\ Len(pieces) \in Nat
  BY <1>1, <1>2, SplitWrites DEF TypeOK, RoundTripAssumption
<1>4. /\ pieces' = Append(pieces, NextPiece) /\ cur' = cur + NextSize
      /\ idx' = (IF AtSymbol THEN idx + 1 ELSE idx) /\ last' = NextPiece.segment
      /\ counted' = counted + NextSize /\ written' = written + NextPiece.size /\ pc' = "split"
  BY <1>1, <1>3 DEF Split
<1>5. \A i \in DOMAIN pieces : pieces[i].size > 0 => pieces[i].addr + pieces[i].size <= cur
  BY <1>1 DEF SplitCuts
<1> DEFINE past     == {a \in Addrs : a < Passed \/ (a = Passed /\ ForGood)}
           gapsPast == {a \in Stops : a < Passed \/ (a = Passed /\ ForGood /\ cur = NextAddr(a))}
<1>6. PiecesAre(past, gapsPast)
  BY <1>1 DEF SplitCuts
<1>7. \A a \in Stops : /\ a \in Int /\ End(a) \in Nat /\ NextAddr(a) \in Nat /\ End(a) <= NextAddr(a)
                       /\ a <= End(a) \/ (End(a) = Size /\ NextAddr(a) = Size /\ a > Size)
                       /\ \A b \in Stops : a < b => NextAddr(a) <= b /\ NextAddr(a) \in Addrs
  BY <1>2, StopsInOrder
<1>8. \A a \in Addrs : a \in Stops /\ a \in Nat
  BY <1>2, AddrsAreNumbers DEF Stops
<1>9. /\ Passed' = PassedAt(idx') /\ (ForGood' <=> (idx' > Len(rows) \/ rows[idx'].addr # Passed'))
  BY <1>1, CutStays DEF Passed, ForGood, PassedAt
<1>10. AtSymbol => \A a \in Stops : a < cur => (a \in Addrs => a \in past) /\ a \in gapsPast
  <2> SUFFICES ASSUME AtSymbol, NEW a \in Stops, a < cur
               PROVE  (a < Passed \/ (a = Passed /\ ForGood)) /\ a \in gapsPast
    OBVIOUS
  <2>1. CASE ForGood
    <3>1. idx <= Len(rows) /\ cur = rows[idx].addr /\ cur # Passed
      BY <1>3, <2>1 DEF AtSymbol, ForGood
    <3>2. NextAddr(Passed) = cur
      BY <1>2, <1>3, <3>1, PassedIs DEF Passed
    <3>3. ~(Passed < a)
      BY <1>3, <1>7, <3>2
    <3>4. a < Passed \/ a = Passed
      BY <1>3, <1>7, <3>3
    <3> QED
      BY <2>1, <3>2, <3>4
  <2>2. CASE ~ForGood
    <3>1. cur = Passed
      BY <1>1, <2>2 DEF SplitIsOnTime
    <3> QED
      BY <3>1
  <2> QED
    BY <2>1, <2>2
<1> DEFINE p == NextPiece
           Done ==
             /\ p \in Piece /\ p.addr = cur /\ p.size = BytesIn(cur, cur') /\ p.segment = SegmentAt(Passed')
             /\ \E q \in Objects : p \in {q, Emptied(q)}
             /\ NextSize \in Int /\ cur' \in Nat /\ (cur <= cur' \/ (cur' = Size /\ cur >= Size))
             /\ idx' \in 1..(Len(rows) + 1)
             /\ IF ForGood' THEN cur' \in {End(Passed'), NextAddr(Passed')} ELSE cur' = Passed'
             /\ \A a \in Addrs : a < Passed' \/ (a = Passed' /\ ForGood')
                                   => a \in past \/ p = SymbolObject(a)
             /\ \A a \in Stops : a < Passed' \/ (a = Passed' /\ ForGood' /\ cur' = NextAddr(a))
                                   => (a \in Gaps => a \in gapsPast \/ p = GapObject(a))
             /\ Len(pieces) + 1 <=
                  2 * (idx' - 1) + (IF ForGood' /\ cur' = NextAddr(Passed') THEN 1 ELSE 0)
<1> HIDE DEF past, gapsPast
<1>11. AtSymbol => Len(pieces) + 1 <= 2 * idx
  BY <1>1, <1>3 DEF LoopsAdvance
<1>12. ASSUME AtSymbol, cur \in Addrs, Passed <= cur, PassedAt(idx + 1) = cur,
              idx < Len(rows), rows[idx + 1].addr = cur,
              NextSize = 0, NextPiece = Emptied(SymbolObject(cur))
       PROVE  Done
  <2>1. idx' = idx + 1 /\ cur' = cur /\ Passed' = cur /\ ~ForGood'
    BY <1>3, <1>4, <1>9, <1>12
  <2>2. /\ SymbolObject(cur) \in Objects /\ SymbolObject(cur) \in Piece
        /\ SymbolObject(cur).addr = cur /\ SymbolObject(cur).segment = SegmentAt(cur)
    BY <1>2, <1>12, SymbolObjectIs
  <2>3. p \in Piece /\ p.addr = cur /\ p.size = 0 /\ p.segment = SegmentAt(cur)
    BY <1>12, <2>2, EmptiedIs
  <2>4. BytesIn(cur, cur') = 0
    BY <1>3, <2>1 DEF BytesIn
  <2>5. \A a \in Addrs : a < cur => a \in past
    BY <1>8, <1>10, <1>12
  <2>6. \A a \in Stops : a < cur => a \in gapsPast
    BY <1>10, <1>12
  <2>7. /\ idx' \in 1..(Len(rows) + 1) /\ Len(pieces) + 1 <= 2 * (idx' - 1) /\ cur <= cur' /\ cur' \in Nat
        /\ NextSize \in Int
    BY <1>3, <1>11, <1>12, <2>1
  <2> HIDE DEF p
  <2>8. \E q \in Objects : p \in {q, Emptied(q)}
    BY <1>12, <2>2 DEF p
  <2> QED
    BY <2>1, <2>3, <2>4, <2>5, <2>6, <2>7, <2>8
<1>13. ASSUME AtSymbol, cur \in Addrs, Passed <= cur, PassedAt(idx + 1) = cur,
              idx >= Len(rows) \/ rows[idx + 1].addr # cur,
              NextSize \in Int, cur + NextSize = End(cur), NextPiece = SymbolObject(cur)
       PROVE  Done
  <2>1. idx' = idx + 1 /\ cur' = End(cur) /\ Passed' = cur /\ idx <= Len(rows)
    BY <1>3, <1>4, <1>9, <1>13 DEF AtSymbol
  <2>2. ForGood'
    BY <1>3, <1>9, <1>13, <2>1
  <2>3. /\ p \in Objects /\ p \in Piece /\ p.addr = cur /\ p.segment = SegmentAt(cur)
        /\ p.size = BytesIn(cur, End(cur))
    BY <1>2, <1>13, SymbolObjectIs
  <2>4. /\ cur' \in Nat /\ (cur <= cur' \/ (cur' = Size /\ cur >= Size))
    BY <1>3, <1>7, <1>8, <1>13, <2>1
  <2>5. \A a \in Addrs : a < cur => a \in past
    BY <1>8, <1>10, <1>13
  <2>6. \A a \in Stops : a < cur => a \in gapsPast
    BY <1>10, <1>13
  <2>7. cur' = NextAddr(cur) => cur \notin Gaps
    <3>1. ~(cur' < cur')
      BY <2>4
    <3> QED
      BY <2>1, <3>1 DEF Gaps
  <2>8. /\ idx' \in 1..(Len(rows) + 1) /\ Len(pieces) + 1 <= 2 * (idx' - 1)
    <3>1. idx \in Nat /\ Len(rows) \in Nat /\ 1 <= idx /\ Len(pieces) + 1 <= 2 * idx
      BY <1>3, <1>11, <1>13
    <3>2. idx' - 1 = idx /\ idx' \in 1..(Len(rows) + 1)
      BY <2>1, <3>1
    <3> QED
      BY <3>1, <3>2
  <2>9. \A n \in 0..1 : Len(pieces) + 1 <= 2 * (idx' - 1) + n
    BY <1>3, <2>8
  <2> HIDE DEF p
  <2>10. p = SymbolObject(cur)
    BY <1>13 DEF p
  <2> QED
    BY <1>13, <2>1, <2>2, <2>3, <2>4, <2>5, <2>6, <2>7, <2>8, <2>9, <2>10
<1>14. ASSUME ~AtSymbol, ForGood, Passed \in Gaps, cur = End(Passed),
              NextSize \in Int, cur + NextSize = NextAddr(Passed),
              NextPiece = GapObject(Passed)
       PROVE  Done
  <2>1. idx' = idx /\ cur' = NextAddr(Passed) /\ Passed' = Passed /\ ForGood'
    BY <1>4, <1>9, <1>14 DEF ForGood, Passed
  <2>2. /\ p \in Objects /\ p \in Piece /\ p.addr = cur /\ p.segment = SegmentAt(Passed)
        /\ p.size = BytesIn(cur, cur') /\ cur < cur'
    BY <1>2, <1>14, <2>1, GapObjectIs
  <2>3. cur' \in Nat /\ cur <= cur'
    BY <1>3, <1>7, <2>1, <2>2
  <2>4. Len(pieces) + 1 <= 2 * (idx' - 1) + 1
    BY <1>1, <1>3, <1>14, <2>1, <2>2, <2>3 DEF LoopsAdvance
  <2>5. \A a \in Addrs : a < Passed \/ (a = Passed /\ ForGood) => a \in past
    BY DEF past
  <2>6. \A a \in Stops : a < Passed => a \in gapsPast
    BY DEF gapsPast
  <2> HIDE DEF p
  <2>7. p = GapObject(Passed)
    BY <1>14 DEF p
  <2> QED
    BY <1>3, <1>14, <2>1, <2>2, <2>3, <2>4, <2>5, <2>6, <2>7
<1>15. Done
  BY <1>1, <1>2, <1>12, <1>13, <1>14, SplitWrites
<1> HIDE DEF p
<1>16. PiecesAre(past, gapsPast)
  BY <1>6
<1>17. \A i \in DOMAIN pieces : pieces[i].size > 0 => pieces[i].addr + pieces[i].size <= Size
  <2> SUFFICES ASSUME NEW i \in DOMAIN pieces, pieces[i].size > 0
               PROVE  pieces[i].addr + pieces[i].size <= Size
    OBVIOUS
  <2>1. PICK q \in Objects : pieces[i] \in {q, Emptied(q)}
    BY <1>16 DEF PiecesAre
  <2>2. q \in Piece /\ (q.size > 0 => q.addr + q.size <= Size)
    BY <1>2, ObjectSpans
  <2>3. pieces[i] = q
    BY <2>1, <2>2, EmptiedIs
  <2> QED
    BY <2>2, <2>3
<1> DEFINE symbols2 == {a \in Addrs : a < Passed' \/ (a = Passed' /\ ForGood')}
           gaps2    == {a \in Stops : a < Passed' \/ (a = Passed' /\ ForGood' /\ cur' = NextAddr(a))}
<1>18. /\ \A a \in symbols2 : a \in past \/ p = SymbolObject(a)
       /\ \A a \in gaps2 : a \in Gaps => a \in gapsPast \/ p = GapObject(a)
  BY <1>15
<1> HIDE DEF symbols2, gaps2
<1>19. PieceAdded(p, symbols2, gaps2)
  <2>1. p \in Piece /\ p.addr = cur /\ \E q \in Objects : p \in {q, Emptied(q)}
    BY <1>15
  <2>2. pieces' = Append(pieces, p)
    BY <1>4 DEF p
  <2> QED
    BY <1>3, <1>5, <1>16, <1>18, <2>1, <2>2, PieceWritten
<1>20. SplitCuts'
  <2>1. \A i \in DOMAIN pieces' : pieces'[i].size > 0 => pieces'[i].addr + pieces'[i].size <= cur'
    <3> SUFFICES ASSUME NEW i \in DOMAIN pieces', pieces'[i].size > 0
                 PROVE  pieces'[i].addr + pieces'[i].size <= cur'
      OBVIOUS
    <3>1. CASE i \in DOMAIN pieces
      <4>1. pieces[i] \in Piece /\ pieces[i] = pieces'[i]
        BY <1>3, <1>19, <3>1 DEF PieceAdded
      <4>2. pieces[i].addr \in Nat /\ pieces[i].size \in Nat
        BY <4>1 DEF Piece
      <4>3. pieces[i].addr + pieces[i].size <= cur /\ pieces[i].addr + pieces[i].size <= Size
        BY <1>5, <1>17, <3>1, <4>1
      <4>4. cur' \in Nat /\ (cur <= cur' \/ cur' = Size)
        BY <1>15
      <4> QED
        BY <1>3, <4>1, <4>2, <4>3, <4>4
    <3>2. CASE pieces'[i] = p
      <4>1. p.addr = cur /\ p.size = BytesIn(cur, cur') /\ cur' \in Nat
        BY <1>15
      <4>2. p.addr + p.size = Least(cur', Size)
        BY <1>3, <3>2, <4>1, BytesBetween
      <4> QED
        BY <1>3, <3>2, <4>1, <4>2 DEF Least
    <3> QED
      BY <1>19, <3>1, <3>2 DEF PieceAdded
  <2>2. ~Cut'
    BY <1>4 DEF Cut
  <2>3. /\ {a \in Addrs' : a < Passed' \/ (a = Passed' /\ ForGood')} = symbols2
        /\ {a \in Stops' : a < Passed' \/ (a = Passed' /\ ForGood' /\ cur' = NextAddr(a)')} = gaps2
    BY <1>1, CutStays DEF symbols2, gaps2
  <2>4. PiecesAre({a \in Addrs : a < Passed \/ (a = Passed /\ ForGood)},
                  {a \in Stops : a < Passed \/ (a = Passed /\ ForGood /\ cur = NextAddr(a))})'
    BY <1>1, <1>19, <2>3, CutStays DEF PieceAdded, PiecesAre, Emptied
  <2> QED
    BY <2>1, <2>2, <2>4 DEF SplitCuts
<1>21. counted' = cur' /\ written' = Least(cur', Size) /\ counted' \in Nat /\ written' \in Nat
  <2>1. counted = cur /\ written = Least(cur, Size) /\ p.size = BytesIn(cur, cur')
        /\ NextSize \in Int /\ cur' \in Nat /\ (cur <= cur' \/ (cur' = Size /\ cur >= Size))
    BY <1>1, <1>15 DEF SplitIsOnTime
  <2>2. written' = written + p.size /\ counted' = cur'
    BY <1>4, <2>1 DEF p
  <2>3. written' = Least(cur', Size)
    <3>1. CASE cur <= cur'
      BY <1>3, <2>1, <2>2, <3>1, BytesBetween
    <3>2. CASE cur' = Size /\ cur >= Size
      <4>1. BytesIn(cur, cur') = 0
        BY <1>3, <2>1, <3>2, BytesBetween
      <4> QED
        BY <1>3, <2>1, <2>2, <3>2, <4>1 DEF Least
    <3> QED
      BY <2>1, <3>1, <3>2
  <2> QED
    BY <1>3, <2>1, <2>2, <2>3 DEF Least
<1>22. TypeOK'
  <2>1. last' \in Segment
    <3>1. p \in Piece
      BY <1>15
    <3> QED
      BY <1>4, <3>1 DEF p, Piece
  <2>2. idx' \in Nat \ {0} /\ cur' \in Nat
    BY <1>3, <1>15
  <2>3. pieces' \in Seq(Piece)
    BY <1>19 DEF PieceAdded
  <2> QED
    BY <1>1, <1>4, <1>21, <2>1, <2>2, <2>3 DEF TypeOK
<1>23. SplitIsOnTime'
  <2>1. last' = SegmentAt(Passed')
    BY <1>4, <1>15 DEF p
  <2>2. idx' <= Len(rows) + 1
    BY <1>3, <1>15
  <2>3. IF ForGood' THEN cur' \in {End(Passed'), NextAddr(Passed')} ELSE cur' = Passed'
    BY <1>15
  <2>4. End(Passed)' = End(Passed') /\ NextAddr(Passed)' = NextAddr(Passed')
        /\ SegmentAt(Passed)' = SegmentAt(Passed')
    BY <1>1, CutStays
  <2> QED
    BY <1>1, <1>21, <2>1, <2>2, <2>3, <2>4 DEF SplitIsOnTime
<1>24. LoopsAdvance'
  <2>1. Len(pieces') <= 2 * (idx' - 1) + (IF ForGood' /\ cur' = NextAddr(Passed') THEN 1 ELSE 0)
    BY <1>15, <1>19 DEF PieceAdded
  <2>2. NextAddr(Passed)' = NextAddr(Passed')
    BY <1>1, CutStays
  <2> QED
    BY <1>4, <2>1, <2>2 DEF LoopsAdvance, Cut, Listed
<1> QED
  BY <1>4, <1>20, <1>22, <1>23, <1>24

\* Before the first symbol nothing is past and nothing is due.
LEMMA AtStart ==
  ASSUME RoundTripAssumption, rows \in Seq(Row)
  PROVE  /\ End(Start) = 0 /\ SegmentAt(Start) = ".text" /\ Start \in Stops
         /\ \A a \in Stops : ~(a < Start) /\ (a \in Addrs => a # Start)
         /\ \A a \in Gaps : ~(a = Start /\ NextAddr(a) = 0)
<1>1. \A a \in Addrs : a \in Nat
  BY AddrsAreNumbers
<1>2. \A a \in Stops : ~(a < Start) /\ (a \in Addrs => a # Start)
  BY <1>1 DEF Stops, Start
<1>3. End(Start) = 0 /\ SegmentAt(Start) = ".text" /\ Start \in Stops
  BY DEF End, SegmentAt, Stops
<1>4. \A a \in Gaps : ~(a = Start /\ NextAddr(a) = 0)
  BY <1>3 DEF Gaps
<1> QED
  BY <1>2, <1>3, <1>4

\* The loaded rows are where split_binary starts.
LEMMA LoadStep ==
  ASSUME RoundTripAssumption, IInv, Load
  PROVE  IInv'
<1>1. /\ pc = "load" /\ UNCHANGED <<csv, exheader, cur, idx, last, pieces, counted, written, names>>
      /\ rows' = [i \in DOMAIN csv |-> Placed(csv[i])]
      /\ (UniqueNames /\ pc' = "split") \/ pc' = "duplicate_names"
  BY DEF Load
<1>2. /\ csv \in Csvs /\ csv \in Seq(Row) /\ names = <<>> /\ pieces = <<>>
      /\ cur = 0 /\ idx = 1 /\ last = ".text" /\ counted = 0 /\ written = 0
  BY <1>1 DEF IInv, RowsAreTheCsv, RoundTripAssumption, Cut
<1>3. /\ rows' \in Seq(Row) /\ DOMAIN rows' = DOMAIN csv /\ \A i \in DOMAIN csv : rows'[i] = Placed(csv[i])
  <2>1. \A row \in Row : Placed(row) \in Row
    <3> SUFFICES ASSUME NEW row \in Row PROVE Placed(row) \in Row
      OBVIOUS
    <3>1. SegmentOf(row.addr) \in Segment
      BY DEF SegmentOf, Segment
    <3> QED
      BY <3>1 DEF Placed, Row
  <2>2. DOMAIN csv = 1..Len(csv)
    BY <1>2
  <2>3. rows' = [i \in 1..Len(csv) |-> Placed(csv[i])]
    BY <1>1, <2>2
  <2> QED
    BY <1>2, <2>1, <2>2, <2>3
<1>4. TypeOK'
  BY <1>1, <1>3 DEF IInv, TypeOK, Ended
<1>5. RowsAreTheCsv'
  <2>1. UniqueNames => UniqueNames'
    BY <1>1 DEF UniqueNames
  <2> QED
    BY <1>1, <1>2, <1>3, <2>1 DEF RowsAreTheCsv, Cut, Placed
<1>6. idx' = 1 /\ cur' = 0 /\ Passed' = Start
  BY <1>1, <1>2 DEF Passed, PassedAt
<1>7. ForGood'
  <2>1. rows' \in Seq(Row) /\ Len(rows') \in Nat /\ DOMAIN rows' = 1..Len(rows')
    BY <1>3
  <2>2. 1 <= Len(rows') => rows'[1] \in Row
    BY <2>1
  <2>3. 1 <= Len(rows') => rows'[1].addr # Start
    BY <2>2 DEF Row, Start
  <2> QED
    BY <1>6, <2>1, <2>3 DEF ForGood
<1>8. SplitIsOnTime'
  <2>1. Len(rows') \in Nat /\ Size \in Nat
    BY <1>3 DEF RoundTripAssumption
  <2>2. End(Passed)' = 0 /\ SegmentAt(Passed)' = ".text"
    BY <1>6 DEF End, SegmentAt
  <2>3. written' = Least(cur', Size) /\ counted' = cur'
    BY <1>1, <1>2, <2>1 DEF Least
  <2> QED
    BY <1>1, <1>2, <1>6, <1>7, <2>1, <2>2, <2>3 DEF SplitIsOnTime
<1>9. SplitCuts'
  <2>1. \A a \in Addrs' : a \in Nat
    <3>1. \A i \in DOMAIN rows' : rows'[i] \in Row
      BY <1>3
    <3> QED
      BY <3>1 DEF Addrs, Row
  <2>2. {a \in Addrs' : a < Passed' \/ (a = Passed' /\ ForGood')} = {}
    BY <1>6, <2>1 DEF Start
  <2>3. \A a \in Gaps' : ~(a < Passed' \/ (a = Passed' /\ ForGood' /\ cur' = NextAddr(a)'))
    <3> SUFFICES ASSUME NEW a \in Gaps'
                 PROVE  ~(a < Passed' \/ (a = Passed' /\ ForGood' /\ cur' = NextAddr(a)'))
      OBVIOUS
    <3>1. a \in Stops' /\ End(a)' < NextAddr(a)'
      BY DEF Gaps
    <3>2. ~(a < Start)
      BY <2>1, <3>1 DEF Stops, Start
    <3>3. a = Start => End(a)' = 0
      BY DEF End
    <3> QED
      BY <1>6, <3>1, <3>2, <3>3
  <2>4. pieces' = <<>> /\ DOMAIN pieces' = {}
    BY <1>1, <1>2
  <2>5. PiecesAre({a \in Addrs : a < Passed \/ (a = Passed /\ ForGood)},
                  {a \in Stops : a < Passed \/ (a = Passed /\ ForGood /\ cur = NextAddr(a))})'
    BY <2>2, <2>3, <2>4 DEF PiecesAre
  <2> QED
    BY <1>1, <2>4, <2>5 DEF SplitCuts, Cut
<1>10. LoopsAdvance'
  <2>1. Len(pieces') = 0 /\ Len(names') = 0
    BY <1>1, <1>2
  <2>2. 0 <= 2 * (1 - 1) + 0 /\ 0 <= 2 * (1 - 1) + 1
    OBVIOUS
  <2> QED
    BY <1>1, <1>6, <2>1, <2>2 DEF LoopsAdvance, Cut, Listed
<1> QED
  BY <1>1, <1>4, <1>5, <1>8, <1>9, <1>10 DEF IInv, NamesAreOnTime, NamesCut, Listed

\* split_binary ends with its totals right, and every object written.
LEMMA SplitEndsStep ==
  ASSUME RoundTripAssumption, IInv, SplitEnds
  PROVE  IInv'
<1>1. /\ pc = "split" /\ ~MoreToSplit /\ cur' = 0 /\ idx' = 1
      /\ UNCHANGED <<csv, exheader, rows, last, pieces, counted, written, names>>
      /\ pc' = IF written # Size \/ counted # Size THEN "size_mismatch" ELSE "name"
  BY DEF SplitEnds
<1>2. rows \in Seq(Row) /\ RowsInOrder /\ Len(rows) = Len(csv) /\ Len(rows) \in Nat
  BY <1>1, LoadedRows DEF IInv, RowsAreTheCsv, TypeOK
<1>3. idx \in 1..(Len(rows) + 1) /\ idx > Len(rows) /\ cur >= Size /\ cur \in Nat /\ Size \in Nat
  BY <1>1, <1>2 DEF IInv, TypeOK, SplitIsOnTime, MoreToSplit, RoundTripAssumption
<1>4. /\ Passed \in Stops /\ NextAddr(Passed) = Size /\ \A b \in Addrs : b <= Passed
      /\ End(Passed) \in Nat /\ End(Passed) <= Size
  BY <1>2, <1>3, PassedIs, StopsInOrder DEF Passed
<1>5. ForGood
  BY <1>3 DEF ForGood
<1>6. cur = Size /\ counted = Size /\ written = Size
  <2>1. cur \in {End(Passed), NextAddr(Passed)} /\ counted = cur /\ written = Least(cur, Size)
    BY <1>1, <1>5 DEF IInv, SplitIsOnTime
  <2>2. cur = Size
    BY <1>3, <1>4, <2>1
  <2> QED
    BY <1>3, <2>1, <2>2 DEF Least
<1>7. pc' = "name"
  BY <1>1, <1>6
<1>8. TypeOK' /\ RowsAreTheCsv' /\ SplitIsOnTime'
  BY <1>1, <1>7 DEF IInv, TypeOK, RowsAreTheCsv, SplitIsOnTime, UniqueNames, Cut, Placed
<1>9. SplitCuts'
  <2>1. \A a \in Stops : a < Passed \/ a = Passed
    <3>1. \A a \in Stops : a \in Int /\ (a = Start \/ a \in Addrs) /\ a >= -1
      BY <1>2, StopsInOrder
    <3> QED
      BY <1>4, <3>1 DEF Start
  <2>2. PiecesAre({a \in Addrs : a < Passed \/ (a = Passed /\ ForGood)},
                  {a \in Stops : a < Passed \/ (a = Passed /\ ForGood /\ cur = NextAddr(a))})
    BY <1>1 DEF IInv, SplitCuts
  <2>3. /\ \A a \in Addrs : a < Passed \/ (a = Passed /\ ForGood)
        /\ \A a \in Stops : a < Passed \/ (a = Passed /\ ForGood /\ cur = NextAddr(a))
    BY <1>4, <1>5, <1>6, <2>1 DEF Stops
  <2>4. PiecesAre(Addrs, Stops)
    BY <2>2, <2>3 DEF PiecesAre
  <2>5. PiecesAre(Addrs, Stops)'
    BY <1>1, <2>4, CutStays DEF PiecesAre, Emptied
  <2> QED
    BY <1>7, <2>5 DEF SplitCuts
<1>10. LastNamed' = Start
  BY <1>1 DEF LastNamed, NamedAt
<1>11. NamesAreOnTime'
  <2>1. Len(Distinct') \in Nat /\ End(LastNamed)' = 0
    BY <1>1, <1>2, <1>10, CutStays, NamedIs DEF End
  <2> QED
    BY <1>1, <2>1 DEF NamesAreOnTime
<1>12. NamesCut'
  <2>1. names' = <<>> /\ DOMAIN names' = {}
    BY <1>1 DEF IInv, RowsAreTheCsv, Cut
  <2>2. {a \in Addrs' : a <= LastNamed'} = {}
    BY <1>1, <1>2, <1>10, AddrsAreNumbers, CutStays DEF Start
  <2>3. {a \in Stops' : a < LastNamed' \/ (a = LastNamed' /\ cur' = NextAddr(a)')} \cap Gaps' = {}
    BY <1>1, <1>2, <1>10, AtStart, CutStays
  <2>4. NamesAre({a \in Addrs : a <= LastNamed},
                 {a \in Stops : a < LastNamed \/ (a = LastNamed /\ cur = NextAddr(a))})'
    BY <2>1, <2>2, <2>3 DEF NamesAre, NamesOf
  <2> QED
    BY <1>7, <2>1, <2>4 DEF NamesCut, Listed
<1>13. LoopsAdvance'
  <2>1. Len(pieces) <= 2 * (idx - 1) + 1
    BY <1>1, <1>3, <1>5 DEF IInv, LoopsAdvance
  <2>2. Len(pieces) <= 2 * Len(csv) + 1
    <3>1. Len(pieces) \in Nat /\ idx - 1 <= Len(csv)
      BY <1>2, <1>3 DEF IInv, TypeOK
    <3> QED
      BY <1>2, <1>3, <2>1, <3>1
  <2>3. Len(names') = 0
    BY <1>1 DEF IInv, RowsAreTheCsv, Cut
  <2> QED
    BY <1>1, <1>7, <2>2, <2>3 DEF LoopsAdvance, Listed
<1> QED
  BY <1>7, <1>8, <1>9, <1>11, <1>12, <1>13 DEF IInv

-----------------------------------------------------------------------------
(* _split_names.                                                           *)

\* One step of the loop names the symbol it is at, or the gap after the last one.
LEMMA NameGoes ==
  ASSUME RoundTripAssumption, TypeOK, NamesAreOnTime, Name
  PROVE  /\ pc = "name" /\ pc' = "name" /\ LastNamed \in Stops /\ idx \in 1..(Len(Distinct) + 1)
         /\ UNCHANGED <<csv, exheader, rows, last, pieces, counted, written>>
         /\ \/ /\ cur \in Addrs /\ LastNamed < cur /\ NextAddr(LastNamed) = cur
               /\ idx <= Len(Distinct) /\ NamedAt(idx + 1) = cur
               /\ names' = Append(names, RowAt(cur).name)
               /\ cur' = End(cur) /\ idx' = idx + 1
            \/ /\ LastNamed \in Gaps /\ cur = End(LastNamed)
               /\ names' = Append(names, Unnamed(cur))
               /\ cur' = NextAddr(LastNamed) /\ idx' = idx
<1>1. pc = "name" /\ UNCHANGED <<csv, exheader, rows, last, pieces, counted, written>>
  BY DEF Name
<1>2. rows \in Seq(Row) /\ Size \in Nat /\ cur \in Nat
  BY DEF TypeOK, RoundTripAssumption
<1>3. /\ idx \in 1..(Len(Distinct) + 1) /\ Len(Distinct) \in Nat
      /\ cur \in {End(LastNamed), NextAddr(LastNamed)}
  <2>1. Len(Distinct) \in Nat
    BY <1>2, NamedIs
  <2> QED
    BY <1>1, <2>1 DEF NamesAreOnTime, TypeOK
<1>4. /\ LastNamed \in Stops /\ LastNamed \in Int
      /\ End(LastNamed) \in Nat /\ NextAddr(LastNamed) \in Nat /\ End(LastNamed) <= NextAddr(LastNamed)
  BY <1>2, <1>3, NamedIs, StopsInOrder DEF LastNamed
<1>5. CASE idx > Len(Distinct)
  <2>1. /\ cur < Size /\ pc' = pc /\ names' = Append(names, Unnamed(cur)) /\ cur' = Size /\ idx' = idx
    BY <1>3, <1>5 DEF Name
  <2>2. NextAddr(LastNamed) = Size
    BY <1>2, <1>3, <1>5, NamedIs DEF LastNamed
  <2>3. cur = End(LastNamed)
    BY <1>2, <1>3, <2>1, <2>2
  <2>4. LastNamed \in Gaps
    BY <1>4, <2>1, <2>2, <2>3 DEF Gaps
  <2> QED
    BY <1>1, <1>3, <1>4, <2>1, <2>2, <2>3, <2>4
<1>6. CASE idx <= Len(Distinct)
  <2> DEFINE sym  == Distinct[idx]
             next == IF idx < Len(Distinct) THEN Distinct[idx + 1].addr ELSE Size
  <2>1. /\ sym.addr \in Addrs /\ sym = RowAt(sym.addr) /\ NextAddr(LastNamed) = sym.addr
        /\ LastNamed < sym.addr /\ NamedAt(idx + 1) = sym.addr
    BY <1>2, <1>3, <1>6, NamedIs DEF LastNamed
  <2>2. next = NextAddr(sym.addr)
    <3>1. idx + 1 \in 1..(Len(Distinct) + 1) /\ (idx < Len(Distinct) <=> idx + 1 <= Len(Distinct))
          /\ (~(idx < Len(Distinct)) => idx + 1 > Len(Distinct))
      BY <1>3, <1>6
    <3> QED
      BY <1>2, <2>1, <3>1, NamedIs
  <2>3. sym.addr \in Nat /\ cur <= sym.addr
    BY <1>2, <1>3, <1>4, <2>1
  <2>4. IF cur = sym.addr
        THEN /\ names' = Append(names, sym.name) /\ cur' = cur + Least(sym.size, next - cur)
             /\ idx' = idx + 1 /\ pc' = pc
        ELSE names' = Append(names, Unnamed(cur)) /\ cur' = sym.addr /\ pc' = pc /\ idx' = idx
    <3>1. ~(idx > Len(Distinct)) /\ (cur # sym.addr => cur < sym.addr)
      BY <1>2, <1>3, <1>6, <2>3
    <3> QED
      BY <3>1 DEF Name, NextIndex
  <2> HIDE DEF sym, next
  <2>5. CASE cur = sym.addr
    <3>1. cur \in Stops /\ RowAt(cur).size \in Nat /\ NextAddr(cur) \in Nat
          /\ End(cur) = Least(cur + RowAt(cur).size, NextAddr(cur))
      <4>1. cur \in Stops
        BY <2>1, <2>5 DEF Stops
      <4> QED
        BY <1>2, <2>1, <2>5, <4>1, RowAtIsARow, StopsInOrder
    <3>2. cur' = End(cur)
      BY <1>2, <2>1, <2>2, <2>4, <2>5, <3>1 DEF Least
    <3> QED
      BY <1>1, <1>3, <1>4, <1>6, <2>1, <2>4, <2>5, <3>2
  <2>6. CASE cur # sym.addr
    <3>1. cur = End(LastNamed) /\ cur < NextAddr(LastNamed)
      BY <1>2, <1>3, <2>1, <2>3, <2>6
    <3>2. LastNamed \in Gaps
      BY <1>4, <3>1 DEF Gaps
    <3> QED
      BY <1>1, <1>3, <1>4, <2>1, <2>4, <2>6, <3>1, <3>2
  <2> QED
    BY <2>5, <2>6
<1> QED
  BY <1>3, <1>5, <1>6

\* What the names are with one more.
NameAdded(n, symbols, gaps) ==
  /\ names' \in Seq(ObjectName) /\ Len(names') = Len(names) + 1
  /\ {names'[k] : k \in DOMAIN names'} = NamesOf(symbols, gaps)
  /\ ~NameClash =>
       \A k, l \in DOMAIN names' : k < l =>
         /\ names'[k] # names'[l]
         /\ \A p, q \in Objects :
              p.name = names'[k] /\ q.name = names'[l] /\ p.size > 0 => p.addr + p.size <= q.addr
  /\ \A k \in DOMAIN names' : (k \in DOMAIN names /\ names'[k] = names[k]) \/ names'[k] = n

\* A name given where the last named object with bytes has ended.
LEMMA NameWritten ==
  ASSUME RoundTripAssumption, rows \in Seq(Row), names \in Seq(ObjectName), ~NameClash => NamesDiffer,
         NEW symbols, NEW gaps, NamesAre(symbols, gaps),
         ~NameClash => \A k \in DOMAIN names : \A p \in Objects :
                         p.name = names[k] /\ p.size > 0 => p.addr + p.size <= cur,
         NEW o \in Objects, o.addr = cur, names' = Append(names, o.name),
         NEW symbols2, NEW gaps2, NamesOf(symbols2, gaps2) = NamesOf(symbols, gaps) \cup {o.name},
         ~NameClash => o.name \notin NamesOf(symbols, gaps)
  PROVE  NameAdded(o.name, symbols2, gaps2)
<1> DEFINE n == Len(names) + 1
<1>0. o.name \in ObjectName
  BY ObjectSpans DEF Piece
<1>1. /\ names' \in Seq(ObjectName) /\ Len(names') = n
      /\ DOMAIN names' = DOMAIN names \cup {n}
      /\ \A k \in DOMAIN names : names'[k] = names[k] /\ k < n /\ k \in Nat
      /\ names'[n] = o.name /\ n \in Nat
  BY <1>0, OneMore
<1> HIDE DEF n
<1>2. {names[k] : k \in DOMAIN names} = NamesOf(symbols, gaps)
  BY DEF NamesAre
<1>3. {names'[k] : k \in DOMAIN names'} = NamesOf(symbols2, gaps2)
  <2>1. {names'[k] : k \in DOMAIN names'} = {names[k] : k \in DOMAIN names} \cup {o.name}
    BY <1>1
  <2> QED
    BY <1>2, <2>1
<1>4. ASSUME ~NameClash, NEW k \in DOMAIN names', NEW l \in DOMAIN names', k < l
      PROVE  /\ names'[k] # names'[l]
             /\ \A p, q \in Objects :
                  p.name = names'[k] /\ q.name = names'[l] /\ p.size > 0 => p.addr + p.size <= q.addr
  <2>1. k \in DOMAIN names /\ names'[k] = names[k]
    BY <1>1, <1>4
  <2>2. CASE l \in DOMAIN names
    <3>1. names'[l] = names[l]
      BY <1>1, <2>2
    <3> QED
      BY <1>4, <2>1, <2>2, <3>1 DEF NamesAre
  <2>3. CASE l = n
    <3>1. names'[l] = o.name /\ names[k] \in NamesOf(symbols, gaps)
      BY <1>1, <1>2, <2>1, <2>3
    <3>2. names'[k] # names'[l]
      BY <1>4, <2>1, <3>1
    <3>3. \A q \in Objects : q.name = o.name => q = o
      BY <1>4, OneObjectOfAName
    <3> QED
      BY <1>4, <2>1, <3>1, <3>2, <3>3
  <2> QED
    BY <1>1, <2>2, <2>3
<1>5. \A k \in DOMAIN names' : (k \in DOMAIN names /\ names'[k] = names[k]) \/ names'[k] = o.name
  BY <1>1
<1> QED
  BY <1>1, <1>3, <1>4, <1>5 DEF n, NameAdded

\* A step of the loop keeps what it has named and where it is.
LEMMA NameStep ==
  ASSUME RoundTripAssumption, IInv, Name
  PROVE  IInv'
<1>1. TypeOK /\ NamesAreOnTime /\ RowsAreTheCsv /\ NamesCut /\ LoopsAdvance /\ SplitCuts /\ SplitIsOnTime
  BY DEF IInv
<1>2. /\ pc = "name" /\ pc' = "name" /\ LastNamed \in Stops /\ idx \in 1..(Len(Distinct) + 1)
      /\ UNCHANGED <<csv, exheader, rows, last, pieces, counted, written>>
  BY <1>1, NameGoes
<1>3. /\ rows \in Seq(Row) /\ Len(rows) = Len(csv) /\ Size \in Nat /\ cur \in Nat
      /\ names \in Seq(ObjectName) /\ Len(names) \in Nat
  BY <1>1, <1>2, LoadedRows DEF RowsAreTheCsv, TypeOK, RoundTripAssumption
<1>4. Len(Distinct) \in Nat
  BY <1>2, <1>3, NamedIs
<1>5. ~NameClash => NamesDiffer
  BY <1>1, <1>2, LoadedRows DEF RowsAreTheCsv, TypeOK
<1>6. \A a \in Stops : /\ a \in Int /\ End(a) \in Nat /\ NextAddr(a) \in Nat /\ End(a) <= NextAddr(a)
                       /\ a <= End(a) \/ (End(a) = Size /\ NextAddr(a) = Size /\ a > Size)
                       /\ \A b \in Stops : a < b => NextAddr(a) <= b
  BY <1>3, StopsInOrder
<1>7. \A a \in Addrs : a \in Stops /\ a \in Nat
  BY <1>3, AddrsAreNumbers DEF Stops
<1> DEFINE last2    == NamedAt(idx')
           symbols  == {a \in Addrs : a <= LastNamed}
           gaps     == {a \in Stops : a < LastNamed \/ (a = LastNamed /\ cur = NextAddr(a))}
           symbols2 == {a \in Addrs : a <= last2}
           gaps2    == {a \in Stops : a < last2 \/ (a = last2 /\ cur' = NextAddr(a))}
           Done(o)  ==
             /\ o.addr = cur /\ names' = Append(names, o.name)
             /\ NamesOf(symbols2, gaps2) = NamesOf(symbols, gaps) \cup {o.name}
             /\ ~NameClash => o.name \notin NamesOf(symbols, gaps)
             /\ cur' \in Nat /\ (cur <= cur' \/ (cur' = Size /\ cur >= Size))
             /\ o.size > 0 => o.addr + o.size <= cur'
             /\ idx' \in 1..(Len(Distinct) + 1) /\ cur' \in {End(last2), NextAddr(last2)}
             /\ Len(names) + 1 <= 2 * (idx' - 1) + (IF cur' = NextAddr(last2) THEN 1 ELSE 0)
<1>8. ASSUME cur \in Addrs, LastNamed < cur, NextAddr(LastNamed) = cur,
             idx <= Len(Distinct), NamedAt(idx + 1) = cur,
             names' = Append(names, RowAt(cur).name), cur' = End(cur), idx' = idx + 1
      PROVE  \E o \in Objects : Done(o)
  <2> DEFINE o == SymbolObject(cur)
  <2>1. /\ o \in Objects /\ o.name = RowAt(cur).name /\ o.addr = cur /\ o.size \in Nat
        /\ o.size > 0 => o.addr + o.size <= End(cur)
    <3>1. /\ o \in Objects /\ o.name = RowAt(cur).name /\ o.addr = cur /\ o.size \in Nat
          /\ o.size > 0 => cur + o.size = Least(End(cur), Size)
      BY <1>3, <1>8, SymbolObjectIs
    <3>2. Least(End(cur), Size) <= End(cur)
      BY <1>3, <1>6, <1>7, <1>8 DEF Least
    <3> HIDE DEF o
    <3> QED
      BY <3>1, <3>2
  <2> HIDE DEF o
  <2>2. \A a \in Stops : a < cur <=> (a < LastNamed \/ a = LastNamed)
    BY <1>2, <1>6, <1>7, <1>8
  <2>3. symbols2 = symbols \cup {cur}
    BY <1>2, <1>6, <1>7, <1>8, <2>2
  <2>4. gaps2 \cap Gaps = gaps \cap Gaps
    <3>1. cur \in Gaps => cur' # NextAddr(cur)
      BY <1>6, <1>7, <1>8 DEF Gaps
    <3>2. \A a \in Gaps : a \in gaps2 <=> a \in gaps
      BY <1>8, <2>2, <3>1
    <3> HIDE DEF gaps, gaps2
    <3> QED
      BY <3>2
  <2>5. NamesOf(symbols2, gaps2) = NamesOf(symbols, gaps) \cup {o.name}
    <3> HIDE DEF symbols, symbols2, gaps, gaps2
    <3>1. {RowAt(a).name : a \in symbols2} = {RowAt(a).name : a \in symbols} \cup {o.name}
      BY <2>1, <2>3
    <3>2. {Unnamed(End(a)) : a \in gaps2 \cap Gaps} = {Unnamed(End(a)) : a \in gaps \cap Gaps}
      BY <2>4
    <3> QED
      BY <3>1, <3>2 DEF NamesOf
  <2>6. ASSUME ~NameClash PROVE o.name \notin NamesOf(symbols, gaps)
    <3>1. \A a \in Addrs : RowAt(a).name = RowAt(cur).name => a = cur
      BY <1>3, <1>5, <1>8, <2>6, OneObjectOfAName
    <3>2. \A b \in Gaps : RowAt(cur).name # Unnamed(End(b))
      BY <1>3, <1>5, <1>8, <2>6, OneObjectOfAName
    <3>3. cur \notin symbols /\ \A a \in symbols : a \in Addrs
      BY <1>2, <1>6, <1>7, <1>8
    <3> HIDE DEF symbols, gaps
    <3> QED
      BY <2>1, <3>1, <3>2, <3>3 DEF NamesOf
  <2>7. cur' \in Nat /\ (cur <= cur' \/ (cur' = Size /\ cur >= Size))
    BY <1>3, <1>6, <1>7, <1>8
  <2>8. Len(names) + 1 <= 2 * (idx' - 1) /\ idx' \in 1..(Len(Distinct) + 1)
    <3>1. Len(names) <= 2 * (idx - 1) + 1
      BY <1>1, <1>2, <1>8 DEF LoopsAdvance
    <3> QED
      BY <1>2, <1>3, <1>4, <1>8, <3>1
  <2>9. \A n \in 0..1 : Len(names) + 1 <= 2 * (idx' - 1) + n
    BY <1>3, <2>8
  <2>10. last2 = cur
    BY <1>8
  <2> HIDE DEF symbols, symbols2, gaps, gaps2, last2
  <2>11. Done(o)
    BY <1>8, <2>1, <2>5, <2>6, <2>7, <2>8, <2>9, <2>10
  <2> QED
    BY <2>1, <2>11
<1>9. ASSUME LastNamed \in Gaps, cur = End(LastNamed),
             names' = Append(names, Unnamed(cur)), cur' = NextAddr(LastNamed), idx' = idx
      PROVE  \E o \in Objects : Done(o)
  <2> DEFINE o == GapObject(LastNamed)
  <2>1. /\ o \in Objects /\ o.name = Unnamed(cur) /\ o.addr = cur /\ o.size \in Nat
        /\ End(LastNamed) < NextAddr(LastNamed)
        /\ o.size > 0 => o.addr + o.size <= NextAddr(LastNamed)
    <3>1. /\ o \in Objects /\ o.name = Unnamed(cur) /\ o.addr = cur /\ o.size \in Nat
          /\ End(LastNamed) < NextAddr(LastNamed)
          /\ o.size > 0 => cur + o.size = Least(NextAddr(LastNamed), Size)
      BY <1>3, <1>9, GapObjectIs
    <3>2. Least(NextAddr(LastNamed), Size) <= NextAddr(LastNamed)
      BY <1>2, <1>3, <1>6 DEF Least
    <3> HIDE DEF o
    <3> QED
      BY <3>1, <3>2
  <2> HIDE DEF o
  <2>2. last2 = LastNamed /\ symbols2 = symbols
    BY <1>9 DEF LastNamed
  <2>3. cur # NextAddr(LastNamed) /\ cur < cur' /\ cur' \in Nat
    BY <1>2, <1>3, <1>6, <1>9, <2>1
  <2>4. gaps2 = gaps \cup {LastNamed}
    BY <1>2, <1>9, <2>2, <2>3
  <2>5. NamesOf(symbols2, gaps2) = NamesOf(symbols, gaps) \cup {o.name}
    <3> HIDE DEF symbols, symbols2, gaps, gaps2
    <3>1. gaps2 \cap Gaps = (gaps \cap Gaps) \cup {LastNamed}
      BY <1>9, <2>4
    <3>2. {Unnamed(End(a)) : a \in gaps2 \cap Gaps} = {Unnamed(End(a)) : a \in gaps \cap Gaps} \cup {o.name}
      BY <1>9, <2>1, <3>1
    <3> QED
      BY <2>2, <3>2 DEF NamesOf
  <2>6. ASSUME ~NameClash PROVE o.name \notin NamesOf(symbols, gaps)
    <3>1. \A a \in Gaps : Unnamed(End(a)) = Unnamed(End(LastNamed)) => a = LastNamed
      BY <1>3, <1>5, <1>9, <2>6, OneObjectOfAName
    <3>2. \A a \in Addrs : RowAt(a).name # Unnamed(End(LastNamed))
      BY <1>3, <1>5, <1>9, <2>6, OneObjectOfAName
    <3>3. LastNamed \notin gaps /\ \A a \in symbols : a \in Addrs
      BY <1>2, <1>6, <2>3
    <3> HIDE DEF symbols, gaps
    <3> QED
      BY <1>9, <2>1, <3>1, <3>2, <3>3 DEF NamesOf
  <2>7. Len(names) + 1 <= 2 * (idx' - 1) + 1
    <3>1. Len(names) <= 2 * (idx - 1) + 0
      BY <1>1, <1>2, <2>3 DEF LoopsAdvance
    <3> QED
      BY <1>2, <1>3, <1>4, <1>9, <3>1
  <2>8. cur <= cur'
    BY <1>3, <2>3
  <2> HIDE DEF symbols, symbols2, gaps, gaps2, last2
  <2>9. Done(o)
    BY <1>2, <1>9, <2>1, <2>2, <2>3, <2>5, <2>6, <2>7, <2>8
  <2> QED
    BY <2>1, <2>9
<1>10. PICK o \in Objects : Done(o)
  BY <1>1, <1>8, <1>9, NameGoes
<1> HIDE DEF last2, symbols, gaps, symbols2, gaps2
<1>11. NamesAre(symbols, gaps)
  BY <1>1, <1>2 DEF NamesCut, symbols, gaps
<1>12. ~NameClash => \A k \in DOMAIN names : \A p \in Objects :
                       p.name = names[k] /\ p.size > 0 => p.addr + p.size <= cur
  BY <1>1, <1>2 DEF NamesCut
<1>13. NameAdded(o.name, symbols2, gaps2)
  BY <1>3, <1>5, <1>10, <1>11, <1>12, NameWritten
<1>14. ASSUME ~NameClash, NEW k \in DOMAIN names', NEW p \in Objects, p.name = names'[k], p.size > 0
       PROVE  p.addr + p.size <= cur'
  <2>1. p.addr \in Nat /\ p.size \in Nat /\ p.addr + p.size <= Size
    BY <1>3, <1>14, ObjectSpans
  <2>2. CASE k \in DOMAIN names /\ names'[k] = names[k]
    <3>1. p.addr + p.size <= cur
      BY <1>12, <1>14, <2>2
    <3> QED
      BY <1>3, <1>10, <2>1, <3>1
  <2>3. CASE names'[k] = o.name
    <3>1. p = o
      BY <1>3, <1>5, <1>14, <2>3, OneObjectOfAName
    <3> QED
      BY <1>10, <1>14, <3>1
  <2> QED
    BY <1>13, <2>2, <2>3 DEF NameAdded
<1>15. last2 = LastNamed'
  BY <1>2, CutStays DEF last2, LastNamed, NamedAt
<1>16. TypeOK'
  BY <1>1, <1>2, <1>10, <1>13 DEF TypeOK, NameAdded
<1>17. RowsAreTheCsv'
  BY <1>1, <1>2 DEF RowsAreTheCsv, UniqueNames, Cut, Placed
<1>18. NamesAreOnTime'
  <2>1. End(LastNamed)' = End(last2) /\ NextAddr(LastNamed)' = NextAddr(last2) /\ Distinct' = Distinct
    BY <1>2, <1>15, CutStays
  <2> QED
    BY <1>10, <2>1 DEF NamesAreOnTime
<1>19. SplitCuts'
  <2>1. PiecesAre(Addrs, Stops)
    BY <1>1, <1>2 DEF SplitCuts, Cut
  <2>2. PiecesAre(Addrs, Stops)'
    BY <1>2, <2>1, CutStays DEF PiecesAre, Emptied
  <2> QED
    BY <1>2, <2>2 DEF SplitCuts
<1>20. NamesCut'
  <2>1. /\ {a \in Addrs' : a <= LastNamed'} = symbols2
        /\ {a \in Stops' : a < LastNamed' \/ (a = LastNamed' /\ cur' = NextAddr(a)')} = gaps2
    BY <1>2, <1>15, CutStays DEF symbols2, gaps2
  <2>2. \A S, G : {RowAt(a)'.name : a \in S} \cup {Unnamed(End(a)') : a \in G \cap Gaps'} = NamesOf(S, G)
    BY <1>2, CutStays DEF NamesOf
  <2>3. NamesOf({a \in Addrs : a <= LastNamed},
                {a \in Stops : a < LastNamed \/ (a = LastNamed /\ cur = NextAddr(a))})'
          = NamesOf(symbols2, gaps2)
    BY <2>1, <2>2 DEF NamesOf, Unnamed
  <2>4. Objects' = Objects /\ (NameClash' <=> NameClash)
    BY <1>2, CutStays DEF NameClash
  <2>5. NamesAre({a \in Addrs : a <= LastNamed},
                 {a \in Stops : a < LastNamed \/ (a = LastNamed /\ cur = NextAddr(a))})'
    BY <1>13, <2>3, <2>4 DEF NamesAre, NameAdded
  <2> QED
    BY <1>2, <1>14, <2>4, <2>5 DEF NamesCut, Listed
<1>21. LoopsAdvance'
  <2>1. NextAddr(LastNamed)' = NextAddr(last2) /\ Len(names') = Len(names) + 1
    BY <1>2, <1>13, <1>15, CutStays DEF NameAdded
  <2>2. Len(pieces) <= 2 * Len(csv) + 1
    BY <1>1, <1>2 DEF LoopsAdvance, Cut
  <2> QED
    BY <1>2, <1>10, <1>15, <2>1, <2>2 DEF LoopsAdvance, Listed
<1> QED
  BY <1>2, <1>16, <1>17, <1>18, <1>19, <1>20, <1>21 DEF IInv, SplitIsOnTime

\* _split_names ends with a name for each object.
LEMMA NamesEndStep ==
  ASSUME RoundTripAssumption, IInv, NamesEnd
  PROVE  IInv'
<1>1. /\ TypeOK /\ NamesAreOnTime /\ RowsAreTheCsv /\ NamesCut /\ LoopsAdvance /\ SplitCuts
      /\ pc = "name" /\ pc' = "link" /\ idx > Len(Distinct) /\ cur >= Size
      /\ UNCHANGED <<csv, exheader, rows, cur, idx, last, pieces, counted, written, names>>
  BY DEF IInv, NamesEnd
<1>2. rows \in Seq(Row) /\ Len(rows) = Len(csv) /\ Size \in Nat /\ Len(names) \in Nat
      /\ Len(rows) \in Nat /\ cur \in Nat
  BY <1>1, LoadedRows DEF RowsAreTheCsv, TypeOK, RoundTripAssumption
<1>3. /\ idx \in 1..(Len(Distinct) + 1) /\ Len(Distinct) \in Nat /\ Len(Distinct) <= Len(rows)
      /\ cur \in {End(LastNamed), NextAddr(LastNamed)}
  <2>1. Len(Distinct) \in Nat /\ Len(Distinct) <= Len(rows)
    BY <1>2, NamedIs
  <2> QED
    BY <1>1, <2>1 DEF NamesAreOnTime, TypeOK
<1>4. /\ LastNamed \in Stops /\ NextAddr(LastNamed) = Size /\ \A b \in Addrs : b <= LastNamed
      /\ End(LastNamed) \in Nat /\ End(LastNamed) <= Size
  BY <1>1, <1>2, <1>3, NamedIs, StopsInOrder DEF LastNamed
<1>5. cur = NextAddr(LastNamed)
  BY <1>1, <1>2, <1>3, <1>4
<1>6. \A a \in Stops : a < LastNamed \/ a = LastNamed
  <2>1. \A a \in Stops : a \in Int /\ (a = Start \/ a \in Addrs) /\ a >= -1
    BY <1>2, StopsInOrder
  <2> QED
    BY <1>4, <2>1 DEF Start
<1>7. NamesAre(Addrs, Stops)
  <2>1. NamesAre({a \in Addrs : a <= LastNamed},
                 {a \in Stops : a < LastNamed \/ (a = LastNamed /\ cur = NextAddr(a))})
    BY <1>1 DEF NamesCut
  <2>2. /\ {a \in Addrs : a <= LastNamed} = Addrs
        /\ {a \in Stops : a < LastNamed \/ (a = LastNamed /\ cur = NextAddr(a))} = Stops
    BY <1>4, <1>5, <1>6
  <2> QED
    BY <2>1, <2>2
<1>8. Len(pieces) <= 2 * Len(csv) + 1 /\ Len(names) <= 2 * Len(csv) + 1
  <2>1. Len(pieces) <= 2 * Len(csv) + 1 /\ Len(names) <= 2 * (idx - 1) + 1
    BY <1>1, <1>5 DEF LoopsAdvance, Cut
  <2>2. idx - 1 <= Len(csv) /\ idx \in Nat /\ Len(csv) \in Nat
    BY <1>2, <1>3
  <2> QED
    BY <1>2, <2>1, <2>2
<1>9. PiecesAre(Addrs, Stops)
  BY <1>1 DEF SplitCuts, Cut
<1>10. PiecesAre(Addrs, Stops)' /\ NamesAre(Addrs, Stops)'
  <2>1. PiecesAre(Addrs, Stops)'
    BY <1>1, <1>9, CutStays DEF PiecesAre, Emptied
  <2>2. NamesOf(Addrs, Stops)' = NamesOf(Addrs, Stops)
    BY <1>1, CutStays DEF NamesOf, Unnamed
  <2>3. NamesAre(Addrs, Stops)'
    BY <1>1, <1>7, <2>2, CutStays DEF NamesAre, NameClash
  <2> QED
    BY <2>1, <2>3
<1> QED
  BY <1>1, <1>8, <1>10
     DEF IInv, TypeOK, RowsAreTheCsv, UniqueNames, Cut, Placed, SplitIsOnTime, SplitCuts,
         NamesAreOnTime, NamesCut, Listed, LoopsAdvance

\* The link and the comparison change nothing of what is linked and compared.
LEMMA VerifyStep ==
  ASSUME RoundTripAssumption, IInv, Verify
  PROVE  IInv'
<1>1. /\ TypeOK /\ RowsAreTheCsv /\ NamesCut /\ LoopsAdvance /\ SplitCuts
      /\ pc = "link" /\ pc' \in {"link_failed", "mismatch", "verified"}
      /\ UNCHANGED <<csv, exheader, rows, cur, idx, last, pieces, counted, written, names>>
  BY DEF IInv, Verify
<1>2. PiecesAre(Addrs, Stops)'
  BY <1>1, CutStays DEF SplitCuts, Cut, PiecesAre, Emptied
<1>3. NamesAre(Addrs, Stops)'
  <2>1. NamesOf(Addrs, Stops)' = NamesOf(Addrs, Stops)
    BY <1>1, CutStays DEF NamesOf, Unnamed
  <2> QED
    BY <1>1, <2>1, CutStays DEF NamesCut, Listed, NamesAre, NameClash
<1>4. Len(pieces') <= 2 * Len(csv') + 1 /\ Len(names') <= 2 * Len(csv') + 1
  BY <1>1 DEF LoopsAdvance, Cut, Listed
<1> QED
  BY <1>1, <1>2, <1>3, <1>4
     DEF IInv, TypeOK, Ended, RowsAreTheCsv, UniqueNames, Cut, Placed, SplitIsOnTime, SplitCuts,
         NamesAreOnTime, NamesCut, Listed, LoopsAdvance

\* The invariant holds at the start.
LEMMA InitIInv ==
  ASSUME RoundTripAssumption, Init
  PROVE  IInv
<1>1. TypeOK
  BY DEF RoundTripAssumption, Init, TypeOK, Segment
<1> QED
  BY <1>1 DEF Init, IInv, RowsAreTheCsv, SplitIsOnTime, SplitCuts, NamesAreOnTime, NamesCut,
              LoopsAdvance, Cut, Listed

\* Every step keeps the invariant.
LEMMA StepIInv ==
  ASSUME RoundTripAssumption, IInv, [Next]_vars
  PROVE  IInv'
<1>1. CASE Split
  <2>1. TypeOK' /\ pc' = "split" /\ SplitIsOnTime' /\ SplitCuts' /\ LoopsAdvance'
    BY <1>1, SplitStep
  <2>2. pc = "split" /\ UNCHANGED <<csv, exheader, rows, names>>
    BY <1>1 DEF Split
  <2>3. RowsAreTheCsv'
    BY <2>1, <2>2 DEF IInv, RowsAreTheCsv, UniqueNames, Cut, Placed
  <2> QED
    BY <2>1, <2>3 DEF IInv, NamesAreOnTime, NamesCut, Listed
<1>2. CASE UNCHANGED vars
  <2>1. UNCHANGED <<csv, exheader, pc, rows, cur, idx, last, pieces, counted, written, names>>
    BY <1>2 DEF vars
  <2>2. TypeOK' /\ RowsAreTheCsv'
    BY <2>1 DEF IInv, TypeOK, RowsAreTheCsv, UniqueNames, Cut, Placed
  <2>3. Passed' = Passed /\ (ForGood' <=> ForGood) /\ LastNamed' = LastNamed
    BY <2>1, CutStays DEF Passed, PassedAt, ForGood, LastNamed, NamedAt
  <2>4. SplitIsOnTime' /\ LoopsAdvance' /\ NamesAreOnTime'
    BY <2>1, <2>3, CutStays DEF IInv, SplitIsOnTime, LoopsAdvance, NamesAreOnTime, Cut, Listed
  <2>5. SplitCuts'
    BY <2>1, <2>3, CutStays DEF IInv, SplitCuts, PiecesAre, Emptied, Cut
  <2>6. NamesCut'
    <3> DEFINE symbols == {a \in Addrs : a <= LastNamed}
               gaps    == {a \in Stops : a < LastNamed \/ (a = LastNamed /\ cur = NextAddr(a))}
    <3>1. symbols' = symbols /\ gaps' = gaps
      BY <2>1, <2>3, CutStays
    <3>2. /\ NamesOf(symbols, gaps)' = NamesOf(symbols, gaps)
          /\ NamesOf(Addrs, Stops)' = NamesOf(Addrs, Stops)
      <4>1. \A S, G : {RowAt(a)'.name : a \in S} \cup {Unnamed(End(a)') : a \in G \cap Gaps'} = NamesOf(S, G)
        BY <2>1, CutStays DEF NamesOf
      <4> HIDE DEF symbols, gaps
      <4> QED
        BY <2>1, <3>1, <4>1, CutStays DEF NamesOf, Unnamed
    <3> HIDE DEF symbols, gaps
    <3>3. NamesAre(symbols, gaps) => NamesAre(symbols, gaps)'
      BY <2>1, <3>2, CutStays DEF NamesAre, NameClash
    <3>4. NamesAre(Addrs, Stops) => NamesAre(Addrs, Stops)'
      BY <2>1, <3>2, CutStays DEF NamesAre, NameClash
    <3>5. Objects' = Objects /\ (NameClash' <=> NameClash)
      BY <2>1, CutStays DEF NameClash
    <3>6. pc = "name" => NamesAre(symbols, gaps)
      BY DEF IInv, NamesCut, symbols, gaps
    <3>7. pc' = "name" => NamesAre({a \in Addrs : a <= LastNamed},
                                   {a \in Stops : a < LastNamed \/ (a = LastNamed /\ cur = NextAddr(a))})'
      BY <2>1, <3>3, <3>6 DEF symbols, gaps
    <3> QED
      BY <2>1, <3>4, <3>5, <3>7 DEF IInv, NamesCut, Listed
  <2> QED
    BY <2>1, <2>2, <2>4, <2>5, <2>6 DEF IInv
<1> QED
  BY <1>1, <1>2, LoadStep, SplitEndsStep, NameStep, NamesEndStep, VerifyStep DEF Next

-----------------------------------------------------------------------------
(* The link.                                                               *)

\* A split and a list of names that are of the same objects, of which no two have
\* one name.
Agreed ==
  /\ csv \in Csvs /\ rows \in Seq(Row) /\ pieces \in Seq(Piece) /\ names \in Seq(ObjectName)
  /\ DOMAIN rows = DOMAIN csv /\ \A i \in DOMAIN csv : rows[i] = Placed(csv[i])
  /\ NamesDiffer /\ ~NameClash
  /\ PiecesAre(Addrs, Stops) /\ NamesAre(Addrs, Stops)

\* They are when the names are all there.
LEMMA AgreedWhenListed ==
  ASSUME RoundTripAssumption, IInv, ~NameClash, Listed
  PROVE  Agreed
<1>1. pc \notin {"load", "duplicate_names", "split"}
  BY DEF Listed
<1> QED
  BY <1>1, LoadedRows
     DEF Agreed, IInv, TypeOK, RowsAreTheCsv, SplitCuts, NamesCut, Cut, Listed

\* A name is of one object and an object has one name, in the order they are in.
LEMMA NamesAreOfObjects ==
  ASSUME RoundTripAssumption, Agreed
  PROVE  /\ \A k \in DOMAIN names : \E p \in Objects : p.name = names[k]
         /\ \A p \in Objects : \E k \in DOMAIN names : names[k] = p.name
         /\ \A p \in Objects : ObjectOf(p.name) = p
         /\ \A p, q \in Objects : p.name = q.name => p = q
         /\ \A k, l \in DOMAIN names : names[k] = names[l] => k = l
         /\ \A p, q \in Objects, k, l \in DOMAIN names :
              p.name = names[k] /\ q.name = names[l] /\ k < l /\ p.size > 0
                => p.addr + p.size <= q.addr
<1>1. {names[k] : k \in DOMAIN names} = NamesOf(Addrs, Stops)
  BY DEF Agreed, NamesAre
<1>2. NamesOf(Addrs, Stops) = {p.name : p \in Objects}
  <2>1. Stops \cap Gaps = Gaps
    BY DEF Gaps
  <2>2. \A a \in Addrs : SymbolObject(a).name = RowAt(a).name
    BY DEF SymbolObject
  <2>3. \A a \in Gaps : GapObject(a).name = Unnamed(End(a))
    BY DEF GapObject
  <2>4. NamesOf(Addrs, Stops) = {SymbolObject(a).name : a \in Addrs} \cup {GapObject(a).name : a \in Gaps}
    BY <2>1, <2>2, <2>3 DEF NamesOf
  <2> QED
    BY <2>4 DEF Objects
<1>3. \A k \in DOMAIN names : \E p \in Objects : p.name = names[k]
  BY <1>1, <1>2
<1>4. \A p \in Objects : \E k \in DOMAIN names : names[k] = p.name
  BY <1>1, <1>2
<1>5. \A p \in Objects : ObjectOf(p.name) = p
  BY ObjectOfIsTheObject DEF Agreed
<1>6. \A p, q \in Objects : p.name = q.name => p = q
  BY OneObjectOfAName DEF Agreed
<1>7. \A k, l \in DOMAIN names : names[k] = names[l] => k = l
  <2>1. names \in Seq(ObjectName) /\ \A k, l \in DOMAIN names : k < l => names[k] # names[l]
    BY DEF Agreed, NamesAre
  <2>2. \A k, l \in DOMAIN names : k < l \/ l < k \/ k = l
    BY <2>1
  <2> QED
    BY <2>1, <2>2
<1>8. \A p, q \in Objects, k, l \in DOMAIN names :
        p.name = names[k] /\ q.name = names[l] /\ k < l /\ p.size > 0 => p.addr + p.size <= q.addr
  BY DEF Agreed, NamesAre
<1> QED
  BY <1>3, <1>4, <1>5, <1>6, <1>7, <1>8

\* The pieces with bytes are objects, and each is named where it is written.
LEMMA PiecesAreNamed ==
  ASSUME RoundTripAssumption, Agreed
  PROVE  LET full == {i \in DOMAIN pieces : pieces[i].size > 0}
             Names(k, i) == names[k] = pieces[i].name
         IN  /\ \A k \in DOMAIN names : \E i \in DOMAIN pieces : Names(k, i)
             /\ \A i \in full : \E k \in DOMAIN names : Names(k, i)
             /\ \A i, j \in full : \A k, l \in DOMAIN names :
                  Names(k, i) /\ Names(l, j) => (i < j <=> k < l)
<1> DEFINE full == {i \in DOMAIN pieces : pieces[i].size > 0}
<1>1. \A p \in Objects : /\ p \in Piece /\ p.addr \in Nat /\ p.size \in Nat
                         /\ Emptied(p).size = 0 /\ \E i \in DOMAIN pieces : pieces[i] = p
  BY ObjectSpans, EmptiedIs, ObjectOfIsTheObject DEF Agreed
<1>2. \A i \in full : pieces[i] \in Objects
  BY <1>1 DEF Agreed, PiecesAre
<1>3. \A k \in DOMAIN names : \E i \in DOMAIN pieces : names[k] = pieces[i].name
  BY <1>1, NamesAreOfObjects
<1>4. \A i \in full : \E k \in DOMAIN names : names[k] = pieces[i].name
  BY <1>2, NamesAreOfObjects
<1>5. ASSUME NEW i \in full, NEW j \in full, NEW k \in DOMAIN names, NEW l \in DOMAIN names,
             names[k] = pieces[i].name, names[l] = pieces[j].name
      PROVE  i < j <=> k < l
  <2>1. /\ i \in Nat /\ j \in Nat /\ k \in Nat /\ l \in Nat
        /\ \A m, n \in DOMAIN pieces :
             m < n /\ pieces[m].size > 0 => pieces[m].addr + pieces[m].size <= pieces[n].addr
    BY DEF Agreed, PiecesAre
  <2>2. /\ pieces[i] \in Objects /\ pieces[j] \in Objects
        /\ pieces[i].addr \in Nat /\ pieces[i].size \in Nat /\ pieces[i].size > 0
        /\ pieces[j].addr \in Nat /\ pieces[j].size \in Nat /\ pieces[j].size > 0
    BY <1>1, <1>2
  <2>3. i < j => pieces[i].addr + pieces[i].size <= pieces[j].addr
    BY <2>1, <2>2
  <2>4. j < i => pieces[j].addr + pieces[j].size <= pieces[i].addr
    BY <2>1, <2>2
  <2>5. k < l => pieces[i].addr + pieces[i].size <= pieces[j].addr
    BY <1>5, <2>2, NamesAreOfObjects
  <2>6. l < k => pieces[j].addr + pieces[j].size <= pieces[i].addr
    BY <1>5, <2>2, NamesAreOfObjects
  <2>7. k = l => pieces[i] = pieces[j]
    BY <1>5, <2>2, NamesAreOfObjects
  <2>8. i = j => k = l
    BY <1>5, NamesAreOfObjects
  <2> QED
    BY <2>1, <2>2, <2>3, <2>4, <2>5, <2>6, <2>7, <2>8
<1> QED
  BY <1>3, <1>4, <1>5

\* Each byte is in one of the objects that are named.
LEMMA BytesAreNamed ==
  ASSUME RoundTripAssumption, Agreed, NEW b \in 0..(Size - 1)
  PROVE  LET Holding == {i \in DOMAIN names : LET p == ObjectOf(names[i])
                                              IN  p.addr <= b /\ b < p.addr + p.size}
         IN  \E i \in Holding : Holding = {i}
<1>1. \A p \in Objects : p.addr \in Nat /\ p.size \in Nat
  BY ObjectSpans DEF Agreed
<1>2. PICK p \in Objects : p.addr <= b /\ b < p.addr + p.size
  BY ObjectsCover DEF Agreed
<1>3. PICK k \in DOMAIN names : names[k] = p.name /\ ObjectOf(names[k]) = p
  BY NamesAreOfObjects
<1>4. ASSUME NEW l \in DOMAIN names, ObjectOf(names[l]).addr <= b,
             b < ObjectOf(names[l]).addr + ObjectOf(names[l]).size
      PROVE  l = k
  <2>1. PICK q \in Objects : q.name = names[l] /\ ObjectOf(names[l]) = q
    BY NamesAreOfObjects
  <2>2. p.size > 0 /\ q.size > 0 /\ b \in Nat
    BY <1>1, <1>2, <1>4, <2>1 DEF RoundTripAssumption
  <2>3. p = q
    <3>1. p # q => p.addr + p.size <= q.addr \/ q.addr + q.size <= p.addr
      BY <2>2, ObjectsAreApart DEF Agreed
    <3> QED
      BY <1>1, <1>2, <1>4, <2>1, <2>2, <3>1
  <2> QED
    BY <1>3, <2>1, <2>3, NamesAreOfObjects
<1> QED
  BY <1>2, <1>3, <1>4

\* The CSV's labels, or the exheader's, put the segments in the order of the
\* addresses, and no byte of the file in .bss.
Labelled == IF exheader THEN PaddingIsData ELSE LabelsInOrder

\* So the symbols' segments are.
LEMMA SegmentsInOrder ==
  ASSUME RoundTripAssumption, Agreed, Labelled, NEW a \in Stops, NEW b \in Stops, a <= b, b < Size
  PROVE  /\ Rank(SegmentAt(a)) <= Rank(SegmentAt(b)) /\ SegmentAt(b) # ".bss"
         /\ Rank(SegmentAt(a)) \in 1..4 /\ Rank(SegmentAt(b)) \in 1..4
<1>1. /\ csv \in Seq(Row) /\ rows \in Seq(Row) /\ Size \in Nat
      /\ TextEnd \in Nat /\ RodataEnd \in Nat /\ DataEnd \in Nat
      /\ TextEnd <= RodataEnd /\ RodataEnd <= DataEnd
      /\ \A i, j \in DOMAIN csv : i < j => csv[i].addr <= csv[j].addr
  BY DEF Agreed, RoundTripAssumption
<1>2. a \in Int /\ b \in Int /\ (a = Start \/ a \in Addrs) /\ (b = Start \/ b \in Addrs) /\ a >= -1
  BY <1>1, StopsInOrder
<1>3. \A s \in Segment : Rank(s) \in 1..4
  BY DEF Segment, Rank
<1>4. \A c \in Addrs : \E i \in DOMAIN csv : /\ csv[i] \in Row /\ csv[i].addr = c
                                             /\ SegmentAt(c) = Placed(csv[i]).segment
  <2> SUFFICES ASSUME NEW c \in Addrs
               PROVE  \E i \in DOMAIN csv : /\ csv[i] \in Row /\ csv[i].addr = c
                                            /\ SegmentAt(c) = Placed(csv[i]).segment
    OBVIOUS
  <2>1. PICK i \in DOMAIN rows : RowAt(c) = rows[i] /\ rows[i].addr = c
    BY <1>1, RowAtIsARow
  <2>2. i \in DOMAIN csv /\ rows[i] = Placed(csv[i]) /\ csv[i] \in Row
    BY <1>1, <2>1 DEF Agreed
  <2>3. Placed(csv[i]).addr = csv[i].addr
    BY <2>2 DEF Placed, Row
  <2>4. c # Start
    BY <1>1, AddrsAreNumbers DEF Start
  <2> QED
    BY <2>1, <2>2, <2>3, <2>4 DEF SegmentAt
<1>5. SegmentAt(Start) = ".text" /\ Rank(".text") = 1
  BY DEF SegmentAt, Rank
<1>6. \A row \in Row : row.segment \in Segment /\ row.addr \in Nat
  BY DEF Row
<1>7. CASE exheader
  <2>1. \A c \in Addrs : c < Size =>
          SegmentAt(c) = IF c < TextEnd THEN ".text" ELSE IF c < RodataEnd THEN ".rodata" ELSE ".data"
    <3> SUFFICES ASSUME NEW c \in Addrs, c < Size
                 PROVE  SegmentAt(c) = IF c < TextEnd THEN ".text"
                                       ELSE IF c < RodataEnd THEN ".rodata" ELSE ".data"
      OBVIOUS
    <3>1. PICK i \in DOMAIN csv : /\ csv[i] \in Row /\ csv[i].addr = c
                                  /\ SegmentAt(c) = Placed(csv[i]).segment
      BY <1>4
    <3>2. c \in Nat
      BY <1>6, <3>1
    <3>3. CASE c < DataEnd
      <4>1. SegmentOf(c) = IF c < TextEnd THEN ".text"
                           ELSE IF c < RodataEnd THEN ".rodata" ELSE ".data"
        BY <3>3 DEF SegmentOf
      <4>2. SegmentOf(c) # ".bss"
        BY <4>1
      <4>3. Placed(csv[i]) = [csv[i] EXCEPT !.segment = SegmentOf(c)]
        BY <1>7, <3>1, <4>2 DEF Placed
      <4>4. Placed(csv[i]).segment = SegmentOf(c)
        BY <3>1, <4>3 DEF Row
      <4> QED
        BY <3>1, <4>1, <4>4
    <3>4. CASE ~(c < DataEnd)
      <4>1. ~(c < TextEnd) /\ ~(c < RodataEnd) /\ DataEnd <= c
        BY <1>1, <3>2, <3>4
      <4>2. SegmentOf(c) = ".bss"
        BY <3>4, <4>1 DEF SegmentOf
      <4>3. Placed(csv[i]) = csv[i]
        BY <3>1, <4>2 DEF Placed
      <4>4. csv[i].segment = ".data"
        BY <1>7, <3>1, <4>1 DEF Labelled, PaddingIsData
      <4> QED
        BY <3>1, <4>1, <4>3, <4>4
    <3> QED
      BY <3>3, <3>4
  <2>2. a < Size
    BY <1>1, <1>2
  <2>3. Rank(".rodata") = 2 /\ Rank(".data") = 3
    BY DEF Rank
  <2> QED
    BY <1>1, <1>2, <1>5, <2>1, <2>2, <2>3 DEF Start
<1>8. CASE ~exheader
  <2>1. \A c \in Addrs : \E i \in DOMAIN csv : /\ csv[i] \in Row /\ csv[i].addr = c
                                               /\ SegmentAt(c) = csv[i].segment
    BY <1>4, <1>8 DEF Placed
  <2>2. \A i, j \in DOMAIN csv : i <= j => /\ Rank(csv[i].segment) <= Rank(csv[j].segment)
                                           /\ csv[i].segment = ".bss" => csv[i].addr >= Size
    BY <1>8 DEF Labelled, LabelsInOrder
  <2>3. CASE a = Start
    <3>1. SegmentAt(b) # ".bss" /\ Rank(SegmentAt(b)) \in 1..4
      <4>1. CASE b = Start
        BY <1>5, <4>1
      <4>2. CASE b \in Addrs
        <5>1. PICK j \in DOMAIN csv : csv[j] \in Row /\ csv[j].addr = b /\ SegmentAt(b) = csv[j].segment
          BY <2>1, <4>2
        <5>2. j <= j
          BY <1>1
        <5>3. csv[j].segment # ".bss"
          BY <1>1, <1>2, <2>2, <5>1, <5>2
        <5> QED
          BY <1>3, <1>6, <5>1, <5>3
      <4> QED
        BY <1>2, <4>1, <4>2
    <3> QED
      BY <1>5, <2>3, <3>1
  <2>4. CASE a \in Addrs /\ a = b
    <3>1. PICK i \in DOMAIN csv : csv[i] \in Row /\ csv[i].addr = a /\ SegmentAt(a) = csv[i].segment
      BY <2>1, <2>4
    <3>2. i <= i
      BY <1>1
    <3>3. csv[i].segment # ".bss"
      BY <1>1, <1>2, <2>2, <2>4, <3>1, <3>2
    <3>4. Rank(SegmentAt(a)) \in 1..4
      BY <1>3, <1>6, <3>1
    <3> QED
      BY <2>4, <3>1, <3>3, <3>4
  <2>5. CASE a \in Addrs /\ a # b
    <3>1. a < b /\ b \in Addrs
      BY <1>1, <1>2, <2>5, AddrsAreNumbers DEF Start
    <3>2. PICK i \in DOMAIN csv : csv[i] \in Row /\ csv[i].addr = a /\ SegmentAt(a) = csv[i].segment
      BY <2>1, <2>5
    <3>3. PICK j \in DOMAIN csv : csv[j] \in Row /\ csv[j].addr = b /\ SegmentAt(b) = csv[j].segment
      BY <2>1, <3>1
    <3>4. i \in Nat /\ j \in Nat
      BY <1>1
    <3>5. i <= j
      BY <1>1, <1>2, <3>1, <3>2, <3>3, <3>4
    <3>6. csv[j].segment # ".bss"
      <4>1. j <= j
        BY <3>4
      <4> QED
        BY <1>1, <1>2, <2>2, <3>3, <4>1
    <3> QED
      BY <1>3, <1>6, <2>2, <3>2, <3>3, <3>5, <3>6
  <2> QED
    BY <1>2, <2>3, <2>4, <2>5
<1> QED
  BY <1>7, <1>8

\* Of two objects with bytes the one that is named first is first in the file, and
\* its segment is not after the other's.
LEMMA NamedInOrder ==
  ASSUME RoundTripAssumption, Agreed, Labelled, NEW p \in Objects, NEW q \in Objects,
         p.size > 0, q.size > 0, p = q \/ p.addr + p.size <= q.addr
  PROVE  /\ Rank(p.segment) <= Rank(q.segment) /\ q.segment # ".bss"
         /\ Rank(p.segment) \in 1..4 /\ Rank(q.segment) \in 1..4
<1>1. rows \in Seq(Row) /\ Size \in Nat
  BY DEF Agreed, RoundTripAssumption
<1>2. /\ p.addr \in Nat /\ p.size \in Nat /\ p.addr + p.size <= Size
      /\ q.addr \in Nat /\ q.size \in Nat /\ q.addr + q.size <= Size
  BY <1>1, ObjectSpans
<1>3. PICK a \in Stops : p.segment = SegmentAt(a) /\ a <= p.addr /\ p.addr + p.size <= NextAddr(a)
  BY <1>1, ObjectSpans
<1>4. PICK b \in Stops : q.segment = SegmentAt(b) /\ b <= q.addr /\ q.addr + q.size <= NextAddr(b)
  BY <1>1, ObjectSpans
<1>5. a \in Int /\ b \in Int /\ NextAddr(a) \in Nat /\ NextAddr(b) \in Nat
      /\ (b < a => NextAddr(b) <= a)
  BY <1>1, StopsInOrder
<1>6. a <= b
  <2>1. CASE p = q
    <3>1. b < a => q.addr + q.size <= q.addr
      BY <1>2, <1>3, <1>4, <1>5, <2>1
    <3> QED
      BY <1>2, <1>5, <3>1
  <2>2. CASE p.addr + p.size <= q.addr
    BY <1>2, <1>3, <1>4, <1>5, <2>2
  <2> QED
    BY <2>1, <2>2
<1>7. b < Size
  BY <1>1, <1>2, <1>4, <1>5
<1> QED
  BY <1>3, <1>4, <1>6, <1>7, SegmentsInOrder

\* The objects with bytes are those that are gathered, and in the order of the names.
LEMMA GatheredInOrder ==
  ASSUME RoundTripAssumption, Agreed, Labelled
  PROVE  /\ \A i \in Gathered : /\ ObjectOf(names[i]) \in Objects /\ ObjectOf(names[i]).size > 0
                                /\ i \in DOMAIN names
         /\ \A p \in Objects : p.size > 0 => \E i \in Gathered : ObjectOf(names[i]) = p
         /\ \A i, j \in Gathered : i < j => ObjectOf(names[i]).addr + ObjectOf(names[i]).size
                                              <= ObjectOf(names[j]).addr
         /\ \A i, j \in Gathered : LinkedBefore(i, j) <=> i < j
<1>1. \A i \in DOMAIN names : /\ ObjectOf(names[i]) \in Objects /\ ObjectOf(names[i]).name = names[i]
                              /\ i \in Nat
  <2>1. \A i \in DOMAIN names : ObjectOf(names[i]) \in Objects /\ ObjectOf(names[i]).name = names[i]
    BY NamesAreOfObjects
  <2>2. \A i \in DOMAIN names : i \in Nat
    BY DEF Agreed
  <2> QED
    BY <2>1, <2>2
<1>2. \A i \in Gathered : /\ ObjectOf(names[i]) \in Objects /\ ObjectOf(names[i]).size > 0
                          /\ i \in DOMAIN names
  BY <1>1 DEF Gathered
<1>3. ASSUME NEW p \in Objects, p.size > 0 PROVE \E i \in Gathered : ObjectOf(names[i]) = p
  <2>1. PICK i \in DOMAIN names : names[i] = p.name /\ ObjectOf(names[i]) = p
    BY NamesAreOfObjects
  <2>2. p.segment # ".bss"
    BY <1>3, NamedInOrder
  <2> QED
    BY <1>3, <2>1, <2>2 DEF Gathered
<1>4. \A i, j \in Gathered : i < j => ObjectOf(names[i]).addr + ObjectOf(names[i]).size
                                        <= ObjectOf(names[j]).addr
  BY <1>1, <1>2, NamesAreOfObjects
<1>5. ASSUME NEW i \in Gathered, NEW j \in Gathered PROVE LinkedBefore(i, j) <=> i < j
  <2> DEFINE r == Rank(ObjectOf(names[i]).segment)
             s == Rank(ObjectOf(names[j]).segment)
  <2>1. i < j => r <= s
    BY <1>2, <1>4, NamedInOrder
  <2>2. j < i => s <= r
    BY <1>2, <1>4, NamedInOrder
  <2>3. r \in 1..4 /\ s \in 1..4
    BY <1>2, NamedInOrder
  <2>4. LinkedBefore(i, j) <=> (r < s \/ (r = s /\ i < j))
    BY DEF LinkedBefore
  <2>5. i \in Nat /\ j \in Nat
    BY <1>1, <1>2
  <2> HIDE DEF r, s
  <2>6. i = j => r = s
    BY DEF r, s
  <2> QED
    BY <2>1, <2>2, <2>3, <2>4, <2>5, <2>6
<1> QED
  BY <1>2, <1>3, <1>4, <1>5

\* The last of some gathered objects ends where they all have.
LEMMA EndOfIs ==
  ASSUME RoundTripAssumption, Agreed, Labelled, NEW is \in SUBSET Gathered, NEW e \in Nat,
         \A i \in is : ObjectOf(names[i]).addr + ObjectOf(names[i]).size <= e,
         e = 0 \/ \E i \in is : ObjectOf(names[i]).addr + ObjectOf(names[i]).size = e
  PROVE  EndOf(is) = e
<1>1. \A i \in is : /\ i \in Nat /\ i \in DOMAIN names /\ ObjectOf(names[i]).addr \in Nat
                    /\ ObjectOf(names[i]).size \in Nat /\ ObjectOf(names[i]).size > 0
  <2>1. \A i \in is : ObjectOf(names[i]) \in Objects /\ ObjectOf(names[i]).size > 0 /\ i \in DOMAIN names
    BY GatheredInOrder
  <2>2. rows \in Seq(Row) /\ \A i \in DOMAIN names : i \in Nat
    BY DEF Agreed
  <2> QED
    BY <2>1, <2>2, ObjectSpans
<1>2. CASE is = {}
  BY <1>2 DEF EndOf
<1>3. CASE is # {}
  <2> DEFINE k == CHOOSE i \in is : \A j \in is : i = j \/ LinkedBefore(j, i)
  <2>1. \A i, j \in is : LinkedBefore(j, i) <=> j < i
    BY GatheredInOrder
  <2>2. PICK i \in is : \A j \in is : j <= i
    <3>1. is \in SUBSET (0..Len(names)) /\ Len(names) \in Nat
      <4>1. names \in Seq(ObjectName)
        BY DEF Agreed
      <4> QED
        BY <1>1, <4>1
    <3> QED
      BY <1>3, <3>1, LastOfNumbers
  <2>3. \A j \in is : i = j \/ LinkedBefore(j, i)
    BY <1>1, <2>1, <2>2
  <2>4. k \in is /\ \A j \in is : k = j \/ LinkedBefore(j, k)
    BY <2>2, <2>3
  <2>5. EndOf(is) = ObjectOf(names[k]).addr + ObjectOf(names[k]).size
    BY <1>3 DEF EndOf
  <2> HIDE DEF k
  <2>6. PICK l \in is : ObjectOf(names[l]).addr + ObjectOf(names[l]).size = e
    <3>1. e # 0
      BY <1>1, <1>3
    <3> QED
      BY <3>1
  <2>7. l = k \/ l < k
    BY <2>1, <2>4
  <2>8. l < k => ObjectOf(names[l]).addr + ObjectOf(names[l]).size <= ObjectOf(names[k]).addr
    BY <2>4, GatheredInOrder
  <2>9. ~(l < k)
    BY <1>1, <2>4, <2>6, <2>8
  <2> QED
    BY <2>5, <2>6, <2>7, <2>9
<1> QED
  BY <1>2, <1>3

\* The bytes before an address are those of objects that end there or before.
LEMMA LinkedIsTheBinary ==
  ASSUME RoundTripAssumption, Agreed, Labelled
  PROVE  Linkable /\ IsTheBinary
<1>1. Linkable
  <2>1. \A i \in DOMAIN names : \E j \in DOMAIN pieces : pieces[j].name = names[i]
    BY PiecesAreNamed
  <2>2. \A i, j \in DOMAIN names : i # j => names[i] # names[j]
    BY NamesAreOfObjects
  <2> QED
    BY <2>1, <2>2 DEF Linkable
<1>2. rows \in Seq(Row) /\ Size \in Nat /\ names \in Seq(ObjectName)
  BY DEF Agreed, RoundTripAssumption
<1>3. \A i \in Gathered : /\ ObjectOf(names[i]) \in Objects /\ i \in Nat
                          /\ ObjectOf(names[i]).addr \in Nat /\ ObjectOf(names[i]).size \in Nat
                          /\ ObjectOf(names[i]).size > 0
                          /\ ObjectOf(names[i]).addr + ObjectOf(names[i]).size <= Size
  BY <1>2, GatheredInOrder, ObjectSpans
<1>4. ASSUME NEW x \in 0..(Size - 1)
      PROVE  \E i \in Gathered : /\ ObjectOf(names[i]).addr <= x
                                 /\ x < ObjectOf(names[i]).addr + ObjectOf(names[i]).size
  <2>1. PICK p \in Objects : p.addr <= x /\ x < p.addr + p.size
    BY <1>2, ObjectsCover
  <2>2. p.size > 0
    BY <1>2, <2>1, ObjectSpans
  <2> QED
    BY <2>1, <2>2, GatheredInOrder
<1>5. ASSUME NEW j \in Gathered
      PROVE  ObjectOf(names[j]).addr = EndOf({i \in Gathered : LinkedBefore(i, j)})
  <2> DEFINE e  == ObjectOf(names[j]).addr
             is == {i \in Gathered : LinkedBefore(i, j)}
  <2>1. \A i \in Gathered : i \in is <=> i < j
    BY GatheredInOrder
  <2>2. \A i \in is : ObjectOf(names[i]).addr + ObjectOf(names[i]).size <= e
    BY <2>1, GatheredInOrder
  <2>3. ASSUME e # 0 PROVE \E i \in is : ObjectOf(names[i]).addr + ObjectOf(names[i]).size = e
    <3>1. e - 1 \in 0..(Size - 1)
      BY <1>2, <1>3, <2>3
    <3>2. PICK i \in Gathered : /\ ObjectOf(names[i]).addr <= e - 1
                                /\ e - 1 < ObjectOf(names[i]).addr + ObjectOf(names[i]).size
      BY <1>4, <3>1
    <3>3. e \in Nat
      BY <1>3
    <3>4. i # j
      BY <3>2, <3>3
    <3>5. ~(j < i)
      <4>1. j < i => e + ObjectOf(names[j]).size <= ObjectOf(names[i]).addr
        BY GatheredInOrder
      <4> QED
        BY <1>3, <3>2, <3>3, <4>1
    <3>6. i < j
      BY <1>3, <3>4, <3>5
    <3>7. ObjectOf(names[i]).addr + ObjectOf(names[i]).size <= e
      BY <2>1, <2>2, <3>6
    <3> QED
      BY <1>3, <2>1, <3>2, <3>3, <3>6, <3>7
  <2>4. e \in Nat /\ is \in SUBSET Gathered
    BY <1>3
  <2> HIDE DEF e, is
  <2>5. EndOf(is) = e
    BY <2>2, <2>3, <2>4, EndOfIs
  <2> QED
    BY <2>5 DEF e, is
<1>6. EndOf(Gathered) = Size
  <2>1. \A i \in Gathered : ObjectOf(names[i]).addr + ObjectOf(names[i]).size <= Size
    BY <1>3
  <2>2. ASSUME Size # 0
        PROVE  \E i \in Gathered : ObjectOf(names[i]).addr + ObjectOf(names[i]).size = Size
    <3>1. Size - 1 \in 0..(Size - 1)
      BY <1>2, <2>2
    <3>2. PICK i \in Gathered : Size - 1 < ObjectOf(names[i]).addr + ObjectOf(names[i]).size
      BY <1>4, <3>1
    <3> QED
      BY <1>2, <1>3, <3>2
  <2> QED
    BY <1>2, <2>1, <2>2, EndOfIs
<1> QED
  BY <1>1, <1>5, <1>6 DEF IsTheBinary

-----------------------------------------------------------------------------
(* What the round trip promises.                                           *)

\* The variables are of their types, whatever the CSV.
THEOREM TypesHold == Spec => []TypeOK
<1>1. IInv /\ [Next]_vars => IInv'
  BY RoundTripAssumption, StepIInv
<1>2. IInv => TypeOK
  BY DEF IInv
<1> QED
  BY RoundTripAssumption, InitIInv, <1>1, <1>2, PTL DEF Spec

\* No symbol CSV makes split_binary raise (split.py:57, 68).
THEOREM SplitNeverRaises == Spec => []SplitAccepts
<1>1. IInv /\ [Next]_vars => IInv'
  BY RoundTripAssumption, StepIInv
<1>2. IInv => SplitAccepts
  BY DEF IInv, SplitAccepts
<1> QED
  BY RoundTripAssumption, InitIInv, <1>1, <1>2, PTL DEF Spec

\* Neither loop makes more than an object for each symbol and each stretch between
\* them, whatever the CSV: both end.
THEOREM BothLoopsEnd == Spec => []LoopsEnd
<1>1. IInv /\ [Next]_vars => IInv'
  BY RoundTripAssumption, StepIInv
<1>2. ASSUME IInv PROVE LoopsEnd
  <2>1. csv \in Seq(Row) /\ Len(csv) \in Nat /\ idx \in Nat /\ Len(pieces) \in Nat /\ Len(names) \in Nat
    BY <1>2 DEF IInv, TypeOK
  <2>2. CASE pc \in {"load", "duplicate_names"}
    <3>1. Len(pieces) = 0 /\ Len(names) = 0
      BY <1>2, <2>2 DEF IInv, RowsAreTheCsv, Cut
    <3> QED
      BY <2>1, <3>1 DEF LoopsEnd
  <2>3. pc \notin {"load", "duplicate_names"} => Len(rows) = Len(csv)
    BY <1>2, RoundTripAssumption, LoadedRows DEF IInv, TypeOK, RowsAreTheCsv
  <2>4. CASE pc = "split"
    <3>1. Len(names) = 0
      BY <1>2, <2>4 DEF IInv, RowsAreTheCsv, Cut
    <3>2. idx <= Len(csv) + 1
      BY <1>2, <2>3, <2>4 DEF IInv, SplitIsOnTime
    <3>3. Len(pieces) <= 2 * (idx - 1) + 1
      BY <1>2, <2>1, <2>4 DEF IInv, LoopsAdvance
    <3> QED
      BY <2>1, <3>1, <3>2, <3>3 DEF LoopsEnd
  <2>5. CASE pc = "name"
    <3>1. Len(pieces) <= 2 * Len(csv) + 1
      BY <1>2, <2>5 DEF IInv, LoopsAdvance, Cut
    <3>2. Len(Distinct) \in Nat /\ Len(Distinct) <= Len(csv)
      <4>1. rows \in Seq(Row) /\ 1 \in Nat
        BY <1>2 DEF IInv, TypeOK
      <4>2. Len(Distinct) \in Nat
        BY <4>1, AddrsAreNumbers DEF Distinct
      <4>3. 1 \in 1..(Len(Distinct) + 1)
        BY <4>2
      <4> QED
        BY <2>3, <2>5, <4>1, <4>3, RoundTripAssumption, NamedIs
    <3>3. idx <= Len(Distinct) + 1 /\ Len(names) <= 2 * (idx - 1) + 1
      BY <1>2, <2>1, <2>5 DEF IInv, NamesAreOnTime, LoopsAdvance
    <3> QED
      BY <2>1, <3>1, <3>2, <3>3 DEF LoopsEnd
  <2>6. CASE Listed
    BY <1>2, <2>6 DEF IInv, LoopsAdvance, LoopsEnd, Cut, Listed
  <2> QED
    BY <1>2, <2>2, <2>4, <2>5, <2>6 DEF IInv, TypeOK, Ended, Listed
<1> QED
  BY RoundTripAssumption, InitIInv, <1>1, <1>2, PTL DEF Spec

\* build.ninja links the objects the split writes, in the order it writes them.
THEOREM TheGraphIsOfTheSplit == Spec => []GraphLinksTheSplit
<1>1. IInv /\ [Next]_vars => IInv'
  BY RoundTripAssumption, StepIInv
<1>2. ASSUME IInv PROVE GraphLinksTheSplit
  <2> SUFFICES ASSUME ~NameClash, Listed, pc # "names_overrun" PROVE GraphLinksTheSplit
    BY <1>2 DEF GraphLinksTheSplit, Listed, IInv
  <2>1. Agreed
    BY <1>2, RoundTripAssumption, AgreedWhenListed
  <2> QED
    BY <2>1, RoundTripAssumption, PiecesAreNamed DEF GraphLinksTheSplit
<1> QED
  BY RoundTripAssumption, InitIInv, <1>1, <1>2, PTL DEF Spec

\* Each byte of the binary is in exactly one of the linked objects.
THEOREM BytesAreLinkedOnce == Spec => []EveryByteIsLinkedOnce
<1>1. IInv /\ [Next]_vars => IInv'
  BY RoundTripAssumption, StepIInv
<1>2. ASSUME IInv PROVE EveryByteIsLinkedOnce
  <2> SUFFICES ASSUME ~NameClash, Listed PROVE EveryByteIsLinkedOnce
    BY DEF EveryByteIsLinkedOnce, Listed
  <2>1. Agreed
    BY <1>2, RoundTripAssumption, AgreedWhenListed
  <2> QED
    BY <2>1, RoundTripAssumption, BytesAreNamed DEF EveryByteIsLinkedOnce
<1> QED
  BY RoundTripAssumption, InitIInv, <1>1, <1>2, PTL DEF Spec

\* The relinked binary is the original: with an exheader whatever the CSV says of
\* the symbols before the padding, without one when its labels are in order.
THEOREM TheBinaryComesBack == Spec => []RoundTripIsExact
<1> DEFINE Inv == IInv /\ RoundTripIsExact
<1>1. Init => Inv
  BY RoundTripAssumption, InitIInv DEF Init, RoundTripIsExact
<1>2. ASSUME Inv, [Next]_vars PROVE Inv'
  <2>1. IInv'
    BY <1>2, RoundTripAssumption, StepIInv
  <2>2. CASE Verify
    <3>1. pc = "link" /\ UNCHANGED <<csv, exheader>> /\ Listed
      BY <2>2 DEF Verify, Listed
    <3>2. ASSUME ~NameClash, Labelled PROVE pc' = "verified"
      <4>1. Agreed
        BY <1>2, <3>1, <3>2, RoundTripAssumption, AgreedWhenListed
      <4>2. Linkable /\ IsTheBinary
        BY <3>2, <4>1, RoundTripAssumption, LinkedIsTheBinary
      <4> QED
        BY <2>2, <4>2 DEF Verify
    <3> QED
      BY <2>1, <3>1, <3>2
         DEF RoundTripIsExact, Labelled, NameClash, PaddingIsData, LabelsInOrder
  <2>3. CASE UNCHANGED vars
    BY <1>2, <2>1, <2>3 DEF vars, RoundTripIsExact, NameClash, PaddingIsData, LabelsInOrder
  <2>4. CASE Load \/ Split \/ SplitEnds \/ Name \/ NamesEnd
    <3>1. pc' \notin {"link_failed", "mismatch"}
      BY <2>4 DEF Load, Split, SplitEnds, Name, NamesEnd
    <3> QED
      BY <2>1, <3>1 DEF RoundTripIsExact
  <2> QED
    BY <1>2, <2>2, <2>3, <2>4 DEF Next
<1>3. Inv => RoundTripIsExact
  OBVIOUS
<1> QED
  BY <1>1, <1>2, <1>3, PTL DEF Spec
=============================================================================
