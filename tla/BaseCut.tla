------------------------------ MODULE BaseCut -------------------------------
(***************************************************************************)
(* How the code section of a linked objdiff base is cut: 3dsd/datasplit.py *)
(* _plan_functions and _choose, as operators.                              *)
(*                                                                         *)
(* A base is what datasplit reads: the functions of the section with their *)
(* extents, where data objects with a size start in it, armcc's mapping    *)
(* symbols, and the data objects by name.  Bytes are offsets in the        *)
(* section.                                                                *)
(***************************************************************************)
EXTENDS Integers, SequencesExt, Numbering

CONSTANT None

Mode == {"$a", "$t", "$d"}

\* A section's name: what is before the colon, and what is after it or None.
Plain(segment) == <<segment, None>>
CodeOf(f)      == <<".text", f>>
PoolOf(f)      == <<".pool", f>>

\* base.length: bytes; base.functions: {[name, start, end]}; base.sized: {start};
\* base.marks: {[addr, mode]}; base.objects: <<[name, segment], ...>>.

CodeMarks(base) == {m.addr : m \in {k \in base.marks : k.mode # "$d"}}
DataMarks(base) == {m.addr : m \in {k \in base.marks : k.mode = "$d"}}
Bounds(base)    ==
  CodeMarks(base) \cup {f.start : f \in base.functions} \cup base.sized \cup {base.length}

UniqueIn(base, f) == \A g \in base.functions : g.name = f.name => g = f

-----------------------------------------------------------------------------
\* (variant) A pool runs to the function's end.
PoolEnd_Function(base, f, d) == f.end

\* A pool inside a function ends where code resumes, or with the function.
PoolEnd(base, f, d) == Min({v \in CodeMarks(base) : v > d} \cup {f.end})

\* _inner_pools: each $d inside that the pool before it does not run across.
InnerPools(base, f) ==
  LET inside == {d \in DataMarks(base) : f.start < d /\ d < f.end}
      first  == {d \in inside : \A e \in inside : e < d => PoolEnd(base, f, e) <= d}
  IN  {<<d, PoolEnd(base, f, d)>> : d \in first}

\* The pool after a function: from the first $d past its end, where nothing else
\* starts before that, to whatever does.
TrailingPool(base, f) ==
  LET limit == Min({v \in Bounds(base) : v >= f.end})
      after == {d \in DataMarks(base) : f.end <= d /\ d < limit}
  IN  {<<d, Min({v \in Bounds(base) : v > d})>> : d \in {e \in after : e = Min(after)}}

\* Ranges, or markers, in the order of where they start; no two start at one place.
Ascending(ranges) ==
  LET starts == {r[1] : r \in ranges}
  IN  [k \in 1..Cardinality(starts) |-> CHOOSE r \in ranges : r[1] = Nth(starts, k)]
BytesOf(ranges)   ==
  FlattenSeq([i \in DOMAIN ranges |->
                [k \in 1..(ranges[i][2] - ranges[i][1]) |-> ranges[i][1] + k - 1]])

\* A function that has pools inside, but no $a or $t at its start to say how the
\* rest of its code is read, is left whole, with the pool after it.
LeftWhole(base, f) == InnerPools(base, f) # {} /\ f.start \notin CodeMarks(base)

\* The functions that are given a section of their own, less their pools.
Cut(base) ==
  {f \in base.functions : /\ UniqueIn(base, f)
                          /\ InnerPools(base, f) # {} /\ f.start \in CodeMarks(base)}

\* The functions whose pools are.
Pooled(base) ==
  {f \in base.functions : /\ UniqueIn(base, f) /\ ~LeftWhole(base, f)
                          /\ InnerPools(base, f) \cup TrailingPool(base, f) # {}}

\* The bytes of f's code section, in order: the function less its inner pools.
CodeBytes(base, f) ==
  LET pooled(b) == \E r \in InnerPools(base, f) : r[1] <= b /\ b < r[2]
      kept      == {b \in f.start..(f.end - 1) : ~pooled(b)}
  IN  [k \in 1..Cardinality(kept) |-> Nth(kept, k)]

\* The bytes of its pool section: the pools inside, then the one after.
PoolBytes(base, f) ==
  BytesOf(Ascending(InnerPools(base, f)) \o Ascending(TrailingPool(base, f)))

\* The data objects that are given a section of their own: those of a name the
\* base has once.
Alone(base) ==
  {base.objects[i].name : i \in {i \in DOMAIN base.objects :
     \A j \in DOMAIN base.objects : base.objects[j].name = base.objects[i].name => j = i}}
=============================================================================
