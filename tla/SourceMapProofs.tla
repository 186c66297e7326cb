--------------------------- MODULE SourceMapProofs --------------------------
(***************************************************************************)
(* What the source map's definitions give, for any sources and any CSV: a  *)
(* symbol's owner is one of the sources, a symbol a source defines has     *)
(* one, and the base links the owners and no one else.                     *)
(***************************************************************************)
EXTENDS SourceMap, NumberingProofs

\* The first of a set of sources is in it and before all others.
LEMMA FirstIsFirst ==
  ASSUME NEW S \in SUBSET Nat, S # {}
  PROVE  FirstInPathOrder(S) \in S /\ \A t \in S : FirstInPathOrder(S) <= t
BY LeastOfNumbers DEF FirstInPathOrder

\* What is in a set and before all others is its first.
LEMMA TheFirst ==
  ASSUME NEW S \in SUBSET Nat, NEW s \in S, \A t \in S : s <= t
  PROVE  FirstInPathOrder(S) = s
<1> DEFINE f == FirstInPathOrder(S)
<1>1. f \in S /\ f <= s
  BY FirstIsFirst
<1>2. f \in Nat /\ s \in Nat /\ s <= f
  BY <1>1
<1> HIDE DEF f
<1>3. f = s
  BY <1>1, <1>2
<1> QED
  BY <1>3 DEF f

-----------------------------------------------------------------------------
\* An owner is one of the sources, and named after the symbol or defines it.
LEMMA OwnerIsASource ==
  ASSUME SourceMapAssumption, NEW sym, NEW srcs \in SUBSET Source, NEW defs
  PROVE  LET o == OwnerOf(sym, srcs, defs)
         IN  o = None \/ (o \in srcs /\ (Stem[o] = sym \/ sym \in defs[o]))
<1> DEFINE own      == srcs \ Vendored
           vendored == srcs \cap Vendored
           NamedAfter(group) == {s \in group : Stem[s] = sym}
           Defining(group)   == {s \in group : sym \in defs[s]}
           o == OwnerOf(sym, srcs, defs)
<1>1. srcs \in SUBSET Nat
  BY DEF SourceMapAssumption
<1>2. \A S : S \subseteq srcs /\ S # {} => FirstInPathOrder(S) \in S
  BY <1>1, FirstIsFirst
<1>3. CASE NamedAfter(own) # {}
  <2>1. o = FirstInPathOrder(NamedAfter(own))
    BY <1>3 DEF OwnerOf
  <2> QED
    BY <1>2, <1>3, <2>1
<1>4. CASE NamedAfter(own) = {} /\ Defining(own) # {}
  <2>1. o = FirstInPathOrder(Defining(own))
    BY <1>4 DEF OwnerOf
  <2> QED
    BY <1>2, <1>4, <2>1
<1>5. CASE NamedAfter(own) \cup Defining(own) = {} /\ NamedAfter(vendored) # {}
  <2>1. o = FirstInPathOrder(NamedAfter(vendored))
    BY <1>5 DEF OwnerOf
  <2> QED
    BY <1>2, <1>5, <2>1
<1>6. CASE NamedAfter(srcs) \cup Defining(own) = {} /\ Defining(vendored) # {}
  <2>1. o = FirstInPathOrder(Defining(vendored))
    BY <1>6 DEF OwnerOf
  <2> QED
    BY <1>2, <1>6, <2>1
<1>7. CASE /\ ~(NamedAfter(own) # {})
           /\ ~(NamedAfter(own) = {} /\ Defining(own) # {})
           /\ ~(NamedAfter(own) \cup Defining(own) = {} /\ NamedAfter(vendored) # {})
           /\ ~(NamedAfter(srcs) \cup Defining(own) = {} /\ Defining(vendored) # {})
  BY <1>7 DEF OwnerOf
<1> QED
  BY <1>3, <1>4, <1>5, <1>6, <1>7

\* A symbol that a source defines has an owner.
LEMMA DefinedIsOwned ==
  ASSUME SourceMapAssumption, NEW sym, NEW srcs \in SUBSET Source, NEW defs,
         NEW s \in srcs, sym \in defs[s]
  PROVE  OwnerOf(sym, srcs, defs) # None
<1> DEFINE own      == srcs \ Vendored
           vendored == srcs \cap Vendored
           NamedAfter(group) == {t \in group : Stem[t] = sym}
           Defining(group)   == {t \in group : sym \in defs[t]}
           o == OwnerOf(sym, srcs, defs)
<1>1. srcs \in SUBSET Nat /\ None \notin srcs
  BY DEF SourceMapAssumption
<1>2. \A S : S \subseteq srcs /\ S # {} => FirstInPathOrder(S) # None
  BY <1>1, FirstIsFirst
<1>3. CASE NamedAfter(own) # {}
  BY <1>2, <1>3 DEF OwnerOf
<1>4. CASE NamedAfter(own) = {} /\ Defining(own) # {}
  BY <1>2, <1>4 DEF OwnerOf
<1>5. CASE NamedAfter(own) \cup Defining(own) = {} /\ NamedAfter(vendored) # {}
  BY <1>2, <1>5 DEF OwnerOf
<1>6. CASE NamedAfter(own) \cup Defining(own) = {} /\ NamedAfter(vendored) = {}
  <2>1. NamedAfter(srcs) \cup Defining(own) = {} /\ s \in Defining(vendored)
    BY <1>6
  <2> QED
    BY <1>2, <1>6, <2>1 DEF OwnerOf
<1> QED
  BY <1>3, <1>4, <1>5, <1>6

-----------------------------------------------------------------------------
\* The base links the owners of the CSV's symbols.
LEMMA LinkOrderIsOwners ==
  ASSUME SourceMapAssumption, NEW csv \in Seq(Symbol), NEW srcs \in SUBSET Source, NEW defs
  PROVE  LET link  == LinkOrder(csv, srcs, defs)
             Owner(i) == OwnerOf(csv[i], srcs, defs)
         IN  /\ link \in Seq(srcs)
             /\ \A k \in DOMAIN link : \E i \in DOMAIN csv : link[k] = Owner(i)
             /\ \A i \in DOMAIN csv : Owner(i) # None => \E k \in DOMAIN link : link[k] = Owner(i)
<1> DEFINE owner  == [i \in DOMAIN csv |-> OwnerOf(csv[i], srcs, defs)]
           First(i) == \A j \in 1..(i - 1) : owner[j] # owner[i]
           firsts == {i \in DOMAIN csv : owner[i] # None /\ First(i)}
           link   == [k \in 1..Cardinality(firsts) |-> owner[Nth(firsts, k)]]
<1>1. LinkOrder(csv, srcs, defs) = link
  BY DEF LinkOrder
<1>2. Len(csv) \in Nat /\ DOMAIN csv = 1..Len(csv) /\ firsts \in SUBSET (1..Len(csv))
  OBVIOUS
<1> HIDE DEF firsts
<1>3. /\ Cardinality(firsts) \in Nat
      /\ \A k \in 1..Cardinality(firsts) : Nth(firsts, k) \in firsts
      /\ \A i \in firsts : \E k \in 1..Cardinality(firsts) : Nth(firsts, k) = i
  <2>1. IsFiniteSet(1..Len(csv))
    BY <1>2, FS_Interval
  <2>2. IsFiniteSet(firsts)
    BY <1>2, <2>1, FS_Subset
  <2>3. firsts \in SUBSET Int
    BY <1>2
  <2> QED
    BY <2>2, <2>3, NthOfNumbers
<1>4. \A i \in firsts : i \in DOMAIN csv /\ owner[i] \in srcs
  BY OwnerIsASource DEF firsts
<1>5. ASSUME NEW i \in DOMAIN csv, owner[i] # None
      PROVE  \E j \in firsts : owner[j] = owner[i]
  <2> DEFINE same == {j \in DOMAIN csv : owner[j] = owner[i]}
             f == FirstInPathOrder(same)
  <2>1. same \in SUBSET Nat /\ i \in same
    BY <1>2
  <2>2. f \in same /\ \A j \in same : f <= j
    <3> HIDE DEF same
    <3> QED
      BY <2>1, FirstIsFirst
  <2>3. f \in DOMAIN csv /\ owner[f] = owner[i]
    BY <2>2
  <2>4. First(f)
    <3> SUFFICES ASSUME NEW j \in 1..(f - 1), owner[j] = owner[f] PROVE FALSE
      OBVIOUS
    <3> HIDE DEF f
    <3>1. j \in 1..Len(csv) /\ j < f
      BY <1>2, <2>3
    <3>2. j \in same
      BY <1>2, <2>3, <3>1
    <3> QED
      BY <1>2, <2>2, <2>3, <3>1, <3>2
  <2> QED
    BY <1>5, <2>3, <2>4 DEF firsts
<1> HIDE DEF owner
<1>6. link \in Seq(srcs) /\ DOMAIN link = 1..Cardinality(firsts)
  BY <1>3, <1>4
<1>7. \A k \in DOMAIN link : \E i \in DOMAIN csv : link[k] = owner[i]
  BY <1>3, <1>4
<1>8. \A i \in DOMAIN csv : owner[i] # None => \E k \in DOMAIN link : link[k] = owner[i]
  BY <1>3, <1>5
<1>9. \A i \in DOMAIN csv : owner[i] = OwnerOf(csv[i], srcs, defs)
  BY DEF owner
<1> HIDE DEF link
<1> QED
  BY <1>1, <1>6, <1>7, <1>8, <1>9

\* So every symbol that a source defines is linked with its owner.
LEMMA DefinedIsLinked ==
  ASSUME SourceMapAssumption, NEW csv \in Seq(Symbol), NEW srcs \in SUBSET Source, NEW defs,
         NEW i \in DOMAIN csv, NEW s \in srcs, csv[i] \in defs[s]
  PROVE  \E k \in DOMAIN LinkOrder(csv, srcs, defs) :
           LET o == LinkOrder(csv, srcs, defs)[k]
           IN  o \in srcs /\ (Stem[o] = csv[i] \/ csv[i] \in defs[o])
<1> DEFINE link == LinkOrder(csv, srcs, defs)
           o    == OwnerOf(csv[i], srcs, defs)
<1>1. o # None
  BY DefinedIsOwned
<1>2. o \in srcs /\ (Stem[o] = csv[i] \/ csv[i] \in defs[o])
  BY <1>1, OwnerIsASource
<1>3. \A j \in DOMAIN csv : OwnerOf(csv[j], srcs, defs) # None =>
        \E k \in DOMAIN link : link[k] = OwnerOf(csv[j], srcs, defs)
  BY LinkOrderIsOwners
<1>4. \E k \in DOMAIN link : link[k] = o
  BY <1>1, <1>3
<1> HIDE DEF o, link
<1>5. \E k \in DOMAIN link : link[k] \in srcs /\ (Stem[link[k]] = csv[i] \/ csv[i] \in defs[link[k]])
  BY <1>2, <1>4
<1> QED
  BY <1>5 DEF link
=============================================================================
