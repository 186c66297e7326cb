---------------------------- MODULE SourcesProofs ---------------------------
(***************************************************************************)
(* The four loops find the owner SourceMap defines, for any sources, any   *)
(* objects and any CSV; and the rules of cc.yaml give a source the         *)
(* settings that are documented, for any files, any rules and any globs.   *)
(***************************************************************************)
EXTENDS Sources, SourceMapProofs

\* The sources loop p has been through.
Through(p) == IF p < pass THEN Group(p) ELSE IF p = pass THEN Group(p) \ left ELSE {}

\* A loop goes in path order.
InPathOrder ==
  /\ pass = 5 => left = {}
  /\ pass < 5 => left \subseteq Group(pass)
  /\ pass < 5 => \A s \in Group(pass) \ left, t \in left : s < t

\* `s` claims `sym` in loop p, and no one does before that.
FirstToClaim(sym, p, s) ==
  /\ s \in Through(p) /\ sym \in Names(p, s)
  /\ \A t \in Group(p) : sym \in Names(p, t) => s <= t
  /\ \A q \in 1..4 : q < p => \A t \in Group(q) : sym \notin Names(q, t)

\* A symbol has the first to claim it, or no one has claimed it yet.
OwnerSoFar ==
  \A sym \in Symbol :
    /\ sym \notin all => owner[sym] = None
    /\ sym \in all =>
         \/ /\ owner[sym] = None
            /\ \A p \in 1..4 : \A t \in Through(p) : sym \notin Names(p, t)
         \/ \E p \in 1..4 : owner[sym] # None /\ FirstToClaim(sym, p, owner[sym])

IInv == TypeOK /\ InPathOrder /\ OwnerSoFar

-----------------------------------------------------------------------------
\* The invariant holds before the first loop.
THEOREM InitIInv == Init => IInv
<1> SUFFICES ASSUME Init PROVE IInv
  OBVIOUS
<1>1. TypeOK
  BY DEF Init, TypeOK, Group
<1>2. InPathOrder
  BY DEF Init, InPathOrder, Group
<1>3. \A p \in 1..4 : Through(p) = {}
  BY DEF Init, Through, Group
<1>4. OwnerSoFar
  BY <1>3 DEF Init, OwnerSoFar
<1> QED
  BY <1>1, <1>2, <1>4 DEF IInv

\* A source's claims keep it.
LEMMA ClaimAllKeepsIInv == SourceMapAssumption /\ IInv /\ ClaimAll => IInv'
<1> SUFFICES ASSUME SourceMapAssumption, IInv, ClaimAll PROVE IInv'
  OBVIOUS
<1> DEFINE s == FirstInPathOrder(left)
<1>1. /\ pass \in 1..4 /\ left \subseteq Group(pass) /\ Group(pass) \subseteq srcs
      /\ srcs \subseteq Nat /\ s \in left /\ \A t \in left : s <= t
  <2>1. pass \in 1..4 /\ left \subseteq Group(pass)
    <3>1. pass \in 1..5 /\ left # {}
      BY DEF ClaimAll, IInv, TypeOK
    <3>2. pass # 5
      BY <3>1 DEF IInv, InPathOrder
    <3> QED
      BY <3>1, <3>2 DEF IInv, InPathOrder
  <2>2. Group(pass) \subseteq srcs /\ srcs \subseteq Nat
    BY DEF Group, IInv, TypeOK, SourceMapAssumption
  <2>3. left \in SUBSET Nat /\ left # {}
    BY <2>1, <2>2 DEF ClaimAll
  <2> QED
    BY <2>1, <2>2, <2>3, FirstIsFirst
<1>2. /\ owner' = [sym \in Symbol |->
                     IF sym \in Claimed(s) THEN NewOwner(sym, s) ELSE owner[sym]]
      /\ left' = left \ {s}
      /\ UNCHANGED <<all, srcs, defs, vague, pass>>
  BY DEF ClaimAll
<1>3. folded' \subseteq all /\ warned' \subseteq all
  BY DEF ClaimAll, Claimed, IInv, TypeOK
<1> HIDE DEF s
<1>4. TypeOK'
  <2>1. \A sym \in Symbol : owner[sym] \in srcs \cup {None} /\ NewOwner(sym, s) \in srcs \cup {None}
    BY <1>1 DEF IInv, TypeOK, NewOwner
  <2>2. owner' \in [Symbol -> srcs \cup {None}]
    BY <1>2, <2>1
  <2> QED
    BY <1>1, <1>2, <1>3, <2>2 DEF IInv, TypeOK
<1>5. InPathOrder'
  <2>1. \A q : Group(q)' = Group(q)
    BY <1>2 DEF Group
  <2>2. \A t, u \in srcs : t \in Nat /\ u \in Nat
    BY <1>1
  <2>3. \A t \in Group(pass) \ left', u \in left' : t < u
    <3> TAKE t \in Group(pass) \ left', u \in left'
    <3>1. u \in left /\ u # s /\ s <= u /\ u \in Nat /\ s \in Nat /\ t \in Nat
      BY <1>1, <1>2
    <3>2. CASE t = s
      BY <3>1, <3>2
    <3>3. CASE t # s
      BY <1>1, <1>2, <3>1, <3>3 DEF IInv, InPathOrder
    <3> QED
      BY <3>2, <3>3
  <2> QED
    BY <1>1, <1>2, <2>1, <2>3 DEF InPathOrder
<1>6. OwnerSoFar'
  <2>1. \A p : /\ Group(p)' = Group(p)
               /\ \A t : Names(p, t)' = Names(p, t)
    BY <1>2 DEF Group, Names
  <2>2. /\ \A p \in 1..4 : Through(p)' = IF p = pass THEN Through(p) \cup {s} ELSE Through(p)
        /\ s \in Group(pass)
        /\ \A t \in Group(pass) : ~(s <= t) => t \in Through(pass)
    <3>1. \A t \in Group(pass) : ~(s <= t) => t \notin left
      BY <1>1
    <3> QED
      BY <1>1, <1>2, <2>1, <3>1 DEF Through
  <2> SUFFICES ASSUME NEW sym \in Symbol
               PROVE  /\ sym \notin all => owner'[sym] = None
                      /\ sym \in all =>
                           \/ /\ owner'[sym] = None
                              /\ \A p \in 1..4 : \A t \in Through(p)' : sym \notin Names(p, t)
                           \/ \E p \in 1..4 : /\ owner'[sym] # None
                                             /\ FirstToClaim(sym, p, owner[sym])'
    BY <1>2, <2>1 DEF OwnerSoFar
  <2>3. owner'[sym] = IF sym \in Claimed(s) THEN NewOwner(sym, s) ELSE owner[sym]
    BY <1>2
  <2>4. CASE sym \notin all
    BY <2>3, <2>4 DEF Claimed, IInv, OwnerSoFar
  <2>5. ASSUME sym \in all, NEW p \in 1..4, owner[sym] # None,
               FirstToClaim(sym, p, owner[sym])
        PROVE  owner'[sym] # None /\ FirstToClaim(sym, p, owner[sym])'
    <3>1. owner'[sym] = owner[sym]
      BY <2>3, <2>5 DEF NewOwner
    <3>2. Through(p) \subseteq Through(p)'
      BY <2>2
    <3>3. FirstToClaim(sym, p, owner[sym])'
      BY <1>2, <2>5, <3>1, <3>2 DEF FirstToClaim, Names, Group
    <3> QED
      BY <2>5, <3>1, <3>3
  <2>6. CASE sym \in all /\ owner[sym] = None /\ sym \notin Claimed(s)
    <3>1. owner'[sym] = None
      BY <2>3, <2>6
    <3>2. \A q \in 1..4 : \A t \in Through(q) : sym \notin Names(q, t)
      BY <2>6 DEF IInv, OwnerSoFar, FirstToClaim
    <3>3. sym \notin Names(pass, s)
      BY <2>6 DEF Claimed
    <3>4. \A q \in 1..4 : \A t \in Through(q)' : sym \notin Names(q, t)
      BY <1>1, <2>2, <3>2, <3>3
    <3> QED
      BY <2>6, <3>1, <3>4
  <2>7. ASSUME sym \in all, owner[sym] = None, sym \in Claimed(s), NEW p \in 1..4, p = pass
        PROVE  owner'[sym] # None /\ FirstToClaim(sym, p, owner[sym])'
    <3>1. owner'[sym] = s /\ s # None
      BY <1>1, <2>3, <2>7 DEF NewOwner, IInv, TypeOK, SourceMapAssumption
    <3>2. \A q \in 1..4 : \A t \in Through(q) : sym \notin Names(q, t)
      BY <2>7 DEF IInv, OwnerSoFar, FirstToClaim
    <3>3. \A t \in Group(p) : sym \in Names(p, t) => s <= t
      BY <1>1, <2>2, <2>7, <3>2
    <3>4. \A q \in 1..4 : q < p => \A t \in Group(q) : sym \notin Names(q, t)
      BY <2>7, <3>2 DEF Through
    <3>5. s \in Through(p)' /\ sym \in Names(p, s)
      BY <2>2, <2>7 DEF Claimed
    <3>6. FirstToClaim(sym, p, owner[sym])'
      BY <1>2, <3>1, <3>3, <3>4, <3>5 DEF FirstToClaim, Names, Group
    <3> QED
      BY <3>1, <3>6
  <2> QED
    BY <1>1, <2>4, <2>5, <2>6, <2>7 DEF IInv, OwnerSoFar
<1> QED
  BY <1>4, <1>5, <1>6 DEF IInv

\* So does going on to the next loop, through with all of the last.
LEMMA NextLoopKeepsIInv == SourceMapAssumption /\ IInv /\ NextLoop => IInv'
<1> SUFFICES ASSUME SourceMapAssumption, IInv, NextLoop PROVE IInv'
  OBVIOUS
<1>1. /\ pass \in 1..4 /\ pass' = pass + 1 /\ left = {}
      /\ left' = IF pass < 4 THEN Group(pass + 1) ELSE {}
      /\ UNCHANGED <<all, srcs, defs, vague, owner, folded, warned>>
  BY DEF NextLoop, IInv, TypeOK
<1>2. \A p : /\ Group(p)' = Group(p)
             /\ \A t : Names(p, t)' = Names(p, t)
  BY <1>1 DEF Group, Names
<1>3. TypeOK'
  <2>1. left' \subseteq srcs
    BY <1>1 DEF Group
  <2>2. pass' \in 1..5
    BY <1>1
  <2> QED
    BY <1>1, <2>1, <2>2 DEF IInv, TypeOK
<1>4. InPathOrder'
  <2>1. pass' = 5 => left' = {}
    BY <1>1
  <2>2. pass' < 5 => left' = Group(pass')
    BY <1>1
  <2> QED
    BY <1>2, <2>1, <2>2 DEF InPathOrder
<1>5. \A p \in 1..4 : Through(p)' = Through(p)
  <2> TAKE p \in 1..4
  <2>1. CASE p < pass
    BY <1>1, <1>2, <2>1 DEF Through
  <2>2. CASE p = pass
    BY <1>1, <1>2, <2>2 DEF Through
  <2>3. CASE p = pass + 1
    BY <1>1, <1>2, <2>3 DEF Through
  <2>4. CASE p > pass + 1
    BY <1>1, <1>2, <2>4 DEF Through
  <2> QED
    BY <1>1, <2>1, <2>2, <2>3, <2>4
<1>6. OwnerSoFar'
  <2>1. \A sym, q, t : q \in 1..4 => (FirstToClaim(sym, q, t) => FirstToClaim(sym, q, t)')
    BY <1>2, <1>5 DEF FirstToClaim
  <2> QED
    BY <1>1, <1>2, <1>5, <2>1 DEF IInv, OwnerSoFar, FirstToClaim
<1> QED
  BY <1>3, <1>4, <1>6 DEF IInv

\* Every step keeps it.
THEOREM StepIInv == SourceMapAssumption /\ IInv /\ [Next]_vars => IInv'
<1> SUFFICES ASSUME SourceMapAssumption, IInv, [Next]_vars PROVE IInv'
  OBVIOUS
<1>1. CASE UNCHANGED vars
  BY <1>1 DEF vars, IInv, TypeOK, InPathOrder, OwnerSoFar, FirstToClaim, Through, Group, Names
<1> QED
  BY <1>1, ClaimAllKeepsIInv, NextLoopKeepsIInv DEF Next

\* Every variable keeps its type.
THEOREM TypeCorrect == Spec => []TypeOK
<1>1. SourceMapAssumption
  BY SourceMapAssumption
<1>2. IInv => TypeOK
  BY DEF IInv
<1> QED
  BY <1>1, <1>2, InitIInv, StepIInv, PTL DEF Spec

-----------------------------------------------------------------------------
\* The first to claim a symbol in the four loops is the owner by definition.
LEMMA FirstToClaimOwns ==
  ASSUME SourceMapAssumption, TypeOK, pass = 5, NEW sym \in Symbol,
         NEW p \in 1..4, NEW s, FirstToClaim(sym, p, s)
  PROVE  OwnerOf(sym, srcs, defs) = s
<1> DEFINE By(q) == {t \in Group(q) : sym \in Names(q, t)}
<1>1. \A q \in 1..4 : By(q) \in SUBSET Nat
  BY DEF Group, TypeOK, SourceMapAssumption
<1>2. s \in By(p) /\ (\A t \in By(p) : s <= t) /\ \A q \in 1..4 : q < p => By(q) = {}
  BY DEF FirstToClaim, Through
<1>3. FirstInPathOrder(By(p)) = s
  BY <1>1, <1>2, TheFirst
<1>4. sym # None
  BY DEF SourceMapAssumption
<1>5. /\ By(1) = {t \in srcs \ Vendored : Stem[t] = sym}
      /\ By(2) = {t \in srcs \ Vendored : sym \in defs[t]}
      /\ By(3) = {t \in srcs \cap Vendored : Stem[t] = sym}
      /\ By(4) = {t \in srcs \cap Vendored : sym \in defs[t]}
      /\ {t \in srcs : Stem[t] = sym} = By(1) \cup By(3)
  BY <1>4 DEF Group, Names
<1> HIDE DEF By
<1>6. CASE p = 1
  BY <1>2, <1>3, <1>5, <1>6 DEF OwnerOf
<1>7. CASE p = 2
  <2>1. By(1) = {} /\ By(2) # {}
    BY <1>2, <1>7
  <2> QED
    BY <1>3, <1>5, <1>7, <2>1 DEF OwnerOf
<1>8. CASE p = 3
  <2>1. By(1) = {} /\ By(2) = {} /\ By(3) # {}
    BY <1>2, <1>8
  <2> QED
    BY <1>3, <1>5, <1>8, <2>1 DEF OwnerOf
<1>9. CASE p = 4
  <2>1. By(1) = {} /\ By(2) = {} /\ By(3) = {} /\ By(4) # {}
    BY <1>2, <1>9
  <2> QED
    BY <1>3, <1>5, <1>9, <2>1 DEF OwnerOf
<1> QED
  BY <1>6, <1>7, <1>8, <1>9

\* Without a claim there is none.
LEMMA UnclaimedHasNoOwner ==
  ASSUME SourceMapAssumption, TypeOK, pass = 5, NEW sym \in Symbol,
         \A p \in 1..4 : \A t \in Through(p) : sym \notin Names(p, t)
  PROVE  OwnerOf(sym, srcs, defs) = None
<1>1. \A p \in 1..4 : Through(p) = Group(p)
  BY DEF Through
<1>2. sym # None
  BY DEF SourceMapAssumption
<1>3. /\ {t \in srcs \ Vendored : Stem[t] = sym} = {}
      /\ {t \in srcs \ Vendored : sym \in defs[t]} = {}
      /\ {t \in srcs \cap Vendored : Stem[t] = sym} = {}
      /\ {t \in srcs \cap Vendored : sym \in defs[t]} = {}
  BY <1>1, <1>2 DEF Group, Names
<1> QED
  BY <1>3 DEF OwnerOf

\* _assign_owners gives every symbol the owner SourceMap defines: own sources before
\* vendored ones, a file named after the symbol before those that define it.
THEOREM LoopsFindOwners == Spec => []OwnersByPriority
<1>1. SourceMapAssumption
  BY SourceMapAssumption
<1>2. SourceMapAssumption /\ IInv => OwnersByPriority
  <2> SUFFICES ASSUME SourceMapAssumption, IInv, pass = 5 PROVE OwnersByPriority
    BY DEF OwnersByPriority, Done
  <2>1. \A sym \in Symbol :
          owner[sym] = IF sym \in all THEN OwnerOf(sym, srcs, defs) ELSE None
    <3> TAKE sym \in Symbol
    <3>1. CASE sym \notin all
      BY <3>1 DEF IInv, OwnerSoFar
    <3>2. CASE sym \in all
      BY <3>2, FirstToClaimOwns, UnclaimedHasNoOwner DEF IInv, OwnerSoFar
    <3> QED
      BY <3>1, <3>2
  <2> QED
    BY <2>1 DEF OwnersByPriority, IInv, TypeOK
<1> QED
  BY <1>1, <1>2, InitIInv, StepIInv, PTL DEF Spec

\* No file takes a symbol from one with a better claim to it (_assign_owners's
\* docstring), whatever is added and whatever it defines.
THEOREM NothingIsTakenAway == Spec => []NothingIsTaken
<1>1. SourceMapAssumption
  BY SourceMapAssumption
<1>2. SourceMapAssumption /\ IInv => NothingIsTaken
  <2> SUFFICES ASSUME SourceMapAssumption, IInv, pass = 5, NEW sym \in all
               PROVE  /\ Claimants(sym) \ Vendored # {} => owner[sym] \notin Vendored
                      /\ (\E s \in srcs \ Vendored : Stem[s] = sym) => Stem[owner[sym]] = sym
                      /\ Claimants(sym) # {} => owner[sym] # None
    BY DEF NothingIsTaken, Done
  <2>1. sym \in Symbol /\ sym # None
    BY DEF IInv, TypeOK, SourceMapAssumption
  <2>2. \A p \in 1..4 : Through(p) = Group(p)
    BY DEF Through
  <2>3. \A s \in Claimants(sym) :
          \/ s \notin Vendored /\ s \in Group(1) /\ s \in Group(2)
               /\ (sym \in Names(1, s) \/ sym \in Names(2, s))
          \/ s \in Vendored /\ s \in Group(3) /\ s \in Group(4)
               /\ (sym \in Names(3, s) \/ sym \in Names(4, s))
    BY <2>1 DEF Claimants, Group, Names
  <2>4. \A s \in srcs \ Vendored : Stem[s] = sym => s \in Group(1) /\ sym \in Names(1, s)
    BY <2>1 DEF Group, Names
  <2>5. CASE \A p \in 1..4 : \A t \in Through(p) : sym \notin Names(p, t)
    <3>1. Claimants(sym) = {}
      BY <2>2, <2>3, <2>5
    <3> QED
      BY <2>2, <2>4, <2>5, <3>1
  <2>6. ASSUME NEW p \in 1..4, owner[sym] # None, FirstToClaim(sym, p, owner[sym])
        PROVE  /\ Claimants(sym) \ Vendored # {} => owner[sym] \notin Vendored
               /\ (\E s \in srcs \ Vendored : Stem[s] = sym) => Stem[owner[sym]] = sym
    <3>1. /\ owner[sym] \in Group(p) /\ sym \in Names(p, owner[sym])
          /\ \A q \in 1..4 : q < p => \A t \in Group(q) : sym \notin Names(q, t)
      BY <2>2, <2>6 DEF FirstToClaim
    <3>2. p \in {1, 2} => owner[sym] \notin Vendored
      BY <3>1 DEF Group
    <3>3. p \in {3, 4} => Claimants(sym) \ Vendored = {}
      BY <2>3, <3>1
    <3>4. p = 1 => Stem[owner[sym]] = sym
      BY <3>1 DEF Names
    <3>5. p # 1 => \A s \in srcs \ Vendored : Stem[s] # sym
      BY <2>4, <3>1
    <3> QED
      BY <3>2, <3>3, <3>4, <3>5
  <2> QED
    BY <2>1, <2>5, <2>6 DEF IInv, OwnerSoFar
<1> QED
  BY <1>1, <1>2, InitIInv, StepIInv, PTL DEF Spec

-----------------------------------------------------------------------------
\* What the loops over definitions have been through is owned, and what was not
\* given the symbol was warned of or folded.
WarnedSoFar ==
  \A sym \in all : \A p \in {2, 4} : \A s \in Through(p) :
    sym \in defs[s] =>
      /\ owner[sym] # None
      /\ s # owner[sym] /\ sym \notin warned => sym \in vague[s] /\ sym \in vague[owner[sym]]

\* What was warned of has a claimant it is not vague in.
QuietSoFar == \A sym \in warned : \E s \in Claimants(sym) : sym \notin vague[s]

WInv == IInv /\ WarnedSoFar /\ QuietSoFar

\* An owner claims its symbol.
LEMMA OwnerClaims ==
  ASSUME SourceMapAssumption, IInv, NEW sym \in all, owner[sym] # None
  PROVE  owner[sym] \in Claimants(sym)
<1>1. sym \in Symbol
  BY DEF IInv, TypeOK
<1>2. PICK p \in 1..4 : FirstToClaim(sym, p, owner[sym])
  BY <1>1 DEF IInv, OwnerSoFar
<1>3. owner[sym] \in srcs /\ sym \in Names(p, owner[sym])
  BY <1>1, <1>2 DEF FirstToClaim, IInv, TypeOK
<1> QED
  BY <1>3 DEF Names, Claimants

\* A source's claims keep it.
LEMMA ClaimAllKeepsWInv == SourceMapAssumption /\ WInv /\ ClaimAll => WarnedSoFar' /\ QuietSoFar'
<1> SUFFICES ASSUME SourceMapAssumption, WInv, ClaimAll PROVE WarnedSoFar' /\ QuietSoFar'
  OBVIOUS
<1> DEFINE s == FirstInPathOrder(left)
           contested == {sym \in Claimed(s) : owner[sym] \notin {None, s}}
           folding == {sym \in contested : Folds(sym, s)}
<1>1. IInv /\ TypeOK /\ pass \in 1..5 /\ all \subseteq Symbol
  BY DEF WInv, IInv, TypeOK
<1>2. s \in left /\ pass \in 1..4 /\ s \in srcs
  <2>1. left # {} /\ left \subseteq srcs /\ srcs \subseteq Nat
    BY <1>1 DEF ClaimAll, TypeOK, SourceMapAssumption
  <2>2. pass # 5
    BY <1>1, <2>1 DEF IInv, InPathOrder
  <2>3. left \in SUBSET Nat /\ left # {}
    BY <2>1
  <2>4. s \in left
    BY <2>3, FirstIsFirst
  <2>5. pass \in 1..4
    BY <1>1, <2>2
  <2> HIDE DEF s
  <2> QED
    BY <2>1, <2>4, <2>5
<1>3. /\ owner' = [sym \in Symbol |->
                     IF sym \in Claimed(s) THEN NewOwner(sym, s) ELSE owner[sym]]
      /\ warned' = warned \cup (contested \ folding)
      /\ left' = left \ {s}
      /\ UNCHANGED <<all, srcs, defs, vague, pass>>
  BY DEF ClaimAll
<1> HIDE DEF s
<1>4. \A sym \in all : owner[sym] # None => owner'[sym] = owner[sym]
  BY <1>1, <1>3 DEF NewOwner
<1>5. s # None
  BY <1>1, <1>2 DEF TypeOK, SourceMapAssumption
<1>6. \A sym \in Claimed(s) :
        /\ sym \in all /\ owner'[sym] # None
        /\ s # owner'[sym] /\ sym \notin warned' => sym \in vague[s] /\ sym \in vague[owner'[sym]]
  <2> TAKE sym \in Claimed(s)
  <2>1. sym \in all /\ sym \in Symbol
    BY <1>1 DEF Claimed
  <2>2. owner'[sym] = IF owner[sym] = None THEN s ELSE owner[sym]
    BY <1>3, <2>1 DEF NewOwner
  <2>3. ASSUME s # owner'[sym], sym \notin warned'
        PROVE  sym \in vague[s] /\ sym \in vague[owner'[sym]]
    <3>1. owner'[sym] = owner[sym] /\ sym \in contested
      BY <2>2, <2>3
    <3>2. Folds(sym, s)
      BY <1>3, <2>3, <3>1
    <3> QED
      BY <3>1, <3>2 DEF Folds
  <2> QED
    BY <1>5, <2>1, <2>2, <2>3
<1>7. \A p \in {2, 4} : \A t \in Through(p)' : t \in Through(p) \/ (t = s /\ p = pass)
  BY <1>3 DEF Through, Group
<1>8. WarnedSoFar'
  <2> SUFFICES ASSUME NEW sym \in all, NEW p \in {2, 4}, NEW t \in Through(p)', sym \in defs[t]
               PROVE  /\ owner'[sym] # None
                      /\ t # owner'[sym] /\ sym \notin warned' =>
                           sym \in vague[t] /\ sym \in vague[owner'[sym]]
    BY <1>3 DEF WarnedSoFar
  <2>1. CASE t \in Through(p)
    <3>1. /\ owner[sym] # None
          /\ t # owner[sym] /\ sym \notin warned => sym \in vague[t] /\ sym \in vague[owner[sym]]
      BY <2>1 DEF WInv, WarnedSoFar
    <3> QED
      BY <1>3, <1>4, <3>1
  <2>2. CASE t = s /\ p = pass
    <3>1. sym \in Claimed(s)
      BY <2>2 DEF Claimed, Names
    <3> QED
      BY <1>6, <2>2, <3>1
  <2> QED
    BY <1>7, <2>1, <2>2
<1>9. QuietSoFar'
  <2>1. \A sym : Claimants(sym)' = Claimants(sym)
    BY <1>3 DEF Claimants
  <2> SUFFICES ASSUME NEW sym \in contested \ folding
               PROVE  \E t \in Claimants(sym) : sym \notin vague[t]
    BY <1>3, <2>1 DEF WInv, QuietSoFar
  <2>2. sym \in Claimed(s) /\ owner[sym] # None /\ ~Folds(sym, s) /\ sym \in all
    BY DEF Claimed
  <2>3. s \in Claimants(sym)
    BY <1>2, <2>2 DEF Claimed, Names, Claimants
  <2>4. owner[sym] \in Claimants(sym)
    BY <1>1, <2>2, OwnerClaims
  <2> QED
    BY <2>2, <2>3, <2>4 DEF Folds
<1> QED
  BY <1>8, <1>9

\* So does every step: the next loop has been through nothing yet.
THEOREM StepWInv == SourceMapAssumption /\ WInv /\ [Next]_vars => WInv'
<1> SUFFICES ASSUME SourceMapAssumption, WInv, [Next]_vars PROVE WInv'
  OBVIOUS
<1>1. IInv'
  BY StepIInv DEF WInv
<1>2. CASE UNCHANGED vars
  BY <1>1, <1>2 DEF vars, WInv, WarnedSoFar, QuietSoFar, Through, Group, Claimants
<1>3. CASE ClaimAll
  BY <1>1, <1>3, ClaimAllKeepsWInv DEF WInv
<1>4. CASE NextLoop
  <2>1. /\ pass \in 1..4 /\ pass' = pass + 1 /\ left = {}
        /\ left' = IF pass < 4 THEN Group(pass + 1) ELSE {}
        /\ UNCHANGED <<all, srcs, defs, vague, owner, folded, warned>>
    BY <1>4 DEF NextLoop, WInv, IInv, TypeOK
  <2>2. \A p \in {2, 4} : Through(p)' \subseteq Through(p)
    BY <2>1 DEF Through, Group
  <2>3. \A sym : Claimants(sym)' = Claimants(sym)
    BY <2>1 DEF Claimants
  <2>4. WarnedSoFar'
    BY <2>1, <2>2 DEF WInv, WarnedSoFar
  <2>5. QuietSoFar'
    BY <2>1, <2>3 DEF WInv, QuietSoFar
  <2> QED
    BY <1>1, <2>4, <2>5 DEF WInv
<1> QED
  BY <1>2, <1>3, <1>4 DEF Next

\* It holds before the first loop.
THEOREM InitWInv == Init => WInv
<1> SUFFICES ASSUME Init PROVE WInv
  OBVIOUS
<1>1. \A p \in {2, 4} : Through(p) = {}
  BY DEF Init, Through, Group
<1>2. warned = {}
  BY DEF Init
<1> QED
  BY <1>1, <1>2, InitIInv DEF WInv, WarnedSoFar, QuietSoFar

\* Of two definitions of a symbol, one is not the owner, and the loops compared it
\* with the owner: no strong one passes as folded (config.py:415).
THEOREM RealClashIsWarned == Spec => []ClashIsWarned
<1>1. SourceMapAssumption
  BY SourceMapAssumption
<1>2. SourceMapAssumption /\ WInv => ClashIsWarned
  <2> SUFFICES ASSUME SourceMapAssumption, WInv, pass = 5, NEW sym \in all,
                      NEW s \in srcs, NEW t \in srcs, s # t,
                      sym \in defs[s], sym \in defs[t], sym \notin vague[s]
               PROVE  sym \in warned
    BY DEF ClashIsWarned, Done
  <2>1. \A u \in srcs : \E p \in {2, 4} : u \in Through(p)
    BY DEF Through, Group
  <2>2. \A u \in {s, t} : u # owner[sym] /\ sym \notin warned =>
                            sym \in vague[u] /\ sym \in vague[owner[sym]]
    BY <2>1 DEF WInv, WarnedSoFar
  <2> QED
    BY <2>2
<1> QED
  BY <1>1, <1>2, InitWInv, StepWInv, PTL DEF Spec

\* Copies the linker folds are never warned of (config.py:414), whoever claims them
\* and in whatever order.
THEOREM VagueIsNotWarnedOf == Spec => []VagueIsSilent
<1>1. SourceMapAssumption
  BY SourceMapAssumption
<1>2. WInv => VagueIsSilent
  BY DEF WInv, QuietSoFar, VagueIsSilent
<1> QED
  BY <1>1, <1>2, InitWInv, StepWInv, PTL DEF Spec

-----------------------------------------------------------------------------
(* The rules of cc.yaml.                                                   *)

\* What has settings while an entry is expanded.
Table == UNION {[paths -> Config \cup {None}] : paths \in SUBSET Single}

\* What the k-th of an entry's presets and wildcards is for.
NamedBy(e, k) ==
  LET pattern == Expansions(e)[k].pattern
  IN IF pattern \in Globs THEN FnMatches[pattern] \cap FilesOf(e) ELSE {pattern}

\* `resolved` has the direct rules, and for what else the first k name and is not
\* ignored, the settings of the first that names it.
ExpandedBy(e, k, resolved) ==
  /\ \A q : q \in DOMAIN resolved <=>
       \/ q \in DOMAIN written[e].direct
       \/ q \notin Ignored(e) /\ \E i \in 1..k : q \in NamedBy(e, i)
  /\ \A q \in DOMAIN written[e].direct : resolved[q] = written[e].direct[q]
  /\ \A q \in DOMAIN resolved \ DOMAIN written[e].direct : \E i \in 1..k :
       /\ q \in NamedBy(e, i) /\ \A j \in 1..(i - 1) : q \notin NamedBy(e, j)
       /\ resolved[q] = Expansions(e)[i].config

\* A sequence over some values is one over more.
LEMMA SeqGrows ==
  ASSUME NEW T, NEW S \in SUBSET T
  PROVE  Seq(S) \subseteq Seq(T)
<1> SUFFICES ASSUME NEW s \in Seq(S) PROVE s \in Seq(T)
  OBVIOUS
<1>1. s = [i \in 1..Len(s) |-> s[i]] /\ Len(s) \in Nat /\ \A i \in 1..Len(s) : s[i] \in T
  OBVIOUS
<1>2. [i \in 1..Len(s) |-> s[i]] \in Seq(T)
  BY <1>1
<1> QED
  BY <1>1, <1>2

\* What is expanded, and what it starts from.
LEMMA ExpansionsTyped ==
  ASSUME CcRulesAssumption, ConfigOK, NEW e \in Entries
  PROVE  /\ Len(Expansions(e)) \in Nat /\ DOMAIN Expansions(e) = 1..Len(Expansions(e))
         /\ \A k \in 1..Len(Expansions(e)) : /\ NamedBy(e, k) \subseteq Single
                                             /\ Expansions(e)[k].pattern \in Patterns
                                             /\ Expansions(e)[k].config \in Config \cup {None}
         /\ written[e].direct \in Table /\ DOMAIN written[e].direct \subseteq Single
<1> DEFINE w == written[e]
           Rule == [pattern : Patterns, config : Config \cup {None}]
<1>1. w \in Entry
  BY DEF ConfigOK
<1>2. /\ w.presets \in Rules(Patterns, Config \cup {None}) /\ w.wild \in Rules(Globs, Config)
      /\ w.direct \in UNION {[paths -> Config] : paths \in SUBSET Single}
  BY <1>1 DEF Entry
<1> HIDE DEF w
<1>3. w.presets \in Seq(Rule) /\ w.wild \in Seq(Rule)
  <2>1. [pattern : Globs, config : Config] \in SUBSET Rule
    BY DEF Patterns
  <2> HIDE DEF Rule
  <2>2. Seq([pattern : Globs, config : Config]) \subseteq Seq(Rule)
    BY <2>1, SeqGrows
  <2>3. Rules(Patterns, Config \cup {None}) = Seq(Rule)
    BY DEF Rules, Rule
  <2>4. Rules(Globs, Config) = Seq([pattern : Globs, config : Config])
    BY DEF Rules
  <2> QED
    BY <1>2, <2>2, <2>3, <2>4
<1> HIDE DEF Rule
<1>4. Expansions(e) \in Seq(Rule)
  BY <1>3 DEF Expansions, w
<1>5. \A k \in 1..Len(Expansions(e)) : Expansions(e)[k] \in [pattern : Patterns, config : Config \cup {None}]
  <2>1. \A k \in 1..Len(Expansions(e)) : Expansions(e)[k] \in Rule
    BY <1>4
  <2> QED
    BY <2>1 DEF Rule
<1>6. \A k \in 1..Len(Expansions(e)) : NamedBy(e, k) \subseteq Single
  BY <1>5 DEF NamedBy, Patterns, CcRulesAssumption, Single
<1>7. PICK paths \in SUBSET Single : w.direct \in [paths -> Config]
  BY <1>2
<1>8. w.direct \in [paths -> Config \cup {None}]
  BY <1>7
<1> QED
  BY <1>4, <1>5, <1>6, <1>7, <1>8 DEF w, Table

\* One rule more: it settles what it names and none before did.
LEMMA ExpandOneExpands ==
  ASSUME CcRulesAssumption, ConfigOK, NEW e \in Entries, NEW k \in 1..Len(Expansions(e)),
         NEW resolved \in Table
  PROVE  /\ ExpandOne(e, resolved, Expansions(e)[k]) \in Table
         /\ ExpandedBy(e, k - 1, resolved) =>
              ExpandedBy(e, k, ExpandOne(e, resolved, Expansions(e)[k]))
<1> DEFINE rule  == Expansions(e)[k]
           new   == NamedBy(e, k) \ (Ignored(e) \cup DOMAIN resolved)
           after == [p \in DOMAIN resolved \cup new |->
                       IF p \in new THEN rule.config ELSE resolved[p]]
<1>1. ExpandOne(e, resolved, rule) = after
  BY DEF ExpandOne, NamedBy
<1>2. /\ Len(Expansions(e)) \in Nat /\ NamedBy(e, k) \subseteq Single
      /\ rule.config \in Config \cup {None}
  BY ExpansionsTyped
<1>3. PICK paths \in SUBSET Single : resolved \in [paths -> Config \cup {None}]
  BY DEF Table
<1>4. after \in Table
  <2>1. after \in [paths \cup new -> Config \cup {None}] /\ paths \cup new \in SUBSET Single
    BY <1>2, <1>3
  <2> QED
    BY <2>1 DEF Table
<1>5. ASSUME ExpandedBy(e, k - 1, resolved) PROVE ExpandedBy(e, k, after)
  <2> HIDE DEF rule
  <2>1. 1..k = 1..(k - 1) \cup {k} /\ k \in 1..k /\ \A i \in 1..(k - 1) : i \in 1..k
    BY <1>2
  <2>2. DOMAIN after = DOMAIN resolved \cup new
    OBVIOUS
  <2>3. \A q \in DOMAIN resolved : q \in DOMAIN after /\ after[q] = resolved[q]
    OBVIOUS
  <2>4. \A q \in new : after[q] = rule.config
    OBVIOUS
  <2> HIDE DEF after
  <2>5. \A q \in DOMAIN written[e].direct : q \in DOMAIN resolved /\ resolved[q] = written[e].direct[q]
    BY <1>5 DEF ExpandedBy
  <2>6. ASSUME NEW q
        PROVE  q \in DOMAIN after <=>
                 \/ q \in DOMAIN written[e].direct
                 \/ q \notin Ignored(e) /\ \E i \in 1..k : q \in NamedBy(e, i)
    <3>1. q \in DOMAIN resolved <=>
            \/ q \in DOMAIN written[e].direct
            \/ q \notin Ignored(e) /\ \E i \in 1..(k - 1) : q \in NamedBy(e, i)
      BY <1>5 DEF ExpandedBy
    <3> QED
      BY <2>1, <2>2, <3>1
  <2>7. ASSUME NEW q \in DOMAIN after \ DOMAIN written[e].direct
        PROVE  \E i \in 1..k : /\ q \in NamedBy(e, i)
                               /\ \A j \in 1..(i - 1) : q \notin NamedBy(e, j)
                               /\ after[q] = Expansions(e)[i].config
    <3>1. CASE q \in DOMAIN resolved
      <4>1. PICK i \in 1..(k - 1) : /\ q \in NamedBy(e, i)
                                    /\ \A j \in 1..(i - 1) : q \notin NamedBy(e, j)
                                    /\ resolved[q] = Expansions(e)[i].config
        BY <1>5, <2>7, <3>1 DEF ExpandedBy
      <4>2. i \in 1..k /\ after[q] = Expansions(e)[i].config
        BY <2>1, <2>3, <3>1, <4>1
      <4> QED
        BY <4>1, <4>2
    <3>2. CASE q \notin DOMAIN resolved
      <4>1. q \in new
        BY <2>2, <2>7, <3>2
      <4>2. \A j \in 1..(k - 1) : q \notin NamedBy(e, j)
        BY <1>5, <3>2, <4>1 DEF ExpandedBy
      <4> QED
        BY <2>1, <2>4, <4>1, <4>2 DEF rule
    <3> QED
      BY <3>1, <3>2
  <2> QED
    BY <2>3, <2>5, <2>6, <2>7 DEF ExpandedBy
<1> HIDE DEF after
<1> QED
  BY <1>1, <1>4, <1>5

\* So what is resolved is what they all give.
LEMMA ResolvedIsExpanded ==
  ASSUME CcRulesAssumption, ConfigOK, NEW e \in Entries
  PROVE  Resolved(e) \in Table /\ ExpandedBy(e, Len(Expansions(e)), Resolved(e))
<1> DEFINE n == Len(Expansions(e))
           b == written[e].direct
           step == [p \in (1..n) \X Table |-> ExpandOne(e, p[2], Expansions(e)[p[1]])]
           Is(h) == h = [k \in 0..n |-> IF k = 0 THEN b ELSE ExpandOne(e, h[k - 1], Expansions(e)[k])]
           f == CHOOSE h : Is(h)
<1>1. n \in Nat /\ b \in Table
  BY ExpansionsTyped
<1>2. \A k \in 1..n, r \in Table : ExpandOne(e, r, Expansions(e)[k]) \in Table
  BY ExpandOneExpands
<1>3. step \in [(1..n) \X Table -> Table]
  BY <1>2
<1>4. \A k \in 1..n, r \in Table : step[<<k, r>>] = ExpandOne(e, r, Expansions(e)[k])
  OBVIOUS
<1>5. Resolved(e) = f[n]
  BY DEF Resolved
<1> HIDE DEF n, b, step
<1>6. PICK g \in [0..n -> Table] : g[0] = b /\ \A k \in 1..n : g[k] = step[<<k, g[k - 1]>>]
  <2>1. step \in Steps(n, Table)
    BY <1>3 DEF Steps
  <2>2. PICK g : Iterates(g, n, Table, b, step)
    BY <1>1, <2>1, RecursionUpTo
  <2> QED
    BY <2>2 DEF Iterates
<1>7. \A k \in 1..n : k - 1 \in 0..n /\ k \in 0..n /\ k # 0
  BY <1>1
<1>8. Is(g)
  <2>1. \A k \in 1..n : g[k - 1] \in Table /\ g[k] = ExpandOne(e, g[k - 1], Expansions(e)[k])
    BY <1>4, <1>6, <1>7
  <2>2. \A k \in 0..n : g[k] = IF k = 0 THEN b ELSE ExpandOne(e, g[k - 1], Expansions(e)[k])
    <3>1. \A k \in 0..n : k # 0 => k \in 1..n
      BY <1>1
    <3> QED
      BY <1>6, <2>1, <3>1
  <2> QED
    BY <1>6, <2>2
<1>9. Is(f)
  <2> HIDE DEF Is
  <2> QED
    BY <1>8
<1>10. \A k \in 0..n : f[k] = IF k = 0 THEN b ELSE ExpandOne(e, f[k - 1], Expansions(e)[k])
  <2> HIDE DEF f
  <2> QED
    BY <1>9
<1> HIDE DEF f, Is
<1> DEFINE S == {k \in 0..n : f[k] \in Table /\ ExpandedBy(e, k, f[k])}
<1>11. 0 \in S
  <2>1. 0 \in 0..n /\ f[0] = b
    BY <1>1, <1>10
  <2>2. ExpandedBy(e, 0, b)
    BY DEF ExpandedBy, b
  <2> QED
    BY <1>1, <2>1, <2>2
<1>12. ASSUME NEW k \in 1..n, k - 1 \in S PROVE k \in S
  <2>1. f[k] = ExpandOne(e, f[k - 1], Expansions(e)[k])
    BY <1>7, <1>10
  <2>2. f[k - 1] \in Table /\ ExpandedBy(e, k - 1, f[k - 1])
    BY <1>12
  <2> QED
    BY <1>7, <2>1, <2>2, ExpandOneExpands DEF n
<1> HIDE DEF S
<1>13. \A k \in 0..n : k \in S
  BY <1>1, <1>11, <1>12, InductionUpTo
<1>14. n \in S
  BY <1>1, <1>13
<1> QED
  BY <1>5, <1>14 DEF S, n

\* Both entries are as their rules say, once they are resolved.
RInv == /\ RulesTypeOK
        /\ \A e \in DOMAIN rules : ExpandedBy(e, Len(Expansions(e)), rules[e])

\* What an entry's rules say depends on nothing but what there is to resolve.
LEMMA RulesStay ==
  ASSUME UNCHANGED config
  PROVE  /\ ConfigOK => ConfigOK'
         /\ \A e : Expansions(e)' = Expansions(e)
         /\ \A e, k, r : ExpandedBy(e, k, r)' <=> ExpandedBy(e, k, r)
<1>1. files' = files /\ written' = written /\ consumed' = consumed /\ default' = default
  BY DEF config
<1>2. ConfigOK => ConfigOK'
  BY <1>1 DEF ConfigOK
<1>3. \A e : Expansions(e)' = Expansions(e)
  BY <1>1 DEF Expansions
<1>4. \A e : FilesOf(e)' = FilesOf(e)
  BY <1>1 DEF FilesOf
<1>5. \A e : Ignored(e)' = Ignored(e)
  BY <1>1, <1>4 DEF Ignored
<1>6. \A e, k : NamedBy(e, k)' = NamedBy(e, k)
  BY <1>3, <1>4 DEF NamedBy
<1>7. \A e, k, r : ExpandedBy(e, k, r)' <=> ExpandedBy(e, k, r)
  BY <1>1, <1>3, <1>5, <1>6 DEF ExpandedBy
<1> QED
  BY <1>2, <1>3, <1>7

\* Nothing is resolved at first.
THEOREM InitRInv == SourcesInit => RInv
BY DEF SourcesInit, RInv, RulesTypeOK, Entries

\* Resolving an entry gives it what its rules say, or fails.
LEMMA ResolveKeepsRInv ==
  ASSUME CcRulesAssumption, RInv, NEW e \in Entries, Resolve(e)
  PROVE  RInv'
<1>1. UNCHANGED config /\ load \in {"rules", "sources", "failed"}
  BY DEF Resolve, RInv, RulesTypeOK
<1>2. ConfigOK' /\ ConfigOK
  BY <1>1, RulesStay DEF RInv, RulesTypeOK
<1>3. CASE Undefined(e)
  <2>1. load' = "failed" /\ rules' = rules
    BY <1>3 DEF Resolve
  <2>2. \A d \in DOMAIN rules : ExpandedBy(d, Len(Expansions(d)), rules[d])'
    BY <1>1, <2>1, RulesStay DEF RInv
  <2> QED
    BY <1>2, <2>1, <2>2 DEF RInv, RulesTypeOK
<1>4. CASE ~Undefined(e)
  <2>1. /\ rules' = [d \in DOMAIN rules \cup {e} |-> IF d = e THEN Resolved(e) ELSE rules[d]]
        /\ load' = IF DOMAIN rules' = Entries THEN "sources" ELSE "rules"
    BY <1>4 DEF Resolve
  <2>2. Resolved(e) \in Table /\ ExpandedBy(e, Len(Expansions(e)), Resolved(e))
    BY <1>2, ResolvedIsExpanded
  <2>3. DOMAIN Resolved(e) \subseteq Single
    BY <2>2 DEF Table
  <2>4. \A d \in DOMAIN rules' : DOMAIN rules'[d] \subseteq Single
    BY <2>1, <2>3 DEF RInv, RulesTypeOK
  <2>5. \A d \in DOMAIN rules' : ExpandedBy(d, Len(Expansions(d)), rules'[d])
    BY <2>1, <2>2 DEF RInv
  <2>6. \A d \in DOMAIN rules' : ExpandedBy(d, Len(Expansions(d)), rules[d])'
    BY <1>1, <2>5, RulesStay
  <2>7. DOMAIN rules' \subseteq Entries
    BY <2>1 DEF RInv, RulesTypeOK
  <2> QED
    BY <1>2, <2>1, <2>4, <2>6, <2>7 DEF RInv, RulesTypeOK
<1> QED
  BY <1>3, <1>4

\* The claims that follow leave the settings alone.
THEOREM StepRInv == CcRulesAssumption /\ RInv /\ [SourcesNext]_<<vars, ccVars>> => RInv'
<1> SUFFICES ASSUME CcRulesAssumption, RInv, [SourcesNext]_<<vars, ccVars>> PROVE RInv'
  OBVIOUS
<1>1. CASE UNCHANGED ccVars
  <2>1. UNCHANGED config /\ load' = load /\ rules' = rules
    BY <1>1 DEF ccVars
  <2>2. \A d \in DOMAIN rules : ExpandedBy(d, Len(Expansions(d)), rules[d])'
    BY <2>1, RulesStay DEF RInv
  <2> QED
    BY <2>1, <2>2, RulesStay DEF RInv, RulesTypeOK
<1>2. ASSUME NEW e \in Entries, Resolve(e) PROVE RInv'
  BY <1>2, ResolveKeepsRInv
<1> QED
  BY <1>1, <1>2 DEF SourcesNext

\* Settings are only ever given to single files, and there are sources only when both
\* entries are resolved (_resolve_cc_info), for any files and any rules.
THEOREM RulesTypeCorrect == SourcesSpec => []RulesTypeOK
<1>1. RInv => RulesTypeOK
  BY DEF RInv
<1> QED
  BY CcRulesAssumption, <1>1, InitRInv, StepRInv, PTL DEF SourcesSpec

\* Loading and then claiming is claiming, as module Claims has it: what is proved of
\* the four loops holds of a project that is loaded.
THEOREM SourcesAreClaimed == SourcesSpec => Spec
<1>1. SourcesInit => Init
  BY DEF SourcesInit
<1>2. [SourcesNext]_<<vars, ccVars>> => [Next]_vars
  BY DEF SourcesNext
<1> QED
  BY <1>1, <1>2, PTL DEF SourcesSpec, Spec

-----------------------------------------------------------------------------
(* The documented order.                                                   *)

\* What two sequences have, one after the other.
LEMMA ElementsOfBoth ==
  ASSUME NEW T, NEW P \in Seq(T), NEW Q \in Seq(T)
  PROVE  /\ Len(P) \in Nat /\ Len(Q) \in Nat /\ Len(P \o Q) = Len(P) + Len(Q)
         /\ \A k \in 1..Len(P) : (P \o Q)[k] = P[k]
         /\ \A k \in (Len(P) + 1)..Len(P \o Q) : (P \o Q)[k] = Q[k - Len(P)]
OBVIOUS

\* A rule is for a file, by path or by bare name.
IsFor(pattern, p) == p \in Matching(pattern) \/ pattern \in {Bare(p)} \ Globs

\* The first rule for a file is one that no rule for it is before.
LEMMA FirstRuleIs ==
  ASSUME NEW T, NEW sequence \in Seq(T), NEW p
  PROVE  /\ (\A i \in 1..Len(sequence) : ~IsFor(sequence[i].pattern, p)) => FirstRule(sequence, p) = {}
         /\ \A i \in 1..Len(sequence) :
              IsFor(sequence[i].pattern, p) /\ (\A j \in 1..(i - 1) : ~IsFor(sequence[j].pattern, p)) =>
                FirstRule(sequence, p) = {sequence[i].config}
<1> DEFINE for == {i \in DOMAIN sequence : IsFor(sequence[i].pattern, p)}
           least == CHOOSE i \in for : \A j \in for : i <= j
<1>1. FirstRule(sequence, p) = IF for = {} THEN {} ELSE {sequence[least].config}
  BY DEF FirstRule, IsFor
<1>2. DOMAIN sequence = 1..Len(sequence) /\ Len(sequence) \in Nat
  OBVIOUS
<1>3. (\A i \in 1..Len(sequence) : ~IsFor(sequence[i].pattern, p)) => FirstRule(sequence, p) = {}
  BY <1>1, <1>2
<1>4. ASSUME NEW i \in 1..Len(sequence), IsFor(sequence[i].pattern, p),
             \A j \in 1..(i - 1) : ~IsFor(sequence[j].pattern, p)
      PROVE  FirstRule(sequence, p) = {sequence[i].config}
  <2>1. i \in for /\ \A j \in for : j \in Nat /\ i <= j
    BY <1>2, <1>4
  <2> HIDE DEF for
  <2>2. least \in for /\ \A j \in for : least <= j
    BY <2>1
  <2>3. least = i
    <3> HIDE DEF least
    <3> QED
      BY <2>1, <2>2
  <2> QED
    BY <1>1, <2>1, <2>3
<1> QED
  BY <1>3, <1>4

\* The first that is not empty of what is ranked.
TopOf(ranked) ==
  LET first == CHOOSE i \in DOMAIN ranked : ranked[i] # {} /\ \A j \in 1..(i - 1) : ranked[j] = {}
  IN  CHOOSE d \in ranked[first] : TRUE

\* It is the only one of the first that has any.
LEMMA FirstRanked ==
  ASSUME NEW A, NEW B, NEW C, NEW D, NEW E, NEW c
  PROVE  \/ A = {c}
         \/ A = {} /\ B = {c}
         \/ A = {} /\ B = {} /\ C = {c}
         \/ A = {} /\ B = {} /\ C = {} /\ D = {c}
         \/ A = {} /\ B = {} /\ C = {} /\ D = {} /\ E = {c}
         => TopOf(<<A, B, C, D, E>>) = c
<1> DEFINE ranked == <<A, B, C, D, E>>
           Is(i) == ranked[i] # {} /\ \A j \in 1..(i - 1) : ranked[j] = {}
           first == CHOOSE i \in DOMAIN ranked : Is(i)
<1>1. /\ DOMAIN ranked = 1..5
      /\ ranked[1] = A /\ ranked[2] = B /\ ranked[3] = C /\ ranked[4] = D /\ ranked[5] = E
  OBVIOUS
<1> HIDE DEF ranked
<1>2. ASSUME NEW i \in 1..5, ranked[i] = {c}, \A j \in 1..(i - 1) : ranked[j] = {}
      PROVE  (CHOOSE d \in ranked[first] : TRUE) = c
  <2>1. first \in 1..5 /\ Is(first)
    BY <1>1, <1>2
  <2>2. first = i
    <3> HIDE DEF first
    <3>1. ~(first < i) /\ ~(i < first)
      BY <1>2, <2>1
    <3> QED
      BY <2>1, <3>1
  <2> QED
    BY <1>2, <2>2
<1> HIDE DEF first
<1>3. ASSUME A = {c} PROVE (CHOOSE d \in ranked[first] : TRUE) = c
  BY <1>1, <1>2, <1>3
<1>4. ASSUME A = {}, B = {c} PROVE (CHOOSE d \in ranked[first] : TRUE) = c
  <2>1. \A j \in 1..(2 - 1) : ranked[j] = {}
    BY <1>1, <1>4
  <2> QED
    BY <1>1, <1>2, <1>4, <2>1
<1>5. ASSUME A = {}, B = {}, C = {c} PROVE (CHOOSE d \in ranked[first] : TRUE) = c
  <2>1. \A j \in 1..(3 - 1) : j = 1 \/ j = 2
    OBVIOUS
  <2>2. \A j \in 1..(3 - 1) : ranked[j] = {}
    BY <1>1, <1>5, <2>1
  <2> QED
    BY <1>1, <1>2, <1>5, <2>2
<1>6. ASSUME A = {}, B = {}, C = {}, D = {c} PROVE (CHOOSE d \in ranked[first] : TRUE) = c
  <2>1. \A j \in 1..(4 - 1) : j = 1 \/ j = 2 \/ j = 3
    OBVIOUS
  <2>2. \A j \in 1..(4 - 1) : ranked[j] = {}
    BY <1>1, <1>6, <2>1
  <2> QED
    BY <1>1, <1>2, <1>6, <2>2
<1>7. ASSUME A = {}, B = {}, C = {}, D = {}, E = {c} PROVE (CHOOSE d \in ranked[first] : TRUE) = c
  <2>1. \A j \in 1..(5 - 1) : j = 1 \/ j = 2 \/ j = 3 \/ j = 4
    OBVIOUS
  <2>2. \A j \in 1..(5 - 1) : ranked[j] = {}
    BY <1>1, <1>7, <2>1
  <2> QED
    BY <1>1, <1>2, <1>7, <2>2
<1> QED
  BY <1>3, <1>4, <1>5, <1>6, <1>7 DEF first, ranked, TopOf

\* The documented settings of a file: the direct ones, by path or else by bare name,
\* those of the first of presets and wildcards that is for it, or the default ones.
LEMMA DocumentedIs ==
  ASSUME CcRulesAssumption, ConfigOK, NEW s \in Source
  PROVE  LET e == EntryOf(s)
             p == PathOf[s]
             n == Len(Expansions(e))
             direct == written[e].direct
             For(k) == IsFor(Expansions(e)[k].pattern, p)
         IN  /\ p \in DOMAIN direct => Documented(s) = direct[p]
             /\ p \notin DOMAIN direct /\ Bare(p) \in DOMAIN direct => Documented(s) = direct[Bare(p)]
             /\ p \notin DOMAIN direct /\ Bare(p) \notin DOMAIN direct =>
                  /\ \A k \in 1..n : For(k) /\ (\A j \in 1..(k - 1) : ~For(j)) =>
                       Documented(s) = Expansions(e)[k].config
                  /\ (\A k \in 1..n : ~For(k)) => Documented(s) = default
<1> DEFINE e == EntryOf(s)
           p == PathOf[s]
           w == written[e]
           A == IF p \in DOMAIN w.direct THEN {w.direct[p]} ELSE {}
           B == IF Bare(p) \in DOMAIN w.direct THEN {w.direct[Bare(p)]} ELSE {}
           C == FirstRule(w.presets, p)
           D == FirstRule(w.wild, p)
           For(k) == IsFor(Expansions(e)[k].pattern, p)
           n == Len(Expansions(e))
<1>1. \A c : \/ A = {c}
             \/ A = {} /\ B = {c}
             \/ A = {} /\ B = {} /\ C = {c}
             \/ A = {} /\ B = {} /\ C = {} /\ D = {c}
             \/ A = {} /\ B = {} /\ C = {} /\ D = {} /\ {default} = {c}
             => Documented(s) = c
  <2>1. Documented(s) = TopOf(<<A, B, C, D, {default}>>)
    BY DEF Documented, TopOf
  <2> HIDE DEF A, B, C, D
  <2> QED
    BY <2>1, FirstRanked
<1>2. e \in Entries
  BY DEF EntryOf, Entries
<1>3. w \in Entry
  BY <1>2 DEF ConfigOK
<1> HIDE DEF e, w
<1>4. PICK T, U : w.presets \in Seq(T) /\ w.wild \in Seq(U)
  BY <1>3 DEF Entry, Rules
<1> DEFINE a == Len(w.presets)
           b == Len(w.wild)
<1>5. /\ a \in Nat /\ b \in Nat /\ n = a + b
      /\ \A k \in 1..a : Expansions(e)[k] = w.presets[k]
      /\ \A k \in (a + 1)..n : Expansions(e)[k] = w.wild[k - a]
  <2>1. T \in SUBSET (T \cup U) /\ U \in SUBSET (T \cup U)
    OBVIOUS
  <2>2. Seq(T) \subseteq Seq(T \cup U) /\ Seq(U) \subseteq Seq(T \cup U)
    BY <2>1, SeqGrows
  <2>3. w.presets \in Seq(T \cup U) /\ w.wild \in Seq(T \cup U)
    BY <1>4, <2>2
  <2>4. Expansions(e) = w.presets \o w.wild
    BY DEF Expansions, w
  <2> DEFINE P == w.presets
             Q == w.wild
  <2> HIDE DEF P, Q
  <2>5. P \in Seq(T \cup U) /\ Q \in Seq(T \cup U) /\ Expansions(e) = P \o Q
    BY <2>3, <2>4 DEF P, Q
  <2>6. /\ Len(P) \in Nat /\ Len(Q) \in Nat /\ Len(P \o Q) = Len(P) + Len(Q)
        /\ \A k \in 1..Len(P) : (P \o Q)[k] = P[k]
        /\ \A k \in (Len(P) + 1)..Len(P \o Q) : (P \o Q)[k] = Q[k - Len(P)]
    BY <2>5, ElementsOfBoth
  <2> QED
    BY <2>5, <2>6 DEF P, Q
<1>10. n = a + b /\ a \in Nat /\ b \in Nat
  BY <1>5
<1> HIDE DEF n, a, b
<1>6. ASSUME NEW k \in 1..n, For(k), \A j \in 1..(k - 1) : ~For(j)
      PROVE  C = {Expansions(e)[k].config} \/ (C = {} /\ D = {Expansions(e)[k].config})
  <2>1. CASE k <= a
    <3>1. k \in 1..a /\ \A j \in 1..(k - 1) : j \in 1..a
      BY <1>10, <2>1
    <3>2. /\ IsFor(w.presets[k].pattern, p)
          /\ \A j \in 1..(k - 1) : ~IsFor(w.presets[j].pattern, p)
      BY <1>5, <1>6, <3>1
    <3>3. C = {w.presets[k].config}
      BY <1>4, <3>1, <3>2, FirstRuleIs DEF a, b
    <3> QED
      BY <1>5, <3>1, <3>3
  <2>2. CASE ~(k <= a)
    <3> DEFINE i == k - a
    <3>1. /\ i \in 1..b /\ k \in (a + 1)..n
          /\ \A j \in 1..a : j \in 1..(k - 1)
          /\ \A j \in 1..(i - 1) : /\ j + a \in 1..(k - 1)
                                   /\ j + a \in (a + 1)..n
                                   /\ (j + a) - a = j
      BY <1>10, <2>2
    <3>2. C = {}
      <4>1. \A j \in 1..a : ~IsFor(w.presets[j].pattern, p)
        BY <1>5, <1>6, <3>1
      <4> QED
        BY <1>4, <4>1, FirstRuleIs DEF a, b
    <3>3. IsFor(w.wild[i].pattern, p) /\ Expansions(e)[k] = w.wild[i]
      BY <1>5, <1>6, <3>1
    <3>4. \A j \in 1..(i - 1) : ~IsFor(w.wild[j].pattern, p)
      BY <1>5, <1>6, <3>1
    <3> HIDE DEF i
    <3>5. D = {w.wild[i].config}
      BY <1>4, <3>1, <3>3, <3>4, FirstRuleIs DEF a, b
    <3> QED
      BY <3>2, <3>3, <3>5
  <2> QED
    BY <2>1, <2>2
<1>7. ASSUME \A k \in 1..n : ~For(k) PROVE C = {} /\ D = {}
  <2>0. \A j \in 1..a : j \in 1..n
    BY <1>10
  <2>1. \A j \in 1..a : ~IsFor(w.presets[j].pattern, p)
    BY <1>5, <1>7, <2>0
  <2>2. \A j \in 1..b : /\ j + a \in 1..n
                                  /\ j + a \in (a + 1)..n
                                  /\ (j + a) - a = j
    BY <1>10
  <2>3. \A j \in 1..b : ~IsFor(w.wild[j].pattern, p)
    BY <1>5, <1>7, <2>2
  <2> QED
    BY <1>4, <2>1, <2>3, FirstRuleIs DEF a, b
<1> HIDE DEF C, D, For
<1>8. /\ p \in DOMAIN w.direct => Documented(s) = w.direct[p]
      /\ p \notin DOMAIN w.direct /\ Bare(p) \in DOMAIN w.direct => Documented(s) = w.direct[Bare(p)]
  BY <1>1
<1>9. ASSUME p \notin DOMAIN w.direct, Bare(p) \notin DOMAIN w.direct
      PROVE  /\ \A k \in 1..n : For(k) /\ (\A j \in 1..(k - 1) : ~For(j)) =>
                  Documented(s) = Expansions(e)[k].config
             /\ (\A k \in 1..n : ~For(k)) => Documented(s) = default
  BY <1>1, <1>6, <1>7, <1>9
<1> QED
  BY <1>8, <1>9 DEF w, n, e, For

\* What an entry's rules name, of a file that is there and of a bare name.
LEMMA NamedIsFor ==
  ASSUME NEW s \in files, NEW k
  PROVE  LET e == EntryOf(s)
             p == PathOf[s]
             pattern == Expansions(e)[k].pattern
         IN  /\ p \in NamedBy(e, k) <=> p \in Matching(pattern)
             /\ pattern \in {Bare(p)} \ Globs => Bare(p) \in NamedBy(e, k)
             /\ Bare(p) \in NamedBy(e, k) =>
                  \/ pattern \in {Bare(p)} \ Globs
                  \/ pattern \in Globs /\ Bare(p) \in FnMatches[pattern]
<1>1. PathOf[s] \in FilesOf(EntryOf(s))
  BY DEF FilesOf
<1> QED
  BY <1>1 DEF NamedBy, Matching

\* Where the bare name of a file does not mislead, and none of the two is ignored,
\* what its entry's rules give it is what is documented.
LEMMA SettingsAreDocumented ==
  ASSUME CcRulesAssumption, RInv, DOMAIN rules = Entries, NEW s \in files,
         ~MisledByBareName(s), PathOf[s] \notin Ignored(EntryOf(s)),
         Bare(PathOf[s]) \notin Ignored(EntryOf(s))
  PROVE  Settings(s) = Documented(s)
<1> DEFINE e == EntryOf(s)
           p == PathOf[s]
           n == Len(Expansions(e))
           own == rules[e]
           direct == written[e].direct
           For(k) == IsFor(Expansions(e)[k].pattern, p)
<1>1. /\ s \in Source /\ e \in Entries /\ ConfigOK
      /\ ExpandedBy(e, n, own)
  BY DEF RInv, RulesTypeOK, ConfigOK, EntryOf, Entries
<1>2. n \in Nat
  BY <1>1, ExpansionsTyped
<1>3. /\ p \in DOMAIN own => Settings(s) = own[p]
      /\ p \notin DOMAIN own /\ Bare(p) \in DOMAIN own => Settings(s) = own[Bare(p)]
      /\ p \notin DOMAIN own /\ Bare(p) \notin DOMAIN own => Settings(s) = default
  BY DEF Settings
<1>4. /\ p \in DOMAIN direct => Documented(s) = direct[p]
      /\ p \notin DOMAIN direct /\ Bare(p) \in DOMAIN direct => Documented(s) = direct[Bare(p)]
  BY <1>1, DocumentedIs
<1>5. p \notin DOMAIN direct /\ Bare(p) \notin DOMAIN direct =>
        /\ \A k \in 1..n : For(k) /\ (\A j \in 1..(k - 1) : ~For(j)) =>
             Documented(s) = Expansions(e)[k].config
        /\ (\A k \in 1..n : ~For(k)) => Documented(s) = default
  BY <1>1, DocumentedIs
<1>6. \A q \in {p, Bare(p)} :
        q \in DOMAIN own <=> q \in DOMAIN direct \/ \E i \in 1..n : q \in NamedBy(e, i)
  BY <1>1 DEF ExpandedBy
<1>7. /\ \A q \in DOMAIN direct : own[q] = direct[q]
      /\ \A q \in DOMAIN own \ DOMAIN direct : \E i \in 1..n :
           /\ q \in NamedBy(e, i) /\ \A j \in 1..(i - 1) : q \notin NamedBy(e, j)
           /\ own[q] = Expansions(e)[i].config
  BY <1>1 DEF ExpandedBy
<1>8. \A k \in 1..n : /\ For(k) <=> \/ p \in NamedBy(e, k)
                                    \/ Expansions(e)[k].pattern \in {Bare(p)} \ Globs
                      /\ Expansions(e)[k].pattern \in {Bare(p)} \ Globs => Bare(p) \in NamedBy(e, k)
  BY NamedIsFor DEF IsFor
<1>9. \A k \in 1..n : Bare(p) \in NamedBy(e, k) =>
        \/ Expansions(e)[k].pattern \in {Bare(p)} \ Globs
        \/ Expansions(e)[k].pattern \in Globs /\ Bare(p) \in FnMatches[Expansions(e)[k].pattern]
  BY NamedIsFor
<1>10. Bare(p) # p /\ Bare(p) \in DOMAIN own /\ p \notin DOMAIN direct =>
         /\ p \notin DOMAIN own
         /\ \A k \in DOMAIN Expansions(e) :
              ~(Expansions(e)[k].pattern \in Globs /\ Bare(p) \in FnMatches[Expansions(e)[k].pattern])
  BY DEF MisledByBareName
<1>11. DOMAIN Expansions(e) = 1..n
  BY <1>1, ExpansionsTyped
<1> HIDE DEF n, own, direct, e, p, For
<1>12. CASE p \in DOMAIN direct
  BY <1>3, <1>4, <1>6, <1>7, <1>12
<1>13. CASE p \notin DOMAIN direct /\ p \in DOMAIN own
  <2>1. PICK i \in 1..n : /\ p \in NamedBy(e, i) /\ \A j \in 1..(i - 1) : p \notin NamedBy(e, j)
                          /\ own[p] = Expansions(e)[i].config
    BY <1>7, <1>13
  <2>2. Bare(p) = p \/ Bare(p) \notin DOMAIN own
    BY <1>10, <1>13
  <2>3. Bare(p) \notin DOMAIN direct
    BY <1>6, <1>13, <2>2
  <2>4. \A k \in 1..n : For(k) <=> p \in NamedBy(e, k)
    BY <1>6, <1>8, <2>2
  <2>5. \A j \in 1..(i - 1) : j \in 1..n
    BY <1>2
  <2>6. Documented(s) = Expansions(e)[i].config
    BY <1>5, <1>13, <2>1, <2>3, <2>4, <2>5
  <2> QED
    BY <1>3, <1>13, <2>1, <2>6
<1>14. CASE p \notin DOMAIN own /\ Bare(p) \in DOMAIN own
  <2>1. p \notin DOMAIN direct /\ \A k \in 1..n : p \notin NamedBy(e, k)
    BY <1>6, <1>14
  <2>2. \A k \in 1..n : For(k) <=> Bare(p) \in NamedBy(e, k)
    BY <1>8, <1>9, <1>10, <1>11, <1>14, <2>1
  <2>3. CASE Bare(p) \in DOMAIN direct
    BY <1>3, <1>4, <1>7, <1>14, <2>1, <2>3
  <2>4. CASE Bare(p) \notin DOMAIN direct
    <3>1. PICK i \in 1..n : /\ Bare(p) \in NamedBy(e, i)
                            /\ \A j \in 1..(i - 1) : Bare(p) \notin NamedBy(e, j)
                            /\ own[Bare(p)] = Expansions(e)[i].config
      BY <1>7, <1>14, <2>4
    <3>2. \A j \in 1..(i - 1) : j \in 1..n
      BY <1>2
    <3>3. Documented(s) = Expansions(e)[i].config
      BY <1>5, <2>1, <2>2, <2>4, <3>1, <3>2
    <3> QED
      BY <1>3, <1>14, <3>1, <3>3
  <2> QED
    BY <2>3, <2>4
<1>15. CASE p \notin DOMAIN own /\ Bare(p) \notin DOMAIN own
  <2>1. p \notin DOMAIN direct /\ Bare(p) \notin DOMAIN direct
    BY <1>6, <1>15
  <2>2. \A k \in 1..n : ~For(k)
    BY <1>6, <1>8, <1>15
  <2> QED
    BY <1>3, <1>5, <1>15, <2>1, <2>2
<1> QED
  BY <1>12, <1>13, <1>14, <1>15

\* The first rule wins in the order README.md:300 documents, for any files, any rules
\* and any globs, where the bare name of the file does not mislead.
THEOREM RulesAreDocumented == SourcesSpec => []DocumentedRuleWins
<1>1. CcRulesAssumption /\ RInv => DocumentedRuleWins
  <2> SUFFICES ASSUME CcRulesAssumption, RInv, load = "sources", NEW s \in Gathered,
                      ~MisledByBareName(s),
                      {PathOf[s], Bare(PathOf[s])} \cap Ignored(EntryOf(s)) = {}
               PROVE  Settings(s) = Documented(s)
    BY DEF DocumentedRuleWins
  <2>1. s \in files /\ DOMAIN rules = Entries
    BY DEF Gathered, RInv, RulesTypeOK
  <2> QED
    BY <2>1, SettingsAreDocumented
<1> QED
  BY CcRulesAssumption, <1>1, InitRInv, StepRInv, PTL DEF SourcesSpec
=============================================================================
