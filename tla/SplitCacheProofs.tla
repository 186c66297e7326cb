-------------------------- MODULE SplitCacheProofs --------------------------
(***************************************************************************)
(* What SplitCache promises for every project, in whatever order the user  *)
(* edits, runs, stops and cleans, also under a run: a stamp stands for a   *)
(* whole and current split, but where it is tainted; a run takes apart     *)
(* only what is not current; and the cache implements SplitStore.          *)
(***************************************************************************)
EXTENDS SplitCache, TLAPS

\* The inputs a stamp `k` vouches for, under the exheader of this project.
From(k) == [orig |-> k.orig, csv |-> k.csv, exheader |-> exheader]

\* A run works on the inputs as they are, those touched under it apart.
SnapshotIsCurrent ==
  pc # "idle" =>
    \A b \in Binary \ touched : loaded.csv[b] = csv[b] /\ loaded.exheader = exheader

\* An untainted stamp vouches for the whole directory, for the inputs it names:
\* also for those that are not the current ones, which an edit may bring back.
StampMeansComplete ==
  \A b \in Binary \ tainted : stamp[b] # None => objs[b] = SplitOf(From(stamp[b]))

\* A directory is emptied because its stamp does not match the inputs; while it
\* is being written it has no stamp, and what is not in `left`
\* is in place.
WritingSoFar ==
  /\ pc \in {"stale", "write"} /\ cur \notin touched => key = SplitKey(cur)
  /\ pc = "stale" => stamp[cur] # key
  /\ pc = "write" =>
       /\ stamp[cur] = None
       /\ left \subseteq PieceNames[loaded.csv[cur]]
       /\ objs[cur] = [n \in Name |-> IF n \in PieceNames[loaded.csv[cur]] \ left
                                      THEN SplitFrom(cur) ELSE None]

IInv == TypeOK /\ SnapshotIsCurrent /\ StampMeansComplete /\ WritingSoFar

-----------------------------------------------------------------------------
\* Every variable keeps its type, whatever the disturbances.
THEOREM TypeCorrect == Spec => []TypeOK
<1>1. Init => TypeOK
  BY SplitCacheAssumption DEF Init, TypeOK, NoObjects, Project
<1>2. TypeOK /\ [Next]_vars => TypeOK'
  <2> SUFFICES ASSUME TypeOK, [Next]_vars PROVE TypeOK'
    OBVIOUS
  <2> USE SplitCacheAssumption DEF TypeOK, inputs, split, run, hist
  <2>1. ASSUME NEW b \in Binary, UpToDate(b) PROVE TypeOK'
    BY <2>1 DEF UpToDate
  <2>2. ASSUME NEW b \in Binary, OutOfDate(b) PROVE TypeOK'
    BY <2>2 DEF OutOfDate, SplitKey, Key, Project
  <2>3. CASE RemoveDir
    BY <2>3 DEF RemoveDir, NoObjects, Project
  <2>4. ASSUME NEW n \in Name, WriteObject(n) PROVE TypeOK'
    BY <2>4 DEF WriteObject, SplitFrom, CutFrom, Project
  <2>5. CASE WriteStamp
    BY <2>5 DEF WriteStamp
  <2>6. CASE SplitRaises
    BY <2>6 DEF SplitRaises, Ended
  <2>7. CASE Finish
    BY <2>7 DEF Finish, Ended
  <2>8. CASE Load
    BY <2>8 DEF Load, Project
  <2>9. CASE Stop
    BY <2>9 DEF Stop, Ended
  <2>10. CASE CleanSplit
    BY <2>10 DEF CleanSplit, NoObjects
  <2>11. ASSUME NEW b \in Binary, NEW o \in Orig, EditOrig(b, o) PROVE TypeOK'
    BY <2>11 DEF EditOrig, MayEdit
  <2>12. ASSUME NEW b \in Binary, NEW c \in Csv, EditCsv(b, c) PROVE TypeOK'
    BY <2>12 DEF EditCsv, MayEdit
  <2>13. ASSUME NEW x \in Exheader, EditExheader(x) PROVE TypeOK'
    BY <2>13 DEF EditExheader, MayEdit
  <2>14. ASSUME NEW b \in Binary, RemovalCutShort(b) PROVE TypeOK'
    BY <2>14 DEF RemovalCutShort, Ended
  <2>15. CASE UNCHANGED vars
    BY <2>15 DEF vars
  <2>16. QED
    BY <2>1, <2>2, <2>3, <2>4, <2>5, <2>6, <2>7, <2>8, <2>9, <2>10, <2>11, <2>12,
       <2>13, <2>14, <2>15 DEF Next, RunStep, UserStep
<1>3. QED
  BY <1>1, <1>2, PTL DEF Spec

-----------------------------------------------------------------------------
LEMMA InitIInv == Init => IInv
  BY SplitCacheAssumption
  DEF Init, IInv, TypeOK, NoObjects, Project, SnapshotIsCurrent, StampMeansComplete,
      WritingSoFar

\* Each step of the run and of the user keeps the invariant.
LEMMA StepIInv ==
  ASSUME IInv, TypeOK', [Next]_vars
  PROVE  IInv'
<1> USE SplitCacheAssumption DEF inputs, split, run, hist, IInv, SplitOf, From
<1> SUFFICES SnapshotIsCurrent' /\ StampMeansComplete' /\ WritingSoFar'
  OBVIOUS
<1>1. ASSUME NEW b \in Binary, UpToDate(b)
      PROVE  SnapshotIsCurrent' /\ StampMeansComplete' /\ WritingSoFar'
  BY <1>1 DEF UpToDate, TypeOK, SnapshotIsCurrent, StampMeansComplete, WritingSoFar
<1>2. ASSUME NEW b \in Binary, OutOfDate(b)
      PROVE  SnapshotIsCurrent' /\ StampMeansComplete' /\ WritingSoFar'
  BY <1>2 DEF OutOfDate, TypeOK, SnapshotIsCurrent, StampMeansComplete, WritingSoFar,
              SplitKey
<1>3. CASE RemoveDir
  <2>1. SnapshotIsCurrent'
    BY <1>3 DEF RemoveDir, SnapshotIsCurrent
  <2>2. StampMeansComplete'
    BY <1>3 DEF RemoveDir, TypeOK, StampMeansComplete
  <2>3. WritingSoFar'
    BY <1>3 DEF RemoveDir, TypeOK, SnapshotIsCurrent, WritingSoFar, SplitKey, NoObjects,
                SplitFrom
  <2>4. QED
    BY <2>1, <2>2, <2>3
<1>4. ASSUME NEW n \in Name, WriteObject(n)
      PROVE  SnapshotIsCurrent' /\ StampMeansComplete' /\ WritingSoFar'
  <2>1. SnapshotIsCurrent'
    BY <1>4 DEF WriteObject, SnapshotIsCurrent
  <2>2. StampMeansComplete'
    BY <1>4 DEF WriteObject, TypeOK, StampMeansComplete, WritingSoFar
  <2>3. WritingSoFar'
    <3> DEFINE Placed(l) == [m \in Name |-> IF m \in PieceNames[loaded.csv[cur]] \ l
                                            THEN SplitFrom(cur) ELSE None]
    <3>1. /\ pc' = "write" /\ cur' = cur /\ loaded' = loaded /\ key' = key /\ stamp' = stamp
          /\ touched' = touched
          /\ SplitKey(cur)' = SplitKey(cur) /\ SplitFrom(cur)' = SplitFrom(cur)
          /\ cur \in Binary /\ n \in PieceNames[loaded.csv[cur]]
      BY <1>4 DEF WriteObject, TypeOK, WritingSoFar, SplitKey, SplitFrom
    <3>2. objs'[cur] = [objs[cur] EXCEPT ![n] = SplitFrom(cur)]
      BY <1>4 DEF WriteObject, TypeOK
    <3>3. objs[cur] = Placed(left)
      BY <1>4 DEF WriteObject, WritingSoFar
    <3>4. [Placed(left) EXCEPT ![n] = SplitFrom(cur)] = Placed(left \ {n})
      BY <3>1
    <3>5. objs'[cur] = Placed(left')
      BY <1>4, <3>2, <3>3, <3>4 DEF WriteObject
    <3>6. QED
      BY <1>4, <3>1, <3>5 DEF WriteObject, WritingSoFar
  <2>4. QED
    BY <2>1, <2>2, <2>3
<1>5. CASE WriteStamp
  <2>1. SnapshotIsCurrent'
    BY <1>5 DEF WriteStamp, SnapshotIsCurrent
  <2>2. cur \notin touched => objs[cur] = SplitOf(From(key))
    BY <1>5 DEF WriteStamp, TypeOK, WritingSoFar, SplitKey, SplitFrom, SnapshotIsCurrent
  <2>3. StampMeansComplete'
    BY <1>5, <2>2 DEF WriteStamp, TypeOK, StampMeansComplete
  <2>4. WritingSoFar'
    BY <1>5 DEF WriteStamp, WritingSoFar
  <2>5. QED
    BY <2>1, <2>3, <2>4
<1>6. CASE SplitRaises \/ Finish \/ Stop
  BY <1>6 DEF SplitRaises, Finish, Stop, Ended, SnapshotIsCurrent, StampMeansComplete,
              WritingSoFar
<1>7. CASE Load
  BY <1>7 DEF Load, SnapshotIsCurrent, StampMeansComplete, WritingSoFar
<1>8. CASE CleanSplit
  BY <1>8 DEF CleanSplit, TypeOK, SnapshotIsCurrent, StampMeansComplete, WritingSoFar
<1>9. ASSUME NEW b \in Binary, NEW v, EditOrig(b, v)
      PROVE  SnapshotIsCurrent' /\ StampMeansComplete' /\ WritingSoFar'
  BY <1>9 DEF EditOrig, MayEdit, SnapshotIsCurrent, StampMeansComplete, WritingSoFar,
              SplitKey, SplitFrom
<1>10. ASSUME NEW b \in Binary, NEW v, EditCsv(b, v)
       PROVE  SnapshotIsCurrent' /\ StampMeansComplete' /\ WritingSoFar'
  BY <1>10 DEF EditCsv, MayEdit, TypeOK, SnapshotIsCurrent, StampMeansComplete,
               WritingSoFar, SplitKey, SplitFrom
<1>11. ASSUME NEW x \in Exheader, EditExheader(x)
       PROVE  SnapshotIsCurrent' /\ StampMeansComplete' /\ WritingSoFar'
  BY <1>11 DEF EditExheader, MayEdit, TypeOK, SnapshotIsCurrent, StampMeansComplete,
               WritingSoFar, SplitKey, SplitFrom
<1>12. ASSUME NEW b \in Binary, RemovalCutShort(b)
       PROVE  SnapshotIsCurrent' /\ StampMeansComplete' /\ WritingSoFar'
  BY <1>12 DEF RemovalCutShort, Ended, TypeOK, SnapshotIsCurrent, StampMeansComplete,
               WritingSoFar
<1>13. CASE UNCHANGED vars
  BY <1>13 DEF vars, SnapshotIsCurrent, StampMeansComplete, WritingSoFar, SplitKey,
               SplitFrom
<1>14. QED
  BY <1>1, <1>2, <1>3, <1>4, <1>5, <1>6, <1>7, <1>8, <1>9, <1>10, <1>11, <1>12, <1>13
  DEF Next, RunStep, UserStep

\* An untainted stamp that matches the inputs vouches for exactly the objects a
\* split from scratch would write, for any project, edits and interruptions.
THEOREM UpToDateSplitIsComplete == Spec => []UpToDateIsComplete
<1>1. IInv /\ [Next]_vars /\ TypeOK' => IInv'
  BY StepIInv
<1>2. IInv => UpToDateIsComplete
  BY SplitCacheAssumption, SMTT(60)
  DEF IInv, TypeOK, StampMeansComplete, UpToDateIsComplete, From, Key
<1>3. QED
  BY <1>1, <1>2, InitIInv, TypeCorrect, PTL DEF Spec

\* A run takes apart only what is not current, for any project.
THEOREM RunKeepsCurrentSplit == Spec => KeepsCurrentSplit
<1> DEFINE Kept == \A b \in Binary \ touched :
                     pc # "idle" /\ stamp[b] = SplitKey(b)
                     => objs'[b] = objs[b] /\ stamp'[b] = stamp[b]
<1>1. IInv /\ [Next]_vars /\ TypeOK' => IInv'
  BY StepIInv
<1>2. IInv /\ [Next]_vars => [Kept]_vars
  <2> SUFFICES ASSUME IInv, Next, NEW b \in Binary \ touched,
                      pc # "idle", stamp[b] = SplitKey(b)
               PROVE  objs'[b] = objs[b] /\ stamp'[b] = stamp[b]
    OBVIOUS
  <2> USE SplitCacheAssumption DEF inputs, split, run, IInv
  <2>1. SplitKey(b) # None
    BY DEF TypeOK, SplitKey, Project
  <2>2. CASE RemoveDir
    \* The directory removed is one whose stamp was found not to match.
    <3>1. cur # b
      BY <2>2 DEF RemoveDir, WritingSoFar
    <3>2. QED
      BY <2>2, <3>1 DEF RemoveDir, TypeOK
  <2>3. ASSUME NEW n \in Name, WriteObject(n)
        PROVE  objs'[b] = objs[b] /\ stamp'[b] = stamp[b]
    BY <2>1, <2>3 DEF WriteObject, TypeOK, WritingSoFar
  <2>4. CASE WriteStamp
    BY <2>1, <2>4 DEF WriteStamp, TypeOK, WritingSoFar
  <2>5. ASSUME NEW c \in Binary, UpToDate(c) \/ OutOfDate(c)
        PROVE  objs'[b] = objs[b] /\ stamp'[b] = stamp[b]
    BY <2>5 DEF UpToDate, OutOfDate
  <2>6. CASE SplitRaises \/ Finish \/ Stop
    BY <2>6 DEF SplitRaises, Finish, Stop
  <2>7. ~Load /\ ~CleanSplit
    BY DEF Load, CleanSplit
  <2>8. ASSUME NEW c \in Binary, NEW v, EditOrig(c, v) \/ EditCsv(c, v) \/ EditExheader(v)
        PROVE  objs'[b] = objs[b] /\ stamp'[b] = stamp[b]
    BY <2>8 DEF EditOrig, EditCsv, EditExheader, MayEdit
  <2>9. ASSUME NEW c \in Binary, RemovalCutShort(c)
        PROVE  objs'[b] = objs[b] /\ stamp'[b] = stamp[b]
    \* A removal that can be cut short under a run is that of a stale directory.
    <3>1. c # b
      BY <2>9 DEF RemovalCutShort, WritingSoFar
    <3>2. QED
      BY <2>9, <3>1 DEF RemovalCutShort, TypeOK
  <2>10. QED
    BY <2>2, <2>3, <2>4, <2>5, <2>6, <2>7, <2>8, <2>9 DEF Next, RunStep, UserStep
<1>3. QED
  BY <1>1, <1>2, InitIInv, TypeCorrect, PTL DEF Spec, KeepsCurrentSplit

-----------------------------------------------------------------------------
\* Each step of the cache is a step of the store or changes nothing it shows:
\* writing an untainted stamp publishes, everything that takes a stamp away or
\* taints it withdraws, and what is vouched for is otherwise left alone.
LEMMA StepStore ==
  ASSUME IInv, TypeOK', [Next]_vars
  PROVE  [Store!Next]_(Store!vars)
<1> USE SplitCacheAssumption DEF inputs, split, run, hist, IInv
<1> SUFFICES Store!Next \/ (objs' = objs /\ Vouched' = Vouched)
  BY DEF Store!vars
<1> DEFINE Step(bs) ==
      /\ \A b \in bs : Vouched'[b] = None
      /\ \A b \in Binary \ bs : objs'[b] = objs[b] /\ Vouched'[b] = Vouched[b]
<1>0. ASSUME NEW bs \in SUBSET Binary, Step(bs)
      PROVE  Store!Next
  BY <1>0 DEF Store!Next, Store!Rework
<1> HIDE DEF Step
<1>1. ASSUME NEW b \in Binary, UpToDate(b) \/ OutOfDate(b)
      PROVE  objs' = objs /\ Vouched' = Vouched
  BY <1>1 DEF UpToDate, OutOfDate, Vouched
<1>2. CASE RemoveDir
  <2>1. Step({cur}) /\ cur \in Binary
    BY <1>2 DEF RemoveDir, TypeOK, Vouched, Step
  <2>2. QED
    BY <1>0, <2>1
<1>3. ASSUME NEW n \in Name, WriteObject(n)
      PROVE  Store!Next
  <2>1. Step({cur}) /\ cur \in Binary
    BY <1>3 DEF WriteObject, TypeOK, Vouched, WritingSoFar, Step
  <2>2. QED
    BY <1>0, <2>1
<1>4. CASE WriteStamp /\ cur \in touched
  <2>1. Step({cur}) /\ cur \in Binary
    BY <1>4 DEF WriteStamp, TypeOK, Vouched, Step
  <2>2. QED
    BY <1>0, <2>1
<1>5. CASE WriteStamp /\ cur \notin touched
  <2>1. /\ cur \in Binary /\ key \in Key /\ key # None
        /\ stamp' = [stamp EXCEPT ![cur] = key] /\ tainted' = tainted \ {cur}
        /\ objs' = objs /\ exheader' = exheader
    BY <1>5 DEF WriteStamp, TypeOK, Key
  <2>2. Vouched[cur] = None
    BY <1>5, <2>1 DEF WriteStamp, WritingSoFar, Vouched
  <2>3. From(key) \in CutFrom
    BY <2>1 DEF From, Key, CutFrom, TypeOK
  <2>4. objs[cur] = SplitOf(From(key))
    BY <1>5 DEF WriteStamp, TypeOK, WritingSoFar, SplitKey, SplitFrom, SnapshotIsCurrent,
                SplitOf, From
  <2>5. Vouched' = [Vouched EXCEPT ![cur] = From(key)]
    BY <2>1 DEF Vouched, From, TypeOK
  <2>6. Store!Publish(cur)
    BY <2>1, <2>2, <2>3, <2>4, <2>5 DEF Store!Publish
  <2>7. QED
    BY <2>1, <2>6 DEF Store!Next
<1>6. CASE SplitRaises \/ Finish \/ Stop \/ Load
  BY <1>6 DEF SplitRaises, Finish, Stop, Load, Vouched
<1>7. CASE CleanSplit
  <2>1. Step(Binary)
    BY <1>7 DEF CleanSplit, Vouched, Step
  <2>2. QED
    BY <1>0, <2>1
<1>8. ASSUME NEW b \in Binary, NEW v, EditOrig(b, v) \/ EditCsv(b, v)
      PROVE  objs' = objs /\ Vouched' = Vouched
  BY <1>8 DEF EditOrig, EditCsv, MayEdit, Vouched
<1>9. ASSUME NEW x \in Exheader, EditExheader(x)
      PROVE  Store!Next
  <2>1. Step(Binary)
    BY <1>9 DEF EditExheader, MayEdit, Vouched, Step
  <2>2. QED
    BY <1>0, <2>1
<1>10. ASSUME NEW b \in Binary, RemovalCutShort(b)
       PROVE  Store!Next
  <2>1. Step({b})
    BY <1>10 DEF RemovalCutShort, TypeOK, Vouched, Step
  <2>2. QED
    BY <1>0, <2>1
<1>11. CASE UNCHANGED vars
  BY <1>11 DEF vars, Vouched
<1>12. QED
  BY <1>1, <1>2, <1>3, <1>4, <1>5, <1>6, <1>7, <1>8, <1>9, <1>10, <1>11
  DEF Next, RunStep, UserStep

\* The split cache implements the store of whole splits, for any project.
THEOREM CacheImplementsStore == Spec => ImplementsStore
<1>1. Init => Store!Init
  BY DEF Init, Store!Init, Vouched
<1>2. IInv /\ [Next]_vars /\ TypeOK' => IInv'
  BY StepIInv
<1>3. IInv /\ [Next]_vars /\ TypeOK' => [Store!Next]_(Store!vars)
  BY StepStore
<1>4. QED
  BY <1>1, <1>2, <1>3, InitIInv, TypeCorrect, PTL DEF Spec, ImplementsStore, Store!Spec
=============================================================================
