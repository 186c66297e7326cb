---------------------------- MODULE BuildProofs -----------------------------
(***************************************************************************)
(* Proofs about Build for any project.                                     *)
(*                                                                         *)
(* First, whatever is edited, interrupted and done by hand, and whatever   *)
(* ninja runs at once: a failed compile leaves alone all that is           *)
(* published, any failure leaves the report (IInv), and every file and     *)
(* record is of its kind (TInv).                                           *)
(*                                                                         *)
(* Then, for a user who edits, builds, interrupts and cleans: after a      *)
(* build nothing on disk is older than what it is made from.  The          *)
(* inductive invariant is FInv (BuildFresh) with IInv.  After lemmas about *)
(* the files, and one per kind of file on how what is recorded of it       *)
(* outlives a step, each section takes one part of a build: edits, `load`  *)
(* and the scans, the choice of what is dirty, a command's start, its      *)
(* finish, and the end of the run.                                         *)
(***************************************************************************)
EXTENDS BuildFresh, SourceMapProofs

Phases == {"idle", "loaded", "scan", "rebuild", "build"}

\* Files have what they hold, and a build in progress has no outcome.
BuildIsOn ==
  /\ disk = [o \in Output |-> disk[o]]
  /\ pc \in Phases
  /\ pc # "idle" => outcome = "none"

\* What each ninja run has in hand.  The one that makes build.ninja makes objects
\* and nothing that is published; the one that publishes makes no object, since an
\* object that is dirty makes build.ninja dirty.
PlanOfPhase ==
  /\ busy \cap failed = {}
  /\ pc \in {"idle", "loaded", "scan"} => busy = {} /\ failed = {}
  /\ pc = "rebuild" => plan \cup busy \cup failed \subseteq Objects \cup {Manifest}
  /\ pc = "build" => /\ plan \subseteq Published /\ busy \subseteq plan
                     /\ failed \subseteq plan \cap {Base}
                     /\ Base \in plan => HasBase(G)

\* Until the second run nothing is published, and in it the report comes when the
\* base no longer can fail.
PublishedLast ==
  /\ pc \in {"loaded", "scan", "rebuild"} => \A o \in Published : disk[o] = before[o]
  /\ pc = "build" /\ (Report \in busy \/ disk[Report] # before[Report]) => Base \notin plan

IInv == /\ BuildIsOn /\ PlanOfPhase /\ PublishedLast
        /\ CompileFailureKeepsPublished /\ FailureKeepsReport

\* What a build reads is there when it does: the project it loaded, build.ninja while
\* ninja goes by it, and the target before the report is measured.
ReadIsThere ==
  /\ pc = "loaded" => loaded # None
  /\ pc \in {"scan", "rebuild", "build"} => G # None
  /\ Manifest \in busy => result[Manifest] # None
  /\ Target \in busy => result[Target] # None
  /\ pc = "build" /\ Target \notin plan => disk[Target] # None

TInv == TypeOK /\ ReadIsThere

-----------------------------------------------------------------------------
\* Files have different names.
LEMMA FileNames ==
  /\ Base # Manifest /\ Base # Report /\ Report # Manifest
  /\ Base \notin Objects /\ Report \notin Objects /\ Manifest \notin Objects
  /\ Published \cap (Objects \cup {Manifest}) = {}
  /\ Base \in Published /\ Report \in Published
  /\ Output = Objects \cup {Manifest} \cup Published
  /\ \A s \in Source : Src(s) \notin Output
  /\ \A o \in Objects : \E s \in Source : o = Obj(s) /\ o[2] = s
<1>1. Base # Manifest /\ Base # Report /\ Report # Manifest
  BY DEF Base, Manifest, Report
<1>2. \A o \in Objects : \E s \in Source : o = Obj(s) /\ o[2] = s /\ o[1] = "obj"
  BY DEF Objects, Obj
<1>3. \A o \in Published \cup {Manifest} : o[1] # "obj" /\ o[1] # "src"
  BY DEF Published, Base, Target, Json, Report, Manifest
<1>4. \A s \in Source : Src(s)[1] = "src"
  BY DEF Src
<1>5. Base \in Published /\ Report \in Published
  BY DEF Published
<1>6. Manifest \notin Published
  BY DEF Published, Base, Target, Json, Report, Manifest
<1>7. (Published \cup {Manifest}) \cap Objects = {}
  BY <1>2, <1>3
<1>8. Output = Objects \cup {Manifest} \cup Published
  BY DEF Output
<1>9. \A s \in Source : Src(s) \notin Output
  <2>1. \A o \in Output : o[1] # "src"
    BY <1>2, <1>3, <1>8
  <2> QED
    BY <2>1, <1>4
<1> QED
  BY <1>1, <1>2, <1>5, <1>6, <1>7, <1>8, <1>9

\* What an object, build.ninja and the report are made from.
LEMMA InputsOf ==
  /\ \A m, s : s \in Source => Inputs(m, Obj(s)) = {Src(s)}
  /\ \A m : Inputs(m, Manifest) = ObjectsOf(m) \cup {CsvFile, CcYaml}
  /\ \A m : HasBase(m) => Base \in Inputs(m, Report)
<1>1. ASSUME NEW m, NEW s \in Source PROVE Inputs(m, Obj(s)) = {Src(s)}
  <2>1. Obj(s) \in Objects /\ Obj(s)[2] = s
    BY DEF Objects, Obj
  <2>2. /\ Obj(s) # Manifest /\ Obj(s) # Base /\ Obj(s) # Target
        /\ Obj(s) # Json /\ Obj(s) # Report
    BY DEF Obj, Manifest, Base, Target, Json, Report
  <2>3. Inputs(m, Obj(s)) = {Src(Obj(s)[2])}
    BY <2>1, <2>2, Zenon DEF Inputs
  <2> QED
    BY <2>1, <2>3
<1>2. ASSUME NEW m PROVE Inputs(m, Manifest) = ManifestInputs(m)
  <2>1. Manifest \notin Objects
    BY FileNames
  <2>2. Manifest # Base /\ Manifest # Target /\ Manifest # Json /\ Manifest # Report
    BY DEF Manifest, Base, Target, Json, Report
  <2> QED
    BY <2>1, <2>2, Zenon DEF Inputs
<1>3. ASSUME NEW m PROVE Inputs(m, Report) = ReportInputs(m)
  <2>1. Report \notin Objects
    BY FileNames
  <2>2. Report # Base /\ Report # Target /\ Report # Json /\ Report # Manifest
    BY DEF Manifest, Base, Target, Json, Report
  <2> QED
    BY <2>1, <2>2, Zenon DEF Inputs
<1> QED
  BY <1>1, <1>2, <1>3 DEF ManifestInputs, ReportInputs, BaseOf

\* All that is dirty is of the graph, and where build.ninja is not, no object is.
LEMMA DirtyObjects ==
  ASSUME G.srcs \subseteq Source
  PROVE  Dirty \subseteq Edges(G) /\ (Manifest \notin Dirty => Dirty \cap Objects = {})
<1> DEFINE Dependents(D) == D \cup {o \in Edges(G) : Inputs(G, o) \cap D # {}}
           D0 == {o \in Edges(G) : OutOfDate(o)}
           D1 == Dependents(D0)
           D2 == Dependents(D1)
<1>1. Dirty = Dependents(D2)
  BY DEF Dirty
<1>2. D0 \subseteq Edges(G)
  OBVIOUS
<1>3. \A D : D \subseteq Edges(G) => Dependents(D) \subseteq Edges(G) /\ D \subseteq Dependents(D)
  OBVIOUS
<1>4. ASSUME NEW D, D \subseteq Edges(G), NEW o \in Objects, o \in Dependents(D)
      PROVE  o \in D
  <2> SUFFICES ASSUME Inputs(G, o) \cap D # {} PROVE FALSE
    BY <1>4
  <2>1. PICK s \in Source : o = Obj(s)
    BY FileNames
  <2>2. Src(s) \in D
    BY <2>1, InputsOf
  <2>3. Edges(G) \subseteq Output
    BY DEF Edges, ObjectsOf, BaseOf, Output, Published, Objects
  <2> QED
    BY <1>4, <2>2, <2>3, FileNames
<1>5. ASSUME NEW o \in Objects, o \in D0 PROVE Manifest \in D1
  <2>1. o \in ObjectsOf(G)
    <3>1. o \notin {Base, Manifest, Target, Json, Report}
      BY FileNames DEF Published
    <3> QED
      BY <1>2, <1>5, <3>1 DEF Edges, BaseOf
  <2>2. o \in Inputs(G, Manifest)
    BY <2>1, InputsOf
  <2>3. Manifest \in Edges(G)
    BY DEF Edges
  <2> QED
    BY <1>5, <2>2, <2>3
<1> HIDE DEF D0
<1>6. D1 \subseteq Edges(G)
  BY <1>2, <1>3
<1>7. D1 \subseteq D2
  BY <1>3, <1>6
<1>8. \A o \in Objects : o \in D1 => o \in D0
  BY <1>2, <1>4
<1> HIDE DEF D1
<1>9. D2 \subseteq Edges(G)
  BY <1>3, <1>6
<1>10. \A o \in Objects : o \in D2 => o \in D1
  BY <1>4, <1>6
<1> HIDE DEF D2
<1>11. Dirty \subseteq Edges(G) /\ D2 \subseteq Dirty
  BY <1>1, <1>3, <1>9
<1>12. \A o \in Objects : o \in Dirty => o \in D2
  BY <1>1, <1>4, <1>9
<1> HIDE DEF Dependents
<1> QED
  BY <1>5, <1>7, <1>8, <1>10, <1>11, <1>12

-----------------------------------------------------------------------------
\* A fresh checkout has published nothing, and no build has failed.
THEOREM InitIInv == Init => IInv
<1> SUFFICES ASSUME Init PROVE IInv
  OBVIOUS
<1>1. BuildIsOn /\ PlanOfPhase /\ PublishedLast
  BY DEF Init, BuildIsOn, PlanOfPhase, PublishedLast, Phases
<1>2. CompileFailureKeepsPublished /\ FailureKeepsReport
  BY DEF Init, CompileFailureKeepsPublished, FailureKeepsReport, Failed, Failures
<1> QED
  BY <1>1, <1>2 DEF IInv

\* Whatever leaves the files, the phase, ninja's plan and the history alone keeps it.
LEMMA Untouched ==
  IInv /\ UNCHANGED <<disk, pc, plan, busy, failed, outcome, before>> => IInv'
BY DEF IInv, BuildIsOn, PlanOfPhase, PublishedLast, CompileFailureKeepsPublished,
       FailureKeepsReport, Failed, G, Phases

\* Neither does anything the user does between two builds matter: it forgets how
\* the last one ended.
LEMMA BetweenBuilds ==
  ASSUME IInv, pc = "idle", outcome' = "none",
         UNCHANGED <<pc, busy, failed>>,
         disk' = [o \in Output |-> disk'[o]]
  PROVE  IInv'
BY DEF IInv, BuildIsOn, PlanOfPhase, PublishedLast, CompileFailureKeepsPublished,
       FailureKeepsReport, Failed, Failures, Phases

\* An edit during one leaves the outcome as it was: there is none yet.
LEMMA EditKeepsIInv == IInv /\ Edit => IInv'
<1> SUFFICES ASSUME IInv, Edit PROVE IInv'
  OBVIOUS
<1>1. /\ UNCHANGED <<disk, pc, plan, busy, failed, before>> /\ outcome' = "none"
  BY DEF Edit, Change, process
<1> QED
  BY <1>1 DEF IInv, BuildIsOn, PlanOfPhase, PublishedLast, CompileFailureKeepsPublished,
              FailureKeepsReport, Failed, Failures, G, Phases

\* `3dsd build` starts: what is published now is what it found.
LEMMA LoadKeepsIInv == IInv /\ Load => IInv'
<1> SUFFICES ASSUME IInv, Load PROVE IInv'
  OBVIOUS
<1>1. /\ pc = "idle" /\ pc' = "loaded" /\ outcome' = "none"
      /\ before' = [o \in Published |-> disk[o]]
      /\ UNCHANGED <<disk, plan, busy, failed>>
  BY DEF Load, ninja
<1>2. BuildIsOn' /\ PlanOfPhase'
  BY <1>1 DEF IInv, BuildIsOn, PlanOfPhase, Phases
<1>3. PublishedLast' /\ CompileFailureKeepsPublished' /\ FailureKeepsReport'
  BY <1>1 DEF PublishedLast, CompileFailureKeepsPublished, FailureKeepsReport, Failed, Failures
<1> QED
  BY <1>2, <1>3 DEF IInv

\* _ensure_ninja writes build.ninja and nothing else, or writes nothing.
LEMMA GenerateKeepsIInv == IInv /\ (SkipGenerate \/ Generate) => IInv'
<1> SUFFICES ASSUME IInv, SkipGenerate \/ Generate PROVE IInv'
  OBVIOUS
<1>1. /\ pc = "loaded" /\ pc' = "scan"
      /\ UNCHANGED <<plan, busy, failed, outcome, before>>
  BY DEF SkipGenerate, Generate, ninja, history
<1>2. disk' = [o \in Output |-> disk'[o]] /\ \A o \in Published : disk'[o] = disk[o]
  <2>1. CASE SkipGenerate
    BY <2>1 DEF SkipGenerate, IInv, BuildIsOn
  <2>2. CASE Generate
    <3>1. \E m : disk' = [disk EXCEPT ![Manifest] = m]
      BY <2>2 DEF Generate, WriteManifest
    <3> QED
      BY <3>1, FileNames DEF IInv, BuildIsOn
  <2> QED
    BY <2>1, <2>2
<1>3. BuildIsOn' /\ PlanOfPhase' /\ PublishedLast'
  BY <1>1, <1>2 DEF IInv, BuildIsOn, PlanOfPhase, PublishedLast, Phases
<1>4. outcome' = "none"
  BY <1>1 DEF IInv, BuildIsOn
<1> QED
  BY <1>3, <1>4 DEF IInv, CompileFailureKeepsPublished, FailureKeepsReport, Failed, Failures

\* A build that ends before it ran anything has published nothing.
LEMMA ScanFailsKeepsIInv == IInv /\ ScanFails => IInv'
<1> SUFFICES ASSUME IInv, ScanFails PROVE IInv'
  OBVIOUS
<1>1. /\ pc = "scan" /\ pc' = "idle" /\ outcome' = "no source" /\ failed' = {}
      /\ UNCHANGED <<disk, busy, before>>
  BY DEF ScanFails, End
<1>2. \A o \in Published : disk'[o] = before'[o]
  BY <1>1 DEF IInv, PublishedLast
<1>3. BuildIsOn' /\ PlanOfPhase' /\ PublishedLast'
  BY <1>1 DEF IInv, BuildIsOn, PlanOfPhase, PublishedLast, Phases
<1> QED
  BY <1>1, <1>2, <1>3, FileNames DEF IInv, CompileFailureKeepsPublished, FailureKeepsReport

\* ninja plans a run: the one that makes build.ninja, or with that up to date the
\* one that publishes, which has no object to make.
LEMMA ScanKeepsIInv == IInv /\ Scan => IInv'
<1> SUFFICES ASSUME IInv, Scan PROVE IInv'
  OBVIOUS
<1>1. /\ pc = "scan" /\ G.srcs \subseteq Source
      /\ UNCHANGED <<disk, busy, failed, outcome, before>>
      /\ \/ pc' = "rebuild" /\ plan' = Dirty \cap (Objects \cup {Manifest})
         \/ UNCHANGED <<pc, plan>>
         \/ pc' = "build" /\ plan' = Dirty /\ Manifest \notin Dirty
  BY DEF Scan, Present, history
<1>2. busy' = {} /\ failed' = {} /\ outcome' = "none"
      /\ \A o \in Published : disk'[o] = before'[o]
  BY <1>1 DEF IInv, BuildIsOn, PlanOfPhase, PublishedLast
<1>3. pc' = "build" => plan' \subseteq Published /\ (Base \in plan' => HasBase(G)')
  <2> SUFFICES ASSUME pc' = "build"
               PROVE  plan' \subseteq Published /\ (Base \in plan' => HasBase(G)')
    OBVIOUS
  <2>1. plan' = Dirty /\ Manifest \notin Dirty /\ G' = G
    BY <1>1 DEF G
  <2>2. Dirty \subseteq Edges(G) /\ Dirty \cap Objects = {}
    BY <1>1, <2>1, DirtyObjects
  <2>3. Edges(G) \subseteq Objects \cup {Manifest} \cup Published
    BY <1>1 DEF Edges, ObjectsOf, BaseOf, Objects, Published
  <2>4. Base \in Edges(G) => HasBase(G)
    <3>1. Base # Target /\ Base # Json
      BY DEF Base, Target, Json
    <3>2. ObjectsOf(G) \subseteq Objects
      BY <1>1 DEF ObjectsOf, Objects
    <3> QED
      BY <3>1, <3>2, FileNames DEF Edges, BaseOf
  <2>5. HasBase(G)' = HasBase(G)
    BY <1>1 DEF G, HasBase
  <2> QED
    BY <2>1, <2>2, <2>3, <2>4, <2>5
<1>4. BuildIsOn'
  BY <1>1, <1>2 DEF IInv, BuildIsOn, Phases
<1>5. PlanOfPhase'
  BY <1>1, <1>2, <1>3 DEF PlanOfPhase
<1>6. PublishedLast'
  BY <1>2, FileNames DEF PublishedLast
<1> QED
  BY <1>2, <1>4, <1>5, <1>6 DEF IInv, CompileFailureKeepsPublished, FailureKeepsReport, Failed, Failures

\* The report starts when all it is made from is there, the base if it has one.
LEMMA StartKeepsIInv == IInv /\ (\E o \in Output : Start(o)) => IInv'
<1> SUFFICES ASSUME IInv, NEW o \in Output, Start(o) PROVE IInv'
  OBVIOUS
<1>1. /\ pc \in {"rebuild", "build"} /\ o \in plan /\ o \notin failed /\ Inputs(G, o) \cap plan = {}
      /\ busy' = busy \cup {o}
      /\ UNCHANGED <<disk, pc, plan, failed, outcome, before>>
  BY DEF Start, Startable, process, history
<1>2. BuildIsOn' /\ PlanOfPhase'
  BY <1>1 DEF IInv, BuildIsOn, PlanOfPhase, G, HasBase, Phases
<1>3. pc = "build" /\ o = Report => Base \notin plan
  BY <1>1, InputsOf DEF IInv, PlanOfPhase
<1>4. PublishedLast'
  BY <1>1, <1>3 DEF IInv, PublishedLast
<1>5. outcome' = "none"
  BY <1>1 DEF IInv, BuildIsOn
<1> QED
  BY <1>2, <1>4, <1>5 DEF IInv, CompileFailureKeepsPublished, FailureKeepsReport, Failed, Failures

\* A command ends, well or not.
LEMMA FinishKeepsIInv == IInv /\ (\E o \in Output : FinishOk(o) \/ FinishFailed(o)) => IInv'
<1> SUFFICES ASSUME IInv, NEW o \in Output, FinishOk(o) \/ FinishFailed(o) PROVE IInv'
  OBVIOUS
<1>1. /\ o \in busy /\ busy' = busy \ {o}
      /\ UNCHANGED <<pc, outcome, before>>
      /\ \E value : disk' = [disk EXCEPT ![o] = value]
      /\ \/ plan' = plan \ {o} /\ failed' = failed
         \/ plan' = plan /\ failed' = failed \cup {o} /\ o \in Objects \cup {Base}
  BY DEF FinishOk, FinishFailed, Fails, process, history
<1>2. /\ disk' = [p \in Output |-> disk'[p]]
      /\ \A p \in Output : p # o => disk'[p] = disk[p]
  BY <1>1 DEF IInv, BuildIsOn
<1>3. pc \in {"rebuild", "build"} /\ outcome' = "none"
  BY <1>1 DEF IInv, BuildIsOn, PlanOfPhase, Phases
<1>4. BuildIsOn'
  BY <1>1, <1>2, <1>3 DEF BuildIsOn, Phases
<1>5. CASE pc = "rebuild"
  <2>1. o \notin Published
    BY <1>1, <1>5, FileNames DEF IInv, PlanOfPhase
  <2>2. \A p \in Published : disk'[p] = before'[p]
    BY <1>1, <1>2, <1>5, <2>1, FileNames DEF IInv, PublishedLast
  <2>3. PlanOfPhase'
    BY <1>1, <1>5 DEF IInv, PlanOfPhase
  <2>4. PublishedLast'
    BY <1>1, <1>5, <2>2 DEF PublishedLast
  <2> QED
    BY <1>3, <1>4, <2>3, <2>4 DEF IInv, CompileFailureKeepsPublished, FailureKeepsReport, Failed, Failures
<1>6. CASE pc = "build"
  <2>1. o \in plan /\ o \in Published /\ o # Manifest /\ Manifest \in Output
    BY <1>1, <1>6, FileNames DEF IInv, PlanOfPhase
  <2>2. HasBase(G)' = HasBase(G)
    BY <1>2, <2>1 DEF G, HasBase
  <2>3. o \in Objects \cup {Base} => o = Base
    BY <2>1, FileNames
  <2>4. \A p \in failed : p = Base
    BY <1>6 DEF IInv, PlanOfPhase
  <2>5. failed' \subseteq plan' \cap {Base}
    <3>1. CASE failed' = failed /\ plan' = plan \ {o}
      <4>1. o \notin failed
        BY <1>1 DEF IInv, PlanOfPhase
      <4> QED
        BY <1>6, <3>1, <4>1 DEF IInv, PlanOfPhase
    <3>2. CASE plan' = plan /\ failed' = failed \cup {o} /\ o \in Objects \cup {Base}
      BY <1>6, <2>1, <2>3, <3>2 DEF IInv, PlanOfPhase
    <3> QED
      BY <1>1, <3>1, <3>2
  <2>6. PlanOfPhase'
    BY <1>1, <1>6, <2>2, <2>5 DEF IInv, PlanOfPhase
  <2>7. Report \in Output
    BY FileNames
  <2>8. PublishedLast'
    BY <1>1, <1>2, <1>6, <2>7 DEF IInv, PublishedLast
  <2> QED
    BY <1>3, <1>4, <2>6, <2>8 DEF IInv, CompileFailureKeepsPublished, FailureKeepsReport, Failed, Failures
<1> QED
  BY <1>3, <1>5, <1>6

\* The run is over: what failed is an object, and then nothing was published, or the
\* base, and then the report was not made.
LEMMA RunOverKeepsIInv == IInv /\ RunOver => IInv'
<1> SUFFICES ASSUME IInv, RunOver PROVE IInv'
  OBVIOUS
<1>1. /\ pc \in {"rebuild", "build"} /\ busy = {}
      /\ UNCHANGED <<disk, busy, before>>
  BY DEF RunOver
<1>2. CASE failed # {} /\ End(IF failed \cap Objects # {} THEN "no object" ELSE "no base")
  <2>1. /\ pc' = "idle" /\ failed' = {}
        /\ outcome' = IF failed \cap Objects # {} THEN "no object" ELSE "no base"
    BY <1>2 DEF End
  <2>2. CASE pc = "rebuild"
    <3>1. \A o \in Published : disk'[o] = before'[o]
      BY <1>1, <2>2 DEF IInv, PublishedLast
    <3> QED
      BY <1>1, <2>1, <3>1, FileNames DEF IInv, BuildIsOn, PlanOfPhase, PublishedLast, Phases,
         CompileFailureKeepsPublished, FailureKeepsReport
  <2>3. CASE pc = "build"
    <3>1. failed \cap Objects = {} /\ Base \in plan
      BY <1>2, <2>3, FileNames DEF IInv, PlanOfPhase
    <3>2. disk'[Report] = before'[Report] /\ outcome' = "no base"
      BY <1>1, <2>1, <2>3, <3>1 DEF IInv, PublishedLast
    <3> QED
      BY <1>1, <2>1, <3>2 DEF IInv, BuildIsOn, PlanOfPhase, PublishedLast, Phases,
         CompileFailureKeepsPublished, FailureKeepsReport
  <2> QED
    BY <1>1, <2>2, <2>3
<1>3. CASE failed = {} /\ pc = "rebuild" /\ pc' = "scan" /\ UNCHANGED <<failed, outcome>>
  BY <1>1, <1>3 DEF IInv, BuildIsOn, PlanOfPhase, PublishedLast, Phases,
     CompileFailureKeepsPublished, FailureKeepsReport, Failed, Failures
<1>4. CASE failed = {} /\ End("ok")
  BY <1>1, <1>4 DEF End, IInv, BuildIsOn, PlanOfPhase, PublishedLast, Phases,
     CompileFailureKeepsPublished, FailureKeepsReport, Failed, Failures
<1> QED
  BY <1>2, <1>3, <1>4 DEF RunOver

\* A build that is stopped has no outcome, whatever its commands left behind.
LEMMA InterruptKeepsIInv == IInv /\ Interrupt => IInv'
<1> SUFFICES ASSUME IInv, Interrupt PROVE IInv'
  OBVIOUS
<1>1. /\ pc # "idle" /\ pc' = "idle" /\ busy' = {} /\ failed' = {}
      /\ UNCHANGED <<outcome, before>>
  BY DEF Interrupt, history
<1>2. disk' = [o \in Output |-> disk'[o]]
  BY DEF Interrupt
<1>3. outcome' = "none"
  BY <1>1 DEF IInv, BuildIsOn
<1> QED
  BY <1>1, <1>2, <1>3 DEF IInv, BuildIsOn, PlanOfPhase, PublishedLast, Phases,
     CompileFailureKeepsPublished, FailureKeepsReport, Failed, Failures

\* What the user does to the files between two builds.
LEMMA ByHandKeepsIInv ==
  IInv /\ (\/ HandNinja \/ HandGenerateObjdiff
           \/ \E s \in Source : PartialBuild(s)
           \/ \E files \in Cleaned : Clean(files)) => IInv'
<1> SUFFICES ASSUME IInv, \/ HandNinja \/ HandGenerateObjdiff
                          \/ \E s \in Source : PartialBuild(s)
                          \/ \E files \in Cleaned : Clean(files)
             PROVE  IInv'
  OBVIOUS
<1>1. pc = "idle" /\ outcome' = "none" /\ UNCHANGED <<pc, busy, failed>>
  BY DEF HandNinja, HandGenerateObjdiff, PartialBuild, Clean, Change, ninja, process
<1>2. disk' = [o \in Output |-> disk'[o]]
  <2>1. disk = [o \in Output |-> disk[o]]
    BY DEF IInv, BuildIsOn
  <2>2. CASE HandNinja
    BY <2>1, <2>2 DEF HandNinja, WriteManifest
  <2>3. CASE HandGenerateObjdiff
    BY <2>1, <2>3 DEF HandGenerateObjdiff
  <2>4. ASSUME NEW s \in Source, PartialBuild(s) PROVE disk' = [o \in Output |-> disk'[o]]
    BY <2>1, <2>4 DEF PartialBuild
  <2>5. ASSUME NEW files, Clean(files) PROVE disk' = [o \in Output |-> disk'[o]]
    BY <2>5 DEF Clean
  <2> QED
    BY <2>2, <2>3, <2>4, <2>5
<1> QED
  BY <1>1, <1>2, BetweenBuilds

\* Every step keeps it.
THEOREM StepIInv == IInv /\ [Next]_vars => IInv'
<1> SUFFICES ASSUME IInv, [Next]_vars PROVE IInv'
  OBVIOUS
<1>1. CASE UNCHANGED vars
  BY <1>1, Untouched DEF vars, process, ninja, history
<1>2. CASE BuildStep
  BY <1>2, GenerateKeepsIInv, ScanFailsKeepsIInv, ScanKeepsIInv, RunOverKeepsIInv,
     StartKeepsIInv, FinishKeepsIInv DEF BuildStep
<1>3. CASE UserStep
  <2>1. CASE \/ InstallCli
             \/ \E s \in Source : \E c \in {None} \cup Content : EditSource(s, c)
             \/ \E h \in {None} \cup Header : EditHeader(h)
             \/ \E c \in Csv : EditCsv(c)
             \/ \E f \in Flags : EditFlags(f)
    <3>1. Edit
      BY <2>1 DEF InstallCli, EditSource, EditHeader, EditCsv, EditFlags
    <3> QED
      BY <3>1, EditKeepsIInv
  <2>2. CASE \/ HandNinja \/ HandGenerateObjdiff
             \/ \E s \in Source : PartialBuild(s)
             \/ \E files \in Cleaned : Clean(files)
    BY <2>2, ByHandKeepsIInv
  <2> QED
    BY <1>3, <2>1, <2>2, LoadKeepsIInv, InterruptKeepsIInv DEF UserStep
<1> QED
  BY <1>1, <1>2, <1>3 DEF Next

\* "A file that fails to compile fails the build": nothing that is published has been
\* touched by then, in whichever ninja run it fails and whatever ran beside it.
THEOREM FailedCompilePublishesNothing == Spec => []CompileFailureKeepsPublished
<1>1. IInv => CompileFailureKeepsPublished
  BY DEF IInv
<1> QED
  BY <1>1, InitIInv, StepIInv, PTL DEF Spec

\* After any failure the report is the last build's (build.py:102).
THEOREM FailureLeavesReport == Spec => []FailureKeepsReport
<1>1. IInv => FailureKeepsReport
  BY DEF IInv
<1> QED
  BY <1>1, InitIInv, StepIInv, PTL DEF Spec

-----------------------------------------------------------------------------
(* Files by name.                                                          *)

\* Files have different names.
LEMMA Distinct ==
  /\ \A s \in Source : Obj(s) \in Objects /\ Obj(s) \in Output /\ Obj(s)[2] = s
  /\ \A s, t \in Source : (Obj(s) = Obj(t) => s = t) /\ (Src(s) = Src(t) => s = t)
  /\ \A o \in Objects : \E s \in Source : o = Obj(s)
  /\ {Manifest, Base, Target, Json, Report} \cap Objects = {}
  /\ Manifest \notin {Base, Target, Json, Report}
  /\ Base \notin {Target, Json, Report} /\ Target \notin {Json, Report} /\ Json # Report
  /\ Published = {Base, Target, Json, Report}
  /\ Output = Objects \cup {Manifest, Base, Target, Json, Report}
  /\ Input \cap Output = {}
  /\ \A s \in Source : Src(s) \in Input
  /\ {Hdr, CsvFile, CcYaml} \subseteq Input
  /\ \A s \in Source : Src(s) \notin {Hdr, CsvFile, CcYaml, NotFound}
  /\ Hdr \notin {CsvFile, CcYaml, NotFound} /\ CsvFile # CcYaml
<1>1. \A s \in Source : Obj(s) \in Objects /\ Obj(s)[1] = "obj" /\ Obj(s)[2] = s
  BY DEF Objects, Obj
<1>2. \A s \in Source : Src(s)[1] = "src" /\ Src(s)[2] = s /\ Src(s) \in Input
  BY DEF Src, Input
<1>3. \A o \in Objects : \E s \in Source : o = Obj(s)
  BY DEF Objects
<1>4. /\ Manifest[1] = "build.ninja" /\ Base[1] = "out/objdiff_base"
      /\ Target[1] = "out/objdiff_target" /\ Json[1] = "objdiff.json"
      /\ Report[1] = "out/report.json"
  BY DEF Manifest, Base, Target, Json, Report
<1>5. /\ Hdr[1] = "header" /\ CsvFile[1] = "csv" /\ CcYaml[1] = "cc.yaml"
      /\ NotFound[1] = "path armcc reports that does not exist"
  BY DEF Hdr, CsvFile, CcYaml, NotFound
<1>6. Published = {Base, Target, Json, Report}
  BY DEF Published
<1>7. Output = Objects \cup {Manifest, Base, Target, Json, Report}
  BY <1>6 DEF Output
<1>8. Input = {Src(s) : s \in Source} \cup {Hdr, CsvFile, CcYaml}
  BY DEF Input
<1>9. {Manifest, Base, Target, Json, Report} \cap Objects = {}
  BY <1>1, <1>3, <1>4
<1>10. /\ Manifest \notin {Base, Target, Json, Report}
       /\ Base \notin {Target, Json, Report} /\ Target \notin {Json, Report} /\ Json # Report
  BY <1>4
<1>11. /\ \A s \in Source : Src(s) \notin {Hdr, CsvFile, CcYaml, NotFound}
       /\ Hdr \notin {CsvFile, CcYaml, NotFound} /\ CsvFile # CcYaml
  BY <1>2, <1>5
<1>12. Input \cap Output = {}
  <2>1. \A f \in Input : f[1] \in {"src", "header", "csv", "cc.yaml"}
    BY <1>2, <1>5, <1>8
  <2>2. \A f \in Output : f[1] \notin {"src", "header", "csv", "cc.yaml"}
    BY <1>1, <1>3, <1>4, <1>7
  <2> QED
    BY <2>1, <2>2
<1> QED
  BY <1>1, <1>2, <1>3, <1>6, <1>7, <1>8, <1>9, <1>10, <1>11, <1>12

\* What each is made from.
LEMMA InputsByName ==
  ASSUME NEW m
  PROVE  /\ \A s \in Source : Inputs(m, Obj(s)) = {Src(s)}
         /\ Inputs(m, Manifest) = ObjectsOf(m) \cup {CsvFile, CcYaml}
         /\ Inputs(m, Base) = {Obj(m.link[i]) : i \in DOMAIN m.link}
         /\ Inputs(m, Target) = ObjectsOf(m) \cup BaseOf(m) \cup {CsvFile, CcYaml}
         /\ Inputs(m, Json) = {}
         /\ Inputs(m, Report) = {Json, Target} \cup BaseOf(m)
<1> USE Distinct
<1>1. \A s \in Source : Inputs(m, Obj(s)) = {Src(s)}
  BY InputsOf
<1>2. Inputs(m, Manifest) = ObjectsOf(m) \cup {CsvFile, CcYaml}
  BY InputsOf
<1>3. Inputs(m, Base) = {Obj(m.link[i]) : i \in DOMAIN m.link}
  BY Zenon DEF Inputs
<1>4. Inputs(m, Target) = ObjectsOf(m) \cup BaseOf(m) \cup {CsvFile, CcYaml}
  BY Zenon DEF Inputs
<1>5. Inputs(m, Json) = {}
  BY Zenon DEF Inputs
<1>6. Inputs(m, Report) = ReportInputs(m)
  BY Zenon DEF Inputs
<1> QED
  BY <1>1, <1>2, <1>3, <1>4, <1>5, <1>6 DEF ReportInputs

\* What may make each out of date.
LEMMA WatchedByName ==
  /\ \A s \in Source : Watched(Obj(s)) = {Src(s), Hdr, Obj(s)}
  /\ Watched(Manifest) = Objects \cup {CsvFile, CcYaml}
  /\ Watched(Base) = Objects
  /\ Watched(Target) = Objects \cup {Base, CsvFile, CcYaml}
  /\ Watched(Json) = {}
  /\ Watched(Report) = {Json, Target, Base}
<1> USE Distinct
<1>1. ASSUME NEW s \in Source PROVE Watched(Obj(s)) = {Src(s), Hdr, Obj(s)}
  <2>1. Watched(Obj(s)) = {Src(Obj(s)[2]), Hdr, Obj(s)}
    BY DEF Watched
  <2> QED
    BY <2>1
<1>2. Watched(Manifest) = Objects \cup {CsvFile, CcYaml}
  BY Zenon DEF Watched
<1>3. Watched(Base) = Objects
  BY Zenon DEF Watched
<1>4. Watched(Target) = Objects \cup {Base, CsvFile, CcYaml}
  BY Zenon DEF Watched
<1>5. Watched(Json) = {}
  BY Zenon DEF Watched
<1>6. Watched(Report) = {Json, Target, Base}
  BY Zenon DEF Watched
<1> QED
  BY <1>1, <1>2, <1>3, <1>4, <1>5, <1>6

\* What each may hold.
LEMMA ValuesByName ==
  /\ \A o \in Objects : FileValue(o) = ObjectFile
  /\ FileValue(Manifest) = Graph
  /\ FileValue(Base) = BaseFile
  /\ FileValue(Target) = TargetFile
  /\ FileValue(Json) = JsonFile
  /\ FileValue(Report) = ReportFile
<1> USE Distinct
<1>1. \A o \in Objects : FileValue(o) = ObjectFile
  BY DEF FileValue
<1>2. FileValue(Manifest) = Graph
  BY Zenon DEF FileValue
<1>3. FileValue(Base) = BaseFile
  BY Zenon DEF FileValue
<1>4. FileValue(Target) = TargetFile
  BY Zenon DEF FileValue
<1>5. FileValue(Json) = JsonFile
  BY Zenon DEF FileValue
<1>6. FileValue(Report) = ReportFile
  BY Zenon DEF FileValue
<1> QED
  BY <1>1, <1>2, <1>3, <1>4, <1>5, <1>6

\* What their commands write.
LEMMA MadeByName ==
  /\ \A s \in Source : Made(Obj(s)) = Compiled(src[s], header, G.flags)
  /\ Made(Manifest) = ManifestOf(Present, flags, csv, Objs)
  /\ Made(Base) = LinkedBase(G.link, Objs)
  /\ Made(Target) = CutTarget(csv, Present, Objs, disk[Base])
  /\ Made(Json) = ObjdiffJson(HasBase(G))
  /\ Made(Report) = MeasuredReport(cli, disk[Json], disk[Target], disk[Base], disk[Report])
<1> USE Distinct
<1>1. ASSUME NEW s \in Source PROVE Made(Obj(s)) = Compiled(src[s], header, G.flags)
  <2>1. Made(Obj(s)) = Compiled(src[Obj(s)[2]], header, G.flags)
    BY DEF Made
  <2> QED
    BY <2>1
<1>2. Made(Manifest) = ManifestOf(Present, flags, csv, Objs)
  BY Zenon DEF Made
<1>3. Made(Base) = LinkedBase(G.link, Objs)
  BY Zenon DEF Made
<1>4. Made(Target) = CutTarget(csv, Present, Objs, disk[Base])
  BY Zenon DEF Made
<1>5. Made(Json) = ObjdiffJson(HasBase(G))
  BY Zenon DEF Made
<1>6. Made(Report) = MeasuredReport(cli, disk[Json], disk[Target], disk[Base], disk[Report])
  BY Zenon DEF Made
<1> QED
  BY <1>1, <1>2, <1>3, <1>4, <1>5, <1>6

\* What ninja logs.
LEMMA CommandByName ==
  ASSUME NEW m
  PROVE  /\ \A s \in Source : Command(m, Obj(s)).flags = m.flags
         /\ Command(m, Base).link = m.link
         /\ Command(m, Json).base = HasBase(m)
BY Distinct DEF Command, HasBase

-----------------------------------------------------------------------------
(* Files by type.                                                          *)

\* None is no file.
LEMMA NoneIsNoFile ==
  /\ \A s \in Source : None \notin ObjectFile
  /\ None \notin Graph /\ None \notin BaseFile /\ None \notin TargetFile
  /\ None \notin JsonFile /\ None \notin ReportFile
BY NoneAssumption, Distinct, ValuesByName

\* What the state holds of each file.
LEMMA TypesByName ==
  TypeOK =>
    /\ \A s \in Source : /\ disk[Obj(s)] \in {None} \cup ObjectFile
                         /\ result[Obj(s)] \in {None} \cup ObjectFile
    /\ G \in {None} \cup Graph /\ result[Manifest] \in {None} \cup Graph
    /\ disk[Base] \in {None} \cup BaseFile /\ result[Base] \in {None} \cup BaseFile
    /\ disk[Target] \in {None} \cup TargetFile /\ result[Target] \in {None} \cup TargetFile
    /\ disk[Json] \in {None} \cup JsonFile /\ result[Json] \in {None} \cup JsonFile
    /\ disk[Report] \in {None} \cup ReportFile /\ result[Report] \in {None} \cup ReportFile
    /\ Objs \in [Source -> {None} \cup ObjectFile]
    /\ Present \in SUBSET Source
    /\ \A s \in Source : Objs[s] = disk[Obj(s)]
<1> SUFFICES ASSUME TypeOK PROVE TypesByName!2
  OBVIOUS
<1>1. \A o \in Output : disk[o] \in {None} \cup FileValue(o) /\ result[o] \in {None} \cup FileValue(o)
  BY DEF TypeOK
<1>2. \A s \in Source : /\ disk[Obj(s)] \in {None} \cup ObjectFile
                        /\ result[Obj(s)] \in {None} \cup ObjectFile
  BY <1>1, Distinct, ValuesByName
<1>3. {Manifest, Base, Target, Json, Report} \subseteq Output
  BY Distinct
<1> QED
  BY <1>1, <1>2, <1>3, ValuesByName DEF G, Objs, Present

\* An object, where the compile succeeds.
LEMMA CompiledIs ==
  ASSUME NEW s \in Source, NEW content \in {None} \cup Content, NEW h \in {None} \cup Header, NEW f \in Flags
  PROVE  LET object == Compiled(content, h, f)
             ok == /\ content # None /\ content \notin Broken
                   /\ content \in Includes => h # None
         IN  /\ object \in {None} \cup ObjectFile
             /\ object # None <=> ok
             /\ ok => /\ object.content = content /\ object.flags = f
                      /\ object.header = (IF content \in Includes THEN h ELSE None)
<1>1. Compiled(content, h, f) # None =>
        Compiled(content, h, f) = [content |-> content,
                                   header |-> IF content \in Includes THEN h ELSE None, flags |-> f]
  BY DEF Compiled
<1>2. /\ content # None /\ content \notin Broken /\ (content \in Includes => h # None)
      => /\ Compiled(content, h, f) = [content |-> content,
                                       header |-> IF content \in Includes THEN h ELSE None, flags |-> f]
         /\ Compiled(content, h, f) \in ObjectFile
  BY DEF Compiled, ObjectFile
<1> QED
  BY <1>1, <1>2, NoneIsNoFile DEF Compiled

\* What does not compile with some flags does with none.
LEMMA FlagsDoNotMatter ==
  ASSUME NEW content, NEW h, NEW f, NEW g, NEW s \in Source,
         content \in {None} \cup Content, h \in {None} \cup Header, f \in Flags, g \in Flags,
         Compiled(content, h, f) = None
  PROVE  Compiled(content, h, g) = None
BY CompiledIs

\* What the objects define is known for each source.
LEMMA DefinedByTyped ==
  ASSUME NEW srcs \in SUBSET Source, NEW objs \in [Source -> {None} \cup ObjectFile]
  PROVE  /\ DefinedBy(srcs, objs) \in [srcs -> SUBSET Symbol]
         /\ \A s \in srcs : DefinedBy(srcs, objs)[s] =
                            IF objs[s] = None THEN {} ELSE Defines[objs[s].content]
BY BuildGraphAssumption DEF DefinedBy, ObjectFile, BuildGraphAssumption

\* build.ninja is a graph, over the sources it was made for.
LEMMA ManifestTyped ==
  ASSUME NEW srcs \in SUBSET Source, NEW f \in Flags, NEW c \in Csv,
         NEW objs \in [Source -> {None} \cup ObjectFile]
  PROVE  LET m == ManifestOf(srcs, f, c, objs)
         IN  /\ m \in Graph /\ m # None
             /\ m.srcs = srcs /\ m.flags = f /\ m.link \in Seq(srcs)
             /\ m.link = LinkOrder(c, srcs, DefinedBy(srcs, objs))
<1> DEFINE link == LinkOrder(c, srcs, DefinedBy(srcs, objs))
<1>1. c \in Seq(Symbol)
  BY BuildGraphAssumption DEF BuildGraphAssumption
<1>2. link \in Seq(srcs)
  BY <1>1, SourceMapAssumption, LinkOrderIsOwners
<1> HIDE DEF link
<1>3. link \in Seq(Source)
  BY <1>2
<1>4. ManifestOf(srcs, f, c, objs) = [srcs |-> srcs, flags |-> f, link |-> link]
  BY DEF ManifestOf, link
<1>5. ManifestOf(srcs, f, c, objs) \in Graph
  BY <1>3, <1>4 DEF Graph
<1> QED
  BY <1>2, <1>4, <1>5, NoneIsNoFile DEF link

\* The base holds the objects it links, in order.
LEMMA LinkedBaseTyped ==
  ASSUME NEW link \in Seq(Source), NEW objs \in [Source -> {None} \cup ObjectFile]
  PROVE  LET base == LinkedBase(link, objs)
         IN  /\ base \in {None} \cup BaseFile
             /\ base # None => /\ DOMAIN base = DOMAIN link
                               /\ \A i \in DOMAIN link : objs[link[i]] # None /\ base[i] = objs[link[i]]
                               /\ Links(link, objs)
<1>1. CASE (\A i \in DOMAIN link : objs[link[i]] # None) /\ Links(link, objs)
  <2> DEFINE base == [i \in DOMAIN link |-> objs[link[i]]]
  <2>1. LinkedBase(link, objs) = base
    BY <1>1 DEF LinkedBase
  <2>2. DOMAIN link = 1..Len(link) /\ Len(link) \in Nat /\ \A i \in DOMAIN link : link[i] \in Source
    OBVIOUS
  <2>3. \A i \in DOMAIN link : base[i] \in ObjectFile
    BY <1>1, <2>2
  <2>4. base \in Seq(ObjectFile)
    BY <2>2, <2>3
  <2> QED
    BY <1>1, <2>1, <2>4 DEF BaseFile
<1>2. CASE ~((\A i \in DOMAIN link : objs[link[i]] # None) /\ Links(link, objs))
  BY <1>2 DEF LinkedBase
<1> QED
  BY <1>1, <1>2

\* Objects that link make one.
LEMMA LinksMakeABase ==
  ASSUME NEW link \in Seq(Source), NEW objs \in [Source -> {None} \cup ObjectFile],
         \A i \in DOMAIN link : objs[link[i]] # None, Links(link, objs)
  PROVE  LinkedBase(link, objs) = [i \in DOMAIN link |-> objs[link[i]]] /\ LinkedBase(link, objs) # None
<1> DEFINE base == [i \in DOMAIN link |-> objs[link[i]]]
<1>1. LinkedBase(link, objs) = base
  BY DEF LinkedBase
<1>2. DOMAIN link = 1..Len(link) /\ Len(link) \in Nat /\ \A i \in DOMAIN link : link[i] \in Source
  OBVIOUS
<1>3. \A i \in DOMAIN link : base[i] \in ObjectFile
  BY <1>2
<1>4. base \in Seq(ObjectFile)
  BY <1>2, <1>3
<1> QED
  BY <1>1, <1>4, NoneIsNoFile DEF BaseFile

\* The target is cut from the CSV and the base as they are.
LEMMA CutTargetTyped ==
  ASSUME NEW c \in Csv, NEW srcs, NEW objs, NEW base \in {None} \cup BaseFile
  PROVE  LET t == CutTarget(c, srcs, objs, base)
         IN  /\ t \in TargetFile /\ t # None
             /\ t.csv = c /\ t.base = base /\ t.decompiled = Decompiled(c, srcs, objs)
<1>1. c \in Seq(Symbol)
  BY BuildGraphAssumption DEF BuildGraphAssumption
<1>2. Decompiled(c, srcs, objs) \in SUBSET Symbol
  BY <1>1 DEF Decompiled
<1>3. CutTarget(c, srcs, objs, base)
        = [csv |-> c, decompiled |-> Decompiled(c, srcs, objs), base |-> base]
  BY DEF CutTarget
<1>4. CutTarget(c, srcs, objs, base) \in TargetFile
  BY <1>2, <1>3 DEF TargetFile
<1> QED
  BY <1>3, <1>4, NoneIsNoFile

\* What is noted as newer is a set of files.
LEMMA NotedTyped ==
  ASSUME TypeOK, NEW w
  PROVE  /\ Noted(w) \in [Output -> SUBSET (Input \cup Output)]
         /\ NotedSince(w) \in [Output -> SUBSET (Input \cup Output)]
<1>1. \A o \in Output : Watched(o) \subseteq Input \cup Output
  BY Distinct, WatchedByName
<1>2. \A o \in Output : newer[o] \subseteq Input \cup Output /\ since[o] \subseteq Input \cup Output
  BY DEF TypeOK
<1> QED
  BY <1>1, <1>2 DEF Noted, NotedSince

\* ninja logs commands.
LEMMA CommandTyped ==
  ASSUME NEW m \in Graph, NEW o \in Output
  PROVE  Command(m, o) \in CommandRecord /\ Command(m, o) # None
<1>1. m.flags \in Flags /\ m.link \in Seq(Source)
  BY DEF Graph
<1>2. Command(m, o) \in CommandRecord
  BY <1>1 DEF Command, CommandRecord
<1> QED
  BY <1>2, NoneAssumption

\* While ninja makes something there is a build.ninja, and every command that starts
\* writes a file of its kind.
LEMMA MadeTyped ==
  ASSUME IInv, TInv, NEW o \in Output, pc \in {"rebuild", "build"}, Startable(o)
  PROVE  /\ Made(o) \in {None} \cup FileValue(o) /\ G \in Graph
         /\ o \in {Manifest, Target} => Made(o) # None
<1>1. TypeOK /\ ReadIsThere
  BY DEF TInv
<1>2. G \in Graph
  BY <1>1, TypesByName DEF ReadIsThere
<1>3. G.flags \in Flags /\ G.link \in Seq(Source) /\ G.srcs \in SUBSET Source
  BY <1>2 DEF Graph
<1>4. /\ src \in [Source -> {None} \cup Content] /\ header \in {None} \cup Header
      /\ csv \in Csv /\ flags \in Flags /\ cli \in BOOLEAN
  BY <1>1 DEF TypeOK
<1>5. CASE o \in Objects
  <2>1. PICK s \in Source : o = Obj(s)
    BY <1>5, Distinct
  <2>2. Compiled(src[s], header, G.flags) \in {None} \cup ObjectFile
    BY <1>3, <1>4, CompiledIs
  <2> QED
    BY <1>2, <1>5, <2>1, <2>2, MadeByName, ValuesByName, Distinct
<1>6. CASE o = Manifest
  <2>1. Objs \in [Source -> {None} \cup ObjectFile] /\ Present \in SUBSET Source
    BY <1>1, TypesByName
  <2>2. /\ ManifestOf(Present, flags, csv, Objs) \in Graph
        /\ ManifestOf(Present, flags, csv, Objs) # None
    BY <1>4, <2>1, ManifestTyped
  <2>3. Made(o) \in Graph /\ Made(o) # None
    BY <1>6, <2>2, MadeByName
  <2> QED
    BY <1>2, <1>6, <2>3, ValuesByName
<1>7. CASE o = Base
  <2>1. Made(o) \in {None} \cup BaseFile
    BY <1>1, <1>3, <1>7, MadeByName, LinkedBaseTyped, TypesByName
  <2> QED
    BY <1>2, <1>7, <2>1, ValuesByName, Distinct
<1>8. CASE o = Target
  <2>1. disk[Base] \in {None} \cup BaseFile
    BY <1>1, TypesByName
  <2>2. /\ CutTarget(csv, Present, Objs, disk[Base]) \in TargetFile
        /\ CutTarget(csv, Present, Objs, disk[Base]) # None
    BY <1>4, <2>1, CutTargetTyped
  <2>3. Made(o) \in TargetFile /\ Made(o) # None
    BY <1>8, <2>2, MadeByName
  <2> QED
    BY <1>2, <1>8, <2>3, ValuesByName
<1>9. CASE o = Json
  <2>1. Made(o) \in JsonFile
    BY <1>9, MadeByName DEF ObjdiffJson, JsonFile, HasBase
  <2> QED
    BY <1>2, <1>9, <2>1, ValuesByName, Distinct
<1>10. CASE o = Report
  <2>1. pc = "build"
    <3>1. Report \notin Objects \cup {Manifest} /\ o \in plan
      BY <1>10, Distinct DEF Startable
    <3> QED
      BY <1>10, <3>1 DEF IInv, PlanOfPhase
  <2>2. Target \notin plan
    BY <1>10, InputsByName DEF Startable
  <2>3. disk[Target] # None
    BY <1>1, <2>1, <2>2 DEF ReadIsThere
  <2>4. disk[Target] \in TargetFile /\ disk[Base] \in {None} \cup BaseFile
    BY <1>1, <2>3, TypesByName
  <2>5. Made(o) = MeasuredReport(cli, disk[Json], disk[Target], disk[Base], disk[Report])
    BY <1>10, MadeByName
  <2>6. Made(o) \in {None} \cup ReportFile
    BY <2>4, <2>5 DEF MeasuredReport, ReportFile
  <2> QED
    BY <1>2, <1>10, <2>6, ValuesByName, Distinct
<1> QED
  BY <1>5, <1>6, <1>7, <1>8, <1>9, <1>10, Distinct

-----------------------------------------------------------------------------
(* Every step keeps the types, and what is read is there.                  *)

\* Edits keep the types.
LEMMA EditsKeepTypes ==
  ASSUME TypeOK,
         \/ InstallCli
         \/ \E s \in Source : \E c \in {None} \cup Content : EditSource(s, c)
         \/ \E h \in {None} \cup Header : EditHeader(h)
         \/ \E c \in Csv : EditCsv(c)
         \/ \E f \in Flags : EditFlags(f)
  PROVE  TypeOK'
<1>1. /\ UNCHANGED <<disk, log, deps, plan, busy, result, failed, pc, pass, keep, loaded>>
      /\ edits' = edits + 1 /\ quiet' = FALSE /\ outcome' = "none"
  BY DEF InstallCli, EditSource, EditHeader, EditCsv, EditFlags, Edit, Change, process
<1>2. \E w : Touch(w)
  BY DEF InstallCli, EditSource, EditHeader, EditCsv, EditFlags
<1>3. newer' \in [Output -> SUBSET (Input \cup Output)] /\ since' \in [Output -> SUBSET (Input \cup Output)]
  BY <1>2, NotedTyped DEF Touch
<1>4. /\ src' \in [Source -> {None} \cup Content]
      /\ header' \in {None} \cup Header /\ csv' \in Csv /\ flags' \in Flags /\ cli' \in BOOLEAN
  BY DEF InstallCli, EditSource, EditHeader, EditCsv, EditFlags, TypeOK
<1>5. edits' \in Nat
  BY <1>1 DEF TypeOK
<1>6. \A o \in Output : /\ disk'[o] \in {None} \cup FileValue(o)
                        /\ result'[o] \in {None} \cup FileValue(o)
  BY <1>1 DEF TypeOK
<1> QED
  BY <1>1, <1>3, <1>4, <1>5, <1>6 DEF TypeOK

\* So does what is done by hand between builds.
LEMMA ByHandKeepsTypes ==
  ASSUME TypeOK,
         \/ HandNinja \/ HandGenerateObjdiff
         \/ \E s \in Source : PartialBuild(s)
         \/ \E files \in Cleaned : Clean(files)
  PROVE  TypeOK'
<1>1. /\ UNCHANGED <<inputs, plan, busy, result, failed, pc, pass, keep, loaded>>
      /\ edits' = edits + 1 /\ quiet' = FALSE /\ outcome' = "none"
  BY DEF HandNinja, HandGenerateObjdiff, PartialBuild, Clean, Change, process, ninja
<1>2. CutTarget(csv, Present, Objs, disk[Base]) \in FileValue(Target)
  BY CutTargetTyped, TypesByName, ValuesByName DEF TypeOK
<1>3. newer' \in [Output -> SUBSET (Input \cup Output)] /\ since' \in [Output -> SUBSET (Input \cup Output)]
  <2>1. CASE HandNinja
    BY <2>1 DEF HandNinja, WriteManifest, ninja, TypeOK
  <2>2. ASSUME NEW s \in Source, PartialBuild(s) PROVE <1>3
    BY <2>2, NotedTyped DEF PartialBuild, Touch
  <2>3. ASSUME NEW files, Clean(files) PROVE <1>3
    BY <2>3 DEF Clean, TypeOK, database, ninja
  <2>4. CASE HandGenerateObjdiff
    BY <2>4, NotedTyped DEF HandGenerateObjdiff, Touch
  <2> QED
    BY <2>1, <2>2, <2>3, <2>4
<1>4. log' \in [Output -> {None} \cup CommandRecord] /\ deps' \in [Source -> SUBSET {Hdr, NotFound}]
  BY DEF HandNinja, HandGenerateObjdiff, PartialBuild, Clean, TypeOK, database
<1>5. DOMAIN disk' = Output /\ \A o \in Output : disk'[o] \in {None} \cup FileValue(o)
  <2>1. DOMAIN disk = Output /\ \A o \in Output : disk[o] \in {None} \cup FileValue(o)
    BY DEF TypeOK
  <2>2. CASE HandNinja
    <3>1. disk' = [disk EXCEPT ![Manifest] = ManifestOf(Present, flags, csv, Objs)]
      BY <2>2 DEF HandNinja, WriteManifest
    <3>2. ManifestOf(Present, flags, csv, Objs) \in FileValue(Manifest)
      BY ManifestTyped, TypesByName, ValuesByName DEF TypeOK
    <3> QED
      BY <2>1, <3>1, <3>2
  <2>3. ASSUME NEW s \in Source, PartialBuild(s) PROVE <1>5
    <3>1. disk' = [disk EXCEPT ![Obj(s)] = Compiled(src[s], header, flags)]
      BY <2>3 DEF PartialBuild
    <3>2. Compiled(src[s], header, flags) \in {None} \cup FileValue(Obj(s))
      BY CompiledIs, ValuesByName, Distinct DEF TypeOK
    <3> QED
      BY <2>1, <3>1, <3>2
  <2>4. ASSUME NEW files, Clean(files) PROVE <1>5
    BY <2>1, <2>4 DEF Clean
  <2>5. CASE HandGenerateObjdiff
    <3>1. disk' = [disk EXCEPT ![Target] = CutTarget(csv, Present, Objs, disk[Base]),
                               ![Json]   = ObjdiffJson(disk[Base] # None)]
      BY <2>5 DEF HandGenerateObjdiff
    <3>2. ObjdiffJson(disk[Base] # None) \in FileValue(Json)
      BY ValuesByName DEF ObjdiffJson, JsonFile
    <3> QED
      BY <1>2, <2>1, <3>1, <3>2
  <2> QED
    BY <2>2, <2>3, <2>4, <2>5
<1>6. edits' \in Nat
  BY <1>1 DEF TypeOK
<1>7. DOMAIN result' = Output /\ \A o \in Output : result'[o] \in {None} \cup FileValue(o)
  BY <1>1 DEF TypeOK
<1> QED
  BY <1>1, <1>3, <1>4, <1>5, <1>6, <1>7 DEF TypeOK, inputs

\* So do the steps of `3dsd build` before and after the commands.
LEMMA PhasesKeepTypes ==
  ASSUME IInv, TInv, Load \/ SkipGenerate \/ Generate \/ ScanFails \/ Scan \/ RunOver \/ Interrupt
  PROVE  TypeOK'
<1>1. TypeOK /\ ReadIsThere
  BY DEF TInv
<1> USE <1>1
<1>2. CASE Load
  <2>1. loaded' \in Project
    BY <1>2, TypesByName DEF Load, Project, TypeOK
  <2> QED
    BY <1>2, <2>1 DEF Load, TypeOK, inputs, database, ninja
<1>3. CASE SkipGenerate
  BY <1>3 DEF SkipGenerate, TypeOK, inputs, database, ninja, history
<1>4. CASE Generate
  <2>1. loaded \in Project
    BY <1>4 DEF Generate, ReadIsThere, TypeOK
  <2>2. Objs \in [Source -> {None} \cup ObjectFile]
    BY TypesByName
  <2>3. ManifestOf(loaded.srcs, loaded.flags, loaded.csv, Objs) \in FileValue(Manifest)
    BY <2>1, <2>2, ManifestTyped, ValuesByName DEF Project
  <2>4. /\ disk' = [disk EXCEPT ![Manifest] = ManifestOf(loaded.srcs, loaded.flags, loaded.csv, Objs)]
        /\ newer' \in [Output -> SUBSET (Input \cup Output)]
    BY <1>4 DEF Generate, WriteManifest, TypeOK
  <2>5. DOMAIN disk' = Output /\ \A o \in Output : disk'[o] \in {None} \cup FileValue(o)
    BY <2>3, <2>4 DEF TypeOK
  <2> QED
    BY <1>4, <2>4, <2>5 DEF Generate, TypeOK, inputs, ninja, history
<1>5. CASE ScanFails
  BY <1>5 DEF ScanFails, End, TypeOK, inputs, database, Failures, IInv, PlanOfPhase
<1>6. CASE Scan
  <2>1. G.srcs \subseteq Source /\ busy = {} /\ failed = {}
    BY <1>6, TypesByName DEF Scan, IInv, PlanOfPhase
  <2>2. Dirty \subseteq Edges(G)
    BY <2>1, DirtyObjects
  <2>3. Edges(G) \subseteq Output
    BY <2>1, Distinct DEF Edges, ObjectsOf, BaseOf
  <2>4. plan' \subseteq Output /\ pc' \in Phases /\ pass' \in {1, 2}
    BY <1>6, <2>2, <2>3 DEF Scan, TypeOK, Phases
  <2> QED
    BY <1>6, <2>1, <2>4 DEF Scan, TypeOK, inputs, database, history, Phases
<1>7. CASE RunOver
  BY <1>7 DEF RunOver, End, TypeOK, inputs, database, Failures, IInv, PlanOfPhase
<1>8. CASE Interrupt
  <2>1. DOMAIN disk' = Output /\ \A o \in Output : disk'[o] \in {None} \cup FileValue(o)
    BY <1>8 DEF Interrupt, TypeOK
  <2> QED
    BY <1>8, <2>1 DEF Interrupt, TypeOK, inputs, database, history
<1> QED
  BY <1>2, <1>3, <1>4, <1>5, <1>6, <1>7, <1>8

\* And the commands, which write files of their kind.
LEMMA CommandsKeepTypes ==
  ASSUME IInv, TInv, NEW o \in Output, Start(o) \/ FinishFailed(o) \/ FinishOk(o)
  PROVE  TypeOK'
<1>1. TypeOK /\ ReadIsThere
  BY DEF TInv
<1> USE <1>1
<1>2. CASE Start(o)
  <2>1. Made(o) \in {None} \cup FileValue(o)
    BY <1>2, MadeTyped DEF Start
  <2>2. DOMAIN result' = Output /\ \A p \in Output : result'[p] \in {None} \cup FileValue(p)
    BY <1>2, <2>1 DEF Start, TypeOK
  <2> QED
    BY <1>2, <2>2 DEF Start, Startable, TypeOK, inputs, database, process, history
<1>3. CASE FinishFailed(o)
  <2>1. DOMAIN disk' = Output /\ \A p \in Output : disk'[p] \in {None} \cup FileValue(p)
    BY <1>3 DEF FinishFailed, TypeOK
  <2> QED
    BY <1>3, <2>1 DEF FinishFailed, TypeOK, inputs, database, process, history
<1>4. CASE FinishOk(o)
  <2>1. /\ DOMAIN disk' = Output /\ \A p \in Output : disk'[p] \in {None} \cup FileValue(p)
        /\ DOMAIN result' = Output /\ \A p \in Output : result'[p] \in {None} \cup FileValue(p)
    BY <1>4 DEF FinishOk, TypeOK
  <2>2. pc \in {"rebuild", "build"}
    BY <1>4 DEF FinishOk, IInv, PlanOfPhase, BuildIsOn, Phases
  <2>3. G \in Graph
    BY <2>2, TypesByName DEF ReadIsThere
  <2>4. log' \in [Output -> {None} \cup CommandRecord]
    BY <1>4, <2>3, CommandTyped DEF FinishOk, TypeOK
  <2>5. /\ newer' \in [Output -> SUBSET (Input \cup Output)]
        /\ since' \in [Output -> SUBSET (Input \cup Output)]
    <3>1. /\ Noted({o}) \in [Output -> SUBSET (Input \cup Output)]
          /\ NotedSince({o}) \in [Output -> SUBSET (Input \cup Output)]
      BY NotedTyped
    <3> QED
      BY <1>4, <3>1 DEF FinishOk, TypeOK
  <2>6. deps' \in [Source -> SUBSET {Hdr, NotFound}]
    <3>1. CASE o \notin Objects
      BY <1>4, <3>1 DEF FinishOk, TypeOK
    <3>2. CASE o \in Objects
      <4>1. PICK s \in Source : o = Obj(s) /\ o[2] = s
        BY <3>2, Distinct
      <4>2. result[o] \in ObjectFile
        BY <1>4, <3>2, <4>1, TypesByName DEF FinishOk, Fails
      <4>3. Depfile(result[o].content, header) \subseteq {Hdr, NotFound}
        BY <4>2, BuildGraphAssumption DEF BuildGraphAssumption, Depfile, ObjectFile
      <4>4. deps' = [deps EXCEPT ![s] = Depfile(result[o].content, header)]
        BY <1>4, <3>2, <4>1 DEF FinishOk
      <4> QED
        BY <4>3, <4>4 DEF TypeOK
    <3> QED
      BY <3>1, <3>2
  <2>7. plan' \subseteq Output /\ busy' \subseteq plan' /\ failed' \subseteq plan'
    BY <1>4 DEF FinishOk, TypeOK, IInv, PlanOfPhase
  <2> QED
    BY <1>4, <2>1, <2>4, <2>5, <2>6, <2>7 DEF FinishOk, TypeOK, inputs, process, history
<1> QED
  BY <1>2, <1>3, <1>4

\* What is out of date of the graph is dirty.
LEMMA OutOfDateIsDirty ==
  ASSUME NEW o \in Edges(G), OutOfDate(o)
  PROVE  o \in Dirty
<1> DEFINE Dependents(D) == D \cup {p \in Edges(G) : Inputs(G, p) \cap D # {}}
<1>1. Dirty = Dependents(Dependents(Dependents({p \in Edges(G) : OutOfDate(p)})))
  BY DEF Dirty
<1>2. \A D : D \subseteq Dependents(D)
  OBVIOUS
<1>3. o \in {p \in Edges(G) : OutOfDate(p)}
  OBVIOUS
<1> HIDE DEF Dependents
<1> QED
  BY <1>1, <1>2, <1>3

\* A project is loaded, or build.ninja is there, or it is being made, and what the
\* report is of is there before it.
LEMMA PhasesKeepReadIsThere ==
  ASSUME IInv, TInv, Load \/ SkipGenerate \/ Generate \/ ScanFails \/ Scan \/ RunOver \/ Interrupt
  PROVE  ReadIsThere'
<1>1. TypeOK /\ ReadIsThere
  BY DEF TInv
<1>2. CASE Load
  <2>1. loaded' \in Project /\ pc' = "loaded" /\ busy' = {}
    BY <1>1, <1>2, TypesByName DEF Load, Project, TypeOK, ninja, IInv, PlanOfPhase
  <2> QED
    BY <2>1, ProjectAssumption DEF ReadIsThere
<1>3. CASE SkipGenerate
  <2>1. pc' = "scan" /\ busy' = {} /\ G' = G /\ G # None
    BY <1>3 DEF SkipGenerate, ninja, IInv, PlanOfPhase, G, ManifestIsCurrent
  <2> QED
    BY <2>1 DEF ReadIsThere
<1>4. CASE Generate
  <2>1. loaded \in Project /\ pc' = "scan" /\ busy' = {}
    BY <1>1, <1>4 DEF Generate, ReadIsThere, TypeOK, ninja, IInv, PlanOfPhase
  <2>2. Objs \in [Source -> {None} \cup ObjectFile]
    BY <1>1, TypesByName
  <2>3. ManifestOf(loaded.srcs, loaded.flags, loaded.csv, Objs) # None
    BY <2>1, <2>2, ManifestTyped DEF Project
  <2>4. G' = ManifestOf(loaded.srcs, loaded.flags, loaded.csv, Objs)
    BY <1>1, <1>4, Distinct DEF Generate, WriteManifest, TypeOK, G
  <2> QED
    BY <2>1, <2>3, <2>4 DEF ReadIsThere
<1>5. CASE ScanFails \/ Interrupt
  <2>1. pc' = "idle" /\ busy' = {}
    BY <1>5 DEF ScanFails, Interrupt, End, IInv, PlanOfPhase
  <2> QED
    BY <2>1 DEF ReadIsThere
<1>6. CASE Scan
  <2>1. /\ busy' = {} /\ UNCHANGED disk /\ G' = G /\ G # None
        /\ pc' \in {"scan", "rebuild", "build"}
        /\ pc' = "build" => plan' = Dirty
    BY <1>1, <1>6 DEF Scan, IInv, PlanOfPhase, ReadIsThere, G
  <2>2. disk[Target] = None => Target \in Dirty
    BY OutOfDateIsDirty DEF OutOfDate, Edges
  <2> QED
    BY <2>1, <2>2 DEF ReadIsThere
<1>7. CASE RunOver
  <2>1. /\ pc' \in {"scan", "idle"} /\ busy' = {} /\ G' = G /\ G # None
    BY <1>1, <1>7 DEF RunOver, End, ReadIsThere, G
  <2> QED
    BY <2>1 DEF ReadIsThere
<1> QED
  BY <1>2, <1>3, <1>4, <1>5, <1>6, <1>7

\* Commands write build.ninja and the target, and never take them away.
LEMMA CommandsKeepReadIsThere ==
  ASSUME IInv, TInv, NEW o \in Output, Start(o) \/ FinishFailed(o) \/ FinishOk(o)
  PROVE  ReadIsThere'
<1>1. TypeOK /\ ReadIsThere
  BY DEF TInv
<1>2. pc \in {"rebuild", "build"} /\ pc' = pc /\ G # None
  BY <1>1 DEF Start, FinishFailed, FinishOk, process, IInv, PlanOfPhase, BuildIsOn, Phases, ReadIsThere
<1>3. Manifest \in Output /\ Target \in Output /\ Manifest # Target
  BY Distinct
<1>4. CASE Start(o)
  <2>1. /\ UNCHANGED <<disk, plan>> /\ G' = G /\ busy' = busy \cup {o}
        /\ \A p \in Output : result'[p] = IF p = o THEN Made(o) ELSE result[p]
    BY <1>1, <1>4 DEF Start, TypeOK, G
  <2>2. o \in {Manifest, Target} => Made(o) # None
    BY <1>2, <1>4, MadeTyped DEF Start
  <2> QED
    BY <1>1, <1>2, <1>3, <2>1, <2>2 DEF ReadIsThere
<1>5. CASE FinishFailed(o)
  <2>1. o \notin {Manifest, Target}
    BY <1>5, Distinct DEF FinishFailed, Fails
  <2>2. /\ UNCHANGED <<plan, result>> /\ busy' = busy \ {o}
        /\ \A p \in Output : p # o => disk'[p] = disk[p]
    BY <1>1, <1>5 DEF FinishFailed, TypeOK
  <2>3. G' = G /\ disk'[Target] = disk[Target]
    BY <1>3, <2>1, <2>2 DEF G
  <2> QED
    BY <1>1, <1>2, <2>2, <2>3 DEF ReadIsThere
<1>6. CASE FinishOk(o)
  <2>1. /\ o \in busy /\ busy' = busy \ {o} /\ plan' = plan \ {o}
        /\ \A p \in Output : /\ disk'[p] = IF p = o THEN result[o] ELSE disk[p]
                             /\ p # o => result'[p] = result[p]
    BY <1>1, <1>6 DEF FinishOk, TypeOK
  <2>2. G' # None
    BY <1>1, <1>2, <1>3, <2>1 DEF ReadIsThere, G
  <2>3. pc = "build" /\ Target \notin plan' => disk'[Target] # None
    BY <1>1, <1>3, <2>1 DEF ReadIsThere
  <2>4. /\ Manifest \in busy' => result'[Manifest] # None
        /\ Target \in busy' => result'[Target] # None
    BY <1>1, <1>3, <2>1 DEF ReadIsThere
  <2> QED
    BY <1>2, <2>2, <2>3, <2>4 DEF ReadIsThere
<1> QED
  BY <1>4, <1>5, <1>6

\* What the user edits and does by hand between builds takes nothing away from one.
LEMMA OthersKeepReadIsThere ==
  ASSUME IInv, TInv,
         \/ Edit
         \/ HandNinja \/ HandGenerateObjdiff
         \/ \E s \in Source : PartialBuild(s)
         \/ \E files \in Cleaned : Clean(files)
         \/ UNCHANGED vars
  PROVE  ReadIsThere'
<1>1. ReadIsThere
  BY DEF TInv
<1>2. CASE Edit \/ UNCHANGED vars
  <2>1. UNCHANGED <<disk, plan, busy, result, pc, loaded>> /\ G' = G
    BY <1>2 DEF Edit, Change, process, vars, database, ninja, G
  <2> QED
    BY <1>1, <2>1 DEF ReadIsThere
<1>3. CASE ~(Edit \/ UNCHANGED vars)
  <2>1. pc' = "idle" /\ busy' = {}
    BY <1>3 DEF HandNinja, HandGenerateObjdiff, PartialBuild, Clean, Change, process, ninja,
       IInv, PlanOfPhase
  <2> QED
    BY <2>1 DEF ReadIsThere
<1> QED
  BY <1>2, <1>3

\* A fresh checkout is of its types,
THEOREM InitTInv == Init => TInv
<1> SUFFICES ASSUME Init PROVE TInv
  OBVIOUS
<1>1. TypeOK
  BY DEF Init, TypeOK
<1>2. ReadIsThere
  BY DEF Init, ReadIsThere
<1> QED
  BY <1>1, <1>2 DEF TInv

\* and stays so.
THEOREM StepTInv == IInv /\ TInv /\ [Next]_vars => TInv'
<1> SUFFICES ASSUME IInv, TInv, [Next]_vars PROVE TInv'
  OBVIOUS
<1>1. TypeOK /\ ReadIsThere
  BY DEF TInv
<1>2. CASE Load \/ SkipGenerate \/ Generate \/ ScanFails \/ Scan \/ RunOver \/ Interrupt
  BY <1>2, PhasesKeepTypes, PhasesKeepReadIsThere DEF TInv
<1>3. ASSUME NEW o \in Output, Start(o) \/ FinishFailed(o) \/ FinishOk(o) PROVE TInv'
  BY <1>3, CommandsKeepTypes, CommandsKeepReadIsThere DEF TInv
<1>4. CASE \/ InstallCli
           \/ \E s \in Source : \E c \in {None} \cup Content : EditSource(s, c)
           \/ \E h \in {None} \cup Header : EditHeader(h)
           \/ \E c \in Csv : EditCsv(c)
           \/ \E f \in Flags : EditFlags(f)
  <2>1. TypeOK'
    BY <1>1, <1>4, EditsKeepTypes
  <2>2. Edit
    BY <1>4 DEF InstallCli, EditSource, EditHeader, EditCsv, EditFlags
  <2> QED
    BY <2>1, <2>2, OthersKeepReadIsThere DEF TInv
<1>5. CASE \/ HandNinja \/ HandGenerateObjdiff
           \/ \E s \in Source : PartialBuild(s)
           \/ \E files \in Cleaned : Clean(files)
  BY <1>1, <1>5, ByHandKeepsTypes, OthersKeepReadIsThere DEF TInv
<1>6. CASE UNCHANGED vars
  <2>1. TypeOK'
    BY <1>1, <1>6 DEF TypeOK, vars, inputs, database, process, ninja, history
  <2> QED
    BY <1>6, <2>1, OthersKeepReadIsThere DEF TInv
<1> QED
  BY <1>2, <1>3, <1>4, <1>5, <1>6 DEF Next, BuildStep, UserStep

\* Every file, record and log entry is of its kind, and a build reads none that is not
\* there: build.ninja, or the project it is made from, or the target the report is of.
THEOREM TypesHold == Spec => []TypeOK
<1>1. IInv /\ TInv => TypeOK
  BY DEF TInv
<1> QED
  BY <1>1, InitIInv, StepIInv, InitTInv, StepTInv, PTL DEF Spec

-----------------------------------------------------------------------------
(* What the invariant gives.                                               *)

\* build.ninja names the sources it was made for.
LEMMA ManifestHasSources ==
  ASSUME csv \in Csv, flags \in Flags, Objs \in [Source -> {None} \cup ObjectFile],
         NEW srcs \in SUBSET Source
  PROVE  ManifestOf(srcs, flags, csv, Objs) # None /\ ManifestOf(srcs, flags, csv, Objs).srcs = srcs
BY ManifestTyped

\* The types, and that what is read is there.
LEMMA FInvIsTyped ==
  ASSUME FInv
  PROVE  TInv
<1>1. TypeOK /\ Runs /\ SourcesAreKnown /\ BuildGoes
  BY DEF FInv
<1>2. Manifest \in busy => result[Manifest] # None
  <2> SUFFICES ASSUME Manifest \in busy PROVE result[Manifest] # None
    OBVIOUS
  <2> DEFINE srcs == result[Manifest].srcs
  <2>1. srcs \in SUBSET Source /\ result[Manifest] = ManifestOf(srcs, flags, csv, Objs)
    BY <1>1 DEF Runs, ManifestRun
  <2>2. flags \in Flags /\ csv \in Csv /\ Objs \in [Source -> {None} \cup ObjectFile]
    BY <1>1, TypesByName DEF TypeOK
  <2> HIDE DEF srcs
  <2> QED
    BY <2>1, <2>2, ManifestHasSources
<1>3. pc = "build" /\ Target \notin plan => disk[Target] # None
  BY <1>1, Distinct DEF BuildGoes, PublishedIsMade, IsMade, Edges
<1>4. Target \in busy => result[Target] # None
  BY <1>1 DEF Runs, TargetRun
<1>5. /\ pc = "loaded" => loaded # None
      /\ pc \in {"scan", "rebuild", "build"} => G # None
  BY <1>1 DEF SourcesAreKnown
<1> QED
  BY <1>1, <1>2, <1>3, <1>4, <1>5 DEF TInv, ReadIsThere

\* What the sources define of the CSV.
LEMMA DecompiledIs ==
  ASSUME NEW c, NEW srcs, NEW objs
  PROVE  \A f : f \in Decompiled(c, srcs, objs) <=>
                 /\ f \in Names(c)
                 /\ \E s \in srcs : objs[s] # None /\ f \in Defines[objs[s].content]
<1>1. DefinedBy(srcs, objs) = [s \in srcs |-> IF objs[s] = None THEN {} ELSE Defines[objs[s].content]]
  BY DEF DefinedBy
<1>2. \A s \in srcs : DefinedBy(srcs, objs)[s] =
                      IF objs[s] = None THEN {} ELSE Defines[objs[s].content]
  BY <1>1
<1> QED
  BY <1>2 DEF Decompiled, Names

-----------------------------------------------------------------------------
(* Records.                                                                *)

\* A step that writes the files `w`: other files stay, or go, and what was made from
\* a file that is written has it among those that are newer.
Writes(w) ==
  /\ \A f \in Output \ w : disk'[f] \in {None, disk[f]} /\ log'[f] \in {None, log[f]}
  /\ \A s \in Source : /\ Obj(s) \notin w => deps'[s] = deps[s] \/ log'[Obj(s)] = None
                       /\ Src(s) \notin w => src'[s] \in {None, src[s]}
  /\ Hdr \notin w => header' \in {None, header}
  /\ CsvFile \notin w => csv' = csv
  /\ CcYaml \notin w => flags' = flags
  /\ \A p \in Output \ w :
       log'[p] # None \/ (p = Manifest /\ disk'[p] # None) =>
         newer[p] \cup (w \cap Watched(p)) \subseteq newer'[p]

\* What was said of an object is true after the step, of what is newer then.
LEMMA CompiledFromKept ==
  ASSUME NEW w, Writes(w), NEW s \in Source, NEW object, NEW changed, NEW later,
         changed \cup (w \cap Watched(Obj(s))) \subseteq later,
         CompiledFrom(s, object, changed)
  PROVE  CompiledFrom(s, object, later)'
<1>1. w \cap {Src(s), Hdr} \subseteq later /\ changed \subseteq later
  BY WatchedByName
<1>2. Src(s) \notin later => src'[s] \in {None, object.content}
  BY <1>1 DEF Writes, CompiledFrom
<1>3. Hdr \notin later => header' \in {None, header}
  BY <1>1 DEF Writes
<1> QED
  BY <1>1, <1>2, <1>3 DEF CompiledFrom

\* So is what was said of a base.
LEMMA BaseOfLinkKept ==
  ASSUME NEW w, Writes(w), NEW base, NEW link \in Seq(Source), NEW changed, NEW later,
         changed \cup (w \cap Watched(Base)) \subseteq later,
         BaseOfLink(base, link, changed)
  PROVE  BaseOfLink(base, link, later)'
<1>1. \A i \in DOMAIN link : link[i] \in Source
  OBVIOUS
<1>2. ASSUME NEW i \in DOMAIN link, Obj(link[i]) \notin later
      PROVE  disk'[Obj(link[i])] \in {None, base[i]}
  <2>1. Obj(link[i]) \in Output /\ Obj(link[i]) \in Watched(Base)
    BY <1>1, Distinct, WatchedByName
  <2>2. Obj(link[i]) \notin w /\ Obj(link[i]) \notin changed
    BY <1>2, <2>1
  <2> QED
    BY <2>1, <2>2 DEF Writes, BaseOfLink
<1> QED
  BY <1>2 DEF BaseOfLink

\* What is to be made, or has no source, still is and has not.
LEMMA ToBeMadeKept ==
  ASSUME NEW w, Writes(w), NEW s \in Source, Obj(s) \notin w, ToBeMade(s)
  PROVE  ToBeMade(s)'
<1>1. Obj(s) \in Output \ w /\ Obj(s) # Manifest /\ Src(s) \in Watched(Obj(s))
  BY Distinct, WatchedByName
<1>2. log'[Obj(s)] = None \/ newer[Obj(s)] \cup (w \cap Watched(Obj(s))) \subseteq newer'[Obj(s)]
  BY <1>1 DEF Writes
<1>3. CASE src[s] = None
  <2>1. src'[s] = None \/ Src(s) \in w
    BY <1>3 DEF Writes
  <2> QED
    BY <1>1, <1>2, <2>1 DEF ToBeMade
<1>4. CASE disk[Obj(s)] = None
  BY <1>1, <1>4 DEF Writes, ToBeMade
<1>5. CASE log[Obj(s)] = None
  BY <1>1, <1>5 DEF Writes, ToBeMade
<1>6. CASE Src(s) \in newer[Obj(s)]
  BY <1>2, <1>6 DEF ToBeMade
<1> QED
  BY <1>3, <1>4, <1>5, <1>6 DEF ToBeMade

\* So is what was said of a target.
LEMMA TargetOfKept ==
  ASSUME NEW w, Writes(w), NEW t, NEW changed, NEW later,
         changed \cup (w \cap Watched(Target)) \subseteq later,
         TargetOf(t, changed)
  PROVE  TargetOf(t, later)'
<1>1. /\ \A f \in Objects \cup {Base, CsvFile} : f \notin later => f \notin changed /\ f \notin w
      /\ Base \in Output
  BY WatchedByName, Distinct
<1>2. CsvFile \notin later => t.csv = csv'
  BY <1>1 DEF TargetOf, Writes
<1>3. Base \notin later => disk'[Base] \in {None, t.base}
  BY <1>1 DEF TargetOf, Writes
<1>4. t.decompiled \subseteq Names(t.csv)
  BY DEF TargetOf
<1>5. ASSUME NEW s \in Source, Obj(s) \notin later
      PROVE  ToBeMade(s)' \/ Defines[disk'[Obj(s)].content] \cap Names(t.csv) \subseteq t.decompiled
  <2>1. Obj(s) \in Output \ w /\ Obj(s) \notin changed
    BY <1>1, <1>5, Distinct
  <2>2. CASE ToBeMade(s)
    BY <2>1, <2>2, ToBeMadeKept
  <2>3. CASE ~ToBeMade(s)
    <3>1. Defines[disk[Obj(s)].content] \cap Names(t.csv) \subseteq t.decompiled
      BY <2>1, <2>3 DEF TargetOf
    <3>2. disk'[Obj(s)] = None \/ disk'[Obj(s)] = disk[Obj(s)]
      BY <2>1 DEF Writes
    <3>3. disk'[Obj(s)] = None => ToBeMade(s)'
      BY DEF ToBeMade
    <3> QED
      BY <3>1, <3>2, <3>3
  <2> QED
    BY <2>2, <2>3
<1>6. ASSUME Base \notin later, log'[Base] # None
      PROVE  \A f \in t.decompiled : \E i \in DOMAIN log'[Base].link :
               t.base # None /\ (Stem[log'[Base].link[i]] = f \/ f \in Defines[t.base[i].content])
  <2>1. log'[Base] = log[Base]
    BY <1>1, <1>6 DEF Writes
  <2> QED
    BY <1>1, <1>6, <2>1 DEF TargetOf
<1> QED
  BY <1>2, <1>3, <1>4, <1>5, <1>6 DEF TargetOf

\* And of a report.
LEMMA ReportOfKept ==
  ASSUME NEW w, Writes(w), NEW r, NEW changed, NEW later,
         changed \cup (w \cap Watched(Report)) \subseteq later,
         ReportOf(r, changed)
  PROVE  ReportOf(r, later)'
<1>1. /\ \A f \in {Target, Json, Base} : f \notin later => f \notin changed /\ f \notin w
      /\ {Target, Json, Base} \subseteq Output
  BY WatchedByName, Distinct
<1>2. \A f \in {Target, Json, Base} : f \notin later => disk'[f] \in {None, disk[f]}
  BY <1>1 DEF Writes
<1>3. Target \notin later => disk'[Target] \in {None, r.target}
  BY <1>1, <1>2 DEF ReportOf
<1>4. Json \notin later =>
       \/ disk'[Json] = None
       \/ ~disk'[Json].base /\ r.base = None
       \/ disk'[Json].base /\ (Base \notin later => disk'[Base] \in {None, r.base})
  BY <1>1, <1>2 DEF ReportOf
<1> QED
  BY <1>3, <1>4 DEF ReportOf

\* And of the link of a build.ninja.
LEMMA LinkIsOfKept ==
  ASSUME NEW w, Writes(w), NEW m, m.srcs \subseteq Source, NEW changed, NEW later,
         changed \cup (w \cap Watched(Manifest)) \subseteq later,
         LinkIsOf(m, changed)
  PROVE  LinkIsOf(m, later)'
<1>1. \A f \in Objects \cup {CsvFile} : f \notin later => f \notin changed /\ f \notin w
  BY WatchedByName
<1>2. PICK c \in Csv, defs \in [m.srcs -> SUBSET Symbol] :
        /\ m.link = LinkOrder(c, m.srcs, defs)
        /\ CsvFile \notin changed => c = csv
        /\ \A s \in m.srcs :
             Obj(s) \notin changed /\ disk[Obj(s)] # None => defs[s] = Defines[disk[Obj(s)].content]
  BY DEF LinkIsOf
<1>3. CsvFile \notin later => c = csv'
  BY <1>1, <1>2 DEF Writes
<1>4. ASSUME NEW s \in m.srcs, Obj(s) \notin later, disk'[Obj(s)] # None
      PROVE  defs[s] = Defines[disk'[Obj(s)].content]
  <2>1. Obj(s) \in Output \ w /\ Obj(s) \notin changed
    BY <1>1, <1>4, Distinct
  <2>2. disk'[Obj(s)] = disk[Obj(s)]
    BY <1>4, <2>1 DEF Writes
  <2> QED
    BY <1>2, <1>4, <2>1, <2>2
<1> QED
  BY <1>2, <1>3, <1>4 DEF LinkIsOf

\* The files that are written have true records.
WrittenAreRecorded(w) ==
  /\ \A s \in Source : Obj(s) \in w => ObjectRecord(s)
  /\ Manifest \in w => ManifestRecord
  /\ Base \in w => BaseRecord
  /\ Target \in w => TargetRecord
  /\ Json \in w => JsonRecord
  /\ Report \in w => ReportRecord

\* Then all have: the rest had before, and know of what is newer now.
LEMMA RecordsKept ==
  ASSUME TypeOK, Records, NEW w, Writes(w), WrittenAreRecorded(w)'
  PROVE  Records'
<1>1. ASSUME NEW p \in Output \ w, disk'[p] # None, log'[p] # None
      PROVE  /\ disk'[p] = disk[p] /\ log'[p] = log[p] /\ Recorded(p)
             /\ newer[p] \cup (w \cap Watched(p)) \subseteq newer'[p]
  BY <1>1 DEF Writes, Recorded
<1>2. ASSUME NEW s \in Source PROVE ObjectRecord(s)'
  <2> SUFFICES ASSUME Obj(s) \notin w, Recorded(Obj(s))', Obj(s) \notin newer'[Obj(s)]
               PROVE  /\ CompiledFrom(s, disk[Obj(s)], newer[Obj(s)])'
                      /\ disk'[Obj(s)].flags = log'[Obj(s)].flags
                      /\ disk'[Obj(s)].content \in Includes => Hdr \in deps'[s]
    BY DEF WrittenAreRecorded, ObjectRecord
  <2>1. /\ disk'[Obj(s)] = disk[Obj(s)] /\ log'[Obj(s)] = log[Obj(s)] /\ Recorded(Obj(s))
        /\ newer[Obj(s)] \cup (w \cap Watched(Obj(s))) \subseteq newer'[Obj(s)]
    BY <1>1, Distinct DEF Recorded
  <2>2. /\ CompiledFrom(s, disk[Obj(s)], newer[Obj(s)])
        /\ disk[Obj(s)].flags = log[Obj(s)].flags
        /\ disk[Obj(s)].content \in Includes => Hdr \in deps[s]
    BY <2>1 DEF Records, ObjectRecord
  <2>3. CompiledFrom(s, disk[Obj(s)], newer[Obj(s)])'
    BY <2>1, <2>2, CompiledFromKept DEF CompiledFrom
  <2>4. deps'[s] = deps[s]
    BY DEF Writes, Recorded
  <2> QED
    BY <2>1, <2>2, <2>3, <2>4
<1>3. ManifestRecord'
  <2> SUFFICES ASSUME Manifest \notin w, disk'[Manifest] # None PROVE ManifestRecord'
    BY DEF WrittenAreRecorded, ManifestRecord, G
  <2>1. /\ disk'[Manifest] = disk[Manifest] /\ G # None
        /\ newer[Manifest] \cup (w \cap Watched(Manifest)) \subseteq newer'[Manifest]
    BY Distinct DEF Writes, G
  <2>2. /\ LinkIsOf(G, newer[Manifest])
        /\ CcYaml \notin newer[Manifest] => G.flags = flags
        /\ G.srcs \subseteq Source
    BY <2>1, TypesByName DEF Records, ManifestRecord, Graph
  <2>3. LinkIsOf(G, newer[Manifest])'
    <3>1. ASSUME NEW m, NEW later, m = disk[Manifest], later = newer'[Manifest]
          PROVE  LinkIsOf(m, later)'
      BY <2>1, <2>2, <3>1, LinkIsOfKept DEF G
    <3> QED
      BY <2>1, <3>1 DEF LinkIsOf, G
  <2>4. CcYaml \notin newer'[Manifest] => disk'[Manifest].flags = flags'
    BY <2>1, <2>2, WatchedByName DEF Writes, G
  <2> QED
    BY <2>3, <2>4 DEF ManifestRecord, G
<1>4. BaseRecord'
  <2> SUFFICES ASSUME Base \notin w, Recorded(Base)' PROVE BaseOfLink(disk[Base], log[Base].link, newer[Base])'
    BY DEF WrittenAreRecorded, BaseRecord
  <2>1. /\ disk'[Base] = disk[Base] /\ log'[Base] = log[Base] /\ Recorded(Base)
        /\ newer[Base] \cup (w \cap Watched(Base)) \subseteq newer'[Base]
    BY <1>1, Distinct DEF Recorded
  <2>2. BaseOfLink(disk[Base], log[Base].link, newer[Base])
    BY <2>1 DEF Records, BaseRecord
  <2>3. log[Base].link \in Seq(Source)
    BY <2>1, Distinct DEF TypeOK, Recorded, CommandRecord
  <2>4. ASSUME NEW base, NEW link, NEW later,
               base = disk[Base], link = log[Base].link, later = newer'[Base]
        PROVE  BaseOfLink(base, link, later)'
    BY <2>1, <2>2, <2>3, <2>4, BaseOfLinkKept
  <2> QED
    BY <2>1, <2>4 DEF BaseOfLink
<1>5. TargetRecord'
  <2> SUFFICES ASSUME Target \notin w, Recorded(Target)' PROVE TargetOf(disk[Target], newer[Target])'
    BY DEF WrittenAreRecorded, TargetRecord
  <2>1. /\ disk'[Target] = disk[Target] /\ Recorded(Target)
        /\ newer[Target] \cup (w \cap Watched(Target)) \subseteq newer'[Target]
    BY <1>1, Distinct DEF Recorded
  <2>2. TargetOf(disk[Target], newer[Target])
    BY <2>1 DEF Records, TargetRecord
  <2>3. ASSUME NEW t, NEW later, t = disk[Target], later = newer'[Target]
        PROVE  TargetOf(t, later)'
    BY <2>1, <2>2, <2>3, TargetOfKept
  <2> QED
    BY <2>1, <2>3 DEF TargetOf

<1>6. JsonRecord'
  <2> SUFFICES ASSUME Json \notin w, Recorded(Json)' PROVE disk'[Json].base = log'[Json].base
    BY DEF WrittenAreRecorded, JsonRecord
  <2> QED
    BY <1>1, Distinct DEF Recorded, Records, JsonRecord
<1>7. ReportRecord'
  <2> SUFFICES ASSUME Report \notin w, Recorded(Report)' PROVE ReportOf(disk[Report], newer[Report])'
    BY DEF WrittenAreRecorded, ReportRecord
  <2>1. /\ disk'[Report] = disk[Report] /\ Recorded(Report)
        /\ newer[Report] \cup (w \cap Watched(Report)) \subseteq newer'[Report]
    BY <1>1, Distinct DEF Recorded
  <2>2. ReportOf(disk[Report], newer[Report])
    BY <2>1 DEF Records, ReportRecord
  <2> QED
    BY <2>1, <2>2, ReportOfKept DEF ReportOf
<1> QED
  BY <1>2, <1>3, <1>4, <1>5, <1>6, <1>7 DEF Records

-----------------------------------------------------------------------------
(* Runs.                                                                   *)

\* The commands that run in spite of a step: what they write is settled, and what
\* has been written since they started is known.
RunsGoOn(w, new) ==
  LET on == busy' \ new
  IN  /\ \A p \in on : /\ p \in busy /\ result'[p] = result[p]
                       /\ since[p] \cup (w \cap Watched(p)) \subseteq since'[p]
      /\ on \cap (Objects \cup {Base, Json}) # {} => G' = G
      /\ on \cap Objects # {} /\ header # None => header' # None
      /\ on \cap {Manifest, Base} # {} => Objs' = Objs
      /\ Manifest \in on => flags' = flags /\ csv' = csv
      /\ Report \in on /\ quiet' /\ cli' => quiet /\ cli

\* Those that start write what they should.
StartedAreRuns(new) ==
  /\ \A s \in Source : Obj(s) \in new => ObjectRun(s)
  /\ Manifest \in new => ManifestRun
  /\ Base \in new => BaseRun
  /\ Target \in new => TargetRun
  /\ Json \in new => JsonRun
  /\ Report \in new => ReportRun

\* What was said of a run before the step can be said after it.
LEMMA RunsKept ==
  ASSUME TypeOK, Runs, NEW w, NEW new, Writes(w), RunsGoOn(w, new), StartedAreRuns(new)'
  PROVE  Runs'
<1>1. ASSUME NEW p \in busy', p \notin new
      PROVE  /\ p \in busy /\ result'[p] = result[p]
             /\ since[p] \cup (w \cap Watched(p)) \subseteq since'[p]
  BY <1>1 DEF RunsGoOn
<1>2. ASSUME NEW s \in Source PROVE ObjectRun(s)'
  <2> SUFFICES ASSUME Obj(s) \in busy', Obj(s) \notin new, result'[Obj(s)] # None
               PROVE  /\ CompiledFrom(s, result[Obj(s)], since[Obj(s)])'
                      /\ result'[Obj(s)].flags = G'.flags
                      /\ result'[Obj(s)].content \in Includes => header' # None
    BY DEF ObjectRun, StartedAreRuns
  <2>1. /\ Obj(s) \in busy /\ result'[Obj(s)] = result[Obj(s)]
        /\ since[Obj(s)] \cup (w \cap Watched(Obj(s))) \subseteq since'[Obj(s)]
    BY <1>1
  <2>2. /\ CompiledFrom(s, result[Obj(s)], since[Obj(s)])
        /\ result[Obj(s)].flags = G.flags
        /\ result[Obj(s)].content \in Includes => header # None
    BY <2>1 DEF Runs, ObjectRun
  <2>3. CompiledFrom(s, result[Obj(s)], since[Obj(s)])'
    <3>1. ASSUME NEW object, NEW later, object = result[Obj(s)], later = since'[Obj(s)]
          PROVE  CompiledFrom(s, object, later)'
      BY <2>1, <2>2, <3>1, CompiledFromKept
    <3> QED
      BY <2>1, <3>1 DEF CompiledFrom
  <2>4. G' = G /\ (header # None => header' # None)
    BY Distinct DEF RunsGoOn
  <2> QED
    BY <2>1, <2>2, <2>3, <2>4
<1>3. ManifestRun'
  <2> SUFFICES ASSUME Manifest \in busy', Manifest \notin new
               PROVE  /\ result'[Manifest].srcs \subseteq Source
                      /\ result'[Manifest] = ManifestOf(result'[Manifest].srcs, flags', csv', Objs')
    BY DEF ManifestRun, StartedAreRuns
  <2>1. result'[Manifest] = result[Manifest] /\ Manifest \in busy
    BY <1>1
  <2>2. flags' = flags /\ csv' = csv /\ Objs' = Objs
    BY DEF RunsGoOn
  <2>3. /\ result[Manifest].srcs \subseteq Source
        /\ result[Manifest] = ManifestOf(result[Manifest].srcs, flags, csv, Objs)
    BY <2>1 DEF Runs, ManifestRun
  <2> QED
    BY <2>1, <2>2, <2>3
<1>4. BaseRun'
  <2> SUFFICES ASSUME Base \in busy', Base \notin new PROVE result'[Base] = LinkedBase(G'.link, Objs')
    BY DEF BaseRun, StartedAreRuns
  <2>1. result'[Base] = result[Base] /\ Base \in busy /\ G' = G /\ Objs' = Objs
    BY <1>1 DEF RunsGoOn
  <2>2. result[Base] = LinkedBase(G.link, Objs)
    BY <2>1 DEF Runs, BaseRun
  <2> QED
    BY <2>1, <2>2
<1>5. TargetRun'
  <2> SUFFICES ASSUME Target \in busy', Target \notin new
               PROVE  result'[Target] # None /\ TargetOf(result[Target], since[Target])'
    BY DEF TargetRun, StartedAreRuns
  <2>1. /\ Target \in busy /\ result'[Target] = result[Target]
        /\ since[Target] \cup (w \cap Watched(Target)) \subseteq since'[Target]
    BY <1>1
  <2>2. result[Target] # None /\ TargetOf(result[Target], since[Target])
    BY <2>1 DEF Runs, TargetRun
  <2>3. ASSUME NEW t, NEW later, t = result[Target], later = since'[Target]
        PROVE  TargetOf(t, later)'
    BY <2>1, <2>2, <2>3, TargetOfKept
  <2> QED
    BY <2>1, <2>2, <2>3 DEF TargetOf
<1>6. JsonRun'
  <2> SUFFICES ASSUME Json \in busy', Json \notin new PROVE result'[Json] = ObjdiffJson(HasBase(G))'
    BY DEF JsonRun, StartedAreRuns
  <2>1. result'[Json] = result[Json] /\ Json \in busy /\ G' = G
    BY <1>1 DEF RunsGoOn
  <2>2. result[Json] = ObjdiffJson(HasBase(G))
    BY <2>1 DEF Runs, JsonRun
  <2> QED
    BY <2>1, <2>2 DEF HasBase
<1>7. ReportRun'
  <2> SUFFICES ASSUME Report \in busy', Report \notin new
               PROVE  /\ result'[Report] # None => ReportOf(result[Report], since[Report])'
                      /\ quiet' /\ cli' => result'[Report] # None
    BY DEF ReportRun, StartedAreRuns
  <2>1. /\ Report \in busy /\ result'[Report] = result[Report]
        /\ since[Report] \cup (w \cap Watched(Report)) \subseteq since'[Report]
        /\ quiet' /\ cli' => quiet /\ cli
    BY <1>1 DEF RunsGoOn
  <2>2. /\ result[Report] # None => ReportOf(result[Report], since[Report])
        /\ quiet /\ cli => result[Report] # None
    BY <2>1 DEF Runs, ReportRun
  <2>3. ASSUME NEW r, NEW later, r = result[Report], later = since'[Report], r # None
        PROVE  ReportOf(r, later)'
    BY <2>1, <2>2, <2>3, ReportOfKept
  <2> QED
    BY <2>1, <2>2, <2>3 DEF ReportOf
<1> QED
  BY <1>2, <1>3, <1>4, <1>5, <1>6, <1>7 DEF Runs

-----------------------------------------------------------------------------
(* Edits.                                                                  *)

\* An edit that writes the input files `w`, or removes some, or installs a program.
AnEdit(w) ==
  /\ Edit /\ Touch(w) /\ w \subseteq Input
  /\ \A s \in Source : /\ Src(s) \notin w => src'[s] \in {None, src[s]}
                       /\ src'[s] # None => src[s] # None \/ MayAdd(s)
  /\ Hdr \notin w => header' \in {None, header}
  /\ header # None /\ busy \cap Objects # {} => header' # None
  /\ CsvFile \notin w => csv' = csv
  /\ CcYaml \notin w => flags' = flags
  /\ CsvFile \in w \/ CcYaml \in w => Manifest \notin busy /\ pc # "loaded"
  /\ CsvFile \in w => ~TargetIsToCome

\* Every edit is one.
LEMMA EditsAreEdits ==
  ASSUME TypeOK, Disturbances = {},
         \/ InstallCli
         \/ \E s \in Source : \E c \in {None} \cup Content : EditSource(s, c)
         \/ \E h \in {None} \cup Header : EditHeader(h)
         \/ \E c \in Csv : EditCsv(c)
         \/ \E f \in Flags : EditFlags(f)
  PROVE  \E w : AnEdit(w)
<1> USE Distinct
<1>1. CASE InstallCli
  <2>1. AnEdit({})
    BY <1>1 DEF InstallCli, AnEdit
  <2> QED
    BY <2>1
<1>2. ASSUME NEW s \in Source, NEW c \in {None} \cup Content, EditSource(s, c)
      PROVE  \E w : AnEdit(w)
  <2>1. /\ Edit /\ src' = [src EXCEPT ![s] = c] /\ (c = None \/ MayAdd(s))
        /\ Touch(IF c = None THEN {} ELSE {Src(s)})
        /\ UNCHANGED <<header, csv, flags, cli>>
    BY <1>2 DEF EditSource
  <2>2. \A t \in Source : src'[t] = IF t = s THEN c ELSE src[t]
    BY <2>1 DEF TypeOK
  <2>3. CASE c = None
    <3>1. AnEdit({})
      BY <2>1, <2>2, <2>3 DEF AnEdit
    <3> QED
      BY <3>1
  <2>4. CASE c # None
    <3>1. AnEdit({Src(s)})
      BY <2>1, <2>2, <2>4 DEF AnEdit
    <3> QED
      BY <3>1
  <2> QED
    BY <2>3, <2>4
<1>3. ASSUME NEW h \in {None} \cup Header, EditHeader(h) PROVE \E w : AnEdit(w)
  <2>1. /\ Edit /\ header' = h /\ (h # None \/ busy \cap Objects = {})
        /\ Touch(IF h = None THEN {} ELSE {Hdr})
        /\ UNCHANGED <<src, csv, flags, cli>>
    BY <1>3 DEF EditHeader
  <2>2. CASE h = None
    <3>1. AnEdit({})
      BY <2>1, <2>2 DEF AnEdit
    <3> QED
      BY <3>1
  <2>3. CASE h # None
    <3>1. AnEdit({Hdr})
      BY <2>1, <2>3 DEF AnEdit
    <3> QED
      BY <3>1
  <2> QED
    BY <2>2, <2>3
<1>4. ASSUME NEW c \in Csv, EditCsv(c) PROVE \E w : AnEdit(w)
  <2>1. AnEdit({CsvFile})
    BY <1>4 DEF EditCsv, MayEditSettings, AnEdit
  <2> QED
    BY <2>1
<1>5. ASSUME NEW f \in Flags, EditFlags(f) PROVE \E w : AnEdit(w)
  <2>1. AnEdit({CcYaml})
    BY <1>5 DEF EditFlags, MayEditSettings, AnEdit
  <2> QED
    BY <2>1
<1> QED
  BY <1>1, <1>2, <1>3, <1>4, <1>5

\* What an edit leaves: all but the inputs and what is newer.
LEMMA EditLeaves ==
  ASSUME NEW w, AnEdit(w)
  PROVE  /\ UNCHANGED <<disk, log, deps, plan, busy, result, failed, pc, loaded>>
         /\ G' = G /\ Objs' = Objs /\ quiet' = FALSE /\ outcome' = "none"
BY DEF AnEdit, Edit, Change, process, G, Objs

\* ninja's records and the running commands know of it.
LEMMA EditIsNoted ==
  ASSUME TypeOK, NEW w, AnEdit(w)
  PROVE  Writes(w) /\ RunsGoOn(w, {})
<1>1. w \subseteq Input /\ Touch(w)
  BY DEF AnEdit
<1>2. \A p \in Output : newer'[p] = IF log[p] = None /\ p # Manifest THEN {}
                                    ELSE newer[p] \cup (w \cap Watched(p))
  BY <1>1 DEF Touch, Noted
<1>3. \A p \in busy : since'[p] = since[p] \cup (w \cap Watched(p))
  BY <1>1 DEF Touch, NotedSince, TypeOK
<1>4. /\ UNCHANGED <<disk, log, deps, busy, result>> /\ G' = G /\ Objs' = Objs /\ quiet' = FALSE
  BY EditLeaves
<1>5. Writes(w)
  BY <1>1, <1>2, <1>4 DEF Writes, AnEdit
<1>6. RunsGoOn(w, {})
  BY <1>3, <1>4 DEF RunsGoOn, AnEdit
<1> QED
  BY <1>5, <1>6

\* A source with an object left over is added when the next build.ninja will know it.
LEMMA EditKeepsSourcesKnown ==
  ASSUME IInv, SourcesAreKnown, Disturbances = {}, NEW w, AnEdit(w)
  PROVE  SourcesAreKnown'
<1>1. /\ UNCHANGED <<disk, plan, busy, result, pc, loaded>> /\ G' = G /\ quiet' = FALSE
  BY EditLeaves
<1>2. TargetIsToCome' <=> TargetIsToCome
  BY <1>1 DEF TargetIsToCome
<1>3. \A s \in Source : src'[s] # None => src[s] # None \/ MayAdd(s)
  BY DEF AnEdit
<1>4. ASSUME pc \in {"loaded", "scan", "rebuild"} \/ TargetIsToCome, NEW s \in Source, LeftOver(s)'
      PROVE  LeftOver(s)
  BY <1>1, <1>3, <1>4 DEF LeftOver, MayAdd
<1>5. pc = "loaded" => csv' = csv /\ flags' = flags
  BY DEF AnEdit
<1>6. Manifest \in busy => pc = "rebuild"
  BY Distinct DEF IInv, BuildIsOn, PlanOfPhase, Phases
<1> QED
  BY <1>1, <1>2, <1>4, <1>5, <1>6 DEF SourcesAreKnown

\* Edits keep the invariant.
LEMMA EditsKeepFInv ==
  ASSUME IInv, FInv, Disturbances = {},
         \/ InstallCli
         \/ \E s \in Source : \E c \in {None} \cup Content : EditSource(s, c)
         \/ \E h \in {None} \cup Header : EditHeader(h)
         \/ \E c \in Csv : EditCsv(c)
         \/ \E f \in Flags : EditFlags(f)
  PROVE  FInv'
<1>1. /\ TypeOK /\ Records /\ Runs /\ SourcesAreKnown /\ RebuildGoes /\ BuildGoes
  BY DEF FInv
<1>2. PICK w : AnEdit(w)
  BY <1>1, EditsAreEdits
<1>3. TypeOK'
  BY <1>1, EditsKeepTypes
<1>4. /\ UNCHANGED <<disk, log, deps, plan, busy, result, failed, pc, loaded>>
      /\ G' = G /\ Objs' = Objs /\ quiet' = FALSE /\ outcome' = "none"
  BY <1>2, EditLeaves
<1>5. w \subseteq Input /\ w \cap Output = {} /\ Writes(w) /\ RunsGoOn(w, {})
  BY <1>1, <1>2, EditIsNoted, Distinct DEF AnEdit
<1>6. Records'
  <2>1. WrittenAreRecorded(w)'
    BY <1>5, Distinct DEF WrittenAreRecorded
  <2> QED
    BY <1>1, <1>5, <2>1, RecordsKept
<1>7. Runs'
  <2>1. StartedAreRuns({})'
    BY DEF StartedAreRuns
  <2> QED
    BY <1>1, <1>5, <2>1, RunsKept
<1>8. SourcesAreKnown'
  BY <1>1, <1>2, EditKeepsSourcesKnown
<1>9. RebuildGoes'
  BY <1>1, <1>4 DEF RebuildGoes, ObjectsOf
<1>10. BuildGoes'
  <2> SUFFICES ASSUME pc = "build" PROVE BuildGoes'
    BY <1>4 DEF BuildGoes
  <2>1. /\ \A p \in Output : newer'[p] \subseteq newer[p] \cup (w \cap Watched(p))
        /\ \A p \in busy : since'[p] = since[p] \cup (w \cap Watched(p))
    BY <1>1, <1>2 DEF AnEdit, Touch, Noted, NotedSince, TypeOK
  <2>2. \A s \in G.srcs : ObjectIsMade(s)'
    <3>1. G.srcs \subseteq Source
      BY <1>1, TypesByName DEF SourcesAreKnown, Graph
    <3> QED
      BY <1>1, <1>4, <1>5, <2>1, <3>1, Distinct DEF BuildGoes, ObjectIsMade
  <2>3. ASSUME NEW o \in Edges(G) \cap Published PROVE PublishedIsMade(o)'
    <3>1. PublishedIsMade(o) /\ o \in Output
      BY <1>1, Distinct DEF BuildGoes
    <3>2. Since(o)' \cap Output \subseteq Since(o)
      BY <1>4, <1>5, <2>1, <3>1 DEF Since
    <3> QED
      BY <1>4, <3>1, <3>2 DEF PublishedIsMade, IsMade
  <2>4. TargetIsToCome' => newer'[Manifest] \cap ({CsvFile} \cup ObjectsOf(G)) = {}
    <3> SUFFICES ASSUME TargetIsToCome' PROVE newer'[Manifest] \cap ({CsvFile} \cup ObjectsOf(G)) = {}
      OBVIOUS
    <3>1. TargetIsToCome /\ CsvFile \notin w
      BY <1>2, <1>4 DEF TargetIsToCome, AnEdit
    <3>2. newer[Manifest] \cap ({CsvFile} \cup ObjectsOf(G)) = {}
      BY <1>1, <3>1 DEF BuildGoes
    <3>3. ObjectsOf(G) \subseteq Output /\ Manifest \in Output
      BY <1>1, TypesByName, Distinct DEF SourcesAreKnown, Graph, ObjectsOf
    <3> QED
      BY <1>5, <2>1, <3>1, <3>2, <3>3
  <2> QED
    BY <1>1, <1>4, <2>2, <2>3, <2>4 DEF BuildGoes, Edges, BaseOf, HasBase, ObjectsOf
<1>11. Ends'
  BY <1>4 DEF Ends, Succeeded, Failed, Failures, SuccessIsFromScratch, FailsOnlyIfFromScratchFails,
     ReportIsOfThisBuild, NothingLeftToDo
<1> QED
  BY <1>3, <1>6, <1>7, <1>8, <1>9, <1>10, <1>11 DEF FInv

-----------------------------------------------------------------------------
(* Between builds.                                                         *)

\* Where no build is going on and none has ended, the records are all there is.
LEMMA IdleIsFree ==
  ASSUME pc' = "idle", busy' = {}, outcome' = "none"
  PROVE  Runs' /\ SourcesAreKnown' /\ RebuildGoes' /\ BuildGoes' /\ Ends'
<1>1. Runs'
  BY DEF Runs, ObjectRun, ManifestRun, BaseRun, TargetRun, JsonRun, ReportRun
<1>2. SourcesAreKnown'
  BY DEF SourcesAreKnown, TargetIsToCome
<1>3. RebuildGoes' /\ BuildGoes'
  BY DEF RebuildGoes, BuildGoes
<1>4. Ends'
  BY DEF Ends, Succeeded, Failed, Failures, SuccessIsFromScratch, FailsOnlyIfFromScratchFails,
     ReportIsOfThisBuild, NothingLeftToDo
<1> QED
  BY <1>1, <1>2, <1>3, <1>4

\* A build.ninja of the settings and the CSV as they are links what the objects define.
LEMMA ManifestIsOfObjects ==
  ASSUME TypeOK, NEW srcs \in SUBSET Source, UNCHANGED <<csv, flags>>,
         G' = ManifestOf(srcs, flags, csv, Objs),
         \A s \in Source : disk'[Obj(s)] = disk[Obj(s)]
  PROVE  ManifestRecord'
<1>1. csv \in Csv /\ flags \in Flags /\ Objs \in [Source -> {None} \cup ObjectFile]
  BY TypesByName DEF TypeOK
<1>2. /\ G'.srcs = srcs /\ G'.flags = flags
      /\ G'.link = LinkOrder(csv, srcs, DefinedBy(srcs, Objs))
  BY <1>1, ManifestTyped
<1>3. /\ DefinedBy(srcs, Objs) \in [srcs -> SUBSET Symbol]
      /\ \A s \in srcs : disk'[Obj(s)] # None =>
           DefinedBy(srcs, Objs)[s] = Defines[disk'[Obj(s)].content]
  BY <1>1, DefinedByTyped, TypesByName
<1>4. LinkIsOf(G, newer[Manifest])'
  BY <1>1, <1>2, <1>3 DEF LinkIsOf
<1> QED
  BY <1>2, <1>4 DEF ManifestRecord

\* generate_ninja writes build.ninja, from the objects there are.
LEMMA ManifestIsWritten ==
  ASSUME TypeOK, NEW srcs \in SUBSET Source, WriteManifest(srcs, flags, csv),
         UNCHANGED <<inputs, log, deps>>
  PROVE  /\ G' = ManifestOf(srcs, flags, csv, Objs)
         /\ \A o \in Output : o # Manifest => disk'[o] = disk[o]
         /\ Writes({Manifest}) /\ WrittenAreRecorded({Manifest})'
<1>1. /\ G' = ManifestOf(srcs, flags, csv, Objs)
      /\ \A o \in Output : o # Manifest => disk'[o] = disk[o]
      /\ \A o \in Output : o # Manifest => newer'[o] = newer[o]
  BY Distinct DEF WriteManifest, TypeOK, G
<1>2. ManifestRecord'
  BY <1>1, Distinct, ManifestIsOfObjects DEF inputs
<1>3. WrittenAreRecorded({Manifest})'
  BY <1>2, Distinct DEF WrittenAreRecorded
<1>4. \A p \in Output : Manifest \notin Watched(p)
  BY Distinct, WatchedByName
<1>5. Writes({Manifest})
  BY <1>1, <1>4, Distinct DEF Writes, inputs
<1> QED
  BY <1>1, <1>3, <1>5

\* What the user does by hand keeps the invariant.
LEMMA ByHandKeepsFInv ==
  ASSUME IInv, FInv, Disturbances = {},
         \/ HandNinja \/ HandGenerateObjdiff
         \/ \E s \in Source : PartialBuild(s)
         \/ \E files \in Cleaned : Clean(files)
  PROVE  FInv'
<1>1. TypeOK /\ Records
  BY DEF FInv
<1>2. /\ UNCHANGED <<inputs, pc, busy>> /\ pc = "idle" /\ outcome' = "none" /\ busy = {}
  BY DEF HandNinja, HandGenerateObjdiff, PartialBuild, Clean, Change, process, ninja, IInv, PlanOfPhase
<1>3. Records'
  <2>1. CASE HandNinja
    BY <1>1, <2>1, ManifestIsWritten, RecordsKept, TypesByName DEF HandNinja
  <2>2. ASSUME NEW s \in Source, PartialBuild(s) PROVE Records'
    <3> PICK w : w = IF disk'[Obj(s)] = None THEN {} ELSE {Obj(s)}
      OBVIOUS
    <3>1. /\ \A o \in Output : o # Obj(s) => disk'[o] = disk[o]
          /\ UNCHANGED <<log, deps>> /\ Touch(w)
      BY <2>2 DEF PartialBuild, TypeOK
    <3>2. \A p \in Output : newer'[p] = IF log[p] = None /\ p # Manifest THEN {}
                                        ELSE newer[p] \cup (w \cap Watched(p))
      BY <3>1 DEF Touch, Noted
    <3>3. Writes(w)
      BY <1>2, <3>1, <3>2, Distinct DEF Writes, inputs
    <3>4. ObjectRecord(s)'
      <4> SUFFICES ASSUME disk'[Obj(s)] # None, log'[Obj(s)] # None PROVE Obj(s) \in newer'[Obj(s)]
        BY DEF ObjectRecord, Recorded
      <4>1. Obj(s) \in Output /\ log[Obj(s)] # None /\ w = {Obj(s)}
        BY <3>1, Distinct
      <4>2. newer'[Obj(s)] = newer[Obj(s)] \cup (w \cap Watched(Obj(s)))
        BY <3>2, <4>1
      <4>3. Obj(s) \in Watched(Obj(s))
        BY WatchedByName
      <4> QED
        BY <4>1, <4>2, <4>3
    <3>5. WrittenAreRecorded(w)'
      BY <3>4, Distinct DEF WrittenAreRecorded
    <3> QED
      BY <1>1, <3>3, <3>5, RecordsKept

  <2>3. ASSUME NEW files, Clean(files) PROVE Records'
    <3>1. \A o \in Output : disk'[o] = IF o \in files THEN None ELSE disk[o]
      BY <2>3 DEF Clean
    <3>2. \/ /\ Manifest \in files
             /\ \A o \in Output : log'[o] = None
          \/ UNCHANGED <<log, newer, deps>>
      BY <2>3 DEF Clean, database
    <3>3. Writes({})
      BY <1>2, <3>1, <3>2, Distinct DEF Writes, inputs
    <3>4. WrittenAreRecorded({})'
      BY DEF WrittenAreRecorded
    <3> QED
      BY <1>1, <3>3, <3>4, RecordsKept
  <2>4. ~HandGenerateObjdiff
    BY DEF HandGenerateObjdiff
  <2> QED
    BY <2>1, <2>2, <2>3, <2>4
<1>4. TypeOK'
  BY <1>1, ByHandKeepsTypes
<1> QED
  BY <1>2, <1>3, <1>4, IdleIsFree DEF FInv

\* Ctrl-C leaves what it leaves, with its records.
LEMMA InterruptKeepsFInv ==
  ASSUME IInv, FInv, Interrupt
  PROVE  FInv'
<1>1. TypeOK /\ Records
  BY DEF FInv
<1>2. /\ UNCHANGED <<inputs, log, newer, deps, outcome>> /\ pc # "idle" /\ pc' = "idle" /\ busy' = {}
      /\ \A o \in Output : disk'[o] \in {None, disk[o]}
  BY DEF Interrupt, database, history
<1>3. outcome' = "none"
  BY <1>2 DEF IInv, BuildIsOn
<1>4. Writes({}) /\ WrittenAreRecorded({})'
  BY <1>2, Distinct DEF Writes, WrittenAreRecorded, inputs
<1>5. Records'
  BY <1>1, <1>4, RecordsKept
<1>6. TypeOK'
  BY FInvIsTyped, PhasesKeepTypes
<1> QED
  BY <1>2, <1>3, <1>5, <1>6, IdleIsFree DEF FInv

-----------------------------------------------------------------------------
(* Up to the commands.                                                     *)

\* A step that writes nothing keeps the records.
LEMMA NothingIsWritten ==
  ASSUME TypeOK, Records, UNCHANGED <<inputs, disk, database>>
  PROVE  Records'
<1>1. Writes({}) /\ WrittenAreRecorded({})'
  BY Distinct DEF Writes, WrittenAreRecorded, inputs, database
<1> QED
  BY <1>1, RecordsKept

\* As long as no build has ended, nothing is said of how.
LEMMA NoEndYet == outcome' = "none" => Ends'
BY DEF Ends, Succeeded, Failed, Failures, SuccessIsFromScratch, FailsOnlyIfFromScratchFails,
   ReportIsOfThisBuild, NothingLeftToDo

\* Where nothing runs, nothing is said of what runs.
LEMMA NoRuns == busy' = {} => Runs'
BY DEF Runs, ObjectRun, ManifestRun, BaseRun, TargetRun, JsonRun, ReportRun

\* The project as loaded is the inputs as they are, and stays so until build.ninja is
\* seen to.
LEMMA LoadKeepsFInv ==
  ASSUME IInv, FInv, Load
  PROVE  FInv'
<1>1. TypeOK /\ Records
  BY DEF FInv
<1>2. /\ UNCHANGED <<inputs, disk, database, ninja>>
      /\ pc = "idle" /\ pc' = "loaded" /\ outcome' = "none"
      /\ loaded' = [srcs |-> Present, csv |-> csv, flags |-> flags]
  BY DEF Load
<1>3. busy' = {} /\ failed' = {}
  BY <1>2 DEF ninja, IInv, PlanOfPhase
<1>4. TypeOK'
  BY FInvIsTyped, PhasesKeepTypes
<1>5. Records' /\ Runs' /\ Ends'
  BY <1>1, <1>2, <1>3, NothingIsWritten, NoRuns, NoEndYet
<1>6. SourcesAreKnown'
  <2>1. loaded' \in Project /\ loaded' # None
    BY <1>1, <1>2, ProjectAssumption, TypesByName DEF Project, TypeOK
  <2>2. /\ loaded'.csv = csv' /\ loaded'.flags = flags' /\ loaded'.srcs = Present'
        /\ \A s \in Source : LeftOver(s)' => s \in loaded'.srcs
    BY <1>2 DEF inputs, Present, LeftOver
  <2> QED
    BY <1>2, <1>3, <2>1, <2>2 DEF SourcesAreKnown, TargetIsToCome
<1>7. RebuildGoes' /\ BuildGoes'
  BY <1>2, <1>3 DEF RebuildGoes, BuildGoes
<1> QED
  BY <1>4, <1>5, <1>6, <1>7 DEF FInv

\* build.ninja has the sources as loaded, by its own second line or made now.
LEMMA GenerateKeepsFInv ==
  ASSUME IInv, FInv, SkipGenerate \/ Generate
  PROVE  FInv'
<1>1. TypeOK /\ Records /\ SourcesAreKnown
  BY DEF FInv
<1>2. /\ UNCHANGED <<inputs, log, deps, ninja, history>>
      /\ pc = "loaded" /\ pc' = "scan"
  BY DEF SkipGenerate, Generate, database
<1>3. busy' = {} /\ failed' = {} /\ outcome' = "none"
  BY <1>2 DEF ninja, history, IInv, PlanOfPhase, BuildIsOn
<1>4. TypeOK'
  BY FInvIsTyped, PhasesKeepTypes
<1>5. /\ loaded \in Project /\ loaded.csv = csv /\ loaded.flags = flags
      /\ \A s \in Source : LeftOver(s) => s \in loaded.srcs
      /\ quiet => loaded.srcs = Present
  BY <1>1, <1>2 DEF SourcesAreKnown, TypeOK
<1>6. /\ G' # None /\ G'.srcs = loaded.srcs /\ Records'
      /\ \A o \in Output : o # Manifest => disk'[o] = disk[o]
  <2>1. CASE SkipGenerate
    BY <1>1, <2>1, NothingIsWritten DEF SkipGenerate, ManifestIsCurrent, G
  <2>2. CASE Generate
    <3>1. WriteManifest(loaded.srcs, flags, csv) /\ loaded.srcs \in SUBSET Source
      BY <1>5, <2>2 DEF Generate, Project
    <3>2. /\ G' = ManifestOf(loaded.srcs, flags, csv, Objs)
          /\ \A o \in Output : o # Manifest => disk'[o] = disk[o]
          /\ Writes({Manifest}) /\ WrittenAreRecorded({Manifest})'
      BY <1>1, <1>2, <3>1, ManifestIsWritten
    <3>3. G' # None /\ G'.srcs = loaded.srcs
      <4>1. csv \in Csv /\ flags \in Flags /\ Objs \in [Source -> {None} \cup ObjectFile]
        BY <1>1, TypesByName DEF TypeOK
      <4>2. \A srcs \in SUBSET Source : /\ ManifestOf(srcs, flags, csv, Objs) # None
                                        /\ ManifestOf(srcs, flags, csv, Objs).srcs = srcs
        BY <4>1, ManifestHasSources
      <4> QED
        BY <3>1, <3>2, <4>2
    <3> QED
      BY <1>1, <3>2, <3>3, RecordsKept
  <2> QED
    BY <2>1, <2>2
<1>7. SourcesAreKnown'
  <2>1. \A s \in Source : LeftOver(s)' => LeftOver(s)
    BY <1>2, <1>6, Distinct DEF LeftOver, inputs
  <2>2. Present' = Present /\ quiet' = quiet
    BY <1>2 DEF Present, inputs, history
  <2> QED
    BY <1>2, <1>3, <1>5, <1>6, <2>1, <2>2 DEF SourcesAreKnown, TargetIsToCome
<1>8. RebuildGoes' /\ BuildGoes'
  BY <1>2, <1>3 DEF RebuildGoes, BuildGoes
<1>9. Runs' /\ Ends'
  BY <1>3, NoRuns, NoEndYet
<1> QED
  BY <1>4, <1>6, <1>7, <1>8, <1>9 DEF FInv

\* A source of build.ninja is missing only where one went during the build.
LEMMA ScanFailsKeepsFInv ==
  ASSUME IInv, FInv, ScanFails
  PROVE  FInv'
<1>1. TypeOK /\ Records /\ SourcesAreKnown
  BY DEF FInv
<1>2. /\ UNCHANGED <<inputs, disk, database, busy, quiet>>
      /\ pc = "scan" /\ pc' = "idle" /\ outcome' = "no source" /\ failed' = {}
      /\ ~(G.srcs \subseteq Present)
  BY DEF ScanFails, End
<1>3. quiet' = FALSE /\ busy' = {}
  BY <1>1, <1>2 DEF SourcesAreKnown, TypeOK, IInv, PlanOfPhase
<1>4. TypeOK' /\ Records' /\ Runs'
  BY <1>1, <1>2, <1>3, FInvIsTyped, PhasesKeepTypes, NothingIsWritten, NoRuns
<1>5. SourcesAreKnown' /\ RebuildGoes' /\ BuildGoes'
  BY <1>2, <1>3 DEF SourcesAreKnown, TargetIsToCome, RebuildGoes, BuildGoes
<1>6. Ends'
  BY <1>2, <1>3 DEF Ends, Succeeded, SuccessIsFromScratch, FailsOnlyIfFromScratchFails,
     ReportIsOfThisBuild, NothingLeftToDo
<1> QED
  BY <1>4, <1>5, <1>6 DEF FInv

-----------------------------------------------------------------------------
(* What is dirty.                                                          *)

\* Of the files a run may publish each is made from those before it.
LEMMA PublishedInputs ==
  ASSUME NEW m, m.srcs \subseteq Source, m.link \in Seq(Source)
  PROVE  /\ Edges(m) \subseteq Output
         /\ Inputs(m, Base) \subseteq Objects
         /\ Inputs(m, Target) \subseteq Objects \cup {Base, CsvFile, CcYaml}
         /\ Inputs(m, Json) = {}
         /\ Inputs(m, Report) \subseteq {Json, Target, Base}
         /\ Inputs(m, Manifest) \subseteq Objects \cup {CsvFile, CcYaml}
         /\ \A s \in Source : Inputs(m, Obj(s)) \subseteq Input
<1>1. ObjectsOf(m) \subseteq Objects /\ BaseOf(m) \subseteq {Base}
  BY DEF ObjectsOf, BaseOf, Objects
<1>2. \A i \in DOMAIN m.link : Obj(m.link[i]) \in Objects
  BY Distinct
<1> QED
  BY <1>1, <1>2, InputsByName, Distinct DEF Edges

\* ninja's three rounds are enough: what is made from what is dirty is dirty.
LEMMA DirtyIsClosed ==
  ASSUME G.srcs \subseteq Source, G.link \in Seq(Source), Manifest \notin Dirty, NEW o \in Edges(G), o \notin Dirty
  PROVE  ~OutOfDate(o) /\ Inputs(G, o) \cap Dirty = {}
<1> DEFINE Dependents(D) == D \cup {p \in Edges(G) : Inputs(G, p) \cap D # {}}
           D0 == {p \in Edges(G) : OutOfDate(p)}
           D1 == Dependents(D0)
           D2 == Dependents(D1)
<1>1. Dirty = Dependents(D2)
  BY DEF Dirty
<1>2. Dirty \cap Objects = {} /\ Dirty \subseteq Edges(G)
  BY DirtyObjects
<1>3. \A D : D \subseteq Dependents(D)
  OBVIOUS
<1>4. \A D, p : p \in Dependents(D) => p \in D \/ Inputs(G, p) \cap D # {}
  OBVIOUS
<1>5. \A D, p : p \in Edges(G) /\ Inputs(G, p) \cap D # {} => p \in Dependents(D)
  OBVIOUS
<1>6. ~OutOfDate(o)
  <2>1. o \notin D0
    BY <1>1, <1>3
  <2> QED
    BY <2>1
<1> HIDE DEF D0, Dependents
<1>7. D0 \subseteq D1 /\ D1 \subseteq D2 /\ D2 \subseteq Dirty
  BY <1>1, <1>3
<1>8. D0 \cap Objects = {} /\ D1 \cap Objects = {} /\ D2 \cap Objects = {}
  BY <1>2, <1>7
<1>9. /\ \A D : D \cap Objects = {} => Inputs(G, Base) \cap D = {}
      /\ \A D : D \cap Objects = {} /\ D \subseteq Dirty =>
           Inputs(G, Target) \cap D \subseteq {Base}
  <2>1. {CsvFile, CcYaml} \cap Edges(G) = {}
    BY PublishedInputs, Distinct
  <2> QED
    BY <1>2, <2>1, PublishedInputs
<1>10. Base \in Dirty => Base \in D0
  BY <1>1, <1>4, <1>8, <1>9
<1>11. Json \in Dirty => Json \in D0
  BY <1>1, <1>4, PublishedInputs
<1>12. Target \in Dirty => Target \in D1
  <2>1. Base \in D0 /\ Target \in Edges(G) => (Base \in Inputs(G, Target) => Target \in D1)
    BY <1>5
  <2>2. Target \in Dirty /\ Target \notin D2 => Base \in Inputs(G, Target) /\ Base \in D2
    BY <1>1, <1>4, <1>7, <1>8, <1>9
  <2>3. Target \in D2 /\ Target \notin D1 => Base \in Inputs(G, Target) /\ Base \in D1
    BY <1>4, <1>7, <1>8, <1>9
  <2> QED
    BY <1>2, <1>7, <1>10, <2>1, <2>2, <2>3
<1> HIDE DEF D1, D2
<1>13. CASE o \in Objects
  BY <1>2, <1>6, <1>13, PublishedInputs, Distinct
<1>14. CASE o = Manifest
  BY <1>2, <1>6, <1>14, PublishedInputs, Distinct
<1>15. CASE o = Base
  BY <1>2, <1>6, <1>9, <1>15
<1>16. CASE o = Target
  <2>1. Base \in Dirty => Base \notin Inputs(G, Target)
    BY <1>5, <1>7, <1>10, <1>16 DEF D1
  <2> QED
    BY <1>2, <1>6, <1>9, <1>16, <2>1
<1>17. CASE o = Json
  BY <1>6, <1>17, PublishedInputs
<1>18. CASE o = Report
  <2>1. \A p \in Inputs(G, Report) : p \notin D0 /\ p \notin D1
    BY <1>5, <1>7, <1>18 DEF D1, D2
  <2> QED
    BY <1>6, <1>10, <1>11, <1>12, <1>18, <2>1, PublishedInputs
<1> QED
  BY <1>13, <1>14, <1>15, <1>16, <1>17, <1>18, PublishedInputs, Distinct

\* Only what is out of date, or made from what is, is dirty.
LEMMA DirtyIsLeast ==
  ASSUME NEW X, \A o \in Edges(G) : OutOfDate(o) \/ Inputs(G, o) \cap X # {} => o \in X
  PROVE  Dirty \subseteq X
<1> DEFINE Dependents(D) == D \cup {p \in Edges(G) : Inputs(G, p) \cap D # {}}
           D0 == {p \in Edges(G) : OutOfDate(p)}
<1>1. Dirty = Dependents(Dependents(Dependents(D0)))
  BY DEF Dirty
<1>2. D0 \subseteq X
  OBVIOUS
<1>3. \A D : D \subseteq X => Dependents(D) \subseteq X
  OBVIOUS
<1> HIDE DEF D0, Dependents
<1> QED
  BY <1>1, <1>2, <1>3

\* What is not out of date is made, and nothing it is made from has changed since.
LEMMA NotOutOfDate ==
  ASSUME NEW o \in Output, ~OutOfDate(o)
  PROVE  /\ disk[o] # None /\ newer[o] \cap Inputs(G, o) = {}
         /\ o # Manifest => log[o] = Command(G, o) /\ IsMade(o)
         /\ \A s \in Source : o = Obj(s) =>
              /\ o \notin newer[o] /\ newer[o] \cap ({Src(s)} \cup deps[s]) = {}
              /\ \A d \in deps[s] : Exists(d)
<1>1. disk[o] # None /\ newer[o] \cap Inputs(G, o) = {} /\ (o # Manifest => log[o] = Command(G, o))
  BY DEF OutOfDate
<1>2. ASSUME NEW s \in Source, o = Obj(s)
      PROVE  /\ o \notin newer[o] /\ newer[o] \cap ({Src(s)} \cup deps[s]) = {}
             /\ \A d \in deps[s] : Exists(d)
  <2>1. o \in Objects /\ o[2] = s /\ Inputs(G, o) = {Src(s)}
    BY <1>2, Distinct, InputsByName
  <2> QED
    BY <1>1, <2>1 DEF OutOfDate
<1> QED
  BY <1>1, <1>2 DEF IsMade

\* ninja plans what is dirty.  What is not is made, from what is.
LEMMA ScanKeepsFInv ==
  ASSUME IInv, FInv, Scan
  PROVE  FInv'
<1>1. TypeOK /\ Records /\ SourcesAreKnown
  BY DEF FInv
<1>2. /\ UNCHANGED <<inputs, disk, database, busy, failed, loaded, outcome, quiet>>
      /\ pc = "scan" /\ busy = {} /\ failed = {} /\ outcome = "none" /\ G' = G
      /\ G.srcs \subseteq Present
  BY DEF Scan, history, IInv, BuildIsOn, PlanOfPhase, G
<1>3. \/ pc' = "rebuild" /\ plan' = Dirty \cap (Objects \cup {Manifest})
      \/ pc' = "scan"
      \/ pc' = "build" /\ plan' = Dirty /\ Manifest \notin Dirty
  BY <1>2 DEF Scan
<1>4. G \in Graph /\ G.srcs \subseteq Source /\ G.link \in Seq(Source)
  BY <1>1, <1>2, TypesByName DEF SourcesAreKnown, Graph
<1>5. TypeOK' /\ Records' /\ Runs' /\ Ends'
  BY <1>1, <1>2, FInvIsTyped, PhasesKeepTypes, NothingIsWritten, NoRuns, NoEndYet
<1>6. SourcesAreKnown'
  <2>1. Present' = Present
    BY <1>2 DEF Present, inputs
  <2>2. \A s \in Source : LeftOver(s)' <=> LeftOver(s)
    BY <1>2 DEF LeftOver, inputs
  <2> QED
    BY <1>1, <1>2, <1>3, <2>1, <2>2 DEF SourcesAreKnown
<1>7. RebuildGoes'
  <2>1. Dirty \cap Objects \subseteq ObjectsOf(G)
    BY <1>4, DirtyObjects, Distinct DEF Edges, BaseOf
  <2> QED
    BY <1>2, <1>3, <2>1 DEF RebuildGoes, ObjectsOf
<1>8. BuildGoes'
  <2> SUFFICES ASSUME pc' = "build" PROVE BuildGoes'
    BY DEF BuildGoes
  <2>1. plan' = Dirty /\ Manifest \notin Dirty
    BY <1>3
  <2>2. Dirty \subseteq Edges(G) /\ Dirty \cap Objects = {} /\ Edges(G) \subseteq Output
    BY <1>4, <2>1, DirtyObjects, PublishedInputs
  <2>3. \A o \in Edges(G) : o \notin Dirty => ~OutOfDate(o) /\ Inputs(G, o) \cap Dirty = {}
    BY <1>4, <2>1, DirtyIsClosed
  <2>4. ASSUME NEW s \in G.srcs PROVE ObjectIsMade(s)'
    <3>1. s \in Source /\ Obj(s) \in Edges(G) /\ Obj(s) \notin Dirty /\ Obj(s) # Manifest
      BY <1>4, <2>2, Distinct DEF Edges, ObjectsOf
    <3>2. ~OutOfDate(Obj(s))
      BY <2>3, <3>1
    <3>3. ObjectIsMade(s)
      BY <2>2, <3>1, <3>2, NotOutOfDate DEF ObjectIsMade
    <3> QED
      BY <1>2, <3>3 DEF ObjectIsMade, inputs, database, Exists
  <2>5. ASSUME NEW o \in Edges(G) \cap Published PROVE PublishedIsMade(o)'
    <3>1. o # Manifest /\ o \in Output
      BY Distinct
    <3>2. o \notin Dirty => /\ disk[o] # None /\ log[o] = Command(G, o)
                            /\ newer[o] \cap Inputs(G, o) = {} /\ Inputs(G, o) \cap Dirty = {}
      BY <2>3, <3>1, NotOutOfDate
    <3> QED
      BY <1>2, <2>1, <3>2 DEF PublishedIsMade, IsMade, Since, database
  <2>6. newer'[Manifest] \cap Inputs(G, Manifest) = {}
    <3>1. Manifest \in Edges(G)
      BY DEF Edges
    <3> QED
      BY <1>2, <2>1, <2>2, <2>3, <3>1, NotOutOfDate DEF database
  <2>7. newer'[Manifest] \cap ({CsvFile} \cup ObjectsOf(G)) = {}
    BY <2>6, InputsByName
  <2>8. plan' \subseteq Edges(G)' /\ ObjectsOf(G)' = ObjectsOf(G)
    BY <1>2, <2>1, <2>2 DEF Edges, BaseOf, ObjectsOf, HasBase
  <2>9. Edges(G)' = Edges(G) /\ Inputs(G, Manifest)' = Inputs(G, Manifest)
    BY <1>2
  <2> QED
    BY <1>2, <2>4, <2>5, <2>6, <2>7, <2>8, <2>9 DEF BuildGoes
<1> QED
  BY <1>5, <1>6, <1>7, <1>8 DEF FInv

-----------------------------------------------------------------------------
(* Commands start.                                                         *)

\* A symbol that a source of build.ninja defines has an owner among those it links.
LEMMA DefinedHasOwner ==
  ASSUME csv \in Seq(Symbol), G.srcs \in SUBSET Source, NEW defs,
         G.link = LinkOrder(csv, G.srcs, defs),
         NEW k \in DOMAIN csv, NEW s \in G.srcs, csv[k] \in defs[s]
  PROVE  \E i \in DOMAIN G.link :
           G.link[i] \in G.srcs /\ (Stem[G.link[i]] = csv[k] \/ csv[k] \in defs[G.link[i]])
<1>1. \E i \in DOMAIN LinkOrder(csv, G.srcs, defs) :
        LET o == LinkOrder(csv, G.srcs, defs)[i]
        IN  o \in G.srcs /\ (Stem[o] = csv[k] \/ csv[k] \in defs[o])
  BY DefinedIsLinked, SourceMapAssumption
<1> QED
  BY <1>1

\* What the target is cut from.
LEMMA TargetIsCut ==
  ASSUME csv \in Csv, Present \in SUBSET Source, Objs \in [Source -> {None} \cup ObjectFile],
         disk[Base] \in {None} \cup BaseFile
  PROVE  LET u == CutTarget(csv, Present, Objs, disk[Base])
         IN  /\ u # None /\ u.csv = csv /\ u.base = disk[Base]
             /\ \A f : f \in u.decompiled <=>
                         /\ f \in Names(csv)
                         /\ \E s \in Present : Objs[s] # None /\ f \in Defines[Objs[s].content]
BY CutTargetTyped, DecompiledIs

\* What the target takes from an object has an owner in the base as it is: build.ninja
\* links an owner of every symbol that a source defines, and the base was linked from
\* the objects as they are.
LEMMA DecompiledIsOwned ==
  ASSUME TypeOK, Records, SourcesAreKnown, BuildGoes, TargetIsToCome, Inputs(G, Target) \cap plan = {},
         NEW s \in Present, disk[Obj(s)] # None,
         NEW f \in Names(csv), f \in Defines[disk[Obj(s)].content]
  PROVE  /\ disk[Base] # None /\ log[Base] # None
         /\ \E i \in DOMAIN log[Base].link :
              Stem[log[Base].link[i]] = f \/ f \in Defines[disk[Base][i].content]
<1>1. pc = "build" /\ s \in Source
  BY DEF TargetIsToCome, Present
<1>2. G # None /\ G \in Graph /\ s \in G.srcs
  BY <1>1, TypesByName DEF SourcesAreKnown, LeftOver, Present
<1>3. G.srcs \in SUBSET Source /\ G.link \in Seq(Source)
  BY <1>2 DEF Graph
<1>4. \A t \in G.srcs : ObjectIsMade(t)
  BY <1>1 DEF BuildGoes
<1>5. PICK c \in Csv, defs \in [G.srcs -> SUBSET Symbol] :
        /\ G.link = LinkOrder(c, G.srcs, defs)
        /\ CsvFile \notin newer[Manifest] => c = csv
        /\ \A t \in G.srcs :
             Obj(t) \notin newer[Manifest] /\ disk[Obj(t)] # None =>
               defs[t] = Defines[disk[Obj(t)].content]
  BY <1>2 DEF Records, ManifestRecord, LinkIsOf
<1>6. newer[Manifest] \cap ({CsvFile} \cup ObjectsOf(G)) = {}
  BY <1>1 DEF BuildGoes
<1>7. c = csv /\ \A t \in G.srcs : defs[t] = Defines[disk[Obj(t)].content]
  BY <1>4, <1>5, <1>6 DEF ObjectsOf, ObjectIsMade
<1>8. csv \in Seq(Symbol)
  BY BuildGraphAssumption DEF BuildGraphAssumption, TypeOK
<1>9. PICK k \in DOMAIN csv : csv[k] = f
  BY DEF Names
<1>10. PICK i \in DOMAIN G.link :
         G.link[i] \in G.srcs /\ (Stem[G.link[i]] = f \/ f \in defs[G.link[i]])
  <2>1. csv[k] \in defs[s] /\ G.link = LinkOrder(csv, G.srcs, defs)
    BY <1>2, <1>5, <1>7, <1>9
  <2> QED
    BY <1>2, <1>3, <1>8, <1>9, <2>1, DefinedHasOwner
<1> DEFINE owner == G.link[i]
<1>11. owner \in G.srcs /\ (Stem[owner] = f \/ f \in defs[owner])
  BY <1>10
<1>12. i \in DOMAIN G.link /\ G.link[i] = owner
  OBVIOUS
<1> HIDE DEF owner
<1>13. HasBase(G) /\ Base \in Edges(G) \cap Published /\ Base \in Inputs(G, Target)
  <2>1. HasBase(G)
    BY <1>3, <1>12 DEF HasBase
  <2> QED
    BY <2>1, Distinct, InputsByName DEF Edges, BaseOf
<1>14. /\ disk[Base] # None /\ log[Base] = Command(G, Base)
       /\ newer[Base] \cap Inputs(G, Base) \cap Output = {}
  <2>1. Base \notin plan
    BY <1>13
  <2>2. PublishedIsMade(Base) /\ Base \notin busy
    BY <1>1, <1>13, <2>1 DEF BuildGoes, TypeOK
  <2> QED
    BY <2>1, <2>2, Distinct DEF PublishedIsMade, IsMade, Since
<1>15. log[Base] # None /\ log[Base].link = G.link
  BY <1>2, <1>14, CommandTyped, CommandByName, Distinct
<1>16. BaseOfLink(disk[Base], G.link, newer[Base])
  BY <1>14, <1>15 DEF Records, BaseRecord, Recorded
<1>17. disk[Obj(owner)] # None /\ Obj(owner) \notin newer[Base]
  <2>1. Obj(owner) \in Inputs(G, Base) /\ Obj(owner) \in Output
    BY <1>3, <1>11, <1>12, InputsByName, Distinct
  <2> QED
    BY <1>4, <1>11, <1>14, <2>1 DEF ObjectIsMade
<1>18. disk[Base][i] = disk[Obj(owner)]
  BY <1>12, <1>16, <1>17 DEF BaseOfLink
<1>19. Stem[log[Base].link[i]] = f \/ f \in Defines[disk[Base][i].content]
  BY <1>7, <1>11, <1>12, <1>15, <1>18
<1> QED
  BY <1>12, <1>14, <1>15, <1>19

\* The target, when it starts, is cut from the files as they are.
LEMMA TargetStarts ==
  ASSUME TypeOK, Records, SourcesAreKnown, BuildGoes, TargetIsToCome, Inputs(G, Target) \cap plan = {}
  PROVE  /\ Made(Target) # None
         /\ TargetOf(Made(Target), {})
<1> DEFINE t == Made(Target)
<1>1. /\ csv \in Csv /\ Present \in SUBSET Source /\ Objs \in [Source -> {None} \cup ObjectFile]
      /\ disk[Base] \in {None} \cup BaseFile /\ \A s \in Source : Objs[s] = disk[Obj(s)]
  BY TypesByName DEF TypeOK
<1>2. t = CutTarget(csv, Present, Objs, disk[Base])
  BY MadeByName
<1>3. /\ t # None /\ t.csv = csv /\ t.base = disk[Base]
      /\ \A f : f \in t.decompiled <=>
                  /\ f \in Names(csv)
                  /\ \E s \in Present : Objs[s] # None /\ f \in Defines[Objs[s].content]
  BY <1>1, <1>2, TargetIsCut
<1> HIDE DEF t
<1>4. t.decompiled \subseteq Names(csv)
  BY <1>3
<1>5. ASSUME NEW s \in Source, ~ToBeMade(s)
      PROVE  Defines[disk[Obj(s)].content] \cap Names(csv) \subseteq t.decompiled
  BY <1>1, <1>3, <1>5 DEF ToBeMade, Present
<1>6. ASSUME NEW f \in t.decompiled
      PROVE  \E i \in DOMAIN log[Base].link :
               t.base # None /\ (Stem[log[Base].link[i]] = f \/ f \in Defines[t.base[i].content])
  <2>1. PICK s \in Present : disk[Obj(s)] # None /\ f \in Defines[disk[Obj(s)].content]
    BY <1>1, <1>3, <1>6
  <2>2. f \in Names(csv)
    BY <1>3, <1>6
  <2> QED
    BY <1>3, <2>1, <2>2, DecompiledIsOwned
<1>7. TargetOf(t, {})
  BY <1>3, <1>4, <1>5, <1>6 DEF TargetOf
<1> QED
  BY <1>3, <1>7 DEF t

\* The report, when it starts, measures what there is; the target is there by then.
LEMMA ReportStarts ==
  ASSUME IInv, TypeOK, BuildGoes, pc \in {"rebuild", "build"}, Startable(Report)
  PROVE  /\ Made(Report) # None => ReportOf(Made(Report), {})
         /\ cli => Made(Report) # None
<1>1. pc = "build"
  BY Distinct DEF IInv, PlanOfPhase, Startable
<1>2. Target \notin plan /\ Target \in Edges(G) \cap Published
  BY InputsByName, Distinct DEF Startable, Edges
<1>3. disk[Target] # None
  BY <1>1, <1>2, Distinct DEF BuildGoes, PublishedIsMade, IsMade
<1>4. /\ disk[Target] \in TargetFile /\ disk[Base] \in {None} \cup BaseFile
      /\ disk[Json] \in {None} \cup JsonFile
  BY <1>3, TypesByName
<1>5. Made(Report) = MeasuredReport(cli, disk[Json], disk[Target], disk[Base], disk[Report])
  BY MadeByName
<1> DEFINE r == [target |-> disk[Target], base |-> IF disk[Json].base THEN disk[Base] ELSE None]
<1>6. Made(Report) = IF cli THEN r ELSE None
  BY <1>5 DEF MeasuredReport
<1>7. r \in ReportFile
  BY <1>4 DEF ReportFile
<1>8. r # None
  BY <1>7, NoneIsNoFile
<1>9. disk[Json] # None => disk[Json].base \in BOOLEAN
  BY <1>4 DEF JsonFile
<1>10. ReportOf(r, {})
  BY <1>9 DEF ReportOf
<1> HIDE DEF r
<1> QED
  BY <1>6, <1>8, <1>10

\* What an object is compiled from is what it holds.
LEMMA ObjectStarts ==
  ASSUME TypeOK, G \in Graph, NEW s \in Source, Made(Obj(s)) # None
  PROVE  /\ CompiledFrom(s, Made(Obj(s)), {})
         /\ Made(Obj(s)).flags = G.flags
         /\ Made(Obj(s)).content \in Includes => header # None
<1>1. src[s] \in {None} \cup Content /\ header \in {None} \cup Header /\ G.flags \in Flags
  BY DEF TypeOK, Graph
<1>2. Made(Obj(s)) = Compiled(src[s], header, G.flags)
  BY MadeByName
<1>3. /\ src[s] # None /\ src[s] \notin Broken /\ (src[s] \in Includes => header # None)
      /\ Made(Obj(s)).content = src[s] /\ Made(Obj(s)).flags = G.flags
      /\ Made(Obj(s)).header = (IF src[s] \in Includes THEN header ELSE None)
  BY <1>1, <1>2, CompiledIs
<1> QED
  BY <1>3 DEF CompiledFrom

\* What a command reads as it starts is what there is.
LEMMA StartedIsRun ==
  ASSUME IInv, FInv, NEW o \in Output, Start(o)
  PROVE  StartedAreRuns({o})'
<1>1. /\ TypeOK /\ Records /\ SourcesAreKnown /\ RebuildGoes /\ BuildGoes
      /\ pc \in {"rebuild", "build"} /\ Startable(o)
  BY DEF FInv, Start
<1>2. /\ result'[o] = Made(o) /\ since'[o] = {}
      /\ UNCHANGED <<inputs, disk, database, quiet, pc>> /\ G' = G /\ Objs' = Objs
  BY <1>1 DEF Start, TypeOK, history, process, G, Objs
<1>3. G \in Graph
  BY <1>1, TypesByName DEF SourcesAreKnown
<1>4. ASSUME NEW s \in Source, o = Obj(s) PROVE ObjectRun(s)'
  <2>1. Made(Obj(s)) # None =>
          /\ CompiledFrom(s, Made(Obj(s)), {})
          /\ Made(Obj(s)).flags = G.flags
          /\ Made(Obj(s)).content \in Includes => header # None
    BY <1>1, <1>3, ObjectStarts
  <2>2. result'[Obj(s)] = Made(Obj(s)) /\ since'[Obj(s)] = {} /\ UNCHANGED <<src, header>>
    BY <1>2, <1>4 DEF inputs
  <2> QED
    BY <1>2, <2>1, <2>2 DEF ObjectRun, CompiledFrom
<1>5. ASSUME o = Manifest PROVE ManifestRun'
  <2>1. /\ csv \in Csv /\ flags \in Flags
        /\ Objs \in [Source -> {None} \cup ObjectFile] /\ Present \in SUBSET Source
    BY <1>1, TypesByName DEF TypeOK
  <2>2. \A srcs \in SUBSET Source : /\ ManifestOf(srcs, flags, csv, Objs) # None
                                    /\ ManifestOf(srcs, flags, csv, Objs).srcs = srcs
    BY <2>1, ManifestHasSources
  <2>3. result'[Manifest] = ManifestOf(Present, flags, csv, Objs)
    BY <1>2, <1>5, MadeByName
  <2>4. result'[Manifest].srcs = Present
    BY <2>1, <2>2, <2>3
  <2>5. flags' = flags /\ csv' = csv
    BY <1>2 DEF inputs
  <2> QED
    BY <1>2, <2>1, <2>3, <2>4, <2>5 DEF ManifestRun
<1>6. ASSUME o = Base PROVE BaseRun'
  BY <1>2, <1>6, MadeByName DEF BaseRun
<1>7. ASSUME o = Target PROVE TargetRun'
  <2>1. TargetIsToCome
    <3>1. Target \in plan \ busy
      BY <1>1, <1>7 DEF Startable
    <3>2. pc # "rebuild"
      BY <3>1, Distinct DEF IInv, PlanOfPhase
    <3> QED
      BY <1>1, <3>1, <3>2 DEF TargetIsToCome
  <2>2. Made(Target) # None /\ TargetOf(Made(Target), {})
    BY <1>1, <1>7, <2>1, TargetStarts DEF Startable
  <2>3. ASSUME NEW t, t = Made(Target) PROVE TargetOf(t, {})'
    BY <1>2, <2>2, <2>3 DEF TargetOf, ToBeMade, inputs, database
  <2>4. result'[Target] = Made(Target) /\ since'[Target] = {}
    BY <1>2, <1>7
  <2> QED
    BY <2>2, <2>3, <2>4 DEF TargetRun, TargetOf, ToBeMade
<1>8. ASSUME o = Json PROVE JsonRun'
  BY <1>2, <1>8, MadeByName DEF JsonRun, HasBase
<1>9. ASSUME o = Report PROVE ReportRun'
  <2>1. /\ Made(Report) # None => ReportOf(Made(Report), {})
        /\ cli => Made(Report) # None
    BY <1>1, <1>9, ReportStarts
  <2>2. result'[Report] = Made(Report) /\ since'[Report] = {} /\ UNCHANGED <<disk, cli>>
    BY <1>2, <1>9 DEF inputs
  <2> QED
    BY <2>1, <2>2 DEF ReportRun, ReportOf
<1> QED
  BY <1>4, <1>5, <1>6, <1>7, <1>8, <1>9 DEF StartedAreRuns

\* The start of a command keeps the invariant.
LEMMA StartKeepsFInv ==
  ASSUME IInv, FInv, NEW o \in Output, Start(o)
  PROVE  FInv'
<1>1. /\ TypeOK /\ Records /\ Runs /\ SourcesAreKnown /\ RebuildGoes /\ BuildGoes
      /\ pc \in {"rebuild", "build"} /\ Startable(o) /\ o \in plan \ busy
      /\ Inputs(G, o) \cap plan = {}
  BY DEF FInv, Start, Startable
<1>2. /\ UNCHANGED <<inputs, disk, database, process, plan, failed, history>>
      /\ UNCHANGED <<src, header, csv, flags, cli, log, newer, deps, pc, loaded, outcome, quiet>>
      /\ G' = G /\ Objs' = Objs /\ Present' = Present
      /\ busy' = busy \cup {o} /\ result'[o] = Made(o) /\ since'[o] = {}
      /\ \A p \in Output \ {o} : result'[p] = result[p] /\ since'[p] = since[p]
  BY <1>1 DEF Start, TypeOK, inputs, database, process, history, G, Objs, Present
<1>3. TypeOK'
  BY FInvIsTyped, CommandsKeepTypes
<1>4. Records'
  BY <1>1, <1>2, NothingIsWritten
<1>5. Runs'
  <2>1. Writes({}) /\ RunsGoOn({}, {o})
    BY <1>1, <1>2, Distinct DEF Writes, RunsGoOn, TypeOK
  <2>2. StartedAreRuns({o})'
    BY StartedIsRun
  <2> QED
    BY <1>1, <2>1, <2>2, RunsKept
<1>6. SourcesAreKnown'
  <2>1. TargetIsToCome' => TargetIsToCome
    BY <1>2 DEF TargetIsToCome
  <2>2. \A s \in Source : LeftOver(s)' <=> LeftOver(s)
    BY <1>2 DEF LeftOver
  <2>3. ASSUME Manifest \in busy'
        PROVE  /\ \A s \in Source : LeftOver(s) => s \in result'[Manifest].srcs
               /\ quiet => result'[Manifest].srcs = Present
    <3>1. CASE o = Manifest
      <4>1. result'[Manifest] = ManifestOf(Present, flags, csv, Objs)
        BY <1>2, <3>1, MadeByName
      <4>2. /\ csv \in Csv /\ flags \in Flags
            /\ Objs \in [Source -> {None} \cup ObjectFile] /\ Present \in SUBSET Source
        BY <1>1, TypesByName DEF TypeOK
      <4>3. \A srcs \in SUBSET Source : ManifestOf(srcs, flags, csv, Objs).srcs = srcs
        BY <4>2, ManifestHasSources
      <4> QED
        BY <4>1, <4>2, <4>3 DEF LeftOver, Present
    <3>2. CASE o # Manifest
      BY <1>1, <1>2, <2>3, <3>2, Distinct DEF SourcesAreKnown
    <3> QED
      BY <3>1, <3>2
  <2> QED
    BY <1>1, <1>2, <2>1, <2>2, <2>3 DEF SourcesAreKnown
<1>7. RebuildGoes'
  <2>1. pc = "rebuild" /\ Manifest \in busy' => plan = {Manifest}
    <3>1. pc = "rebuild" /\ o = Manifest => plan = {Manifest}
      BY <1>1, InputsByName DEF RebuildGoes
    <3> QED
      BY <1>1, <1>2, <3>1 DEF RebuildGoes
  <2>2. ASSUME quiet, NEW s \in Source, Obj(s) \in busy'
        PROVE  result'[Obj(s)] = Compiled(src[s], header, G.flags)
    BY <1>1, <1>2, <2>2, MadeByName, Distinct DEF RebuildGoes
  <2> QED
    BY <1>1, <1>2, <2>1, <2>2 DEF RebuildGoes, ObjectsOf
<1>8. BuildGoes'
  <2> SUFFICES ASSUME pc = "build" PROVE BuildGoes'
    BY <1>2 DEF BuildGoes
  <2>1. ASSUME NEW p \in Edges(G) \cap Published PROVE PublishedIsMade(p)'
    <3>1. PublishedIsMade(p) /\ p \in Output
      BY <1>1, <2>1, Distinct DEF BuildGoes
    <3>2. IsMade(p)' <=> IsMade(p)
      BY <1>2 DEF IsMade
    <3>3. Since(p)' = IF p = o THEN {} ELSE Since(p)
      BY <1>1, <1>2, <3>1 DEF Since
    <3> QED
      BY <1>1, <1>2, <3>1, <3>2, <3>3 DEF PublishedIsMade
  <2>2. \A s \in G.srcs : ObjectIsMade(s)' <=> ObjectIsMade(s)
    BY <1>2 DEF ObjectIsMade, Exists
  <2>3. TargetIsToCome' => TargetIsToCome
    BY <1>2 DEF TargetIsToCome
  <2>4. Edges(G)' = Edges(G) /\ ObjectsOf(G)' = ObjectsOf(G) /\ Inputs(G, Manifest)' = Inputs(G, Manifest)
    BY <1>2
  <2> QED
    BY <1>1, <1>2, <2>1, <2>2, <2>3, <2>4 DEF BuildGoes
<1>9. Ends'
  BY <1>1, <1>2, NoEndYet DEF IInv, BuildIsOn
<1> QED
  BY <1>3, <1>4, <1>5, <1>6, <1>7, <1>8, <1>9 DEF FInv

-----------------------------------------------------------------------------
(* Commands finish.                                                        *)

\* build.ninja is made last, and objects are made before what is made from them.
LEMMA OneByOne ==
  ASSUME IInv, TypeOK, RebuildGoes, NEW o \in busy
  PROVE  /\ o \in plan /\ o \in Output
         /\ pc \in {"rebuild", "build"}
         /\ pc = "build" => o \in Published /\ plan \subseteq Published
         /\ o = Manifest => pc = "rebuild" /\ busy = {Manifest} /\ plan = {Manifest}
         /\ o \in Objects => pc = "rebuild" /\ Manifest \notin busy /\ Base \notin busy
<1>1. o \in plan /\ o \in Output
  BY DEF TypeOK
<1>2. pc \in {"rebuild", "build"}
  BY DEF IInv, BuildIsOn, PlanOfPhase, Phases
<1>3. pc = "build" => o \in Published /\ plan \subseteq Published
  BY DEF IInv, PlanOfPhase
<1>4. pc = "rebuild" => busy \subseteq Objects \cup {Manifest}
  BY DEF IInv, PlanOfPhase
<1>5. o = Manifest => pc = "rebuild" /\ busy = {Manifest} /\ plan = {Manifest}
  BY <1>2, <1>3, Distinct DEF RebuildGoes, TypeOK
<1>6. o \in Objects => pc = "rebuild" /\ Manifest \notin busy /\ Base \notin busy
  BY <1>1, <1>2, <1>3, <1>4, Distinct DEF RebuildGoes
<1> QED
  BY <1>1, <1>2, <1>3, <1>5, <1>6

\* A command that fails leaves no file, and what fails would from scratch.
LEMMA FinishFailedKeepsFInv ==
  ASSUME IInv, FInv, NEW o \in Output, FinishFailed(o)
  PROVE  FInv'
<1>1. /\ TypeOK /\ Records /\ Runs /\ SourcesAreKnown /\ RebuildGoes /\ BuildGoes
      /\ o \in busy /\ o \in Objects \cup {Base} /\ result[o] = None
  BY DEF FInv, FinishFailed, Fails
<1>2. /\ UNCHANGED <<inputs, database, process, plan, result, history>>
      /\ UNCHANGED <<src, header, csv, flags, cli, log, newer, deps, pc, loaded, outcome, quiet>>
      /\ busy' = busy \ {o} /\ failed' = failed \cup {o}
      /\ \A p \in Output \ {o} : disk'[p] = disk[p] /\ since'[p] = since[p]
      /\ disk'[o] = None /\ Present' = Present
  BY <1>1 DEF FinishFailed, TypeOK, inputs, database, process, history, Present
<1>3. /\ o \in plan /\ pc \in {"rebuild", "build"} /\ G' = G
      /\ pc = "build" => o = Base /\ Objs' = Objs
      /\ pc = "rebuild" => o \in Objects /\ Manifest \notin busy /\ Base \notin busy
  <2>1. /\ o \in plan /\ pc \in {"rebuild", "build"}
        /\ o \in Objects => pc = "rebuild" /\ Manifest \notin busy /\ Base \notin busy
    BY <1>1, OneByOne
  <2>2. pc = "rebuild" => o # Base
    BY <1>1, Distinct DEF IInv, PlanOfPhase
  <2>3. G' = G /\ (o = Base => Objs' = Objs)
    BY <1>1, <1>2, Distinct DEF G, Objs
  <2> QED
    BY <1>1, <2>1, <2>2, <2>3
<1>4. TypeOK'
  BY FInvIsTyped, CommandsKeepTypes
<1>5. Writes({}) /\ RunsGoOn({}, {})
  <2>1. Writes({})
    BY <1>2 DEF Writes
  <2>2. RunsGoOn({}, {})
    BY <1>1, <1>2, <1>3, Distinct DEF RunsGoOn, TypeOK
  <2> QED
    BY <2>1, <2>2
<1>6. Records' /\ Runs'
  <2>1. WrittenAreRecorded({})' /\ StartedAreRuns({})'
    BY DEF WrittenAreRecorded, StartedAreRuns
  <2> QED
    BY <1>1, <1>5, <2>1, RecordsKept, RunsKept
<1>7. SourcesAreKnown'
  <2>1. TargetIsToCome' => TargetIsToCome
    BY <1>1, <1>2, Distinct DEF TargetIsToCome
  <2>2. \A s \in Source : LeftOver(s)' => LeftOver(s)
    BY <1>2, Distinct DEF LeftOver
  <2> QED
    BY <1>1, <1>2, <1>3, <2>1, <2>2 DEF SourcesAreKnown
<1>8. RebuildGoes'
  <2>1. ASSUME quiet, NEW s \in Source, Obj(s) \in failed'
        PROVE  s \in Present /\ Compiled(src[s], header, flags) = None
    <3>1. CASE Obj(s) \in failed
      BY <1>1, <1>3, <2>1, <3>1 DEF RebuildGoes
    <3>2. CASE o = Obj(s)
      <4>1. pc = "rebuild"
        BY <1>3, <3>2, Distinct
      <4>2. s \in G.srcs /\ G \in Graph
        <5>1. G \in Graph
          BY <1>1, <4>1, TypesByName DEF SourcesAreKnown
        <5>2. Obj(s) \in ObjectsOf(G)
          BY <1>1, <1>3, <3>2, <4>1, Distinct DEF RebuildGoes
        <5> QED
          BY <5>1, <5>2, Distinct DEF ObjectsOf, Graph
      <4>3. s \in Present
        BY <1>1, <2>1, <4>1, <4>2 DEF SourcesAreKnown
      <4>4. Compiled(src[s], header, G.flags) = None
        BY <1>1, <2>1, <3>2, <4>1 DEF RebuildGoes
      <4>5. /\ src[s] \in {None} \cup Content /\ header \in {None} \cup Header
            /\ flags \in Flags /\ G.flags \in Flags
        BY <1>1, <4>2 DEF TypeOK, Graph
      <4> QED
        BY <4>3, <4>4, <4>5, FlagsDoNotMatter
    <3> QED
      BY <1>2, <2>1, <3>1, <3>2
  <2> QED
    BY <1>1, <1>2, <1>3, <2>1 DEF RebuildGoes, ObjectsOf
<1>9. BuildGoes'
  <2> SUFFICES ASSUME pc = "build" PROVE BuildGoes'
    BY <1>2 DEF BuildGoes
  <2>1. o = Base /\ Objs' = Objs
    BY <1>3
  <2>2. ASSUME NEW p \in Edges(G) \cap Published PROVE PublishedIsMade(p)'
    <3>1. PublishedIsMade(p) /\ p \in Output
      BY <1>1, <2>2, Distinct DEF BuildGoes
    <3>2. p # o => (IsMade(p)' <=> IsMade(p))
      BY <1>2, <1>3, <3>1 DEF IsMade
    <3>3. p # o => Since(p)' = Since(p)
      BY <1>2, <1>3, <3>1 DEF Since
    <3> QED
      BY <1>2, <1>3, <3>1, <3>2, <3>3 DEF PublishedIsMade
  <2>3. \A s \in G.srcs : ObjectIsMade(s)' <=> ObjectIsMade(s)
    <3>1. \A s \in G.srcs : Obj(s) \in Output \ {o}
      BY <1>1, <2>1, TypesByName, Distinct DEF SourcesAreKnown, Graph
    <3> QED
      BY <1>2, <1>3, <3>1 DEF ObjectIsMade, Exists
  <2>4. TargetIsToCome' => TargetIsToCome
    BY <1>2, <2>1, Distinct DEF TargetIsToCome
  <2>5. Edges(G)' = Edges(G) /\ ObjectsOf(G)' = ObjectsOf(G) /\ Inputs(G, Manifest)' = Inputs(G, Manifest)
    BY <1>3
  <2>6. LinkedBase(G.link, Objs)' = None
    BY <1>1, <1>3, <2>1 DEF Runs, BaseRun
  <2> QED
    BY <1>1, <1>2, <1>3, <2>2, <2>3, <2>4, <2>5, <2>6 DEF BuildGoes
<1>10. Ends'
  BY <1>2, <1>3, NoEndYet DEF IInv, BuildIsOn
<1> QED
  BY <1>4, <1>6, <1>7, <1>8, <1>9, <1>10 DEF FInv

\* What the end of a command writes, and what it leaves.
LEMMA FinishOkWrites ==
  ASSUME IInv, TypeOK, RebuildGoes, NEW o \in Output, FinishOk(o)
  PROVE  /\ UNCHANGED <<src, header, csv, flags, cli, pc, loaded, failed, outcome, quiet>>
         /\ busy' = busy \ {o} /\ plan' = plan \ {o}
         /\ disk'[o] = result[o] /\ log'[o] = Command(G, o)
         /\ o # Manifest => newer'[o] = since[o]
         /\ \A p \in Output \ {o} :
              /\ disk'[p] = disk[p] /\ log'[p] = log[p] /\ result'[p] = result[p]
              /\ newer'[p] = IF log[p] = None /\ p # Manifest THEN {}
                             ELSE newer[p] \cup ({o} \cap Watched(p))
              /\ p \in busy => since'[p] = since[p] \cup ({o} \cap Watched(p))
         /\ \A s \in Source : deps'[s] = IF o = Obj(s) THEN Depfile(result[o].content, header) ELSE deps[s]
         /\ o # Manifest => G' = G
         /\ o \notin Objects => Objs' = Objs
         /\ Present' = Present
<1>1. /\ o \in busy
      /\ disk' = [disk EXCEPT ![o] = result[o]]
      /\ log' = [log EXCEPT ![o] = Command(G, o)]
      /\ newer' = [Noted({o}) EXCEPT ![o] = IF o = Manifest THEN {} ELSE since[o]]
      /\ deps' = IF o \in Objects
                 THEN [deps EXCEPT ![o[2]] = Depfile(result[o].content, header)] ELSE deps
      /\ busy' = busy \ {o} /\ plan' = plan \ {o}
      /\ result' = [result EXCEPT ![o] = None]
      /\ since' = [NotedSince({o}) EXCEPT ![o] = {}]
      /\ UNCHANGED <<src, header, csv, flags, cli, pc, loaded, failed, outcome, quiet>>
  BY DEF FinishOk, inputs, process, history
<1>2. disk'[o] = result[o] /\ log'[o] = Command(G, o) /\ (o # Manifest => newer'[o] = since[o])
  BY <1>1 DEF TypeOK, Noted
<1>3. ASSUME NEW p \in Output \ {o}
      PROVE  /\ disk'[p] = disk[p] /\ log'[p] = log[p] /\ result'[p] = result[p]
             /\ newer'[p] = IF log[p] = None /\ p # Manifest THEN {}
                            ELSE newer[p] \cup ({o} \cap Watched(p))
             /\ p \in busy => since'[p] = since[p] \cup ({o} \cap Watched(p))
  BY <1>1 DEF TypeOK, Noted, NotedSince
<1>4. ASSUME NEW s \in Source
      PROVE  deps'[s] = IF o = Obj(s) THEN Depfile(result[o].content, header) ELSE deps[s]
  <2>1. CASE o \notin Objects
    BY <1>1, <2>1, Distinct
  <2>2. CASE o \in Objects
    <3>1. PICK t \in Source : o = Obj(t) /\ o[2] = t
      BY <2>2, Distinct
    <3>2. deps' = [deps EXCEPT ![t] = Depfile(result[o].content, header)]
      BY <1>1, <2>2, <3>1
    <3>3. o = Obj(s) <=> s = t
      BY <3>1, Distinct
    <3> QED
      BY <3>2, <3>3 DEF TypeOK
  <2> QED
    BY <2>1, <2>2
<1>5. (o # Manifest => G' = G) /\ (o \notin Objects => Objs' = Objs) /\ Present' = Present
  BY <1>1, <1>3, Distinct DEF G, Objs, Present
<1> QED
  BY <1>1, <1>2, <1>3, <1>4, <1>5

\* What a command has written is what its run is said to.
LEMMA FinishedIsRecorded ==
  ASSUME IInv, FInv, NEW o \in Output, FinishOk(o), Writes({o})
  PROVE  WrittenAreRecorded({o})'
<1>1. /\ TypeOK /\ Runs /\ SourcesAreKnown /\ RebuildGoes /\ o \in busy /\ ~Fails(o)
  BY DEF FInv, FinishOk
<1>2. pc \in {"rebuild", "build"}
  BY <1>1, OneByOne
<1>3. G \in Graph
  BY <1>1, <1>2, TypesByName DEF SourcesAreKnown
<1>4. /\ UNCHANGED <<src, header, csv, flags, quiet, cli>>
      /\ disk'[o] = result[o] /\ log'[o] = Command(G, o)
      /\ o # Manifest => newer'[o] = since[o]
      /\ \A p \in Output \ {o} : disk'[p] = disk[p]
      /\ \A s \in Source : o = Obj(s) => deps'[s] = Depfile(result[o].content, header)
  BY <1>1, FinishOkWrites
<1>5. ASSUME NEW s \in Source, o = Obj(s) PROVE ObjectRecord(s)'
  <2>1. result[o] \in ObjectFile /\ result[o] # None
    BY <1>1, <1>5, TypesByName, Distinct DEF Fails
  <2>2. /\ CompiledFrom(s, result[o], since[o])
        /\ result[o].flags = G.flags
        /\ result[o].content \in Includes => header # None
    BY <1>1, <1>5, <2>1 DEF Runs, ObjectRun
  <2>3. CompiledFrom(s, disk[o], newer[o])'
    <3>1. disk'[o] = result[o] /\ newer'[o] = since[o] /\ UNCHANGED <<src, header>>
      BY <1>4, <1>5, Distinct
    <3> QED
      BY <2>2, <3>1 DEF CompiledFrom
  <2>4. log'[o].flags = G.flags
    BY <1>4, <1>5, CommandByName
  <2>5. result[o].content \in Includes => Hdr \in deps'[s]
    <3> SUFFICES ASSUME result[o].content \in Includes PROVE Hdr \in deps'[s]
      OBVIOUS
    <3>1. Hdr \in Reports[result[o].content] /\ header # None /\ Hdr # NotFound
      BY <2>2, BuildGraphAssumption, Distinct DEF BuildGraphAssumption
    <3>2. Hdr \in Depfile(result[o].content, header)
      BY <3>1 DEF Depfile
    <3> QED
      BY <1>4, <1>5, <3>2
  <2> QED
    BY <1>4, <1>5, <2>2, <2>3, <2>4, <2>5 DEF ObjectRecord
<1>6. ASSUME o = Manifest PROVE ManifestRecord'
  <2>1. /\ result[Manifest].srcs \in SUBSET Source
        /\ result[Manifest] = ManifestOf(result[Manifest].srcs, flags, csv, Objs)
    BY <1>1, <1>6 DEF Runs, ManifestRun
  <2>2. G' = result[Manifest] /\ \A s \in Source : disk'[Obj(s)] = disk[Obj(s)]
    BY <1>4, <1>6, Distinct DEF G
  <2> QED
    BY <1>1, <1>4, <2>1, <2>2, ManifestIsOfObjects
<1>7. ASSUME o = Base PROVE BaseRecord'
  <2>1. result[Base] = LinkedBase(G.link, Objs) /\ result[Base] # None
    BY <1>1, <1>7 DEF Runs, BaseRun, Fails
  <2>2. /\ G.link \in Seq(Source) /\ Objs \in [Source -> {None} \cup ObjectFile]
        /\ \A i \in DOMAIN G.link : G.link[i] \in Source
    BY <1>1, <1>3, TypesByName DEF Graph
  <2>3. /\ DOMAIN result[Base] = DOMAIN G.link
        /\ \A i \in DOMAIN G.link : result[Base][i] = Objs[G.link[i]]
        /\ Links(G.link, Objs)
    BY <2>1, <2>2, LinkedBaseTyped
  <2>4. \A i \in DOMAIN G.link : disk'[Obj(G.link[i])] = Objs[G.link[i]]
    BY <1>1, <1>4, <1>7, <2>2, TypesByName, Distinct
  <2>5. ASSUME NEW base, NEW link, NEW later, base = result[Base], link = G.link, later = newer'[Base]
        PROVE  BaseOfLink(base, link, later)'
    BY <2>3, <2>4, <2>5 DEF BaseOfLink, Links
  <2>6. disk'[Base] = result[Base] /\ log'[Base].link = G.link
    BY <1>4, <1>7, CommandByName
  <2> QED
    BY <2>5, <2>6 DEF BaseRecord, BaseOfLink
<1>8. ASSUME o = Target PROVE TargetRecord'
  <2>1. result[Target] # None /\ TargetOf(result[Target], since[Target])
    BY <1>1, <1>8 DEF Runs, TargetRun
  <2>2. Target \notin Watched(Target)
    BY WatchedByName, Distinct
  <2>3. ASSUME NEW t, NEW later, t = result[Target], later = since[Target] PROVE TargetOf(t, later)'
    BY <1>8, <2>1, <2>2, <2>3, TargetOfKept
  <2>4. disk'[Target] = result[Target] /\ newer'[Target] = since[Target]
    BY <1>4, <1>8, Distinct
  <2> QED
    BY <2>3, <2>4 DEF TargetRecord, TargetOf
<1>9. ASSUME o = Json PROVE JsonRecord'
  <2>1. result[Json] = ObjdiffJson(HasBase(G))
    BY <1>1, <1>9 DEF Runs, JsonRun
  <2> QED
    BY <1>4, <1>9, <2>1, Distinct DEF JsonRecord, ObjdiffJson, Command, HasBase
<1>10. ASSUME o = Report PROVE ReportRecord'
  <2> SUFFICES ASSUME result[Report] # None PROVE ReportOf(disk[Report], newer[Report])'
    BY <1>4, <1>10 DEF ReportRecord, Recorded
  <2>1. ReportOf(result[Report], since[Report])
    BY <1>1, <1>10 DEF Runs, ReportRun
  <2>2. Report \notin Watched(Report)
    BY WatchedByName, Distinct
  <2>3. ASSUME NEW r, NEW later, r = result[Report], later = since[Report] PROVE ReportOf(r, later)'
    BY <1>10, <2>1, <2>2, <2>3, ReportOfKept
  <2>4. disk'[Report] = result[Report] /\ newer'[Report] = since[Report]
    BY <1>4, <1>10, Distinct
  <2> QED
    BY <2>3, <2>4 DEF ReportOf
<1> QED
  BY <1>5, <1>6, <1>7, <1>8, <1>9, <1>10 DEF WrittenAreRecorded

\* What a command publishes is as the graph has it, made from what is made.
LEMMA PublishedIsWritten ==
  ASSUME IInv, FInv, NEW o \in Output, FinishOk(o), pc = "build",
         NEW p \in Edges(G) \cap Published
  PROVE  PublishedIsMade(p)'
<1>1. /\ TypeOK /\ Runs /\ SourcesAreKnown /\ RebuildGoes /\ BuildGoes /\ o \in busy /\ ~Fails(o)
      /\ PublishedIsMade(p) /\ p \in Output
  BY Distinct DEF FInv, FinishOk, BuildGoes
<1>2. /\ UNCHANGED <<quiet, cli>>
      /\ busy' = busy \ {o} /\ plan' = plan \ {o}
      /\ disk'[o] = result[o] /\ log'[o] = Command(G, o)
      /\ o # Manifest => newer'[o] = since[o] /\ G' = G
      /\ \A f \in Output \ {o} :
           /\ disk'[f] = disk[f] /\ log'[f] = log[f]
           /\ newer'[f] \subseteq newer[f] \cup {o}
           /\ f \in busy => since'[f] \subseteq since[f] \cup {o}
  BY <1>1, FinishOkWrites
<1>3. o \in plan /\ o \in Published /\ o # Manifest
  BY <1>1, OneByOne, Distinct
<1>4. CASE p = o
  <2>1. disk'[o] # None \/ (o = Report /\ (quiet => ~cli))
    <3>1. CASE o = Base
      BY <1>1, <1>2, <3>1 DEF Fails
    <3>2. CASE o = Target
      BY <1>1, <1>2, <3>2 DEF Runs, TargetRun
    <3>3. CASE o = Json
      <4>1. result[Json] \in JsonFile
        BY <1>1, <3>3, ValuesByName DEF Runs, JsonRun, ObjdiffJson, JsonFile, HasBase
      <4> QED
        BY <1>2, <3>3, <4>1, NoneIsNoFile
    <3>4. CASE o = Report
      BY <1>1, <1>2, <3>4 DEF Runs, ReportRun
    <3> QED
      BY <1>3, <3>1, <3>2, <3>3, <3>4, Distinct
  <2>2. IsMade(o)'
    BY <1>2, <1>3, <2>1 DEF IsMade
  <2>3. Inputs(G, o) \cap plan' = {}
    BY <1>1, <1>2, <1>4 DEF PublishedIsMade
  <2>4. Since(o)' = Since(o)
    BY <1>1, <1>2, <1>3 DEF Since
  <2> QED
    BY <1>1, <1>2, <1>3, <1>4, <2>2, <2>3, <2>4 DEF PublishedIsMade
<1>5. CASE p # o
  <2>1. IsMade(p)' <=> IsMade(p)
    BY <1>1, <1>2, <1>3, <1>5 DEF IsMade
  <2> SUFFICES ASSUME p \notin plan \/ p \in busy
               PROVE  Inputs(G, p) \cap plan' = {} /\ Since(p)' \subseteq Since(p)
    BY <1>1, <1>2, <1>3, <1>5, <2>1 DEF PublishedIsMade
  <2>2. Inputs(G, p) \cap plan = {} /\ o \notin Inputs(G, p)
    BY <1>1, <1>3 DEF PublishedIsMade
  <2>3. Since(p)' \subseteq Since(p)
    BY <1>1, <1>2, <1>3, <1>5, <2>2 DEF Since
  <2> QED
    BY <1>2, <2>2, <2>3
<1> QED
  BY <1>4, <1>5

\* The end of a command keeps the invariant.
LEMMA FinishOkKeepsFInv ==
  ASSUME IInv, FInv, NEW o \in Output, FinishOk(o)
  PROVE  FInv'
<1>1. /\ TypeOK /\ Records /\ Runs /\ SourcesAreKnown /\ RebuildGoes /\ BuildGoes
      /\ o \in busy /\ ~Fails(o)
  BY DEF FInv, FinishOk
<1>2. /\ UNCHANGED <<src, header, csv, flags, cli, pc, loaded, failed, outcome, quiet>>
      /\ busy' = busy \ {o} /\ plan' = plan \ {o}
      /\ disk'[o] = result[o]
      /\ \A p \in Output \ {o} :
           /\ disk'[p] = disk[p] /\ log'[p] = log[p] /\ result'[p] = result[p]
           /\ newer'[p] = IF log[p] = None /\ p # Manifest THEN {}
                          ELSE newer[p] \cup ({o} \cap Watched(p))
           /\ p \in busy => since'[p] = since[p] \cup ({o} \cap Watched(p))
      /\ \A s \in Source : o # Obj(s) => deps'[s] = deps[s]
      /\ o # Manifest => G' = G
      /\ o \notin Objects => Objs' = Objs
      /\ Present' = Present
  BY <1>1, FinishOkWrites
<1>3. /\ o \in plan /\ o \in Output
      /\ pc \in {"rebuild", "build"}
      /\ pc = "build" => o \in Published /\ plan \subseteq Published
      /\ o = Manifest => pc = "rebuild" /\ busy = {Manifest} /\ plan = {Manifest}
      /\ o \in Objects => pc = "rebuild" /\ Manifest \notin busy /\ Base \notin busy
  BY <1>1, OneByOne
<1>4. TypeOK'
  BY FInvIsTyped, CommandsKeepTypes
<1>5. Writes({o})
  <2>1. o \notin Input
    BY Distinct
  <2> QED
    BY <1>2, <2>1, Distinct DEF Writes
<1>6. RunsGoOn({o}, {})
  <2>1. ASSUME NEW p \in busy'
        PROVE  /\ p \in busy /\ result'[p] = result[p]
               /\ since[p] \cup ({o} \cap Watched(p)) \subseteq since'[p]
    <3>1. p \in busy /\ p \in Output \ {o}
      BY <1>1, <1>2 DEF TypeOK
    <3> QED
      BY <1>2, <3>1
  <2>2. o = Manifest => busy' = {}
    BY <1>2, <1>3
  <2>3. busy' \cap {Manifest, Base} # {} => o \notin Objects
    BY <1>2, <1>3
  <2> QED
    BY <1>2, <2>1, <2>2, <2>3 DEF RunsGoOn
<1>7. Records' /\ Runs'
  <2>1. WrittenAreRecorded({o})' /\ StartedAreRuns({})'
    BY <1>5, FinishedIsRecorded DEF StartedAreRuns
  <2> QED
    BY <1>1, <1>5, <1>6, <2>1, RecordsKept, RunsKept
<1>8. SourcesAreKnown'
  <2>1. TargetIsToCome' => TargetIsToCome
    BY <1>2 DEF TargetIsToCome
  <2>2. CASE o = Manifest
    <3>1. /\ \A s \in Source : LeftOver(s) => s \in result[Manifest].srcs
          /\ quiet => result[Manifest].srcs = Present
      BY <1>1, <2>2 DEF SourcesAreKnown
    <3>2. G' = result[Manifest] /\ G' # None
      <4>1. /\ csv \in Csv /\ flags \in Flags
            /\ Objs \in [Source -> {None} \cup ObjectFile]
        BY <1>1, TypesByName DEF TypeOK
      <4>2. \A srcs \in SUBSET Source : ManifestOf(srcs, flags, csv, Objs) # None
        BY <4>1, ManifestHasSources
      <4> QED
        BY <1>1, <1>2, <2>2, <4>2 DEF Runs, ManifestRun, G
    <3>3. \A s \in Source : LeftOver(s)' <=> LeftOver(s)
      BY <1>2, <2>2, Distinct DEF LeftOver
    <3> QED
      BY <1>1, <1>2, <1>3, <2>1, <2>2, <3>1, <3>2, <3>3 DEF SourcesAreKnown
  <2>3. CASE o # Manifest
    <3>1. ASSUME pc = "rebuild" \/ TargetIsToCome, NEW s \in Source, LeftOver(s)'
          PROVE  s \in G.srcs
      <4>1. CASE o = Obj(s)
        <5>1. pc = "rebuild" /\ o \in ObjectsOf(G)
          BY <1>1, <1>3, <4>1, Distinct DEF RebuildGoes
        <5>2. G.srcs \subseteq Source
          BY <1>1, <5>1, TypesByName DEF SourcesAreKnown, Graph
        <5> QED
          BY <4>1, <5>1, <5>2, Distinct DEF ObjectsOf
      <4>2. CASE o # Obj(s)
        <5>1. LeftOver(s)
          BY <1>2, <3>1, <4>2, Distinct DEF LeftOver
        <5> QED
          BY <1>1, <3>1, <5>1 DEF SourcesAreKnown
      <4> QED
        BY <4>1, <4>2
    <3>2. ASSUME Manifest \in busy', NEW s \in Source, LeftOver(s)'
          PROVE  s \in result[Manifest].srcs
      <4>1. Manifest \in busy
        BY <1>2, <3>2
      <4>2. busy = {Manifest}
        BY <1>1, <4>1, OneByOne
      <4> QED
        BY <1>1, <2>3, <4>2
    <3>3. result'[Manifest] = result[Manifest] /\ G' = G /\ pc' = pc /\ quiet' = quiet
      BY <1>2, <2>3, Distinct
    <3> QED
      BY <1>1, <1>2, <1>3, <2>1, <3>1, <3>2, <3>3 DEF SourcesAreKnown
  <2> QED
    BY <2>2, <2>3
<1>9. RebuildGoes'
  <2>1. CASE o = Manifest
    BY <1>1, <1>2, <1>3, <2>1, Distinct DEF RebuildGoes, TypeOK
  <2>2. CASE o # Manifest
    <3>1. Manifest \notin busy \/ pc # "rebuild"
      BY <1>1, <1>3, <2>2 DEF RebuildGoes
    <3>2. \A s \in Source : Obj(s) \in busy' => result'[Obj(s)] = result[Obj(s)] /\ Obj(s) \in busy
      BY <1>2, Distinct
    <3> QED
      BY <1>1, <1>2, <2>2, <3>1, <3>2 DEF RebuildGoes, ObjectsOf
  <2> QED
    BY <2>1, <2>2
<1>10. BuildGoes'
  <2> SUFFICES ASSUME pc = "build" PROVE BuildGoes'
    BY <1>2 DEF BuildGoes
  <2>1. o \in Published /\ G' = G /\ Objs' = Objs
    BY <1>2, <1>3, Distinct
  <2>2. \A p \in Edges(G) \cap Published : PublishedIsMade(p)'
    BY PublishedIsWritten
  <2>3. ASSUME NEW s \in G.srcs PROVE ObjectIsMade(s)'
    <3>1. s \in Source /\ Obj(s) \in Output \ {o} /\ o \notin Watched(Obj(s)) /\ o # Obj(s)
      BY <1>1, <2>1, TypesByName, WatchedByName, Distinct DEF SourcesAreKnown, Graph
    <3>2. /\ disk'[Obj(s)] = disk[Obj(s)] /\ log'[Obj(s)] = log[Obj(s)]
          /\ newer'[Obj(s)] \subseteq newer[Obj(s)] /\ deps'[s] = deps[s]
      BY <1>2, <3>1
    <3>3. ObjectIsMade(s)
      BY <1>1 DEF BuildGoes
    <3> QED
      BY <1>2, <2>1, <3>2, <3>3 DEF ObjectIsMade, Exists
  <2>4. TargetIsToCome' => TargetIsToCome
    BY <1>2 DEF TargetIsToCome
  <2>5. newer'[Manifest] \subseteq newer[Manifest]
    <3>1. o \notin Watched(Manifest) /\ Manifest \in Output \ {o}
      BY <2>1, WatchedByName, Distinct
    <3> QED
      BY <1>2, <3>1
  <2>6. Edges(G)' = Edges(G) /\ ObjectsOf(G)' = ObjectsOf(G) /\ Inputs(G, Manifest)' = Inputs(G, Manifest)
    BY <2>1
  <2> QED
    BY <1>1, <1>2, <2>1, <2>2, <2>3, <2>4, <2>5, <2>6 DEF BuildGoes
<1>11. Ends'
  BY <1>2, <1>3, NoEndYet DEF IInv, BuildIsOn
<1> QED
  BY <1>4, <1>7, <1>8, <1>9, <1>10, <1>11 DEF FInv

-----------------------------------------------------------------------------
(* The end of a run.                                                       *)

\* What a build from scratch leaves, file by file.
LEMMA FromScratchIs ==
  LET objs == CleanObjects(src, header, flags)
      m    == ManifestOf(Present, flags, csv, objs)
      made == FromScratch
  IN  /\ made.objs = objs /\ made.manifest = m
      /\ made.base = (IF HasBase(m) THEN LinkedBase(m.link, objs) ELSE None)
      /\ made.target = CutTarget(csv, Present, objs, made.base)
      /\ made.json = ObjdiffJson(HasBase(m))
      /\ made.report = MeasuredReport(cli, made.json, made.target, made.base, None)
      /\ made.ok <=> (\A s \in Present : objs[s] # None) /\ (HasBase(m) => made.base # None)
BY DEF FromScratch, CleanBuild, Present

\* While it publishes, what nothing was changed under has every object as compiled
\* from the inputs.
LEMMA ObjectsAreClean ==
  ASSUME IInv, FInv, pc = "build", quiet
  PROVE  /\ G \in Graph /\ G # None /\ G.srcs = Present /\ G.flags = flags
         /\ \A s \in Present : /\ disk[Obj(s)] # None
                               /\ disk[Obj(s)] = Compiled(src[s], header, flags)
                               /\ ~ToBeMade(s) /\ ~OutOfDate(Obj(s))
<1>1. /\ TypeOK /\ Records /\ G # None /\ G \in Graph /\ G.srcs = Present
      /\ \A s \in G.srcs : ObjectIsMade(s)
      /\ newer[Manifest] \cap Inputs(G, Manifest) = {}
  BY TypesByName DEF FInv, SourcesAreKnown, BuildGoes
<1>2. G.flags = flags
  <2>1. CcYaml \in Inputs(G, Manifest)
    BY InputsByName
  <2> QED
    BY <1>1, <2>1 DEF Records, ManifestRecord
<1>3. ASSUME NEW s \in Present
      PROVE  /\ disk[Obj(s)] # None
             /\ disk[Obj(s)] = Compiled(src[s], header, flags)
             /\ ~ToBeMade(s) /\ ~OutOfDate(Obj(s))
  <2>1. s \in Source /\ src[s] # None /\ s \in G.srcs
    BY <1>1 DEF Present
  <2>2. /\ disk[Obj(s)] # None /\ log[Obj(s)] = Command(G, Obj(s))
        /\ Obj(s) \notin newer[Obj(s)]
        /\ newer[Obj(s)] \cap ({Src(s)} \cup deps[s]) = {} /\ \A d \in deps[s] : Exists(d)
    BY <1>1, <2>1 DEF ObjectIsMade
  <2>3. log[Obj(s)] # None /\ log[Obj(s)].flags = flags
    <3>1. Command(G, Obj(s)) # None
      BY <1>1, <2>1, CommandTyped, Distinct
    <3>2. Command(G, Obj(s)).flags = G.flags
      BY <2>1, CommandByName
    <3> QED
      BY <1>2, <2>2, <3>1, <3>2
  <2>4. /\ CompiledFrom(s, disk[Obj(s)], newer[Obj(s)])
        /\ disk[Obj(s)].flags = flags
        /\ disk[Obj(s)].content \in Includes => Hdr \in deps[s]
    BY <1>1, <2>1, <2>2, <2>3 DEF Records, ObjectRecord, Recorded
  <2>5. src[s] = disk[Obj(s)].content /\ src[s] \notin Broken
    BY <2>1, <2>2, <2>4 DEF CompiledFrom
  <2>6. /\ src[s] \in Includes => header # None /\ disk[Obj(s)].header = header
        /\ src[s] \notin Includes => disk[Obj(s)].header = None
    BY <2>2, <2>4, <2>5 DEF CompiledFrom, Exists
  <2>7. disk[Obj(s)] \in ObjectFile
    BY <1>1, <2>1, <2>2, TypesByName
  <2>8. disk[Obj(s)] = [content |-> src[s],
                        header  |-> IF src[s] \in Includes THEN header ELSE None,
                        flags   |-> flags]
    BY <2>4, <2>5, <2>6, <2>7 DEF ObjectFile
  <2>9. Compiled(src[s], header, flags) = disk[Obj(s)]
    BY <2>1, <2>5, <2>6, <2>8 DEF Compiled
  <2>10. ~ToBeMade(s)
    BY <2>1, <2>2, <2>3 DEF ToBeMade
  <2>11. ~OutOfDate(Obj(s))
    BY <2>1, <2>2, InputsByName, Distinct DEF OutOfDate
  <2> QED
    BY <2>2, <2>9, <2>10, <2>11
<1> QED
  BY <1>1, <1>2, <1>3

\* And build.ninja as made from them.
LEMMA ManifestIsClean ==
  ASSUME IInv, FInv, pc = "build", quiet
  PROVE  /\ G = ManifestOf(Present, flags, csv, CleanObjects(src, header, flags))
         /\ \A i \in DOMAIN G.link : G.link[i] \in Present
<1> DEFINE objs == CleanObjects(src, header, flags)
<1>1. /\ G \in Graph /\ G # None /\ G.srcs = Present /\ G.flags = flags
      /\ \A s \in Present : disk[Obj(s)] # None /\ disk[Obj(s)] = Compiled(src[s], header, flags)
  BY ObjectsAreClean
<1>2. Records /\ newer[Manifest] \cap Inputs(G, Manifest) = {} /\ Present \subseteq Source
  BY DEF FInv, BuildGoes, Present
<1>3. PICK c \in Csv, defs \in [Present -> SUBSET Symbol] :
        /\ G.link = LinkOrder(c, Present, defs)
        /\ CsvFile \notin newer[Manifest] => c = csv
        /\ \A s \in Present :
             Obj(s) \notin newer[Manifest] /\ disk[Obj(s)] # None =>
               defs[s] = Defines[disk[Obj(s)].content]
  BY <1>1, <1>2 DEF Records, ManifestRecord, LinkIsOf
<1>4. CsvFile \in Inputs(G, Manifest) /\ \A s \in Present : Obj(s) \in Inputs(G, Manifest)
  BY <1>1, InputsByName DEF ObjectsOf
<1>5. c = csv /\ \A s \in Present : defs[s] = Defines[disk[Obj(s)].content]
  BY <1>1, <1>2, <1>3, <1>4
<1>6. \A s \in Present : objs[s] = disk[Obj(s)]
  BY <1>1, <1>2 DEF CleanObjects
<1>7. DefinedBy(Present, objs) = defs
  <2>1. DefinedBy(Present, objs)
          = [s \in Present |-> IF objs[s] = None THEN {} ELSE Defines[objs[s].content]]
    BY DEF DefinedBy
  <2> HIDE DEF objs
  <2> QED
    BY <1>1, <1>3, <1>5, <1>6, <2>1
<1>8. ManifestOf(Present, flags, csv, objs)
        = [srcs |-> Present, flags |-> flags, link |-> LinkOrder(csv, Present, DefinedBy(Present, objs))]
  BY DEF ManifestOf
<1> HIDE DEF objs
<1>9. ManifestOf(Present, flags, csv, objs)
        = [srcs |-> Present, flags |-> flags, link |-> LinkOrder(csv, Present, defs)]
  BY <1>7, <1>8
<1>10. G = [srcs |-> G.srcs, flags |-> G.flags, link |-> G.link]
  BY <1>1 DEF Graph
<1>11. G = ManifestOf(Present, flags, csv, objs)
  BY <1>1, <1>3, <1>5, <1>9, <1>10
<1>12. \A i \in DOMAIN G.link : G.link[i] \in Present
  <2>1. csv \in Seq(Symbol)
    BY <1>3, <1>5, BuildGraphAssumption DEF BuildGraphAssumption
  <2>2. LinkOrder(csv, Present, defs) \in Seq(Present)
    BY <1>2, <2>1, SourceMapAssumption, LinkOrderIsOwners
  <2>3. G.link \in Seq(Present)
    BY <1>3, <1>5, <2>2
  <2> QED
    BY <2>3
<1> QED
  BY <1>11, <1>12 DEF objs

\* What fails here fails from scratch.
LEMMA FailureIsOfInputs ==
  ASSUME IInv, FInv, pc \in {"rebuild", "build"}, failed # {}, quiet
  PROVE  ~FromScratch.ok
<1> DEFINE objs == CleanObjects(src, header, flags)
           m == ManifestOf(Present, flags, csv, objs)
<1>1. /\ FromScratch.base = (IF HasBase(m) THEN LinkedBase(m.link, objs) ELSE None)
      /\ FromScratch.ok <=>
           (\A s \in Present : objs[s] # None) /\ (HasBase(m) => FromScratch.base # None)
  BY FromScratchIs
<1>2. \A s \in Source : objs[s] = Compiled(src[s], header, flags)
  BY DEF CleanObjects
<1>3. CASE failed \cap Objects # {}
  <2>1. PICK s \in Source : Obj(s) \in failed
    BY <1>3, Distinct
  <2>2. s \in Present /\ Compiled(src[s], header, flags) = None
    BY <2>1 DEF FInv, RebuildGoes
  <2> QED
    BY <1>1, <1>2, <2>1, <2>2
<1>4. CASE failed \cap Objects = {}
  <2>1. pc = "build" /\ Base \in failed
    BY <1>4 DEF IInv, PlanOfPhase, FInv, RebuildGoes
  <2>2. LinkedBase(G.link, Objs) = None /\ HasBase(G)
    BY <2>1 DEF FInv, BuildGoes, IInv, PlanOfPhase
  <2>3. G = m /\ \A i \in DOMAIN G.link : G.link[i] \in Present
    BY <2>1, ManifestIsClean
  <2>4. /\ G \in Graph
        /\ \A s \in Present : disk[Obj(s)] # None /\ disk[Obj(s)] = Compiled(src[s], header, flags)
    BY <2>1, ObjectsAreClean
  <2>5. G.link \in Seq(Source) /\ Objs \in [Source -> {None} \cup ObjectFile] /\ Present \subseteq Source
    BY <2>4, TypesByName DEF FInv, Graph
  <2>6. \A i \in DOMAIN G.link : Objs[G.link[i]] # None /\ Objs[G.link[i]] = objs[G.link[i]]
    BY <1>2, <2>3, <2>4, <2>5 DEF Objs
  <2>7. ~Links(G.link, Objs)
    BY <2>2, <2>5, <2>6, LinksMakeABase
  <2>8. ~Links(G.link, objs)
    BY <2>6, <2>7 DEF Links
  <2>9. LinkedBase(G.link, objs) = None
    BY <2>8 DEF LinkedBase
  <2> QED
    BY <1>1, <2>2, <2>3, <2>9
<1> QED
  BY <1>3, <1>4

\* Where nothing failed and nothing more can start, all is made.
LEMMA AllIsMade ==
  ASSUME IInv, FInv, pc = "build", busy = {}, failed = {}, \A o \in plan : ~Startable(o)
  PROVE  plan = {}
<1>1. G \in Graph /\ G.srcs \subseteq Source /\ G.link \in Seq(Source)
  BY TypesByName DEF FInv, SourcesAreKnown, Graph
<1>2. plan \subseteq {Base, Target, Json, Report} /\ plan \cap Objects = {}
      /\ plan \cap {CsvFile, CcYaml} = {}
  BY Distinct DEF IInv, PlanOfPhase
<1>3. \A o \in plan : Inputs(G, o) \cap plan # {}
  BY DEF Startable
<1>4. Json \notin plan /\ Base \notin plan
  BY <1>1, <1>2, <1>3, PublishedInputs
<1>5. Target \notin plan
  BY <1>1, <1>2, <1>3, <1>4, PublishedInputs
<1>6. Report \notin plan
  BY <1>1, <1>2, <1>3, <1>4, <1>5, PublishedInputs
<1> QED
  BY <1>2, <1>4, <1>5, <1>6

\* Then each file published is there, as the graph has it, and newer than all it is
\* made from.
LEMMA PublishedIsThere ==
  ASSUME IInv, FInv, pc = "build", busy = {}, plan = {}, quiet, NEW o \in Edges(G) \cap Published
  PROVE  /\ o # Report \/ cli => disk[o] # None
         /\ log[o] = Command(G, o) /\ log[o] # None
         /\ newer[o] \cap Inputs(G, o) = {}
         /\ disk[o] # None => ~OutOfDate(o)
<1>1. G \in Graph /\ o \in Output /\ o \notin Objects /\ o # Manifest
  BY TypesByName, Distinct DEF FInv, SourcesAreKnown
<1>2. PublishedIsMade(o)
  BY DEF FInv, BuildGoes
<1>3. /\ o # Report \/ cli => disk[o] # None
      /\ log[o] = Command(G, o) /\ newer[o] \cap Inputs(G, o) = {}
  BY <1>2 DEF PublishedIsMade, IsMade, Since
<1>4. Command(G, o) # None
  BY <1>1, CommandTyped
<1>5. disk[o] # None => ~OutOfDate(o)
  BY <1>1, <1>3 DEF OutOfDate
<1> QED
  BY <1>3, <1>4, <1>5

\* The base is the objects as build.ninja links them.
LEMMA BaseIsClean ==
  ASSUME IInv, FInv, pc = "build", busy = {}, plan = {}, quiet, HasBase(G)
  PROVE  /\ disk[Base] = LinkedBase(G.link, CleanObjects(src, header, flags))
         /\ disk[Base] # None /\ log[Base] # None /\ log[Base].link = G.link
         /\ \A i \in DOMAIN G.link : disk[Base][i] = disk[Obj(G.link[i])]
<1> DEFINE objs == CleanObjects(src, header, flags)
<1>1. Base \in Edges(G) \cap Published
  BY Distinct DEF Edges, BaseOf
<1>2. /\ disk[Base] # None /\ log[Base] = Command(G, Base) /\ log[Base] # None
      /\ newer[Base] \cap Inputs(G, Base) = {}
  BY <1>1, PublishedIsThere, Distinct
<1>3. log[Base].link = G.link
  BY <1>2, CommandByName
<1>4. BaseOfLink(disk[Base], G.link, newer[Base])
  BY <1>2, <1>3 DEF FInv, Records, BaseRecord, Recorded
<1>5. \A i \in DOMAIN G.link : G.link[i] \in Present /\ G.link[i] \in Source
  BY ManifestIsClean DEF Present
<1>6. \A s \in Present : /\ disk[Obj(s)] # None
                         /\ disk[Obj(s)] = Compiled(src[s], header, flags)
  BY ObjectsAreClean
<1>7. \A i \in DOMAIN G.link : disk[Base][i] = disk[Obj(G.link[i])]
  <2>1. \A i \in DOMAIN G.link : Obj(G.link[i]) \notin newer[Base]
    BY <1>2, InputsByName
  <2> QED
    BY <1>4, <1>5, <1>6, <2>1 DEF BaseOfLink
<1>8. \A i \in DOMAIN G.link : objs[G.link[i]] = disk[Base][i] /\ objs[G.link[i]] # None
  BY <1>5, <1>6, <1>7 DEF CleanObjects
<1>9. disk[Base] \in BaseFile
  BY <1>2, TypesByName DEF FInv
<1> HIDE DEF objs
<1>10. Links(G.link, objs)
  BY <1>4, <1>8 DEF BaseOfLink, Links
<1>11. LinkedBase(G.link, objs) = [i \in DOMAIN G.link |-> objs[G.link[i]]]
  BY <1>8, <1>10 DEF LinkedBase
<1>12. disk[Base] = [i \in DOMAIN disk[Base] |-> disk[Base][i]]
  BY <1>9 DEF BaseFile
<1>13. disk[Base] = LinkedBase(G.link, objs)
  BY <1>4, <1>8, <1>11, <1>12 DEF BaseOfLink
<1> QED
  BY <1>2, <1>3, <1>7, <1>13 DEF objs

\* objdiff.json names the base where there is one.
LEMMA JsonIsClean ==
  ASSUME IInv, FInv, pc = "build", busy = {}, plan = {}, quiet
  PROVE  disk[Json] = ObjdiffJson(HasBase(G))
<1>1. Json \in Edges(G) \cap Published
  BY Distinct DEF Edges
<1>2. disk[Json] # None /\ log[Json] = Command(G, Json) /\ log[Json] # None
  BY <1>1, PublishedIsThere, Distinct
<1>3. disk[Json].base = log[Json].base
  BY <1>2 DEF FInv, Records, JsonRecord, Recorded
<1>4. disk[Json] \in JsonFile
  BY <1>2, TypesByName DEF FInv
<1>5. log[Json].base = (G.link # <<>>)
  BY <1>2, Distinct DEF Command, HasBase
<1> QED
  BY <1>3, <1>4, <1>5 DEF JsonFile, ObjdiffJson, HasBase

\* The target is cut from the CSV by what the objects define, and has the base.
LEMMA TargetIsClean ==
  ASSUME IInv, FInv, pc = "build", busy = {}, plan = {}, quiet, HasBase(G), NamesakesAreDefined
  PROVE  disk[Target] = FromScratch.target
<1> DEFINE objs == CleanObjects(src, header, flags)
           t == disk[Target]
           D == Decompiled(csv, Present, objs)
<1>1. /\ Target \in Edges(G) \cap Published
      /\ G.srcs = Present /\ Present \subseteq Source
      /\ \A s \in Present : /\ disk[Obj(s)] # None
                            /\ disk[Obj(s)] = Compiled(src[s], header, flags)
                            /\ ~ToBeMade(s)
  BY ObjectsAreClean, Distinct DEF Edges, Present
<1>2. t # None /\ log[Target] # None /\ newer[Target] \cap Inputs(G, Target) = {}
  BY <1>1, PublishedIsThere, Distinct
<1>3. /\ disk[Base] = LinkedBase(G.link, objs)
      /\ disk[Base] # None /\ log[Base] # None /\ log[Base].link = G.link
      /\ \A i \in DOMAIN G.link : disk[Base][i] = disk[Obj(G.link[i])]
  BY BaseIsClean
<1>4. /\ {Base, CsvFile} \subseteq Inputs(G, Target)
      /\ \A s \in Present : Obj(s) \in Inputs(G, Target)
  BY <1>1, InputsByName DEF BaseOf, ObjectsOf
<1>5. TargetOf(t, newer[Target])
  BY <1>2 DEF FInv, Records, TargetRecord, Recorded
<1>6. /\ t.csv = csv /\ t.base = disk[Base] /\ t.decompiled \subseteq Names(csv)
      /\ \A s \in Present : Defines[disk[Obj(s)].content] \cap Names(csv) \subseteq t.decompiled
      /\ \A f \in t.decompiled : \E i \in DOMAIN G.link :
           Stem[G.link[i]] = f \/ f \in Defines[disk[Base][i].content]
  BY <1>1, <1>2, <1>3, <1>4, <1>5 DEF TargetOf
<1>7. G = ManifestOf(Present, flags, csv, objs) /\ \A i \in DOMAIN G.link : G.link[i] \in Present
  BY ManifestIsClean
<1>8. FromScratch.target = [csv |-> csv, decompiled |-> D, base |-> disk[Base]]
  BY <1>3, <1>7, FromScratchIs DEF CutTarget
<1>9. \A f : f \in D <=> /\ f \in Names(csv)
                         /\ \E s \in Present : f \in Defines[disk[Obj(s)].content]
  <2>1. \A f : f \in D <=> /\ f \in Names(csv)
                           /\ \E s \in Present : objs[s] # None /\ f \in Defines[objs[s].content]
    BY DecompiledIs
  <2>2. \A s \in Present : objs[s] = disk[Obj(s)] /\ objs[s] # None
    BY <1>1 DEF CleanObjects
  <2> HIDE DEF objs, D
  <2> QED
    BY <2>1, <2>2
<1> HIDE DEF objs, D
<1>10. ASSUME NEW f \in t.decompiled PROVE f \in D
  <2>1. PICK i \in DOMAIN G.link : Stem[G.link[i]] = f \/ f \in Defines[disk[Base][i].content]
    BY <1>6
  <2>2. f \in Names(csv) /\ G.link[i] \in Present
    BY <1>6, <1>7
  <2>3. CASE Stem[G.link[i]] = f
    BY <1>8, <2>2, <2>3 DEF NamesakesAreDefined, Names
  <2>4. CASE f \in Defines[disk[Base][i].content]
    BY <1>3, <1>9, <2>2, <2>4
  <2> QED
    BY <2>1, <2>3, <2>4
<1>11. t.decompiled = D
  BY <1>6, <1>9, <1>10
<1>12. t = [csv |-> t.csv, decompiled |-> t.decompiled, base |-> t.base]
  BY <1>2, TypesByName DEF FInv, TargetFile
<1> QED
  BY <1>6, <1>8, <1>11, <1>12

\* A report that is there measures the target and the base that are.
LEMMA ReportIsOf ==
  ASSUME IInv, FInv, pc = "build", busy = {}, plan = {}, quiet, disk[Report] # None
  PROVE  disk[Report] = [target |-> disk[Target], base |-> IF HasBase(G) THEN disk[Base] ELSE None]
<1>1. /\ {Target, Json, Report} \subseteq Edges(G) \cap Published
      /\ HasBase(G) => Base \in Edges(G) \cap Published
  BY Distinct DEF Edges, BaseOf
<1>2. /\ disk[Target] # None /\ disk[Json] # None
      /\ log[Report] # None /\ newer[Report] \cap Inputs(G, Report) = {}
  BY <1>1, PublishedIsThere, Distinct
<1>3. HasBase(G) => disk[Base] # None
  BY BaseIsClean
<1>4. ReportOf(disk[Report], newer[Report])
  BY <1>2 DEF FInv, Records, ReportRecord, Recorded
<1>5. disk[Json].base = (G.link # <<>>)
  BY JsonIsClean DEF ObjdiffJson, HasBase
<1>6. {Target, Json} \subseteq Inputs(G, Report) /\ (HasBase(G) => Base \in Inputs(G, Report))
  BY InputsByName DEF BaseOf
<1>7. disk[Report].target = disk[Target]
  BY <1>2, <1>4, <1>6 DEF ReportOf
<1>8. disk[Report].base = IF HasBase(G) THEN disk[Base] ELSE None
  BY <1>2, <1>3, <1>4, <1>5, <1>6 DEF ReportOf, HasBase
<1>9. disk[Report] = [target |-> disk[Report].target, base |-> disk[Report].base]
  BY TypesByName DEF FInv, ReportFile
<1> QED
  BY <1>7, <1>8, <1>9

\* Nothing is dirty, but a report that could not be made.
LEMMA NothingIsDirty ==
  ASSUME IInv, FInv, pc = "build", busy = {}, plan = {}, quiet
  PROVE  Dirty \subseteq (IF cli THEN {} ELSE {Report})
<1> DEFINE X == IF cli THEN {} ELSE {Report}
<1>1. /\ G \in Graph /\ G # None /\ G.srcs = Present
      /\ \A s \in Present : ~OutOfDate(Obj(s))
  BY ObjectsAreClean
<1>2. G.srcs \subseteq Source /\ G.link \in Seq(Source)
  BY <1>1 DEF Graph
<1>3. ~OutOfDate(Manifest)
  BY <1>1, Distinct DEF OutOfDate, FInv, BuildGoes, G
<1>4. \A o \in Edges(G) \cap Published : o # Report \/ cli => ~OutOfDate(o)
  BY PublishedIsThere
<1>5. \A o \in Edges(G) : o \in ObjectsOf(G) \/ o = Manifest \/ o \in Edges(G) \cap Published
  BY Distinct DEF Edges, BaseOf
<1>6. ASSUME NEW o \in Edges(G), OutOfDate(o) PROVE o \in X
  <2>1. o \notin ObjectsOf(G)
    BY <1>1, <1>6 DEF ObjectsOf
  <2> QED
    BY <1>3, <1>4, <1>5, <1>6, <2>1
<1>7. ASSUME NEW o \in Edges(G) PROVE Report \notin Inputs(G, o)
  <2>1. o \in Objects => Report \notin Inputs(G, o)
    BY <1>2, PublishedInputs, Distinct
  <2>2. o \in {Manifest, Base, Target, Json, Report} => Report \notin Inputs(G, o)
    BY <1>2, PublishedInputs, InputsByName, Distinct
  <2>3. o \in Output
    BY <1>2, PublishedInputs
  <2> QED
    BY <2>1, <2>2, <2>3, Distinct
<1>8. X \subseteq {Report}
  OBVIOUS
<1> HIDE DEF X
<1>9. Dirty \subseteq X
  BY <1>6, <1>7, <1>8, DirtyIsLeast
<1> QED
  BY <1>9 DEF X

\* All that was made is as from scratch.
LEMMA SuccessIsOfInputs ==
  ASSUME IInv, FInv, pc = "build", busy = {}, plan = {}, quiet
  PROVE  /\ \A s \in Present : disk[Obj(s)] = FromScratch.objs[s]
         /\ G = FromScratch.manifest /\ G # None /\ G.srcs = Present
         /\ disk[Json] = FromScratch.json
         /\ HasBase(G) => /\ disk[Base] = FromScratch.base
                          /\ NamesakesAreDefined =>
                               /\ disk[Target] = FromScratch.target
                               /\ cli => disk[Report] = FromScratch.report
<1> DEFINE objs == CleanObjects(src, header, flags)
           m == ManifestOf(Present, flags, csv, objs)
<1>1. /\ FromScratch.objs = objs /\ FromScratch.manifest = m
      /\ FromScratch.base = (IF HasBase(m) THEN LinkedBase(m.link, objs) ELSE None)
      /\ FromScratch.json = ObjdiffJson(HasBase(m))
      /\ FromScratch.report =
           MeasuredReport(cli, FromScratch.json, FromScratch.target, FromScratch.base, None)
  BY FromScratchIs
<1>2. G = m
  BY ManifestIsClean
<1>3. /\ G # None /\ G.srcs = Present
      /\ \A s \in Present : disk[Obj(s)] = Compiled(src[s], header, flags)
  BY ObjectsAreClean
<1>4. \A s \in Present : disk[Obj(s)] = objs[s]
  BY <1>3 DEF CleanObjects, Present
<1> HIDE DEF objs, m
<1>5. disk[Json] = ObjdiffJson(HasBase(G))
  BY JsonIsClean
<1>6. HasBase(G) => disk[Base] = FromScratch.base
  BY <1>1, <1>2, BaseIsClean DEF objs
<1>7. HasBase(G) /\ NamesakesAreDefined => disk[Target] = FromScratch.target
  BY TargetIsClean
<1>8. ASSUME HasBase(G), NamesakesAreDefined, cli PROVE disk[Report] = FromScratch.report
  <2>1. disk[Report] # None
    <3>1. Report \in Edges(G) \cap Published
      BY Distinct DEF Edges
    <3> QED
      BY <1>8, <3>1, PublishedIsThere
  <2>2. disk[Report] = [target |-> disk[Target], base |-> disk[Base]]
    BY <1>8, <2>1, ReportIsOf
  <2>3. FromScratch.json.base
    <3>1. HasBase(m) = TRUE
      BY <1>2, <1>8 DEF HasBase
    <3>2. FromScratch.json = [base |-> TRUE]
      BY <1>1, <3>1, Zenon DEF ObjdiffJson
    <3> QED
      BY <3>2
  <2>4. FromScratch.report = [target |-> FromScratch.target, base |-> FromScratch.base]
    BY <1>1, <1>8, <2>3 DEF MeasuredReport
  <2> QED
    BY <1>6, <1>7, <1>8, <2>2, <2>4
<1> QED
  BY <1>1, <1>2, <1>3, <1>4, <1>5, <1>6, <1>7, <1>8

\* Nothing is dirty after a step that changes nothing ninja looks at.
LEMMA DirtyStays ==
  ASSUME UNCHANGED <<disk, log, newer, deps, header>>
  PROVE  Dirty' = Dirty
<1>1. G' = G
  BY DEF G
<1>2. \A o : OutOfDate(o)' <=> OutOfDate(o)
  BY <1>1 DEF OutOfDate, Exists
<1>3. {o \in Edges(G) : OutOfDate(o)}' = {o \in Edges(G) : OutOfDate(o)}
  BY <1>1, <1>2
<1> QED
  BY <1>1, <1>2, <1>3 DEF Dirty

\* How a run ends keeps the invariant.
LEMMA RunOverKeepsFInv ==
  ASSUME IInv, FInv, RunOver
  PROVE  FInv'
<1>1. TypeOK /\ Records /\ SourcesAreKnown
  BY DEF FInv
<1>2. /\ UNCHANGED <<inputs, disk, database, busy, quiet>>
      /\ UNCHANGED <<src, header, csv, flags, cli, log, newer, deps>>
      /\ pc \in {"rebuild", "build"} /\ busy = {} /\ \A o \in plan : ~Startable(o)
      /\ G' = G /\ Present' = Present /\ FromScratch' = FromScratch
  BY DEF RunOver, inputs, database, G, Present, FromScratch
<1>3. \/ /\ failed # {} /\ pc' = "idle" /\ failed' = {} /\ outcome' \in {"no object", "no base"}
      \/ /\ failed = {} /\ pc = "rebuild" /\ pc' = "scan" /\ failed' = {} /\ outcome' = "none"
      \/ /\ failed = {} /\ pc = "build" /\ pc' = "idle" /\ failed' = {} /\ outcome' = "ok"
  BY DEF RunOver, End, IInv, BuildIsOn
<1>4. TypeOK' /\ Records' /\ Runs'
  BY <1>1, <1>2, FInvIsTyped, PhasesKeepTypes, NothingIsWritten, NoRuns
<1>5. SourcesAreKnown'
  <2>1. \A s \in Source : LeftOver(s)' <=> LeftOver(s)
    BY <1>2 DEF LeftOver
  <2> QED
    BY <1>1, <1>2, <1>3, <2>1 DEF SourcesAreKnown, TargetIsToCome
<1>6. RebuildGoes' /\ BuildGoes'
  BY <1>2, <1>3 DEF RebuildGoes, BuildGoes
<1>7. Ends'
  <2>1. CASE outcome' = "none"
    BY <2>1, NoEndYet
  <2>2. CASE outcome' \in {"no object", "no base"}
    <3>1. quiet => ~FromScratch.ok
      BY <1>2, <1>3, <2>2, FailureIsOfInputs
    <3> QED
      BY <1>2, <2>2, <3>1 DEF Ends, Succeeded, SuccessIsFromScratch, FailsOnlyIfFromScratchFails,
         ReportIsOfThisBuild, NothingLeftToDo
  <2>3. CASE outcome' = "ok"
    <3> SUFFICES ASSUME quiet PROVE Ends'
      BY <1>2, <2>3 DEF Ends, Succeeded, Failed, Failures, SuccessIsFromScratch,
         FailsOnlyIfFromScratchFails, ReportIsOfThisBuild, NothingLeftToDo
    <3>1. pc = "build" /\ plan = {}
      BY <1>2, <1>3, <2>3, AllIsMade
    <3>2. /\ \A s \in Present : disk[Obj(s)] = FromScratch.objs[s]
          /\ G = FromScratch.manifest /\ G # None /\ G.srcs = Present
          /\ disk[Json] = FromScratch.json
          /\ HasBase(G) => /\ disk[Base] = FromScratch.base
                           /\ NamesakesAreDefined =>
                                /\ disk[Target] = FromScratch.target
                                /\ cli => disk[Report] = FromScratch.report
      BY <1>2, <3>1, SuccessIsOfInputs
    <3>3. disk[Report] # None =>
            disk[Report] = [target |-> disk[Target], base |-> IF HasBase(G) THEN disk[Base] ELSE None]
      BY <1>2, <3>1, ReportIsOf
    <3>4. Dirty \subseteq (IF cli THEN {} ELSE {Report})
      BY <1>2, <3>1, NothingIsDirty
    <3>5. SuccessIsFromScratch'
      <4>1. NamesakesAreDefined' <=> NamesakesAreDefined
        BY <1>2 DEF NamesakesAreDefined
      <4> QED
        BY <1>2, <3>2, <4>1 DEF SuccessIsFromScratch
    <3>6. ReportIsOfThisBuild'
      BY <1>2, <3>3 DEF ReportIsOfThisBuild
    <3>7. NothingLeftToDo'
      <4>1. Dirty' = Dirty
        BY <1>2, DirtyStays
      <4> QED
        BY <1>2, <3>2, <3>4, <4>1 DEF NothingLeftToDo, ManifestIsCurrent
    <3>8. FailsOnlyIfFromScratchFails'
      BY <2>3 DEF FailsOnlyIfFromScratchFails, Failed, Failures
    <3> QED
      BY <3>5, <3>6, <3>7, <3>8 DEF Ends
  <2> QED
    BY <1>3, <2>1, <2>2, <2>3
<1> QED
  BY <1>4, <1>5, <1>6, <1>7 DEF FInv

-----------------------------------------------------------------------------
(* Every step.                                                             *)

\* The steps of `3dsd build` and of ninja.
LEMMA BuildStepKeepsFInv ==
  ASSUME IInv, FInv, BuildStep
  PROVE  FInv'
<1>1. ASSUME NEW o \in Output, Start(o) \/ FinishFailed(o) \/ FinishOk(o) PROVE FInv'
  BY <1>1, StartKeepsFInv, FinishFailedKeepsFInv, FinishOkKeepsFInv
<1> QED
  BY <1>1, GenerateKeepsFInv, ScanFailsKeepsFInv, ScanKeepsFInv, RunOverKeepsFInv DEF BuildStep

\* The user's.
LEMMA UserStepKeepsFInv ==
  ASSUME IInv, FInv, Disturbances = {}, UserStep
  PROVE  FInv'
<1>1. CASE \/ InstallCli
           \/ \E s \in Source : \E c \in {None} \cup Content : EditSource(s, c)
           \/ \E h \in {None} \cup Header : EditHeader(h)
           \/ \E c \in Csv : EditCsv(c)
           \/ \E f \in Flags : EditFlags(f)
  BY <1>1, EditsKeepFInv
<1>2. CASE \/ HandNinja \/ HandGenerateObjdiff
           \/ \E s \in Source : PartialBuild(s)
           \/ \E files \in Cleaned : Clean(files)
  BY <1>2, ByHandKeepsFInv
<1> QED
  BY <1>1, <1>2, LoadKeepsFInv, InterruptKeepsFInv DEF UserStep

\* And a step of something else.
LEMMA NoStepKeepsFInv ==
  ASSUME FInv, UNCHANGED vars
  PROVE  FInv'
<1>1. /\ UNCHANGED <<src, header, csv, flags, cli, disk, log, newer, deps>>
      /\ UNCHANGED <<pc, pass, keep, loaded, plan, busy, result, since, failed>>
      /\ UNCHANGED <<outcome, quiet, before, edits>>
  BY DEF vars, inputs, database, process, ninja, history
<1>2. /\ TypeOK /\ Records /\ Runs /\ SourcesAreKnown /\ RebuildGoes /\ BuildGoes /\ Ends
      /\ G' = G /\ Objs' = Objs /\ Present' = Present /\ FromScratch' = FromScratch
  BY <1>1 DEF FInv, G, Objs, Present, FromScratch
<1>3. TypeOK'
  BY <1>1, <1>2 DEF TypeOK
<1>4. Records'
  BY <1>1, <1>2, NothingIsWritten DEF inputs, database
<1>5. Runs'
  <2>1. Writes({}) /\ RunsGoOn({}, {}) /\ StartedAreRuns({})'
    BY <1>1, <1>2 DEF Writes, RunsGoOn, StartedAreRuns
  <2> QED
    BY <1>2, <2>1, RunsKept
<1>6. TargetIsToCome' <=> TargetIsToCome
  BY <1>1 DEF TargetIsToCome
<1>7. SourcesAreKnown'
  <2>1. \A s \in Source : LeftOver(s)' <=> LeftOver(s)
    BY <1>1 DEF LeftOver
  <2> QED
    BY <1>1, <1>2, <1>6, <2>1 DEF SourcesAreKnown
<1>8. RebuildGoes'
  BY <1>1, <1>2 DEF RebuildGoes
<1>9. BuildGoes'
  <2>1. \A s \in G.srcs : ObjectIsMade(s)' <=> ObjectIsMade(s)
    BY <1>1, <1>2 DEF ObjectIsMade, Exists
  <2>2. \A o \in Edges(G) \cap Published : PublishedIsMade(o)' <=> PublishedIsMade(o)
    BY <1>1, <1>2 DEF PublishedIsMade, IsMade, Since
  <2> QED
    BY <1>1, <1>2, <1>6, <2>1, <2>2 DEF BuildGoes
<1>10. Ends'
  <2>1. NamesakesAreDefined' <=> NamesakesAreDefined
    BY <1>1, <1>2 DEF NamesakesAreDefined
  <2>2. Dirty' = Dirty
    BY <1>1, DirtyStays
  <2>3. SuccessIsFromScratch'
    BY <1>1, <1>2, <2>1 DEF Ends, SuccessIsFromScratch, Succeeded
  <2>4. FailsOnlyIfFromScratchFails' /\ ReportIsOfThisBuild'
    BY <1>1, <1>2 DEF Ends, FailsOnlyIfFromScratchFails, ReportIsOfThisBuild, Succeeded, Failed
  <2>5. NothingLeftToDo'
    BY <1>1, <1>2, <2>2 DEF Ends, NothingLeftToDo, Succeeded
  <2> QED
    BY <2>3, <2>4, <2>5 DEF Ends
<1> QED
  BY <1>3, <1>4, <1>5, <1>7, <1>8, <1>9, <1>10 DEF FInv

\* What holds of a user who edits, builds, interrupts and cleans, and nothing more.
Fresh == Disturbances = {} /\ IInv /\ FInv

\* It holds of a fresh checkout,
THEOREM InitFresh == Disturbances = {} /\ Init => Fresh
<1> SUFFICES ASSUME Disturbances = {}, Init PROVE Fresh
  OBVIOUS
<1>1. TypeOK
  BY DEF Init, TypeOK
<1>2. Records
  BY Distinct DEF Init, Records, ObjectRecord, ManifestRecord, BaseRecord, TargetRecord,
     JsonRecord, ReportRecord, Recorded, G
<1>3. Runs /\ SourcesAreKnown /\ RebuildGoes /\ BuildGoes
  BY DEF Init, Runs, ObjectRun, ManifestRun, BaseRun, TargetRun, JsonRun, ReportRun,
     SourcesAreKnown, TargetIsToCome, RebuildGoes, BuildGoes
<1>4. Ends
  BY DEF Init, Ends, Succeeded, Failed, Failures, SuccessIsFromScratch,
     FailsOnlyIfFromScratchFails, ReportIsOfThisBuild, NothingLeftToDo
<1> QED
  BY <1>1, <1>2, <1>3, <1>4, InitIInv DEF Fresh, FInv

\* and after every step.
THEOREM StepFresh == Fresh /\ [Next]_vars => Fresh'
<1> SUFFICES ASSUME Fresh, [Next]_vars PROVE Fresh'
  OBVIOUS
<1>1. IInv /\ FInv /\ Disturbances = {}
  BY DEF Fresh
<1>2. IInv'
  BY <1>1, StepIInv
<1>3. FInv'
  BY <1>1, BuildStepKeepsFInv, UserStepKeepsFInv, NoStepKeepsFInv DEF Next
<1> QED
  BY <1>1, <1>2, <1>3 DEF Fresh

\* What ninja's records say of the files on disk, of those being made and of those it
\* will not make is true.
THEOREM RecordsAreTrue == Disturbances = {} /\ Spec => []FInv
<1>1. Fresh => FInv
  BY DEF Fresh
<1> QED
  BY <1>1, InitFresh, StepFresh, PTL DEF Spec

\* A build that succeeds, and that nothing was changed under, leaves what a build from
\* scratch would (README.md:39), whatever was edited, interrupted, built in part or
\* cleaned before it.
THEOREM BuildsAreFromScratch == Disturbances = {} /\ Spec => []SuccessIsFromScratch
<1>1. Fresh => SuccessIsFromScratch
  BY DEF Fresh, FInv, Ends
<1> QED
  BY <1>1, InitFresh, StepFresh, PTL DEF Spec

\* One that fails does because its inputs do not build.
THEOREM FailuresAreOfInputs == Disturbances = {} /\ Spec => []FailsOnlyIfFromScratchFails
<1>1. Fresh => FailsOnlyIfFromScratchFails
  BY DEF Fresh, FInv, Ends
<1> QED
  BY <1>1, InitFresh, StepFresh, PTL DEF Spec

\* The report measures the files that are there (objdiff.py generate_report).
THEOREM ReportsAreCurrent == Disturbances = {} /\ Spec => []ReportIsOfThisBuild
<1>1. Fresh => ReportIsOfThisBuild
  BY DEF Fresh, FInv, Ends
<1> QED
  BY <1>1, InitFresh, StepFresh, PTL DEF Spec

\* A build with nothing changed has nothing to run (ninja.py report()).
THEOREM BuildsSettle == Disturbances = {} /\ Spec => []NothingLeftToDo
<1>1. Fresh => NothingLeftToDo
  BY DEF Fresh, FInv, Ends
<1> QED
  BY <1>1, InitFresh, StepFresh, PTL DEF Spec
=============================================================================
