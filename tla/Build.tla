------------------------------- MODULE Build --------------------------------
(***************************************************************************)
(* `3dsd build`: one project, its generated files, ninja's database and a  *)
(* user who edits, builds, interrupts, cleans and builds again.            *)
(*                                                                         *)
(* build.py _run_full loads the project, regenerates build.ninja where     *)
(* ninja could not know it is out of date, and runs ninja twice: first for *)
(* build.ninja itself, which compiles everything, then for the default     *)
(* target, the report.  ninja is modelled as far as 3dsd relies on it: it  *)
(* rebuilds a stale build.ninja before anything else and starts over, runs *)
(* what is dirty in the order of the graph, several commands at once.      *)
(*                                                                         *)
(* Times are not counted.  ninja compares the mtime of an input with the   *)
(* time recorded for an output: newer[o] is the set of files whose mtime   *)
(* is later than that.  The time recorded is when the command started, or, *)
(* for the generator edge of build.ninja, when the file was written.       *)
(***************************************************************************)
EXTENDS BuildGraph

CONSTANTS
  Disturbances,   \* what the user does beyond editing, building and cleaning
  MaxEdits        \* bound on the user's changes, for TLC

EditDuringRegen == "a setting is edited while build.ninja is generated"
OldTimestamp    == "a CSV is copied in with its original, older timestamp"
HandObjdiff     == "3dsd objdiff is run by hand"
LoseHeader      == "the header is removed while a compile that read it runs"
EditBeforeTarget ==
  "the CSV is edited, or a source with an object left over added, after build.ninja was made and before the target is"

ASSUME BuildAssumption ==
  /\ Disturbances \subseteq {EditDuringRegen, OldTimestamp, HandObjdiff, LoseHeader, EditBeforeTarget}
  /\ MaxEdits \in Nat

VARIABLES
  src, header, csv, flags,   \* the inputs: src[s], the header, the CSV, cc.yaml
  cli,                       \* is objdiff-cli installed?
  disk,                      \* disk[o]: what a generated file holds, or None
  log,                       \* log[o]: the command .ninja_log has for o, or None
  newer,                     \* newer[o]: the files later than the time logged for o
  deps,                      \* deps[s]: what .ninja_deps has for the object of s
  pc,                        \* where the build is
  pass,                      \* which of the two ninja runs
  keep,                      \* -k was given
  loaded,                    \* the project as `3dsd build` loaded it
  plan,                      \* ninja: outputs still to be made in this run
  busy,                      \* ninja: those whose command is running
  result,                    \* result[o]: what a running command will write
  since,                     \* since[o]: the files changed since it started
  failed,                    \* ninja: outputs whose command failed
  outcome,                   \* how the last build ended
  quiet,                     \* nothing was changed since it began
  before,                    \* the published files when it began
  edits

inputs   == <<src, header, csv, flags, cli>>
database == <<log, newer, deps>>
ninja    == <<plan, busy, result, since, failed>>
process  == <<pc, pass, keep, loaded>>
history  == <<outcome, quiet, before, edits>>
vars     == <<inputs, disk, database, ninja, process, history>>

Present == {s \in Source : src[s] # None}
Objs    == [s \in Source |-> disk[Obj(s)]]

\* The graph ninja goes by: nothing replaces build.ninja while a run uses it.
G == disk[Manifest]

Failures == {"no source", "no object", "no base"}

Project == [srcs : SUBSET Source, csv : Csv, flags : Flags]

ASSUME ProjectAssumption == None \notin Project

TypeOK ==
  /\ src \in [Source -> {None} \cup Content]
  /\ header \in {None} \cup Header /\ csv \in Csv /\ flags \in Flags /\ cli \in BOOLEAN
  /\ DOMAIN disk = Output /\ DOMAIN result = Output
  /\ \A o \in Output : /\ disk[o] \in {None} \cup FileValue(o)
                       /\ result[o] \in {None} \cup FileValue(o)
  /\ log \in [Output -> {None} \cup CommandRecord]
  /\ newer \in [Output -> SUBSET (Input \cup Output)]
  /\ deps \in [Source -> SUBSET {Hdr, NotFound}]
  /\ pc \in {"idle", "loaded", "scan", "rebuild", "build"}
  /\ pass \in {1, 2} /\ keep \in BOOLEAN
  /\ loaded \in {None} \cup Project
  /\ plan \subseteq Output /\ busy \subseteq plan /\ failed \subseteq plan
  /\ since \in [Output -> SUBSET (Input \cup Output)]
  /\ outcome \in {"none", "ok"} \cup Failures /\ quiet \in BOOLEAN
  /\ edits \in Nat

\* A fresh checkout: inputs, and nothing generated.
Init ==
  /\ src \in [Source -> {None} \cup Content]
  /\ header \in {None} \cup Header /\ csv \in Csv /\ flags \in Flags /\ cli \in BOOLEAN
  /\ disk = [o \in Output |-> None] /\ log = [o \in Output |-> None]
  /\ newer = [o \in Output |-> {}]  /\ deps = [s \in Source |-> {}]
  /\ pc = "idle" /\ pass = 1 /\ keep = FALSE /\ loaded = None
  /\ plan = {} /\ busy = {} /\ failed = {}
  /\ result = [o \in Output |-> None] /\ since = [o \in Output |-> {}]
  /\ outcome = "none" /\ quiet = FALSE /\ before = [o \in Published |-> None]
  /\ edits = 0

\* The files in `written` get the present time: they are newer than what was
\* recorded before.  What has no record is out of date whatever its inputs are.
Noted(written) ==
  [o \in Output |-> IF log[o] = None /\ o # Manifest THEN {}
                    ELSE newer[o] \cup (written \cap Watched(o))]
NotedSince(written) ==
  [o \in Output |-> IF o \in busy THEN since[o] \cup (written \cap Watched(o)) ELSE {}]
Touch(written) == newer' = Noted(written) /\ since' = NotedSince(written)

-----------------------------------------------------------------------------
(* 3dsd build, up to the first ninja.                                      *)

\* `config = ProjectConfig.load(working_dir)`.
Load ==
  /\ pc = "idle"
  /\ pc' = "loaded" /\ pass' = 1 /\ keep' \in BOOLEAN
  /\ loaded' = [srcs |-> Present, csv |-> csv, flags |-> flags]
  /\ outcome' = "none" /\ quiet' = TRUE
  /\ before' = [o \in Published |-> disk[o]]
  /\ UNCHANGED <<inputs, disk, database, ninja, edits>>

\* (variant) Any build.ninja will do.
ManifestIsCurrent_IfAny(m, srcs) == m # None

\* manifest_is_current: the second line of build.ninja names these sources.
ManifestIsCurrent(m, srcs) == m # None /\ m.srcs = srcs

SkipGenerate ==
  /\ pc = "loaded" /\ ManifestIsCurrent(disk[Manifest], loaded.srcs)
  /\ pc' = "scan" /\ loaded' = None
  /\ UNCHANGED <<inputs, disk, database, pass, keep, ninja, history>>

\* generate_ninja, from the project as loaded and the objects as they are now.
\* ninja has not run it: where its log has an entry for build.ninja, that stays.
WriteManifest(srcs, fl, c) ==
  /\ disk' = [disk EXCEPT ![Manifest] = ManifestOf(srcs, fl, c, Objs)]
  /\ newer' = IF log[Manifest] = None THEN [newer EXCEPT ![Manifest] = {}] ELSE newer

Generate ==
  /\ pc = "loaded" /\ ~ManifestIsCurrent(disk[Manifest], loaded.srcs)
  /\ WriteManifest(loaded.srcs, loaded.flags, loaded.csv)
  /\ pc' = "scan" /\ loaded' = None
  /\ UNCHANGED <<inputs, log, deps, pass, keep, ninja, history>>

-----------------------------------------------------------------------------
(* ninja.                                                                  *)

Exists(f) == f = Hdr /\ header # None

\* ninja would make `o` again even if all its inputs were current.
OutOfDate(o) ==
  \/ disk[o] = None
  \/ o # Manifest /\ log[o] # Command(G, o)
  \/ newer[o] \cap Inputs(G, o) # {}
  \/ /\ o \in Objects
     /\ \/ o \in newer[o]
        \/ newer[o] \cap deps[o[2]] # {}
        \/ \E d \in deps[o[2]] : ~Exists(d)

\* What is dirty: out of date, or made from what is.  The longest way through
\* the graph is object, base, target, report.
Dirty ==
  LET Dependents(D) == D \cup {o \in Edges(G) : Inputs(G, o) \cap D # {}}
  IN  Dependents(Dependents(Dependents({o \in Edges(G) : OutOfDate(o)})))

\* (variant) The next run starts with this one's failures.
End_KeepingFailures(how) ==
  /\ pc' = "idle" /\ outcome' = how
  /\ pass' = 1 /\ keep' = FALSE /\ plan' = {} /\ failed' = failed

End(how) ==
  /\ pc' = "idle" /\ outcome' = how
  /\ pass' = 1 /\ keep' = FALSE /\ plan' = {} /\ failed' = {}

\* A source the graph names is gone: "missing and no known rule to make it".
ScanFails ==
  /\ pc = "scan" /\ ~(G.srcs \subseteq Present)
  /\ End("no source")
  /\ UNCHANGED <<inputs, disk, database, loaded, busy, result, since, quiet, before, edits>>

\* ninja looks at every file once.  A dirty build.ninja is rebuilt, in either
\* run; else the first run is over, and the second goes on to the report.
Scan ==
  /\ pc = "scan" /\ G.srcs \subseteq Present
  /\ \/ /\ Manifest \in Dirty
        /\ pc' = "rebuild" /\ plan' = Dirty \cap (Objects \cup {Manifest})
        /\ UNCHANGED pass
     \/ /\ Manifest \notin Dirty /\ pass = 1
        /\ pass' = 2
        /\ UNCHANGED <<pc, plan>>
     \/ /\ Manifest \notin Dirty /\ pass = 2
        /\ pc' = "build" /\ plan' = Dirty
        /\ UNCHANGED pass
  /\ UNCHANGED <<inputs, disk, database, keep, loaded, busy, result, since, failed, history>>

\* What the command of `o` would write, given the files as they are.
Made(o) ==
  CASE o \in Objects -> Compiled(src[o[2]], header, G.flags)
    [] o = Manifest  -> ManifestOf(Present, flags, csv, Objs)
    [] o = Base      -> LinkedBase(G.link, Objs)
    [] o = Target    -> CutTarget(csv, Present, Objs, disk[Base])
    [] o = Json      -> ObjdiffJson(HasBase(G))
    [] o = Report    -> MeasuredReport(cli, disk[Json], disk[Target], disk[Base], disk[Report])

Startable(o) ==
  /\ o \in plan \ (busy \cup failed)
  /\ Inputs(G, o) \cap plan = {}
  /\ failed = {} \/ keep

\* A command reads its inputs as it starts.  One that reads later sees newer
\* files, which count as newer than its start all the same.
Start(o) ==
  /\ pc \in {"rebuild", "build"} /\ Startable(o)
  /\ busy' = busy \cup {o}
  /\ result' = [result EXCEPT ![o] = Made(o)]
  /\ since' = [since EXCEPT ![o] = {}]
  /\ UNCHANGED <<inputs, disk, database, process, plan, failed, history>>

\* A failed compile removes the object and a failed link the base; ninja logs
\* nothing for it.
Fails(o) == o \in Objects \cup {Base} /\ result[o] = None

FinishFailed(o) ==
  /\ o \in busy /\ Fails(o)
  /\ disk' = [disk EXCEPT ![o] = None]
  /\ busy' = busy \ {o} /\ failed' = failed \cup {o}
  /\ since' = [since EXCEPT ![o] = {}]
  /\ UNCHANGED <<inputs, database, process, plan, result, history>>

\* The output is written and logged.
FinishOk(o) ==
  /\ o \in busy /\ ~Fails(o)
  /\ disk' = [disk EXCEPT ![o] = result[o]]
  /\ log' = [log EXCEPT ![o] = Command(G, o)]
  /\ newer' = [Noted({o}) EXCEPT ![o] = IF o = Manifest THEN {} ELSE since[o]]
  /\ deps' = IF o \in Objects
             THEN [deps EXCEPT ![o[2]] = Depfile(result[o].content, header)] ELSE deps
  /\ busy' = busy \ {o} /\ plan' = plan \ {o}
  /\ result' = [result EXCEPT ![o] = None]
  /\ since' = [NotedSince({o}) EXCEPT ![o] = {}]
  /\ UNCHANGED <<inputs, process, failed, history>>

\* Nothing is running and nothing more can start.
RunOver ==
  /\ pc \in {"rebuild", "build"} /\ busy = {}
  /\ \A o \in plan : ~Startable(o)
  /\ \/ /\ failed # {}
        /\ End(IF failed \cap Objects # {} THEN "no object" ELSE "no base")
     \/ /\ failed = {} /\ pc = "rebuild"     \* start over with the new graph
        /\ pc' = "scan" /\ plan' = {}
        /\ UNCHANGED <<pass, keep, failed, outcome>>
     \/ /\ failed = {} /\ pc = "build"
        /\ End("ok")
  /\ UNCHANGED <<inputs, disk, database, loaded, busy, result, since, quiet, before, edits>>

BuildStep ==
  \/ SkipGenerate \/ Generate \/ ScanFails \/ Scan \/ RunOver
  \/ \E o \in Output : Start(o) \/ FinishFailed(o) \/ FinishOk(o)

-----------------------------------------------------------------------------
(* The user.                                                               *)

\* Ctrl-C.  ninja removes the outputs of running commands that were touched.
Interrupt ==
  /\ pc # "idle"
  /\ \E removed \in SUBSET busy :
       disk' = [o \in Output |-> IF o \in removed THEN None ELSE disk[o]]
  /\ pc' = "idle" /\ pass' = 1 /\ keep' = FALSE /\ loaded' = None
  /\ plan' = {} /\ busy' = {} /\ failed' = {}
  /\ result' = [o \in Output |-> None] /\ since' = [o \in Output |-> {}]
  /\ UNCHANGED <<inputs, database, history>>

Change ==
  /\ edits < MaxEdits
  /\ edits' = edits + 1 /\ quiet' = FALSE /\ outcome' = "none"
  /\ UNCHANGED <<before, process>>

Edit == Change /\ UNCHANGED <<disk, log, deps, plan, busy, result, failed>>

\* build.ninja is as new as the end of what generated it: a setting changed after
\* that had read it does not count as newer.
MayEditSettings ==
  (Manifest \notin busy /\ pc # "loaded") \/ EditDuringRegen \in Disturbances

\* The command of the target reads the CSV and the sources' objects as they are
\* when it runs, which may be others than build.ninja has.  What it then takes from
\* an object build.ninja does not name is no reason to make it again.
TargetIsToCome == pc = "build" /\ Target \in plan \ busy

MayAdd(s) ==
  \/ src[s] # None \/ disk[Obj(s)] = None
  \/ ~(pc \in {"loaded", "scan", "rebuild"} \/ TargetIsToCome)
  \/ EditBeforeTarget \in Disturbances

EditSource(s, c) ==
  /\ Edit /\ c # src[s] /\ src' = [src EXCEPT ![s] = c]
  /\ c = None \/ MayAdd(s)
  /\ Touch(IF c = None THEN {} ELSE {Src(s)})
  /\ UNCHANGED <<header, csv, flags, cli>>

EditHeader(h) ==
  /\ Edit /\ h # header /\ header' = h
  /\ h # None \/ busy \cap Objects = {} \/ LoseHeader \in Disturbances
  /\ Touch(IF h = None THEN {} ELSE {Hdr})
  /\ UNCHANGED <<src, csv, flags, cli>>

EditCsv(c) ==
  /\ Edit /\ c # csv /\ csv' = c /\ MayEditSettings
  /\ ~TargetIsToCome \/ EditBeforeTarget \in Disturbances
  /\ \/ Touch({CsvFile})
     \/ OldTimestamp \in Disturbances /\ Touch({})
  /\ UNCHANGED <<src, header, flags, cli>>

EditFlags(f) ==
  /\ Edit /\ f # flags /\ flags' = f /\ MayEditSettings
  /\ Touch({CcYaml})
  /\ UNCHANGED <<src, header, csv, cli>>

InstallCli == Edit /\ cli' = ~cli /\ Touch({}) /\ UNCHANGED <<src, header, csv, flags>>

\* `3dsd build src/<...>`, for one source: it compiles into the project's own
\* build/, without a depfile and behind ninja's back.
PartialBuild(s) ==
  /\ pc = "idle" /\ src[s] # None /\ Change
  /\ disk' = [disk EXCEPT ![Obj(s)] = Compiled(src[s], header, flags)]
  /\ Touch(IF disk'[Obj(s)] = None THEN {} ELSE {Obj(s)})
  /\ UNCHANGED <<inputs, log, deps, plan, busy, result, failed>>

\* `3dsd clean build`, `out`, `ninja` and `objdiff`.
Cleaned == {Objects, {Base, Target, Report}, {Manifest}, {Json}}
Clean(files) ==
  /\ pc = "idle" /\ Change
  /\ disk' = [o \in Output |-> IF o \in files THEN None ELSE disk[o]]
  /\ IF Manifest \in files
     THEN /\ log' = [o \in Output |-> None] /\ newer' = [o \in Output |-> {}]
          /\ deps' = [s \in Source |-> {}]
     ELSE UNCHANGED database
  /\ UNCHANGED <<inputs, ninja>>

\* `3dsd ninja .`
HandNinja ==
  /\ pc = "idle" /\ Change
  /\ WriteManifest(Present, flags, csv)
  /\ UNCHANGED <<inputs, log, deps, ninja>>

\* `3dsd objdiff .`: the targets and objdiff.json, by hand.
HandGenerateObjdiff ==
  /\ HandObjdiff \in Disturbances
  /\ pc = "idle" /\ Change
  /\ disk' = [disk EXCEPT ![Target] = CutTarget(csv, Present, Objs, disk[Base]),
                          ![Json]   = ObjdiffJson(disk[Base] # None)]
  /\ Touch({Target, Json})
  /\ UNCHANGED <<inputs, log, deps, plan, busy, result, failed>>

UserStep ==
  \/ Load \/ Interrupt \/ InstallCli \/ HandNinja \/ HandGenerateObjdiff
  \/ \E s \in Source : \/ \E c \in {None} \cup Content : EditSource(s, c)
                       \/ PartialBuild(s)
  \/ \E h \in {None} \cup Header : EditHeader(h)
  \/ \E c \in Csv : EditCsv(c)
  \/ \E f \in Flags : EditFlags(f)
  \/ \E files \in Cleaned : Clean(files)

Next == BuildStep \/ UserStep

Spec == Init /\ [][Next]_vars

\* The program and ninja go on by themselves; the user owes nothing.
FairSpec == Spec /\ WF_vars(BuildStep)

-----------------------------------------------------------------------------
Succeeded == outcome = "ok"
Failed    == outcome \in Failures

FromScratch == CleanBuild(src, header, csv, flags, cli)

\* A symbol a source is named after is defined, by that source or another.
NamesakesAreDefined ==
  \A i \in DOMAIN csv :
    (\E s \in Present : Stem[s] = csv[i]) => csv[i] \in FromScratch.target.decompiled

\* A build that succeeds and that nothing changed under leaves what a build from
\* scratch of these inputs would leave, whatever was edited, interrupted,
\* partially built or cleaned before it: everything generated is safe to delete
\* (README.md:39) because nothing in it is ever older than its inputs.  Neither the
\* inputs nor the command of the target change when a source goes.  So where no
\* source claims a symbol any more, the base and the target are left over; and where
\* one that owns a symbol by its name does not define it, the target of one that did.
SuccessIsFromScratch ==
  Succeeded /\ quiet =>
    /\ \A s \in Present : disk[Obj(s)] = FromScratch.objs[s]
    /\ G = FromScratch.manifest
    /\ disk[Json] = FromScratch.json
    /\ HasBase(G) => /\ disk[Base] = FromScratch.base
                     /\ NamesakesAreDefined =>
                          /\ disk[Target] = FromScratch.target
                          /\ cli => disk[Report] = FromScratch.report

\* A build fails only where the inputs cannot be built from scratch either: no
\* leftover of an earlier build, and no source that came or went, breaks one.
FailsOnlyIfFromScratchFails ==
  Failed /\ quiet => ~FromScratch.ok

\* A report that is there after a build is a measure of the target and base that
\* are there, also when objdiff-cli came and went: a stale report is never read
\* as this build's (objdiff.py generate_report).
ReportIsOfThisBuild ==
  Succeeded /\ quiet /\ disk[Report] # None =>
    /\ disk[Report].target = disk[Target]
    /\ disk[Report].base = (IF HasBase(G) THEN disk[Base] ELSE None)

\* After a source fails to compile, objdiff.json, the base, the target and the
\* report are as the last build left them (README.md, "A file that fails to
\* compile fails the build"), also when it fails only in the second ninja run.
CompileFailureKeepsPublished ==
  outcome = "no object" =>
    \A o \in Published : disk[o] = before[o]

\* After any failure, of a compile or of the base link, the report is as the last
\* build left it (build.py:102).
FailureKeepsReport ==
  Failed => disk[Report] = before[Report]

\* After a failed build objdiff.json too is as the last successful one left it
\* (README.md; build.py:104 prints so).
FailureKeepsObjdiffJson ==
  Failed => disk[Json] = before[Json]

\* After a successful build a second one has nothing to run: ninja.py report(),
\* "a build with nothing changed skips them all".
NothingLeftToDo ==
  Succeeded /\ quiet =>
    /\ ManifestIsCurrent(G, Present)
    /\ Dirty \subseteq (IF cli THEN {} ELSE {Report})

\* Every build ends by itself: build.ninja, which depends on every object, is not
\* regenerated over and over.
BuildEnds == pc # "idle" ~> pc = "idle"
=============================================================================
