----------------------------- MODULE BuildGraph -----------------------------
(***************************************************************************)
(* The graph `3dsd build` hands to ninja: the files, the edges of a        *)
(* build.ninja, their inputs and commands, and what each command makes of  *)
(* the files it reads.  3dsd/ninja.py, with the commands' own functions in *)
(* compiler.py, objdiff.py and config.py.  One binary, in progress mode.   *)
(*                                                                         *)
(* A file's content is abstracted to what it was made from.                *)
(***************************************************************************)
EXTENDS SourceMap

CONSTANTS
  Content,    \* texts a source may have
  Defines,    \* Defines[c]: the symbols an object compiled from c defines
  Broken,     \* the texts armcc rejects
  Includes,   \* the texts that include the header
  Reports,    \* Reports[c]: the paths armcc's --depend names for c
  Header,     \* versions of the header
  Csv,        \* versions of symbols/<binary>.csv: sequences of names, by address
  Flags       \* versions of cc.yaml, as the flags they give every source

\* File names are pairs, so that they can be compared.
Src(s)   == <<"src", s>>
Obj(s)   == <<"obj", s>>
Hdr      == <<"header", 0>>
NotFound == <<"path armcc reports that does not exist", 0>>
CsvFile  == <<"csv", 0>>
CcYaml   == <<"cc.yaml", 0>>
Manifest == <<"build.ninja", 0>>
Base     == <<"out/objdiff_base", 0>>
Target   == <<"out/objdiff_target", 0>>
Json     == <<"objdiff.json", 0>>
Report   == <<"out/report.json", 0>>

Objects   == {Obj(s) : s \in Source}
Published == {Base, Target, Json, Report}
Output    == Objects \cup {Manifest} \cup Published
Input     == {Src(s) : s \in Source} \cup {Hdr, CsvFile, CcYaml}

ASSUME BuildGraphAssumption ==
  /\ Defines \in [Content -> SUBSET Symbol]
  /\ Broken \subseteq Content /\ Includes \subseteq Content
  /\ Reports \in [Content -> SUBSET {Hdr, NotFound}]
  /\ \A c \in Includes : Hdr \in Reports[c]
  /\ Csv \subseteq Seq(Symbol)
  /\ None \notin Content /\ None \notin Header /\ None \notin Flags

ObjectFile == [content : Content, header : Header \cup {None}, flags : Flags]
Graph      == [srcs : SUBSET Source, flags : Flags, link : Seq(Source)]
BaseFile   == Seq(ObjectFile)
TargetFile == [csv : Csv, decompiled : SUBSET Symbol, base : {None} \cup BaseFile]
JsonFile   == [base : BOOLEAN]
ReportFile == [target : TargetFile, base : {None} \cup BaseFile]

\* What a generated file may hold when it is there.
FileValue(o) ==
  CASE o \in Objects -> ObjectFile
    [] o = Manifest  -> Graph
    [] o = Base      -> BaseFile
    [] o = Target    -> TargetFile
    [] o = Json      -> JsonFile
    [] o = Report    -> ReportFile

-----------------------------------------------------------------------------
(* The manifest: what `3dsd ninja` writes, and what ninja reads in it.     *)

\* What each object on disk defines; a missing object defines nothing.
DefinedBy(srcs, objs) ==
  [s \in srcs |-> IF objs[s] = None THEN {} ELSE Defines[objs[s].content]]

\* (variant) Only the sources that claim a symbol are built.
ManifestOf_Claiming(srcs, flags, csv, objs) ==
  LET link == LinkOrder(csv, srcs, DefinedBy(srcs, objs))
  IN  [srcs |-> {link[i] : i \in DOMAIN link}, flags |-> flags, link |-> link]

\* generate_ninja, for these sources, settings and CSV, from the objects on disk.
ManifestOf(srcs, flags, csv, objs) ==
  [srcs |-> srcs, flags |-> flags, link |-> LinkOrder(csv, srcs, DefinedBy(srcs, objs))]

HasBase(m) == m.link # <<>>

ObjectsOf(m) == {Obj(s) : s \in m.srcs}
BaseOf(m)    == IF HasBase(m) THEN {Base} ELSE {}

Edges(m) == ObjectsOf(m) \cup BaseOf(m) \cup {Manifest, Target, Json, Report}

\* (variant) build.ninja is made from the objects alone.
ManifestInputs_Objects(m) == ObjectsOf(m)

\* (variant) build.ninja is made from the settings alone.
ManifestInputs_Settings(m) == {CsvFile, CcYaml}

\* build.ninja is made again when any object changes: what it links depends on
\* what they define.
ManifestInputs(m) == ObjectsOf(m) \cup {CsvFile, CcYaml}

\* (variant) The report is made from objdiff.json, which names the rest.
ReportInputs_Json(m) == {Json}

ReportInputs(m) == {Json, Target} \cup BaseOf(m)

\* Explicit and implicit inputs.  objdiff.json has none.
Inputs(m, o) ==
  CASE o \in Objects  -> {Src(o[2])}
    [] o = Manifest   -> ManifestInputs(m)
    [] o = Base       -> {Obj(m.link[i]) : i \in DOMAIN m.link}
    [] o = Target     -> ObjectsOf(m) \cup BaseOf(m) \cup {CsvFile, CcYaml}
    [] o = Json       -> {}
    [] o = Report     -> ReportInputs(m)

\* What ninja hashes: the command line and the response file.  The target's
\* names only the binary, the base's the objects in order.
Command(m, o) ==
  [flags |-> IF o \in Objects THEN m.flags ELSE None,
   link  |-> IF o = Base THEN m.link ELSE <<>>,
   base  |-> o = Json /\ HasBase(m)]

CommandRecord == [flags : Flags \cup {None}, link : Seq(Source), base : BOOLEAN]

\* None stands for a file or a log entry that is not there.
ASSUME NoneAssumption ==
  None \notin CommandRecord /\ \A o \in Output : None \notin FileValue(o)

\* The files a change of which may make `o` out of date, in any manifest.
\* `o` is among them for an object: one written behind ninja's back is newer
\* than the dependencies recorded for it.
Watched(o) ==
  CASE o \in Objects -> {Src(o[2]), Hdr, o}
    [] o = Manifest  -> Objects \cup {CsvFile, CcYaml}
    [] o = Base      -> Objects
    [] o = Target    -> Objects \cup {Base, CsvFile, CcYaml}
    [] o = Json      -> {}
    [] o = Report    -> {Json, Target, Base}

-----------------------------------------------------------------------------
(* The commands.                                                           *)

\* armcc through compile_capture: the object, or None where it fails.
Compiled(content, header, flags) ==
  IF content = None \/ content \in Broken \/ (content \in Includes /\ header = None)
  THEN None
  ELSE [content |-> content,
        header  |-> IF content \in Includes THEN header ELSE None,
        flags   |-> flags]

\* (variant) The depfile names what armcc named.
Depfile_Unfiltered(content, header) == Reports[content]

\* (variant) No depfile, as in a partial build.
Depfile_None(content, header) == {}

\* _ninja_depfile keeps the paths that exist.
Depfile(content, header) ==
  Reports[content] \ ({NotFound} \cup IF header = None THEN {Hdr} ELSE {})

\* Two strong definitions of a symbol do not link.
Links(link, objs) ==
  \A i, j \in DOMAIN link :
    i # j => Defines[objs[link[i]].content] \cap Defines[objs[link[j]].content] = {}

\* link_base: the base, or None where ld fails and the output is removed.
LinkedBase(link, objs) ==
  IF (\A i \in DOMAIN link : objs[link[i]] # None) /\ Links(link, objs)
  THEN [i \in DOMAIN link |-> objs[link[i]]]
  ELSE None

\* The CSV's symbols the sources define (get_decompiled_data, which knows of no
\* owners).
Decompiled(csv, srcs, objs) ==
  {csv[i] : i \in DOMAIN csv} \cap UNION {DefinedBy(srcs, objs)[s] : s \in srcs}

\* build_target reads the base that is on disk, whether or not the graph has one.
CutTarget(csv, srcs, objs, base) ==
  [csv |-> csv, decompiled |-> Decompiled(csv, srcs, objs), base |-> base]

\* write_objdiff_json: the unit's base path, or `-`.
ObjdiffJson(hasBase) == [base |-> hasBase]

\* (variant) A report that could not be made again stays.
MeasuredReport_Kept(cli, json, target, base, old) ==
  IF cli THEN [target |-> target, base |-> IF json.base THEN base ELSE None] ELSE old

\* generate_report: objdiff-cli's measure of the units objdiff.json lists.
\* Without objdiff-cli the report is removed, and the command succeeds.
MeasuredReport(cli, json, target, base, old) ==
  IF cli THEN [target |-> target, base |-> IF json.base THEN base ELSE None] ELSE None

-----------------------------------------------------------------------------
(* The build from scratch: what one pass of the commands over the inputs,  *)
(* with nothing generated to begin with, leaves.                           *)

CleanObjects(src, header, flags) == [s \in Source |-> Compiled(src[s], header, flags)]

CleanBuild(src, header, csv, flags, cli) ==
  LET srcs   == {s \in Source : src[s] # None}
      objs   == CleanObjects(src, header, flags)
      m      == ManifestOf(srcs, flags, csv, objs)
      base   == IF HasBase(m) THEN LinkedBase(m.link, objs) ELSE None
      target == CutTarget(csv, srcs, objs, base)
      json   == ObjdiffJson(HasBase(m))
  IN  [objs |-> objs, manifest |-> m, base |-> base, target |-> target, json |-> json,
       report |-> MeasuredReport(cli, json, target, base, None),
       ok |-> /\ \A s \in srcs : objs[s] # None
              /\ HasBase(m) => base # None]
=============================================================================
