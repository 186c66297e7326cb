----------------------------- MODULE BuildFresh ------------------------------
(***************************************************************************)
(* Why nothing generated is older than its inputs after a build: the       *)
(* inductive invariant of Build for a user who edits, builds, interrupts   *)
(* and cleans (no disturbances).                                           *)
(*                                                                         *)
(* ninja knows of a file what it recorded when it made it, and which files *)
(* have become newer since.  `Records` says what that amounts to: what the *)
(* file was made from, but for what is newer.  `Runs` says the same of the *)
(* commands that are running, and the rest what ninja has made of it.      *)
(***************************************************************************)
EXTENDS Build

-----------------------------------------------------------------------------
(* What each kind of file was made from, when nothing but `changed` has    *)
(* changed since.  Something that went does not count as changed.          *)

CompiledFrom(s, object, changed) ==
  /\ object.content \notin Broken
  /\ Src(s) \notin changed => src[s] \in {None, object.content}
  /\ object.content \notin Includes => object.header = None
  /\ object.content \in Includes =>
       /\ object.header # None
       /\ Hdr \notin changed => header \in {None, object.header}

LinkIsOf(m, changed) ==
  \E c \in Csv, defs \in [m.srcs -> SUBSET Symbol] :
    /\ CsvFile \notin changed => c = csv
    /\ \A s \in m.srcs :
         Obj(s) \notin changed /\ disk[Obj(s)] # None => defs[s] = Defines[disk[Obj(s)].content]
    /\ m.link = LinkOrder(c, m.srcs, defs)

BaseOfLink(base, link, changed) ==
  /\ DOMAIN base = DOMAIN link
  /\ \A i, j \in DOMAIN link : i # j => Defines[base[i].content] \cap Defines[base[j].content] = {}
  /\ \A i \in DOMAIN link :
       Obj(link[i]) \notin changed => disk[Obj(link[i])] \in {None, base[i]}

\* The object is to be made again, or its source is gone.
ToBeMade(s) ==
  src[s] = None \/ disk[Obj(s)] = None \/ log[Obj(s)] = None \/ Src(s) \in newer[Obj(s)]

Names(c) == {c[i] : i \in DOMAIN c}

\* The target is cut from the CSV by what every object defines, and what is cut has
\* an owner in the base: a source that is named after it or defines it.
TargetOf(t, changed) ==
  /\ CsvFile \notin changed => t.csv = csv
  /\ Base \notin changed => disk[Base] \in {None, t.base}
  /\ t.decompiled \subseteq Names(t.csv)
  /\ \A s \in Source :
       Obj(s) \notin changed =>
         ToBeMade(s) \/ Defines[disk[Obj(s)].content] \cap Names(t.csv) \subseteq t.decompiled
  /\ Base \notin changed /\ log[Base] # None =>
       \A f \in t.decompiled : \E i \in DOMAIN log[Base].link :
         t.base # None /\ (Stem[log[Base].link[i]] = f \/ f \in Defines[t.base[i].content])

ReportOf(r, changed) ==
  /\ Target \notin changed => disk[Target] \in {None, r.target}
  /\ Json \notin changed =>
       \/ disk[Json] = None
       \/ ~disk[Json].base /\ r.base = None
       \/ disk[Json].base /\ (Base \notin changed => disk[Base] \in {None, r.base})

-----------------------------------------------------------------------------
(* What ninja's records say of the files on disk is true.                  *)

Recorded(o) == disk[o] # None /\ log[o] # None

\* An object that was compiled behind ninja's back is newer than its record.
ObjectRecord(s) ==
  Recorded(Obj(s)) /\ Obj(s) \notin newer[Obj(s)] =>
    /\ CompiledFrom(s, disk[Obj(s)], newer[Obj(s)])
    /\ disk[Obj(s)].flags = log[Obj(s)].flags
    /\ disk[Obj(s)].content \in Includes => Hdr \in deps[s]

ManifestRecord ==
  G # None => /\ LinkIsOf(G, newer[Manifest])
              /\ CcYaml \notin newer[Manifest] => G.flags = flags

BaseRecord   == Recorded(Base) => BaseOfLink(disk[Base], log[Base].link, newer[Base])
TargetRecord == Recorded(Target) => TargetOf(disk[Target], newer[Target])
JsonRecord   == Recorded(Json) => disk[Json].base = log[Json].base
ReportRecord == Recorded(Report) => ReportOf(disk[Report], newer[Report])

Records ==
  /\ \A s \in Source : ObjectRecord(s)
  /\ ManifestRecord /\ BaseRecord /\ TargetRecord /\ JsonRecord /\ ReportRecord

-----------------------------------------------------------------------------
(* So will be what they say of those being made.                           *)

ObjectRun(s) ==
  Obj(s) \in busy /\ result[Obj(s)] # None =>
    /\ CompiledFrom(s, result[Obj(s)], since[Obj(s)])
    /\ result[Obj(s)].flags = G.flags
    /\ result[Obj(s)].content \in Includes => header # None

ManifestRun ==
  Manifest \in busy =>
    /\ result[Manifest].srcs \subseteq Source
    /\ result[Manifest] = ManifestOf(result[Manifest].srcs, flags, csv, Objs)

BaseRun   == Base \in busy => result[Base] = LinkedBase(G.link, Objs)
TargetRun == Target \in busy => result[Target] # None /\ TargetOf(result[Target], since[Target])
JsonRun   == Json \in busy => result[Json] = ObjdiffJson(HasBase(G))
ReportRun == Report \in busy => /\ result[Report] # None => ReportOf(result[Report], since[Report])
                                /\ quiet /\ cli => result[Report] # None

Runs ==
  /\ \A s \in Source : ObjectRun(s)
  /\ ManifestRun /\ BaseRun /\ TargetRun /\ JsonRun /\ ReportRun

-----------------------------------------------------------------------------
(* What ninja goes by.                                                     *)

\* A source build.ninja does not know has no object, so that it is not in the way.
LeftOver(s) == src[s] # None /\ disk[Obj(s)] # None

SourcesAreKnown ==
  /\ pc = "loaded" =>
       /\ loaded # None /\ loaded.csv = csv /\ loaded.flags = flags
       /\ \A s \in Source : LeftOver(s) => s \in loaded.srcs
       /\ quiet => loaded.srcs = Present
  /\ pc \in {"scan", "rebuild"} \/ TargetIsToCome => \A s \in Source : LeftOver(s) => s \in G.srcs
  /\ pc \in {"scan", "rebuild", "build"} => G # None /\ (quiet => G.srcs = Present)
  /\ Manifest \in busy => /\ \A s \in Source : LeftOver(s) => s \in result[Manifest].srcs
                          /\ quiet => result[Manifest].srcs = Present

\* build.ninja is made last of its run; what does not compile does not from scratch.
RebuildGoes ==
  /\ pc = "rebuild" =>
       /\ plan \subseteq ObjectsOf(G) \cup {Manifest}
       /\ failed \subseteq Objects
       /\ Manifest \in busy => plan = {Manifest}
  /\ quiet /\ pc # "idle" => \A s \in Source :
       /\ Obj(s) \in busy => result[Obj(s)] = Compiled(src[s], header, G.flags)
       /\ Obj(s) \in failed => s \in Present /\ Compiled(src[s], header, flags) = None

\* What has changed, of what `o` is made from, since it was.
Since(o) == (IF o \in busy THEN since[o] ELSE newer[o]) \cap Inputs(G, o)

ObjectIsMade(s) ==
  /\ disk[Obj(s)] # None /\ log[Obj(s)] = Command(G, Obj(s))
  /\ Obj(s) \notin newer[Obj(s)]
  /\ quiet => newer[Obj(s)] \cap ({Src(s)} \cup deps[s]) = {} /\ \A d \in deps[s] : Exists(d)

IsMade(o) ==
  /\ disk[o] # None \/ (o = Report /\ (quiet => ~cli))
  /\ log[o] = Command(G, o)

\* What is not to be made is made, and so is all that it is made from.
PublishedIsMade(o) ==
  /\ o \notin plan => IsMade(o)
  /\ o \notin plan \/ o \in busy =>
       Inputs(G, o) \cap plan = {} /\ Since(o) \cap Output = {} /\ (quiet => Since(o) = {})

BuildGoes ==
  pc = "build" =>
    /\ plan \subseteq Edges(G)
    /\ \A s \in G.srcs : ObjectIsMade(s)
    /\ \A o \in Edges(G) \cap Published : PublishedIsMade(o)
    /\ TargetIsToCome => newer[Manifest] \cap ({CsvFile} \cup ObjectsOf(G)) = {}
    /\ quiet => newer[Manifest] \cap Inputs(G, Manifest) = {}
    /\ Base \in failed => LinkedBase(G.link, Objs) = None

Ends ==
  SuccessIsFromScratch /\ FailsOnlyIfFromScratchFails /\ ReportIsOfThisBuild /\ NothingLeftToDo

FInv == TypeOK /\ Records /\ Runs /\ SourcesAreKnown /\ RebuildGoes /\ BuildGoes /\ Ends
=============================================================================
