----------------------------- MODULE SplitCache -----------------------------
(***************************************************************************)
(* `3dsd split` and its cache: 3dsd/split.py run_split.                    *)
(*                                                                         *)
(* The split of a binary is a directory of objects, one per symbol and one *)
(* per unnamed stretch, plus a stamp holding a hash of the inputs.  A run  *)
(* loads the project once, then goes through the binaries: where the stamp *)
(* matches it does nothing, otherwise it empties the directory, writes the *)
(* objects one by one and writes the stamp last.  The user edits the CSVs  *)
(* and the originals, and may stop a run at any step, edit the inputs      *)
(* while it runs, replace exheader.bin, and cut a removal short.           *)
(*                                                                         *)
(* An object is abstracted to the inputs it was cut from; what the pieces  *)
(* are is module RoundTrip's subject.                                      *)
(***************************************************************************)
EXTENDS Naturals, FiniteSets

CONSTANTS
  Binary,        \* the binaries under orig/
  Orig,          \* versions of an original binary's bytes
  Csv,           \* versions of a symbol CSV
  Exheader,      \* versions of orig/exheader.bin, its absence included
  Name,          \* object names
  PieceNames,    \* PieceNames[c]: the objects a split by CSV c writes
  Unsplittable,  \* the CSVs on which split_binary raises after its last object
  Disturbances,  \* what else the user does, see below
  MaxEdits,      \* bound on edits, for TLC
  None           \* no such file

EditDuringRun   == "an input is edited while run_split runs"
ExheaderEdit    == "exheader.bin is added, replaced or removed"
PartialRemoval  == "the removal of a split directory is cut short"

ASSUME SplitCacheAssumption ==
  /\ PieceNames \in [Csv -> SUBSET Name]
  /\ Unsplittable \subseteq Csv
  /\ Disturbances \subseteq {EditDuringRun, ExheaderEdit, PartialRemoval}
  /\ MaxEdits \in Nat
  /\ None \notin [orig : Orig, csv : Csv, exheader : Exheader]
  /\ None \notin [orig : Orig, csv : Csv]
  /\ None \notin Binary
  /\ None \notin [orig : [Binary -> Orig], csv : [Binary -> Csv], exheader : Exheader]

VARIABLES
  orig, csv,     \* [Binary -> version]: orig/<b> and symbols/<b>.csv as they are now
  exheader,      \* orig/exheader.bin as it is now
  objs,          \* objs[b][n]: the inputs split/<b>/<n>.o was cut from, or None
  stamp,         \* stamp[b]: split/<b>/.split_stamp, or None
  pc,            \* "idle", or where the run is
  loaded,        \* what ProjectConfig.load read at the start of the run, or None
  todo,          \* the binaries the run has not come to yet
  cur,           \* the binary it is on
  key,           \* its _split_key
  left,          \* the objects split_binary has still to write
  edits,         \* edits made so far
  \* What the cache cannot see, kept to say what it does not promise:
  touched,       \* the binaries whose CSV or exheader was edited since Load
  tainted        \* those whose directory was cut from touched inputs, or was
                 \* changed behind its stamp since

inputs == <<orig, csv, exheader>>
split  == <<objs, stamp>>
run    == <<pc, loaded, todo, cur, key, left>>
hist   == <<touched, tainted>>
vars   == <<inputs, split, run, edits, hist>>

CutFrom == [orig : Orig, csv : Csv, exheader : Exheader]
Key     == [orig : Orig, csv : Csv]
Project == [orig : [Binary -> Orig], csv : [Binary -> Csv], exheader : Exheader]

TypeOK ==
  /\ orig \in [Binary -> Orig] /\ csv \in [Binary -> Csv] /\ exheader \in Exheader
  /\ objs \in [Binary -> [Name -> CutFrom \cup {None}]]
  /\ stamp \in [Binary -> Key \cup {None}]
  /\ pc \in {"idle", "next", "stale", "write"}
  /\ loaded \in Project \cup {None}
  /\ pc # "idle" => loaded \in Project
  /\ todo \subseteq Binary
  /\ cur \in Binary \cup {None}
  /\ pc \in {"stale", "write"} => cur \in Binary
  /\ key \in Key \cup {None}
  /\ pc \in {"stale", "write"} => key \in Key
  /\ left \subseteq Name
  /\ edits \in Nat
  /\ touched \subseteq Binary /\ tainted \subseteq Binary

NoObjects == [n \in Name |-> None]

Init ==
  /\ orig \in [Binary -> Orig] /\ csv \in [Binary -> Csv] /\ exheader \in Exheader
  /\ objs = [b \in Binary |-> NoObjects]
  /\ stamp = [b \in Binary |-> None]
  /\ pc = "idle" /\ todo = {} /\ cur = None /\ key = None /\ left = {}
  /\ loaded = None
  /\ edits = 0 /\ touched = {} /\ tainted = {}

-----------------------------------------------------------------------------
(* The run.                                                                *)

\* `config = ProjectConfig.load(...)`: every original, CSV and the exheader is
\* read before the first binary is looked at.
Load ==
  /\ pc = "idle"
  /\ pc' = "next" /\ todo' = Binary
  /\ loaded' = [orig |-> orig, csv |-> csv, exheader |-> exheader]
  /\ touched' = {}
  /\ UNCHANGED <<inputs, split, cur, key, left, edits, tainted>>

\* _split_key hashes the bytes loaded at the start, and the CSV file as it is now.
SplitKey(b) == [orig |-> loaded.orig[b], csv |-> csv[b]]

\* split_binary's result depends on the loaded binary and symbols, whose
\* segments the exheader decided.
SplitFrom(b) ==
  [orig |-> loaded.orig[b], csv |-> loaded.csv[b], exheader |-> loaded.exheader]

\* The stamp matches: `continue`.
UpToDate(b) ==
  /\ pc = "next" /\ b \in todo
  /\ stamp[b] = SplitKey(b)
  /\ todo' = todo \ {b}
  /\ UNCHANGED <<inputs, split, pc, loaded, cur, key, left, edits, hist>>

\* (variant) The key is computed but not kept for the stamp.
OutOfDate_KeyForgotten(b) ==
  /\ pc = "next" /\ b \in todo
  /\ stamp[b] # SplitKey(b)
  /\ pc' = "stale" /\ todo' = todo \ {b} /\ cur' = b /\ key' = None
  /\ UNCHANGED <<inputs, split, loaded, left, edits, hist>>

\* (variant) The stamp is not looked at.
OutOfDate_Always(b) ==
  /\ pc = "next" /\ b \in todo
  /\ pc' = "stale" /\ todo' = todo \ {b} /\ cur' = b /\ key' = SplitKey(b)
  /\ UNCHANGED <<inputs, split, loaded, left, edits, hist>>

\* It does not, or is missing: this binary is split again.
OutOfDate(b) ==
  /\ pc = "next" /\ b \in todo
  /\ stamp[b] # SplitKey(b)
  /\ pc' = "stale" /\ todo' = todo \ {b} /\ cur' = b /\ key' = SplitKey(b)
  /\ UNCHANGED <<inputs, split, loaded, left, edits, hist>>

\* (variant) The split only ever writes, never removes.
RemoveDir_KeepingObjects ==
  /\ pc = "stale"
  /\ stamp' = [stamp EXCEPT ![cur] = None]
  /\ pc' = "write" /\ left' = PieceNames[loaded.csv[cur]]
  /\ UNCHANGED <<inputs, objs, loaded, todo, cur, key, edits, hist>>

\* rmtree, then mkdir.  The directory holds the stamp too.
RemoveDir ==
  /\ pc = "stale"
  /\ objs' = [objs EXCEPT ![cur] = NoObjects]
  /\ stamp' = [stamp EXCEPT ![cur] = None]
  /\ pc' = "write" /\ left' = PieceNames[loaded.csv[cur]]
  /\ UNCHANGED <<inputs, loaded, todo, cur, key, edits, hist>>

\* (variant) The loop does not advance.
WriteObject_NoProgress(n) ==
  /\ pc = "write" /\ n \in left
  /\ objs' = [objs EXCEPT ![cur][n] = SplitFrom(cur)]
  /\ UNCHANGED <<inputs, stamp, pc, loaded, todo, cur, key, left, edits, hist>>

\* One iteration of split_binary's loop.  It goes in address order; any order
\* is allowed here, which only adds ways to be cut short.
WriteObject(n) ==
  /\ pc = "write" /\ n \in left
  /\ objs' = [objs EXCEPT ![cur][n] = SplitFrom(cur)]
  /\ left' = left \ {n}
  /\ UNCHANGED <<inputs, stamp, pc, loaded, todo, cur, key, edits, hist>>

\* (variant) The key is hashed again, after the split.
WriteStamp_Rehashed ==
  /\ pc = "write" /\ left = {} /\ loaded.csv[cur] \notin Unsplittable
  /\ stamp' = [stamp EXCEPT ![cur] = [orig |-> orig[cur], csv |-> csv[cur]]]
  /\ tainted' = IF cur \in touched THEN tainted \cup {cur} ELSE tainted \ {cur}
  /\ pc' = "next"
  /\ UNCHANGED <<inputs, objs, loaded, todo, cur, key, left, edits, touched>>

\* `stamp.write_text(key)`, after every object.
WriteStamp ==
  /\ pc = "write" /\ left = {} /\ loaded.csv[cur] \notin Unsplittable
  /\ stamp' = [stamp EXCEPT ![cur] = key]
  /\ tainted' = IF cur \in touched THEN tainted \cup {cur} ELSE tainted \ {cur}
  /\ pc' = "next"
  /\ UNCHANGED <<inputs, objs, loaded, todo, cur, key, left, edits, touched>>

\* The process is gone, with all it knew.
Ended ==
  /\ pc' = "idle" /\ loaded' = None /\ todo' = {} /\ cur' = None /\ key' = None
  /\ left' = {} /\ touched' = {}

\* (variant) The mismatch is reported and the loop goes on.
SplitRaises_Swallowed ==
  /\ pc = "write" /\ left = {} /\ loaded.csv[cur] \in Unsplittable
  /\ pc' = "next"
  /\ UNCHANGED <<inputs, split, loaded, todo, cur, key, left, edits, hist>>

\* The size check after the loop raises: no stamp, and no later binary.
SplitRaises ==
  /\ pc = "write" /\ left = {} /\ loaded.csv[cur] \in Unsplittable
  /\ Ended
  /\ UNCHANGED <<inputs, split, edits, tainted>>

Finish ==
  /\ pc = "next" /\ todo = {}
  /\ Ended
  /\ UNCHANGED <<inputs, split, edits, tainted>>

RunStep ==
  \/ \E b \in Binary : UpToDate(b) \/ OutOfDate(b)
  \/ RemoveDir
  \/ \E n \in Name : WriteObject(n)
  \/ WriteStamp \/ SplitRaises \/ Finish

-----------------------------------------------------------------------------
(* The user.                                                               *)

\* The run is stopped between two writes; what it wrote stays.
Stop ==
  /\ pc # "idle"
  /\ Ended
  /\ UNCHANGED <<inputs, split, edits, tainted>>

MayEdit ==
  /\ edits < MaxEdits
  /\ pc = "idle" \/ EditDuringRun \in Disturbances
  /\ edits' = edits + 1
  /\ UNCHANGED <<split, run>>

\* The bytes are hashed and cut as they were loaded: nothing is touched by this.
EditOrig(b, o) ==
  /\ MayEdit /\ orig' = [orig EXCEPT ![b] = o]
  /\ UNCHANGED <<csv, exheader, hist>>

EditCsv(b, c) ==
  /\ MayEdit /\ csv' = [csv EXCEPT ![b] = c]
  /\ touched' = IF pc = "idle" THEN {} ELSE touched \cup {b}
  /\ UNCHANGED <<orig, exheader, tainted>>

EditExheader(x) ==
  /\ ExheaderEdit \in Disturbances
  /\ MayEdit /\ exheader' = x
  /\ touched' = (IF pc = "idle" THEN {} ELSE Binary) /\ tainted' = Binary
  /\ UNCHANGED <<orig, csv>>

\* `3dsd clean split`.
CleanSplit ==
  /\ pc = "idle"
  /\ objs' = [b \in Binary |-> NoObjects]
  /\ stamp' = [b \in Binary |-> None]
  /\ tainted' = {}
  /\ UNCHANGED <<inputs, run, edits, touched>>

\* An rmtree of split/<b>, of the run or of `clean split`, stopped halfway:
\* rmtree deletes in directory order, so any of the files may be left.
RemovalCutShort(b) ==
  /\ PartialRemoval \in Disturbances
  /\ pc = "idle" \/ (pc = "stale" /\ cur = b)
  /\ \E gone \in SUBSET Name :
       objs' = [objs EXCEPT ![b] = [n \in Name |-> IF n \in gone THEN None ELSE @[n]]]
  /\ stamp' \in {stamp, [stamp EXCEPT ![b] = None]}
  /\ Ended /\ tainted' = tainted \cup {b}
  /\ UNCHANGED <<inputs, edits>>

UserStep ==
  \/ Load \/ Stop \/ CleanSplit
  \/ \E b \in Binary : \/ \E o \in Orig : EditOrig(b, o)
                       \/ \E c \in Csv : EditCsv(b, c)
                       \/ RemovalCutShort(b)
  \/ \E x \in Exheader : EditExheader(x)

Next == RunStep \/ UserStep

Spec == Init /\ [][Next]_vars

\* A run goes on unless it is stopped; the user owes nothing.
FairSpec == Spec /\ WF_vars(RunStep)

-----------------------------------------------------------------------------
\* What a split from `k` writes.
SplitOf(k) ==
  [n \in Name |-> IF n \in PieceNames[k.csv] THEN k ELSE None]

\* A split directory whose stamp matches the inputs holds exactly the objects a
\* split from scratch would write: every piece, cut from these inputs, and
\* nothing left over from an earlier CSV.  This is what lets run_split say "up
\* to date" (split.py:98-101), and what the link of a round trip reads.
StampCoversInputs ==
  \A b \in Binary :
    stamp[b] = [orig |-> orig[b], csv |-> csv[b]]
    => objs[b] = SplitOf([orig |-> orig[b], csv |-> csv[b], exheader |-> exheader])

\* The same whatever the user does, but for the directories tainted by what
\* the stamp cannot see.  Those are made good by the next split of the binary
\* that nobody interferes with, and by `clean split`; an original replaced under
\* a run, a run stopped at any point and a failed split taint nothing.
UpToDateIsComplete ==
  \A b \in Binary :
    b \notin tainted /\ stamp[b] = [orig |-> orig[b], csv |-> csv[b]]
    => objs[b] = SplitOf([orig |-> orig[b], csv |-> csv[b], exheader |-> exheader])

\* A run never takes apart a split that is current: a re-split costs minutes
\* (clean.py:20), and an object that vanishes under ninja relinks everything.
\* "Current" is by the bytes the run loaded and a CSV not edited under it.
KeepsCurrentSplit ==
  [][\A b \in Binary \ touched :
        pc # "idle" /\ stamp[b] = SplitKey(b)
        => objs'[b] = objs[b] /\ stamp'[b] = stamp[b]]_vars

\* Every run comes to an end by itself: done, or on a binary that cannot be split.
RunEnds == pc # "idle" ~> pc = "idle"

\* A run that ended by itself left every binary up to date, those whose CSV was
\* edited under it apart.  `Finish` is the only way to print "Split complete."
\* (split.py:115).
CompleteMeansCurrent ==
  [][Finish => \A b \in Binary \ touched :
                 stamp[b] = [orig |-> loaded.orig[b], csv |-> loaded.csv[b]]]_vars

\* To whoever trusts stamps, the directories are a store of whole splits (module
\* SplitStore): what a stamp vouches for does not change in place, and objects
\* are vouched for only when all of them are there.
Vouched ==
  [b \in Binary |-> IF stamp[b] # None /\ b \notin tainted
                    THEN [orig |-> stamp[b].orig, csv |-> stamp[b].csv,
                          exheader |-> exheader]
                    ELSE None]
Store == INSTANCE SplitStore WITH shelf <- objs, vouched <- Vouched, Source <- CutFrom,
                                  Whole <- [k \in CutFrom |-> SplitOf(k)]
ImplementsStore == Store!Spec
=============================================================================
