------------------------------ MODULE CcRules -------------------------------
(***************************************************************************)
(* Which settings a source is compiled with, and which files are sources:  *)
(* cc.yaml as _resolve_cc_info, _gather_sources, _add_dep_sources and      *)
(* get_cc, 3dsd/config.py, read it.                                        *)
(*                                                                         *)
(* cc.yaml has an entry for the binary, over the files under src/, and one *)
(* for a dependency, over those under deps/.  In each, a pattern is the    *)
(* path of a file or a glob; the path of a file in the root is also the    *)
(* bare name of the files called the same in any directory.                *)
(***************************************************************************)
EXTENDS SourceMap

CONSTANTS
  PathOf,     \* PathOf[s]: <<directory, name>> below the entry's root; "" is the root
  Globs,      \* the patterns with a wildcard
  FnMatches,  \* FnMatches[g]: the paths fnmatch says the glob matches
  RGlobs,     \* RGlobs[p]: the paths Path.rglob finds for a pattern
  Config      \* settings

Entries  == {"binary", "dependency"}
EntryOf(s) == IF s \in Vendored THEN "dependency" ELSE "binary"
Paths    == {PathOf[s] : s \in Source}
Bare(p)  == <<"", p[2]>>
Single   == Paths \cup {Bare(p) : p \in Paths}
Patterns == Globs \cup Single
Rules(patterns, configs) == Seq([pattern : patterns, config : configs])

ASSUME CcRulesAssumption ==
  /\ \A s, t \in Source : EntryOf(s) = EntryOf(t) /\ PathOf[s] = PathOf[t] => s = t
  /\ FnMatches \in [Globs -> SUBSET Paths] /\ RGlobs \in [Patterns -> SUBSET Paths]

VARIABLES
  files,     \* the files there are, under src/<binary>/ and deps/<name>/
  written,   \* an entry of cc.yaml: its rules for single files, its presets and
             \* wildcards as sequences of [pattern, config], and what it ignores
  consumed,  \* the binary declares the dependency
  default,   \* the settings under `default:`, or None
  load,      \* "rules", "sources" or "failed"
  rules      \* rules[e]: the settings of single files, once resolved

config == <<files, written, consumed, default>>
ccVars == <<config, load, rules>>

\* An entry: presets may be of one no one defined, wildcards are globs.
Entry == [direct  : UNION {[paths -> Config] : paths \in SUBSET Single},
          presets : Rules(Patterns, Config \cup {None}),
          wild    : Rules(Globs, Config),
          ignored : SUBSET Patterns]

FilesOf(e) == {PathOf[s] : s \in {s \in files : EntryOf(s) = e}}

Matching(pattern) == IF pattern \in Globs THEN FnMatches[pattern] ELSE {pattern}

\* What the rules pass over.
Ignored(e) == {p \in FilesOf(e) : \E pattern \in written[e].ignored : p \in Matching(pattern)}

\* (variant) A preset's pattern is the name of a file.
ExpandOne_Literal(e, resolved, rule) ==
  LET new == {rule.pattern} \ (Ignored(e) \cup DOMAIN resolved)
  IN [p \in DOMAIN resolved \cup new |-> IF p \in new THEN rule.config ELSE resolved[p]]

\* (variant) A later rule replaces an earlier one.
ExpandOne_Last(e, resolved, rule) ==
  LET named == IF rule.pattern \in Globs THEN FnMatches[rule.pattern] \cap FilesOf(e)
               ELSE {rule.pattern}
      new   == named \ Ignored(e)
  IN [p \in DOMAIN resolved \cup new |-> IF p \in new THEN rule.config ELSE resolved[p]]

\* A preset's or wildcard's settings are given to the files it matches that have
\* none; where it names one file, to that path, be it there or not.
ExpandOne(e, resolved, rule) ==
  LET named == IF rule.pattern \in Globs THEN FnMatches[rule.pattern] \cap FilesOf(e)
               ELSE {rule.pattern}
      new   == named \ (Ignored(e) \cup DOMAIN resolved)
  IN [p \in DOMAIN resolved \cup new |-> IF p \in new THEN rule.config ELSE resolved[p]]

\* _expand_entry: presets, then wildcards, each in the order they are written, are
\* added to the direct rules.
Expansions(e) == written[e].presets \o written[e].wild

Resolved(e) ==
  LET n == Len(Expansions(e))
      after[k \in 0..n] == IF k = 0 THEN written[e].direct
                           ELSE ExpandOne(e, after[k - 1], Expansions(e)[k])
  IN after[n]

Undefined(e) == \E i \in DOMAIN written[e].presets : written[e].presets[i].config = None

\* _resolve_cc_info, for one entry after the other.  A preset no one defined is an
\* error.
Resolve(e) ==
  /\ load = "rules" /\ e \notin DOMAIN rules
  /\ e = "dependency" => "binary" \in DOMAIN rules
  /\ IF Undefined(e)
     THEN load' = "failed" /\ UNCHANGED rules
     ELSE /\ rules' = [d \in DOMAIN rules \cup {e} |-> IF d = e THEN Resolved(e) ELSE rules[d]]
          /\ load' = IF DOMAIN rules' = Entries THEN "sources" ELSE "rules"
  /\ UNCHANGED config

\* The sources: of the files under src/, those no ignored pattern finds by rglob; of
\* the dependency's, where it is declared, those none matches by fnmatch.
Gathered ==
  {s \in files :
     IF s \in Vendored THEN consumed /\ PathOf[s] \notin Ignored("dependency")
     ELSE \A pattern \in written["binary"].ignored : PathOf[s] \notin RGlobs[pattern]}

\* get_cc: by the path, else by the bare name, else the default; None is an error.
Settings(s) ==
  LET own == rules[EntryOf(s)]
      p   == PathOf[s]
  IN CASE p \in DOMAIN own -> own[p]
       [] p \notin DOMAIN own /\ Bare(p) \in DOMAIN own -> own[Bare(p)]
       [] OTHER -> default

-----------------------------------------------------------------------------
\* What there is to resolve: any files, and any two entries.
ConfigOK ==
  /\ files \subseteq Source /\ written \in [Entries -> Entry]
  /\ consumed \in BOOLEAN /\ default \in Config \cup {None}

\* What is resolved is for single files, and both entries are, unless loading failed.
RulesTypeOK ==
  /\ ConfigOK /\ load \in {"rules", "sources", "failed"}
  /\ DOMAIN rules \subseteq Entries /\ (load = "sources" => DOMAIN rules = Entries)
  /\ \A e \in DOMAIN rules : DOMAIN rules[e] \subseteq Single

\* The first of some rules that is for a file, by path or by bare name.
FirstRule(sequence, p) ==
  LET for == {i \in DOMAIN sequence : \/ p \in Matching(sequence[i].pattern)
                                      \/ sequence[i].pattern \in {Bare(p)} \ Globs}
  IN IF for = {} THEN {} ELSE {sequence[CHOOSE i \in for : \A j \in for : i <= j].config}

\* "direct filename match > preset match > wildcard match > `default`" (README.md:300),
\* where a direct match is of the path or of the bare file name (README.md:297).
Documented(s) ==
  LET e == written[EntryOf(s)]
      p == PathOf[s]
      ranked == << IF p \in DOMAIN e.direct THEN {e.direct[p]} ELSE {},
                   IF Bare(p) \in DOMAIN e.direct THEN {e.direct[Bare(p)]} ELSE {},
                   FirstRule(e.presets, p), FirstRule(e.wild, p), {default} >>
      first == CHOOSE i \in DOMAIN ranked : ranked[i] # {} /\ \A j \in 1..(i - 1) : ranked[j] = {}
  IN CHOOSE c \in ranked[first] : TRUE

\* A file below the root for which the bare name is looked up where the documented
\* order does not have it: a rule by path, direct ones apart, hides those by bare
\* name, and what a glob gives the file of that name in the root is taken for theirs.
MisledByBareName(s) ==
  LET e == EntryOf(s)
      p == PathOf[s]
  IN /\ Bare(p) # p /\ Bare(p) \in DOMAIN rules[e] /\ p \notin DOMAIN written[e].direct
     /\ \/ p \in DOMAIN rules[e]
        \/ \E k \in DOMAIN Expansions(e) : LET pattern == Expansions(e)[k].pattern
                                           IN pattern \in Globs /\ Bare(p) \in FnMatches[pattern]

\* The first rule wins, in the documented order, for every source of the project's
\* own and of a dependency, whatever other files there are (what is expanded depends
\* on them, what is documented does not): where its bare name does not mislead, and
\* none of the ignored patterns is of it to fnmatch though rglob did not find it.
DocumentedRuleWins ==
  load = "sources" =>
    \A s \in Gathered :
      ~MisledByBareName(s) /\ {PathOf[s], Bare(PathOf[s])} \cap Ignored(EntryOf(s)) = {} =>
        Settings(s) = Documented(s)
=============================================================================
