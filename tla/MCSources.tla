----------------------------- MODULE MCSources ------------------------------
(* Small instances of Sources for TLC. *)
EXTENDS Sources, TLC

\* Three files of the project's own: x.c, y/a/f.c and y/x.c; and two of a
\* dependency's: x.c and y/g.c; each in path order.
MCPathOf == << <<"", "x">>, <<"y/a", "f">>, <<"y", "x">>, <<"", "x">>, <<"y", "g">> >>
MCStem   == [s \in Source |-> CASE s = 2 -> "f" [] s = 5 -> "g" [] OTHER -> None]

\* The globs "*", "y/*" and "x*".
Star    == <<"", "*">>
YStar == <<"y", "*">>
XStar   == <<"", "x*">>
MCGlobs == {Star, YStar, XStar}

\* fnmatch's * goes past a /, rglob's does not; rglob looks at every depth.
MCFnMatches ==
  [g \in Globs |-> {p \in Paths : CASE g = Star -> TRUE
                                    [] g = YStar -> p[1] # ""
                                    [] g = XStar -> p = <<"", "x">>}]
MCRGlobs ==
  [g \in Patterns |-> {p \in Paths : CASE g = Star -> TRUE
                                       [] g = YStar -> p[1] = "y"
                                       [] g = XStar -> p[2] = "x"
                                       [] g \notin Globs -> p = g \/ Bare(p) = g}]

With(e, entry) ==
  [d \in Entries |-> IF d = e THEN entry
                     ELSE [direct  |-> (<<"", "x">> :> "theirs"), presets |-> <<>>,
                           wild    |-> <<>>, ignored |-> {}]]

\* Sequences of at most two rules over some patterns; the settings say which rule.
AtMostTwo(patterns, first, second) ==
  {<<>>} \cup {<<[pattern |-> p, config |-> c]>> : p \in patterns, c \in first}
    \cup {<<[pattern |-> p, config |-> c], [pattern |-> q, config |-> second]>> :
            p \in patterns, q \in patterns, c \in first \ {None}}

MCConfig == {"theirs", "default", "direct x", "direct y/x", "direct f", "direct g",
             "preset 1", "preset 2", "wild 1", "wild 2"}

Direct == (<<"", "x">> :> "direct x") @@ (<<"y", "x">> :> "direct y/x")
            @@ (<<"", "f">> :> "direct f") @@ (<<"", "g">> :> "direct g")

EntriesOver(names) ==
  [direct  : {[p \in D |-> Direct[p]] : D \in {D \in SUBSET names : Cardinality(D) <= 2}},
   presets : AtMostTwo({Star, XStar} \cup names, {"preset 1", None}, "preset 2"),
   wild    : {w \in AtMostTwo(Globs, {"wild 1"}, "wild 2") : Len(w) = 2 => w[1].pattern # w[2].pattern},
   ignored : {{}, {YStar}, {XStar}, {<<"", "x">>}}]

\* No rules, and all that the objects may define; or objects that define nothing,
\* and the rules of one entry or the other.
MCInit ==
  /\ \/ /\ files \in SUBSET {1, 2, 4, 5} /\ consumed = TRUE /\ default = "default"
        /\ written = With("binary", [direct |-> <<>>, presets |-> <<>>, wild |-> <<>>, ignored |-> {}])
     \/ /\ files \in {{1, 2, 3}, {2, 3}} /\ consumed = FALSE /\ default = "default"
        /\ \E entry \in EntriesOver({<<"", "x">>, <<"y", "x">>, <<"", "f">>}) : written = With("binary", entry)
        /\ srcs = Gathered /\ all = {} /\ defs = [s \in srcs |-> {}]
     \/ /\ files = {1, 4, 5} /\ consumed \in BOOLEAN /\ default \in {"default", None}
        /\ \E entry \in EntriesOver({<<"", "x">>, <<"", "g">>}) : written = With("dependency", entry)
        /\ srcs = Gathered /\ all = {} /\ defs = [s \in srcs |-> {}]
  /\ SourcesInit

MCSpec == MCInit /\ [][SourcesNext]_<<vars, ccVars>>
=============================================================================
