# A verification development for 3dsd

3dsd takes the binaries of a Nintendo 3DS game apart, compiles decompiled sources with armcc,
and measures how far the two agree. This directory holds TLA+ modules that model it, the TLC
configurations that model-check them and TLAPS proofs about them. The modules are translated from
`src/3dsd/*.py` and `src/3dsd/*.ld`; comments quote the docs where a property is something the docs promise.

    tlc -workers 2 -config MCBuild.cfg MCBuild     # a run
    tlapm SourcesProofs.tla                         # a module's proofs

Contents: [inventory](#inventory) · [modules](#modules) · [runs](#runs) · [fairness](#fairness) ·
[proofs](#proofs) · [findings](#findings) · [not modelled](#not-modelled) · [plan](#plan).

## Inventory

| component | state | operations | interacts with | what makes it correct |
|---|---|---|---|---|
| build driver, `build.py` | none of its own: `build.ninja`, ninja's database and the generated files are its memory | `run_build`: load, check the manifest header, generate, run ninja twice | ninja (a subprocess), every command below (ninja's subprocesses) | what a successful build leaves is what a build from scratch would leave; it fails only where that would fail; a failure leaves what was published alone |
| ninja manifest, `ninja.py` | `build.ninja`: header, edges, commands | `generate_ninja`, `manifest_is_current`, `_split_names` | reads objects already compiled, so the manifest depends on its own products | the graph names each input of each command; regeneration reaches a fixed point |
| source map, `config.py` | none: computed from sources, objects and CSV | `get_source_map`, `_assign_owners` | manifest (link order), report, summaries | an owner by documented priority, which no other file takes; real clashes are warned of |
| symbol CSV, exheader, `config.py`, `ctrtype.py` | loaded rows | `_load_symbols`, `_check_unique_names`, `_apply_exheader_segments` | split, manifest, target | names are unique, segments are the binary's real ones |
| split, `split.py` | `split/<b>/*.o` and a stamp | `run_split`, `split_binary` | round trip's link | a matching stamp vouches for a complete, current split; every byte is in one object |
| round trip, `ninja.py`, `check.py`, `linker.ld` | relinked binary | link, flatten, `check_binary` | split, manifest | the relinked binary is the original |
| compiler driver, `compiler.py` | object and depfile | `compile_source`, `_ninja_depfile` | ninja's dependency log | a failure leaves no object; the depfile names only what exists |
| clean, `clean.py` | – | `run_clean` for six targets | everything generated | whatever is removed is made again |
| partial build, `partial.py` | objects in the project's own `build/`, its own link and report | `run_partial` | the full build, behind ninja's back | it never makes a later full build wrong |
| objdiff base, `objdiff.py`, `datasplit.py`, `base.ld` | `out/objdiff_base` | `link_base`, section splitting | target, report | linked from the owners in order; a failed link leaves none |
| objdiff target, `objdiff.py`, `elf.py` | `out/objdiff_target` | `build_target` and the five passes that complete, route, keep, skip and cut symbols | base (its relocations), CSV | no gap, no overlap, and a symbol pairs with its base |
| objdiff.json, report, `objdiff.py` | the two files | `write_objdiff_json`, `generate_report` | objdiff-cli (a subprocess) | a stale report is never read as this build's |
| relocation recovery, `reloc.py` | the patched bytes, the relocations found, the twin's not yet used | `RelocRecovery.run`: find candidates, pair them, name and rewrite each | base, CSV, target | the same code shows no difference, also where it moved; what shows none goes to the same place; a relocation reaches what the binary reaches |
| compiler settings, `config.py` | `cc.yaml`, resolved at load | `_resolve_cc_info`, `_expand_entry`, `get_cc` | compiler driver, manifest | documented precedence, whatever files there are |
| dependencies, `config.py` | `deps/` | their `cc.yaml` entries, `_add_dep_sources` | source map, settings | vendored code never displaces the project's own |
| CRO modules, `ctrtype.py`, `recreate.py` | a module's header, segments and tables | read, write, re-hash | split, round trip | reading what was written gives it back |
| command line, `__main__.py` | – | dispatch | all | – |
| helpers, `util.py` | – | byte access, warnings, name sanitizing | all | – |

**What is hard.** 3dsd itself has no threads and no shared memory; what is concurrent is the file
system. ninja runs several 3dsd commands at once; the user edits while they run, stops them,
cleans, compiles one file by hand, installs or removes objdiff-cli, and builds again, and the
next build has nothing but modification times, ninja's log, a header line and a stamp to tell what
of the last one can be kept. The graph depends on its own products (what the base links depends on
what the objects define), so ninja rebuilds its own manifest and starts over. The pure parts are
hard at the edges of the address space (overlapping, empty, aliased and out-of-file symbols), and
two functions (`split_binary` and `_split_names`) must agree without sharing code. `PROJECT.json`
lists these as hazards, each at its line, with the properties that would catch it.

## Modules

**`SourceMap`** defines who owns a symbol (`OwnerOf`) and in which order owners are linked
(`LinkOrder`). A source is a number, its place in path order. It is the abstract specification of
`Claims`, and what `BuildGraph` uses.

**`Claims`** is `_assign_owners` as it runs: four loops (own sources named after a symbol, own
sources that define it, the same for vendored ones), `claim` for each symbol, the warnings and the
duplicates counted as folded. One step is one source of one loop (`ClaimAll`); the claims it
makes are of different symbols and do not affect one another. `Init` covers `get_source_map`'s
inputs: any sources, any objects (one that is missing defines nothing), any definitions of them vague.

**`BuildGraph`** has the files, the edges `generate_ninja` writes for one binary in progress mode,
their inputs and command lines, and each command as a function from the files it reads to the
file it writes. A file's content is what it was made from, so that two files are equal exactly
when they were made from the same things: an object is its source text, header and flags; the
base is the sequence of its objects; the target is the CSV, the set of symbols decompiled and the
base it read; the report is target and base. `CleanBuild` composes the commands once over the
inputs: the build from scratch.

**`Build`** is the behaviour: one project, its generated files and ninja's database, a user.

| actions | code |
|---|---|
| `Load`, `SkipGenerate`, `Generate` | `_run_full` up to the first ninja; `manifest_is_current`, `generate_ninja` |
| `ScanFails`, `Scan`, `Start`, `FinishOk`, `FinishFailed`, `RunOver` | ninja (external): scan, rebuild a dirty manifest and start over, run what is dirty, several at once, `-k` or not; the commands are 3dsd's |
| `Interrupt` | Ctrl-C; ninja removes outputs of running commands it finds touched |
| `PartialBuild`, `Clean`, `HandNinja`, `HandGenerateObjdiff` | the other commands on the same files |
| `EditSource`, `EditHeader`, `EditCsv`, `EditFlags`, `InstallCli` | the user |

Times are not counted: `newer[o]` is the set of files later than the time recorded for `o`, kept
only for the files that matter to `o`, which makes the state space finite without a clock. ninja
is modelled as of 1.11: the time recorded for an output is when its command *started*, and for the
generator edge, when the file was written. A command reads all its inputs as it starts; a change
after that is newer than the start in any case, so a command that read late is only made again
once too often.

**`SplitCache`** is `run_split`: load once, look at each binary's stamp, empty the directory, write
object by object, write the stamp last; `Stop` at any point, and edits, a new exheader or a removal cut
short at any point too. An object is abstracted to the inputs it was cut from. What the stamp cannot see is kept in two
history variables: `touched`, the binaries whose inputs were changed under a run, and `tainted`, those whose directory
was cut from such inputs or was half removed behind its stamp.

**`SplitStore`** is what the cache is to ninja and to the user: a shelf per binary and, for some shelves, the inputs their
contents are vouched to be the whole split of. Contents are published whole and change only while nothing vouches for them.
`SplitCache` implements it (`ImplementsStore`): the shelf is the directory, and it is vouched for by its stamp, where not tainted.

**`RoundTrip`** follows one `code.bin` through `_load_symbols`, `split_binary`'s loop,
`_split_names`' loop, the link by segment and the comparison. A byte is its address, and no two are
taken to be equal; so a relink in another order is always seen as different.

**`BaseCut`** says how `datasplit.py` cuts the code of a linked base: which functions get a section
of their own and with which bytes, and what goes to their pools. It is read off armcc's mapping symbols.

**`TargetCut`** is the other side, `build_target`, cut at the CSV's mapping rows, one action per pass:
`PlaceMarkers`, then `_complete_symbols` as a loop over addresses (`CompleteSymbol`, `CompleteGap`, `CompleteEnds`;
rows are routed to sections as they are taken up, which `_route_data` does before, with the same result), `Settle`
(`_skip_data_padding` and `_keep_text_gaps`), `CutPools`, and `Write`, the layout in sections. The
names made up for gaps and unnamed pools are `None`. `BaseCut` is both its input (what the base has cut) and
what it must agree with.

**`RelocCodec`**, **`RelocBase`**, **`Reloc`** are `reloc.py`. `RelocCodec` has the relocation types, `implicit_addend` and `encode`;
`RelocBase` the base as `BaseObject` looks it up: a symbol's twin, its relocations, the name that covers an offset, what objdiff shows for
a relocation. `Reloc` is `RelocRecovery`: `run` takes up one symbol or split section after another (`Function`, `DataObject`, or `Skip`), finds the
candidates (branches by opcode bits, pool words by the loads that refer to them, pointers by the twin's), and takes them in order of address: each is
passed, named after the CSV's or twin's symbol and rewritten, put down as section-relative, or counted as unresolved. A binary is a map from addresses to
cells, a cell an operation and the number in its field; the width of each field is the parameter `Slots`, so that 2^24 and 8 are both instances.
`ArmLink` is external: what armlink makes of a base's relocations (a `bl` to the other mode becomes `blx`, a plain branch goes through
a veneer, a pointer to Thumb code is odd), as far as `reloc.py`'s decoding depends on it. It makes the binaries that recovery is given.

**`CcRules`** is `cc.yaml` from what is written to what a source is compiled with: the rules of an entry are expanded once into settings for single
paths (`Resolve`), the files that are sources are gathered (`Gathered`), and the settings of a source looked up by path, bare name and default (`Settings`).
`Documented` is the precedence the README states. What `fnmatch` and `rglob` say of a pattern are parameters, since they differ.
**`Sources`** composes it with `Claims`: a project is loaded, and then its sources claim symbols.

**`BuildFresh`** holds the inductive invariant from which `Build`'s freshness is proved (`FInv`): what ninja's records amount to.
**`RoundTripCut`** holds that of `RoundTrip` (`IInv`): the objects the symbols cut a binary into, written down without a loop (`SymbolObject`, `GapObject`),
and how far each of the two loops has got with them. **`Numbering`** counts through a finite set of numbers, for what the code passes to `sorted`.

The `MC*` modules instantiate these for TLC, the `*Proofs` modules hold theorems about them. Definitions
marked `(variant)` are faulty versions of the one they precede: with one of them in
its place, the property named with it in `PROJECT.json` is violated, so each
property can fail. No module uses a variant otherwise.

### Disturbances

Some things a user may do are known to defeat modification times, or a hash taken at another
moment than the data. They are named, and each can be switched on by the constant `Disturbances`:

| disturbance | why the safety properties are checked without it |
|---|---|
| `EditDuringRegen` | a setting edited while `build.ninja` is generated is older than the result; ninja cannot see it |
| `EditBeforeTarget` | the target's command reads the CSV and the objects as they are when it runs; a CSV edit, or a source that comes back beside its old object, after `build.ninja` was made and undone by the next build, leaves what that target took |
| `OldTimestamp` | a CSV copied in with an older timestamp is not newer |
| `HandObjdiff` | `3dsd objdiff` writes files ninja's log says nothing of, and `objdiff.json` has no inputs |
| `LoseHeader` | a header removed while a compile that read it runs is not in that object's depfile |

The safety properties of `Build` state what holds without them, which is therefore what the code promises,
and `BuildEnds` is checked with all of them on. The disturbances of `SplitCache` (`EditDuringRun`: the key hashes the CSV file as it is now,
the split uses the one loaded earlier; `ExheaderEdit`: the key leaves out `exheader.bin`, a finding; `PartialRemoval`: a removal cut short may leave the stamp and not
the objects) are on in all its properties, which speak of what is not `tainted` by them, binary by binary.

## Runs

| run | question | size |
|---|---|---|
| `build` | Is what a build leaves ever older than its inputs; does a build fail where one from scratch would not; what does a failure leave alone? | 1.9 million states, 2 min |
| `build_ends` | Does every build end, with every disturbance? | 42 thousand, 80 s |
| `build_objdiff_json` | *violated*, see findings | |
| `split_cache` | Does a matching, untainted stamp ever vouch for a wrong split; do the directories act as the store of whole splits; does every run end, with every disturbance? | 540 thousand, 1-3 min |
| `split_cache_key` | *violated*, see findings | |
| `round_trip` | Does the split cover the binary, does the manifest link what it writes, is the relink the original? | 250 thousand, 6 s |
| `round_trip_padding` | *violated*, see findings | |
| `target` | Do the passes place every byte once, in the mode the CSV says, and are both sides of a function alike? | 2.1 million, 1 min |
| `target_overlap` | *violated*, see findings | |
| `sources` | Has every source the settings of the documented precedence; do the loops find the documented owner, and warn of the real clashes? | 890 thousand, 20 s |
| `reloc` | Does the same code show no difference, also shifted; does what shows none go to the same place; does each relocation reach what the binary reaches? | 295 thousand, 1-2 min |
| `reloc_hidden` | *violated*, see findings | |

**Bounds.**
`build`: two sources over four texts (one that includes the header and whose depfile names a path that does
not exist, one plain, one that clashes with the first when linked, one that does not compile), the first source named after a symbol that only some of them define, three CSVs (two orders, and one that
leaves a symbol out), two versions of the header, two of `cc.yaml`; `MaxEdits = 2` changes at any moment, any number of builds and
interrupts. It starts from a project that builds with nothing generated, since every other set of inputs is
one or two edits away. The CSVs have their names at distinct addresses, none below 0: `SourceMap` and `BuildGraph` take the names as `_split_names` leaves them (ninja.py:93), which folds those at one address to the last and drops the others; aliases are in `round_trip`. Two changes are what it takes for one to be built and the next to meet its products, or for both to fall into one build;
a source that goes and comes back, or a partial build followed by a header edit, take two. `build_ends` needs one.
`split_cache`: two binaries, since a run that raises on one must not touch the other; three CSVs with overlapping piece names,
so that a left-over, an overwritten and a missing object are all possible, one of which does not split; two edits.
`round_trip`: a binary of four bytes, one in each segment and one of padding, and every CSV of up to two symbols
with addresses 0 to 6 (past the end as well), sizes 0, 1 and 3 and any label, those of three symbols with fewer sizes and labels.
`split_binary` compares a symbol with its neighbour only, so three symbols make every pair of neighbouring cases; and
that it never raises is proved for every binary and CSV.
`sources`: three files of the project's own and two of a dependency, of which two pairs have the same name in different directories. Either no rules, and all that two own and two
vendored sources (one of each named after a symbol) may define of two symbols, and all ways to be vague: four sources give each of the four loops a claimant and a rival. Or
objects that define nothing, and one entry's rules: up to two for single files, up to two in presets (one of them perhaps not defined), up to two wildcards and an ignored
pattern, of three globs (everything, a directory, a prefix) and the names there are. Two rules of a kind are what order among them takes.
`reloc`: an ARM function, a Thumb function or a table of two pointers, and what they refer to: functions of both modes, veneers, named and static data, strings, bss. Three kinds of worlds:
the binary is the base linked, whole or cut into pieces, at its place or behind inserted code (`IdenticalCodeMatches`, `ShiftedCodePairs`); an instruction and a pool word of it differ, each in every way the lists of items have
(`MatchReachesTheSame`); the CSV lacks a name or has another. Where it lacks `g` it has a symbol that starts at half an instruction, so that addends occur which their field does not hold. Fields are as wide as in the instruction set, but for words (20 bits for 32, which is more than the addresses used need).
A function has two instructions and two pool words that are free, which is what it takes for two candidates to compete for one of the twin's relocations.
`target`: a binary of five bytes and offsets modulo 2, which is what tells an aligned run from a shifted one. Three families of inputs: any two rows (code, a library's code,
labels, compiled data and data that is not) at addresses 0 to 5 of sizes 0, 1 and 3, in either order, with and without a marker; one function with up to
three markers in and after it and another row, against no base and one that cuts it; one or two functions, any marks in the base, with and without a data object in the code section, and the CSV that says the same.
The passes look at a row and its neighbours, and the layout at runs of one name, of which three markers give two. Mapping rows are at distinct addresses.

**The properties.** Of `Build`: `SuccessIsFromScratch` (what a successful build leaves is what a build from scratch of the same inputs leaves),
`FailsOnlyIfFromScratchFails`, `ReportIsOfThisBuild`, `CompileFailureKeepsPublished`, `FailureKeepsReport`, `NothingLeftToDo`
(a second build has nothing to run), `BuildEnds`. Of `SplitCache`: `UpToDateIsComplete`, `KeepsCurrentSplit`, `CompleteMeansCurrent`, `ImplementsStore`, `RunEnds`.
Of `RoundTrip`: `SplitAccepts`, `LoopsEnd`, `GraphLinksTheSplit`, `EveryByteIsLinkedOnce`, `RoundTripIsExact`. Of `Claims`: `OwnersByPriority`,
`NothingIsTaken`, `ClashIsWarned`, `VagueIsSilent`; of `CcRules`, `DocumentedRuleWins`. Of `TargetCut`: `EveryByteIsPlacedOnce`, `PoolsCompare` (the two sides of a function
have the same bytes in the same order), `GapsAreSettled`, `PoolIsOfItsFunction`, `ModeIsKept`. Of `Reloc`: `IdenticalCodeMatches`, `ShiftedCodePairs`, `MatchReachesTheSame`, `RelocationsReach`, `PoolsDecodeAsData`. Each is stated in words where it is defined.

Limits of these statements, each visible in its definition.
`SuccessIsFromScratch` compares base, target and report only where the graph links a base: when the last source that claims a symbol goes, nothing makes ninja
cut the target again, and the target keeps what it took from the base that is left over. It compares target and report only where what a source is named after is
defined (`NamesakesAreDefined`): an owner by name that does not define its symbol has the symbol's place in the link, so that when the source goes that does define it, neither the link nor
any other input of the target changes, and the symbol stays decompiled in the target.
`RoundTripIsExact` assumes, without an exheader, that the CSV's labels come in the order of the segments (the link goes by
label), and with one, that padding after `.data` is labelled `.data`.
The properties of objects' names leave out symbols named like an address (`NameClash`): eight hex digits are the file name of an unnamed stretch,
and the code compares symbols with symbols only.
The properties of `TargetCut` are about CSVs in which no row begins inside a function with a size (`ExtentsApart`) or, where they speak of single rows, no two rows
share an address or a byte (`RowsApart`): the last of two rows at one address hides the other. `PoolsCompare` takes the CSV to say of the code what armcc's symbols say (`Mirrors`), which is
what the README asks of it. `GapsAreSettled` leaves out two kinds of gaps: between two labels of one pool of which the first is or holds a mapping row, where the documentation contradicts the code and itself (see findings), and after a label at whose end there is a row without a size.

`DocumentedRuleWins` leaves out files for which the bare name is looked up out of the documented order (`MisledByBareName`) and those that `fnmatch` ignores and `rglob` does not: see below.
The properties of `Reloc` take the CSV to name what the base names (`Findable`); `PoolsDecodeAsData` takes its rows not to overlap (`Apart`); `ShiftedCodePairs` leaves out branches whose place is taken by one of another kind (`Misled`). The worlds
leave out three things the code gets wrong or cannot know: a label inside what a section-relative reference points at, a cut Thumb function at an address that is 2 modulo 4
(both under findings), and a function that refers to one place both by name and by section.

`MCRoundTrip`, `MCSources`, `MCReloc` and `MCTargetCut` switch off deadlock checking, since these are algorithms that end (that `TargetCut` ends nowhere else is `~AddressError`, in `EveryByteIsPlacedOnce`). Elsewhere it is on.

## Fairness

`Build!FairSpec` is `WF_vars(BuildStep)` and `SplitCache!FairSpec` is `WF_vars(RunStep)`: 3dsd and ninja run as
long as they have something to do, which the operating system's scheduler gives a process that is not waiting.
Commands are taken to end (armcc, ld and objdiff-cli are external). The user owes nothing: there is no fairness on
edits, on starting a build or on stopping one, and the number of edits is bounded, so that what ends a
build is not that it is edited for ever. `BuildEnds` is where the interest lies: `build.ninja` depends on every object, and an object
with a dependency that does not exist is dirty in every run; what breaks the circle is that `_ninja_depfile` leaves such paths out.

## Proofs

| theorem | says, for every value of the constants |
|---|---|
| `SplitCacheProofs!TypeCorrect` | the type invariant, whatever the disturbances |
| `SplitCacheProofs!UpToDateSplitIsComplete` | a matching stamp vouches for exactly the objects of a split from scratch, unless tainted |
| `SplitCacheProofs!RunKeepsCurrentSplit` | no step of a run changes a current split |
| `SplitCacheProofs!CacheImplementsStore` | every step is a step of `SplitStore` or a stutter |
| `RoundTripProofs!TypesHold` | the type invariant |
| `RoundTripProofs!SplitNeverRaises` | `split_binary` neither passes a symbol nor miscounts |
| `RoundTripProofs!BothLoopsEnd` | the loops of the split and of its names make no more than an object for each symbol and each stretch between |
| `RoundTripProofs!TheGraphIsOfTheSplit` | build.ninja links what the split writes, in the order of the binary |
| `RoundTripProofs!BytesAreLinkedOnce` | every byte is in exactly one of the linked objects |
| `RoundTripProofs!TheBinaryComesBack` | the relinked binary is the original |
| `SourcesProofs!TypeCorrect` | the type invariant |
| `SourcesProofs!LoopsFindOwners` | `Claims` implements `SourceMap`: the loops give each symbol the owner `OwnerOf` defines |
| `SourcesProofs!NothingIsTakenAway` | no file takes a symbol from one with the better claim |
| `SourcesProofs!RealClashIsWarned` | a strong definition that meets another is warned of |
| `SourcesProofs!VagueIsNotWarnedOf` | a symbol that is vague in all its claimants is not |
| `SourcesProofs!RulesTypeCorrect` | the type invariant of the compiler settings |
| `SourcesProofs!RulesAreDocumented` | every source has the settings of the documented precedence, but for the two cases under findings |
| `SourcesProofs!SourcesAreClaimed` | a project is loaded with those settings and then claims as `Claims` says |
| `RelocProofs!EncodeDecodes` | what `encode` writes, `implicit_addend` reads back: any type, field width, instruction, addend that fits |
| `RelocProofs!TypeIsOK` | the type invariant: what recovery writes are instructions whose fields hold their numbers |
| `RelocProofs!EveryRelocationReaches` | what is named after the CSV reaches, by the bytes it leaves, what the binary reaches; an addend that its field does not hold is off by whole ranges of the field, and by less than a unit |
| `RelocProofs!PoolsAreData` | the pools found in a function are shown as data, and the rest of it as code, to the byte |
| `TargetCutProofs!TargetCutTypeCorrect` | the type invariant |
| `TargetCutProofs!TargetCutInv` | `CutInv`: what each pass leaves to the next |
| `TargetCutProofs!BytesArePlacedOnce` | no pass stops at an address error, and every byte of the binary is in the target once |
| `TargetCutProofs!PoolsAreTheirFunctions` | a byte in a pool section comes after its function begins, with no other code in between |
| `TargetCutProofs!GapsSettle` | a byte no row names goes where what is before it says |
| `TargetCutProofs!ModesAreKept` | a byte of a function is decoded as the CSV says, also where its pools were taken out |
| `TargetCutProofs!SidesCompare` | a function's code and pool sections have the same bytes, in the same order, in the target as in the base |
| `BuildProofs!TypesHold` | the type invariant, whatever the disturbances |
| `BuildProofs!FailedCompilePublishesNothing` | a build whose compile fails has touched nothing that is published |
| `BuildProofs!FailureLeavesReport` | a build that fails in any way leaves the last report |
| `BuildProofs!RecordsAreTrue` | `FInv`: what ninja's records say of what is on disk, of what is being made and of what it will not make is true |
| `BuildProofs!BuildsAreFromScratch` | a build that succeeds, and that nothing changed under, leaves what a build from scratch would |
| `BuildProofs!FailuresAreOfInputs` | one that fails does where a build from scratch would |
| `BuildProofs!ReportsAreCurrent` | a report that is there measures the base and target that are there |
| `BuildProofs!BuildsSettle` | a build with nothing changed has nothing to run |

They assume the `ASSUME`s of the modules (shapes of the constants) and nothing else, but for those of `BuildProofs` from `RecordsAreTrue` on, which are about `Disturbances = {}` (each disturbance makes `SuccessIsFromScratch` false); all disturbances are allowed in the others. `Reloc!Init` itself takes inputs that are `Readable` (relocations of known types, on bytes
the section has); how long the CSV's symbols are and where in them a branch goes is free.
`TargetCut`'s inputs are CSVs that name no symbol twice (`_check_unique_names` stops the others) and whose mapping rows are in the binary, in ascending order of address: the code sorts them, and that no two are at one address is
an assumption, for which the code has no check. A base's functions have a size and end in their section: `_section_marks` takes sized symbols only, and `_plan_functions` finds no limit for one that goes past the end.

*The split cache.* `UpToDateIsComplete` is not inductive: it speaks of binaries whose stamp matches and says nothing of one being written.
`IInv` adds that the snapshot a run works from is what the inputs are where they were not touched (`SnapshotIsCurrent`),
that **any** untainted stamp, matching or not, vouches for a complete split by the inputs it names (`StampMeansComplete`: an edit may be undone, and an
old stamp match again), and that while a binary is written its stamp is gone and the directory holds exactly the pieces not in `left` (`WritingSoFar`).
`KeepsCurrentSplit` follows from the same invariant: the only steps that change a directory are taken for a binary whose stamp did not match. So does
the refinement: `WriteStamp` is `Publish`, every other step that touches a directory is a `Rework` of binaries nothing vouches for afterwards.

*The round trip.* `split_binary` and `_split_names` go over the same symbols, separately and not in the same way: the first takes up each row of the CSV, so that
of several symbols at one address all but the last are written empty, the second each address. Both are compared with a third thing, the objects of
`RoundTripCut`: each symbol has the bytes up to its `End` (at the next address, or before), and what lies between there and the next address is an object (`Gaps`). These are facts about any sorted rows:

* The objects are apart (`ObjectsAreApart`), cover the file (`ObjectsCover`), and have different names (`OneObjectOfAName`), since a gap is named after where it begins, and no two begin at one place.
* `split_binary` is at the end of the last symbol it passed or at the next address (`SplitIsOnTime`), so it never passes one. Only the last symbol, where it lies past the end of the file, has a negative size, which takes `cur`
  back to the end exactly; `counted` and `written` are `cur` and `cur` cut off at the end of the file. What it has written are the objects of what it passed, or emptied ones, and nothing is written below a piece with bytes (`SplitCuts`).
* `_split_names` is at such a place too (`NamesAreOnTime`), and has named the same (`NamesCut`).
* `LoopsAdvance` counts: a step takes the next index, or moves from a symbol's end to the next address, which it can do once for each index.

At the end of both loops every object is written and named. An object with bytes may share its file with an emptied one, but is written after it (`ObjectOfIsTheObject`). That gives `GraphLinksTheSplit` and `EveryByteIsLinkedOnce`. For `RoundTripIsExact`
the link's order must be the addresses': the exheader's segments follow the addresses, and so do the labels where they are in order (`SegmentsInOrder`), so an object that is later in the file is not linked earlier (`GatheredInOrder`). Then
each object begins where the one before it ends, since the byte before it is in some object (`LinkedIsTheBinary`).

*The source map.* The loops keep only `owner`; the definition asks for a minimum over groups. `IInv` says that each loop leaves its sources in
path order (`InPathOrder`) and that an owner is the first to claim among the sources the loops have been through (`OwnerSoFar`). At the
end they have been through all, and `FirstToClaimOwns` and `UnclaimedHasNoOwner` match the four cases of `OwnerOf`. That
a nonempty set of sources has a first is taken from the well-foundedness of `<` on the naturals (`FirstIsFirst`). The warnings need two more facts (`WInv`): a source that
did not get what it defines was warned of, or both it and the owner are vague (`WarnedSoFar`); and what was warned of has a claimant it is not vague in (`QuietSoFar`). A claim is compared with the owner alone, but of any two
definitions one is not the owner's.

*Relocation recovery.* `RelocationsReach` speaks of relocations already written. `IInv` adds that each candidate still to come refers to what its bytes do, with a type of its bytes' class (`CandidatesAreRead`), and that the relocations of the twin
still unused are the base's (`TwinIsOfTheBase`). A name is taken from the CSV's symbol that covers the place, or from the twin where it reaches the same byte with the same addend. The twin's addend fits its
field, since it was read from one (`ReadFits`), and `EncodeDecodes` gives it back. The CSV's need not: `encode` masks it without a word, and `EncodeCarries` says what is left of it. The induction is over `Pass`, `EmitBySection`, `EmitByName` and `EmitNearest`; that addresses never collide comes from candidates being one to an address.

`PoolsDecodeAsData` speaks of the marks in the end, all functions' together. `PoolInv`: they are those of the functions taken up so far, each function's inside it, so where symbols lie apart (`Apart`) the last mark before a byte is its own function's. Which one that
is comes from going down from the byte to where a run of pool words begins, or up to where it ends (`RunStarts`, `RunEnds`): there is the mark, and none is in between (`MarksShowThePools`). It takes that pools are whole words inside the function, and aligned (`PoolsAreWords`).

*A build that fails.* `FailedCompilePublishesNothing` and `FailureLeavesReport` hold for any sources, headers, CSVs and flags, with any number of commands at once, and whatever is edited during the build or done by hand between two. What a failure leaves is decided long before it happens, so
`IInv` says what each ninja run has in hand (`PlanOfPhase`): the one that makes build.ninja makes objects and nothing that is published; the one that publishes makes no object, and of its steps only the link of the base can fail.
The second half is where the manifest's edges matter: build.ninja has every object as an input, so an object that is dirty makes build.ninja dirty and ninja is sent round again before it publishes (`DirtyObjects`). `PublishedLast` adds
that the report, which has the base as an input, is started only when the base is made, and then nothing is left that can fail.

*The types of `Build`* are not inductive alone: a report is of its type only if the target it measures is there. `TInv` adds that what a build reads is there when it does (`ReadIsThere`), which for the target follows from
its edge: the report starts when the target is no longer planned, and a target that was never planned was not dirty, so it exists.

*A build that succeeds.* `SuccessIsFromScratch` compares files, and ninja compares times; what lies between is what ninja's log and the times **mean**. `FInv` says so, for each kind of file:

* `Records`: a file on disk that is logged was made from what is there now, but for what is newer than its record (`CompiledFrom`, `LinkIsOf`, `BaseOfLink`, `TargetOf`, `ReportOf`). Something that went is not newer, so each says "is gone, or was this".
  An object that a partial build compiled is newer than its own record, which is why nothing is said of it. `build.ninja` itself is such a file: its link order is that of *some* definitions, which are the objects' own but for the newer ones (`LinkIsOf`).
* `Runs`: the same of each command that runs, from what it read at its start, with what changed since in the place of what is newer. When it ends, `since` becomes `newer`, and a run becomes a record.
* `SourcesAreKnown`: a source that is there beside an object is in the graph that ninja goes by. Otherwise the target's command, which asks every object what it defines, would take symbols from one that nothing makes again.
  This is the part that fails with `EditBeforeTarget`.
* `RebuildGoes`, `BuildGoes`: what each of the two ninja runs has yet to make. In the second, what is not in the plan is made (`ObjectIsMade`, `PublishedIsMade`), its log entry is the command of this graph, and none of its inputs is yet to come;
  what fails to compile has no object from scratch either.
* `Ends`: the four properties themselves, which speak of the end of a build and must survive what follows it.

Each step is one of: an edit, which only adds to what is newer (`Writes`, `RunsGoOn`); a scan, after which what is not dirty is made (`Dirty` is three times closed over the edges, and the longest way through them is three edges long);
the start of a command, whose result is of the files as they are; its end; and the end of the run, where the plan is empty, so everything is made from what is there now. There what the commands give is put together to what `CleanBuild` gives.
One step needs the source map: every symbol a present object defines, and the target therefore takes, must have its relocations in the base. That the base links an owner for every defined symbol is `DefinedIsLinked`, from `LinkOrderIsOwners` and `DefinedIsOwned`.

This proof found the two limits of `SuccessIsFromScratch` above that TLC's bounds had hidden (`EditBeforeTarget` takes three changes, and a file named after a symbol it does not define was not among the instances); TLC confirmed both, with larger bounds. The run has such a file now.

*The compiler settings.* The rules of an entry are expanded one by one, each into settings for the paths it names that have none yet. That is a recursive function over the number of rules, and what is true of it is an induction:
after `k` rules a path has its direct rule or else the first of the `k` that names it (`ExpandedBy`). That gives the presets and wildcards in their order; the lookup by path, bare name and default is then the documented one, where no other file
is meant by the bare name (`MisledByBareName`) and the two ways to match `ignored:` agree. The induction over a number and the existence of a function defined by recursion over one (`InductionUpTo`, `RecursionUpTo` in `NumberingProofs`) are proved from the
well-foundedness of `<`, since the library's own theorems take an operator as a parameter.

*The target.* The properties speak of the bytes in the end, and each pass sees the symbols only. `CutInv` says, pass by pass, what they are:

* Always: the symbols follow one another from 0, each begins where the one before it ends (`Covers`). Where nothing begins inside a function this survives cutting: the pieces of a function begin where it begins, follow one another and end where it ends (`PiecesWork`), by induction over
  the runs inside it, which are apart because mapping rows are. For the pieces to be in a symbol, its row must not have been cut short by another (`SplicedHolds`): that is `ExtentsApart`, and where the finding `target_overlap` comes from.
* While symbols are completed: the addresses to come are those of the rows not yet passed (`Coming`), and `cur` never passes one, since a symbol is cut off at the next. Each symbol is that of the last row at its address, as long as the row or up to the next address, or a gap between them (`Completed`).
* From then on, where a symbol is: a pool's symbol lies after its function with no other code between (`InItsPool`), and a gap is in the section that what is before and after it say (`InItsPlace`). `CutPools` takes pools out of a function and only out of code, so the gaps stay.
* In the end: the runs are described one by one (`LaidOut`): it begins where the section changes, ends where the next begins, and its offset follows from the last run of its section. So runs of one section come in order of offset as of address (`OffsetsInOrder`), and two bytes are never at one place (`PlacesApart`).

`ModeIsKept` speaks of the last mapping symbol before a byte, of symbols and markers, in the section it has been moved to. `ModeInv` says where that one is: in the symbol that holds the byte, with no other symbol or marker between (`LastMark`), and
that it has the mode of the CSV's rows (`ModeOf`). It becomes true when pools are cut: the markers before that are those of the rows (`MarksOfRows`), every function has a symbol (`RowsStand`), and a byte is in a run inside its function or
before all of them (`RunIsMode`, `NoneBefore`), so in a function that is cut its piece has the mode (`PieceReads`), and in one that is not its last marker, which is not spent (`WholeReads`). The bytes of a section are in the order of their addresses
(`PlacesInOrder`), so that what is last in the section is last in the binary (`LastMarkIsRead`).

`PoolsCompare` compares two sequences of bytes that are made in different ways: the target's from its runs, the base's from ranges between marks. Neither is computed; each is shown to be the bytes of a set in ascending order (`InOrder`), and a set has one such order (`OneOrder`). A list of
ranges, each after the one before, gives its bytes so (`BytesInOrder`), and the runs of a section are such a list (`BytesInAre`), as are a function's inner pools followed by the one after it (`PoolsAreApart`). What is left is that the sets are the same, byte by byte:

* In the target, `SectionInv` says where the passes put a byte: one of a cut function in its pool where its mode is `$d` and in its code elsewhere, one of a label where the label is routed; like `ModeInv` it becomes true when pools are cut (`PartsKeepSections`). What is neither is in the code (`OtherPlace`), as a label goes on up to the next row (`LabelReaches`).
* In a function, both sides ask for the same thing, a `$d` up to the byte with no code mark between (`DataSince`): the CSV by its last mapping row (`MirroredMode`), datasplit by the pools that no other runs across (`InnerPoolsHold`).
* After a function, too: a `$d` up to the byte, with nothing that starts in between (`PooledAfter`), for datasplit (`TrailingPoolHolds`), and for the labels the function owns, in both directions (`OwnedIsAfter`, `AfterIsOwned`).

`Mirrors` is used throughout: where the CSV and the base's symbols disagree about a function, nothing is said of it.

`Layout` and `Pieces` are recursive functions; they are handled as the settings are, through `RecursionUpTo`.

Each invariant was checked by TLC as well: `CutInv`, `ModeInv` and `SectionInv` on all the instances of `target` (what `CutInv` says of a gap had to be strengthened during the proof, and was checked again), that of the round trip on the instances of `round_trip` (with `csv \in Seq(Row)` for `csv \in Csvs`, which TLC takes too long to decide); `FInv` is part of the run `build`, and was checked once more with three changes and a smaller choice of texts (9.8 million states).

**Only model-checked.** Of `Reloc`, `IdenticalCodeMatches`, `ShiftedCodePairs` and `MatchReachesTheSame`, which compare recovery with what a linker does, and so rest on `ArmLink`, and on base, binary and CSV being of one link, rather than on the code alone. The liveness properties: liveness under fairness and `ENABLED` are out of the
prover's reach.

## Findings

* **`objdiff.json` after a failed link** (`build_objdiff_json`). The edge has no inputs, so a run whose base link then fails may have
  rewritten it; `build.py` prints that it was not updated. For a failed compile, and for the report, the statement holds.
* **The exheader is not in the split's key** (`split_cache_key`). `_split_key` is documented as the hash of every input the split
  depends on; `exheader.bin` decides the section of every object.
* **Padding labelled `.bss`** (`round_trip_padding`). Where a symbol's address is in the file and past `.data`,
  the CSV's label is kept, also when it is `.bss`, which is the case the comment there means to prevent: the object has no bytes and the relink is shorter.
* **A label inside a function that is cut** (`target_overlap`). `_complete_symbols` ends a function at the next row, `_place_markers` does not. With a label
  (say of size 0) inside a function and a pool after the label, `_cut_pools` emits pieces past the end of the symbol they replace: runs overlap,
  bytes are written twice, and where a run's end comes before its start, its offset is negative and writing the ELF raises `struct.error`.

* **A jump rewritten into a call** (`reloc_hidden`). All ARM branches are one class, and what is written over a place where the base has a call is always `bl`: where the binary
  jumps (`b`, `bne`) and the compiled code calls, objdiff shows no difference and the function counts as matching.

Found while modelling, confirmed on the code, and excluded from the inputs or the property named, with a hazard each in `PROJECT.json`:

* The pools between the pieces of a cut Thumb function are looked for every four bytes from its start (reloc.py:550): at an address that is 2 modulo 4 they are missed, and a `bl` may be read across one.
* A label without a size inside a sized symbol hides it from `containing` (reloc.py:429): a section-relative reference past the label reaches no symbol.
* README.md:297-300 puts a direct match, by path or bare file name, before presets and wildcards. A wildcard is expanded to full paths, which are looked up first (config.py:192):
  with `x.c:` and `"*":`, the file `y/x.c` gets the wildcard's settings.
* The comment at config.py:852 says that two same-named files in different folders stay distinct. What a glob gives `x.c` in the root is found by bare name for every other `x.c` that has no settings of its own.
* `ignored:` is matched by `rglob` where sources are gathered (config.py:748) and by `fnmatch`, whose `*` crosses directories, where rules are expanded (config.py:835): with `wip/*`, `wip/a/y.c` is compiled, without its wildcard's settings.
* README.md:86-88 says of a `$d` mapping row whose Size ends sooner that "the unnamed bytes after it are taken for code, never as more of the pool", and objdiff.py:305-307 and 334-335 say the same. README.md:68 says that a function's
  pool is every `$d` label up to the next code, "gaps between them included", and `_keep_text_gaps` (objdiff.py:174) does that for any two labels, those that come from mapping rows as well: between a short `$d` and another label of the same pool
  the unnamed bytes *are* more of the pool. Which of the two is meant the repository does not say; `GapsAreSettled` leaves such gaps out (`disputed`), and TLC finds them when it does not.
* A row without a size at the end of a label hides that no label's bytes end there: the gap after it passes for the label's. `GapsAreSettled` leaves this out.

None of them was changed in the models: the other properties hold of the code as it is.

## Not modelled

* Presentation: tables, colours, messages, percentages, `--help`, file formats as text.
* `util.py` and `__main__.py`: no state, dispatch only.
* CRO modules (`ctrtype.py`, `recreate.py`): fixed offsets read, written and hashed; no state that steps could get wrong, and a round trip of bytes is a test, which the repository can have.
* The outputs of a partial build under `out/partial/`, and the scope it narrows the target to. Its compile into `build/`, which the full build meets, is in `Build`.
* `datasplit.py` on relocations: that what pointed into a section points into the part split off from it. `BaseCut` says which bytes go where.
* Multi-binary builds: the edges of one binary depend on nothing of another's but `objdiff.json` and the report, which list all.
* The settings of the compiler as such: `BuildGraph` takes a version of `cc.yaml` as the flags it gives.
* A `PipelineError` that is raised while the project is loaded, build.ninja generated or the target written (config.py:63-655: a `cc.yaml` of the wrong shape, a source without settings, a compiler or a dependency that is not there, a symbol named twice). The failures of `Build` are those
  of compiling and linking: an edit there gives a project that loads.
* What objdiff-cli computes. It is there or not; that it fails is treated as it not being there, which leaves the same files.
* The rest is in the plan.

## Plan

Done, in this order: `SourceMap`, `BuildGraph`, `Build` (the most important behaviour: is a build ever wrong?), `SplitCache` and `SplitStore`, `RoundTrip`, `Claims`, `BaseCut` and `TargetCut`,
`RelocCodec`, `RelocBase` and `Reloc`, `CcRules` and `Sources`, their runs, and the proofs of `SplitCache`, `RoundTrip`, `Claims`, `CcRules`, `TargetCut` and `Build`, of which all the safety properties are proved, and of `Reloc`, of which the ones above are.

What would come next, in this order:

1. `Build`, extended: the outputs of partial builds under `out/partial/`; the round trip's ninja edges beside the split; a manifest write cut short, as a disturbance.
2. `BaseCut`'s relocations into split objects, composed with `Reloc`: today `Reloc` is given a base with split sections and `BaseCut` does not say where their relocations went.
3. Theorems: of `Reloc`, `MatchReachesTheSame`, which is an invariant of one recovery.
