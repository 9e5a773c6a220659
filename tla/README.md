# Verification of hdl-kgraph

hdl-kgraph parses a tree of HDL sources into a knowledge graph, keeps it in
one SQLite file, and updates it incrementally as the sources change. These
TLA+ modules model what a build, an update, a merge, a question and a set-up do
to that graph and its files, TLC checks them on small designs, and TLAPS proves
the results that hold for every tree. Paths are relative to the repository
(`src/hdl_kgraph/...` is the package).

The question the project asks first is the one the program's design rests on:
*after any sequence of edits, updates and rebuilds, is the database the one a
full build of the same tree would have written - and if not, what does still
hold of it?* Others follow from it: is what is on disk one whole database
whatever crashes and reads fall between the steps of a write; does every edit
reach an update at all; does a pool of parse workers change the result; does a
scoped link give the rows a full one gives; is an answer computed from a few
rows the answer of the whole graph?

## 1. The system

| Component | State it keeps | Operations | What makes it correct |
|---|---|---|---|
| Incremental pipeline (`pipeline.py`, `incremental.py`) | nothing between runs: everything is in the database | `run_build`, `run_update`: hash the tree, find the dirty files, parse them, link, write | an update ends with what a full build would write; an update never forgets work a later one needs |
| Parse-worker pool (`pipeline._execute`) | futures in flight | submit a prepared unit, drain in order | results reach the linker in compile order whatever order they arrive in; a failed unit is only left out |
| Preprocessor, pass 0 (`parser/preprocessor.py`) | the macro table of the run, the open includes | `` `include ``, `` `define ``, `` `undef ``, `` `ifdef ``, expansion | one table in compile order; each text spliced in place; every dependency recorded as an edge |
| Language parsers, pass 1 (`parser/*.py`) | none | one IR per compilation unit | pure functions of the expanded text |
| Linker, pass 2 (`graph/builder.py`, `graph/bounded_link.py`) | the graph of the run | resolve references, score them, make stubs; the same restricted to a scope | a scoped link gives the edges a full link gives; so does decoding only the affected units; an edge that claims certainty was no choice |
| SQLite store (`storage/sqlite_store.py`) | the database file, its WAL sidecars, the `.tmp` file of a build | `save` (write aside and swap), `save_incremental` (scoped delta), derived-table replaces, migration, reads | a crash or a reader between two steps meets a database that is old or new, never a mixture |
| Discovery (`discovery.py`) | none | walk the tree, filelists first, skip guards, hash | compile order is stable; no file is compiled under two names |
| Filelists and configuration (`parser/filelist.py`, `config.py`) | the open `-f` files | nested filelists, define merging, the settings of a run | a cycle ends, the order in the graph is the compile order; a change of settings is noticed |
| Version control (`vcs.py`) | none | `detect-changes` through git, svn, p4 | what an update would see, a gate in CI sees |
| Watch mode (`watch.py`) | the event queue, the debouncer's batch | observe, debounce, update | every edit is eventually in the database |
| Database merge (`merge.py`) | the union under construction | gate the sources, reconcile paths, link the union | the merge is the build of the union, whatever the order of the sources |
| Summaries and analyses (`graph/analysis.py`, `clocks.py`, `power.py`, `uvm.py`, `storage/summaries.py`) | none | clock domains, resets, crossings, UVM and power, hierarchy, impact | what is computed twice, in SQL and in memory, agrees |
| Query layer and MCP server (`storage/query.py`, `mcp/server.py`) | none | load the rows a question needs, answer it | the rows are all the answer depends on |
| Set-up (`mcp/setup.py`, `cli/serve.py`) | configuration and instruction files of other programs | merge an entry, keep a block of notes, back up | the user's part of each file survives; a second run changes nothing |
| Enrichment, CLI, views, export, benchmarks | none of their own | drivers of external tools, presentation | |

How they interact. `cli` and `watch` call `run_build` or `run_update`. The
configuration, the filelists and the walk decide what a run is given; an update
loads the hashes and the dependency edges that the previous write *stored*,
computes its scope from them, runs pass 0 over the files that are dirty,
replays the stored macro events of those that are clean, parses (in a pool, if
there is enough to do), links what is in scope against the stored nodes, and
hands the store a delta. Nothing is remembered between two updates but the
rows, so a row that is missing or stale makes the *next* scope wrong. Between
hashing and parsing the user's editor runs. `merge` reads several databases and
links their units once more; queries and summaries read one.

What is hard here, and a test hardly reaches:

* the scope of an update is derived from what earlier updates left behind
  (long sequences of edits, not single ones, break it);
* a file changes *identity*: a header that nobody includes any more is
  compiled as a unit, and a unit that somebody starts to include is skipped;
* a macro defined in one file changes the parse of units far down the order;
* a re-link starts from stored rows, in which stubs and old nodes look like
  declarations, while owner and confidence depend on the order of the units;
* texts are read twice (hashed, then parsed), with edits in between;
* results of workers come in any order or not at all, and an update may find
  half way that the way it chose is not available;
* several transactions make one update durable; readers, crashes and a second
  updater fall between them; the watcher may miss an edit altogether;
* a question loads a few levels of a graph, and one level too few changes
  nothing but a count.

`PROJECT.json` lists each hazard at its line, with the property that covers it
or the reason there is none.

## 2. The modules

There are four groups; within each the later modules extend the earlier.

```
  what one update leaves behind   Design -> Update;   Store;   Watch
  how a run executes              Compile -> SerialRun, Pipeline (implements SerialRun)
  what a run is given             Inputs -> Changes -> Sources
  the graph                       KGraph -> Clocks -> Linker -> Relink
                                  KGraph -> Analysis -> Queries;  Clocks -> Summaries
                                  Linker, Summaries, Queries -> Assembly
  other programs' files           Setup
```

### Design

Passes 0, 1 and 2 as operators, and the database of a full build. No state.

| Definition | Code |
|---|---|
| `Content`, `Tree` | a file's text: its includes, definitions, conditional definitions, instances, expansions, macro directives |
| `Resolve`, `IncludeRel`, `Spliced`, `Expansion` | `_resolve_include`, `_handle_include`, the open-include guard |
| `Effect`, `Table`, `Events` | the run's macro table and the events that a clean unit replays |
| `Units`, `Splices` | the loop of `_execute`: which discovered files are compiled and which are skipped because an earlier unit spliced them |
| `Parse`, `Defs`, `Refs`, `Dep`, `Uses` | what a unit's IR holds, per file of its expansion |
| `Owner`, `Score`, `Stubs` | the linker: first occurrence owns, confidence by number and kind of candidates, stubs for what has none |
| `Database`, `FullBuild` | the rows `save` writes |

### Update

The program as a state machine over `disk` (the tree), `db` (the tables), `pc`
and `snap` (a running update and the hashes it took). `built` and `exact` are
history variables: the tree of the last write, and whether every write since
the last full build left alone only files whose pass-1 results a full build
would have made again (`Undisturbed`) and, if it linked with bounded decoding,
decoded the first unit of every source it re-resolved (`FirstListed`).

| Action | Code |
|---|---|
| `Edit(f)` | the user writes, creates or deletes a file; while an update runs according to `Racing` |
| `Scan` | `discover` and `diff_hashes`; an update with nothing changed returns |
| `Commit(bounded)` | dirty closure, passes 0 and 1, incremental link (`bounded`: only affected clean units are decoded), `save_incremental` |
| `Abort` | a file hashed and then deleted: reading it raises and nothing is written |
| `NothingParsed` | no unit left: the update returns before it writes |
| `Fallback` | no stored IRs: `run_update` runs a full build |
| `Build` | `hdl-kgraph build` |

`Changed`, `Added`, `Removed`, `DepRel`, `NewlyResolvable`, `Dirty`,
`Reparsed`, `Touched` are the scope, `Run` the IRs that the update's own pass 1
ends with, `LinkRun` and `Relink` the incremental link, `Write` and `Delta` the
scoped write, table by table. One abstraction concerns the nodes of an IR: the
node of an instance is in every IR that holds its file's text, also in one where
the macro that guards it was undefined.

### Store

The files of the database, and the steps `Update` takes as one. A source text
is its version; the edges of a source are the versions (its own and those of
the sources it uses) that they were resolved from; a database is its schema,
hashes, edges (`link`), TEST_COVERS edges (`covers`) and summaries (`sums`),
the derived tables being the edges they were derived from. `file` maps inodes
to databases, `main` and `tmp` are the inodes behind `graph.db` and its `.tmp`,
`wal` the committed frames behind `graph.db-wal` and the inode they were
written for. `View` is what a connection opened now reads.

| Action | Code |
|---|---|
| `StartBuild`, `CreateTmp`, `Fill`, `Swap`, `UnlinkWal` | `run_build` up to the parse; `save`: remove a leftover temp file and create one, write it in one commit, `os.replace`, remove the sidecars by name |
| `StartUpdate` | `run_update` up to `migrate`: build if there is no database, else bring an old schema forward in one transaction |
| `Scan` | load the stored hashes, hash the tree, return if nothing differs |
| `Link` | load the rest of the stored design and link, in one of three ways: in full, on the whole graph in memory, bounded |
| `CommitDelta` | `save_incremental`, with its fallback to `save` |
| `Derive`, `PutCovers`, `PutSums` | `_refresh_test_covers_from_db`, `_refresh_summaries_and_counts_from_db`: read on one connection, replace on the next |
| `Stats` | `set_meta("build_stats", ...)` |
| `Fold` | the checkpoint after a commit: complete, or given up because a reader is in the file |
| `Crash` | a writer dies between two steps; temp file and WAL stay |
| `ReadNodes`, `ReadEdges`, `Close` | `load` and the queries: two SELECTs on one connection, each a read transaction of its own |
| `Edit` | the user writes a source |

`broken` is a history variable: a crash came between the transactions of an
update and nothing has replaced the derived tables since.

### Watch

Three actors. The editor: `Edit(f)` saves a file, directly or by renaming
another over it; the operating system emits an event of one or two paths if the
observer runs. The observer's thread: `Observe` (`_Handler.on_any_event`) puts
the paths of an event on the queue. The watch loop: `Scan` and `Store` are an
update (what it hashes, what it stores), `Fail` an update that raises, before
or after it hashed; `StartObserver` comes after the first update;
`Get` takes one path from the queue or times out (`Debouncer.note`), `Check`
is `ready` and `drain`. `Tick` is the clock. The steps of the first update have
their own places (`first scan`, `first store`) because the observer is started
after it. `lost` is a history variable: files whose edits produced no event
(saved after the first hashing and before the observer ran) or were in a
failed update.

### Compile, SerialRun, Pipeline

One run as it executes, with everything that may go wrong in it. A text is its
version, what it includes, what it refers to, and whether it binds; an IR is
the texts it was made of, so that "the same database" means "made of the same
texts in the same order". `Compile` has the operators, `SerialRun` the promise,
`Pipeline` the program.

| Definition | Code |
|---|---|
| `Treatment`, `Dispatched`, `Finalized`, `WorkerFailed` | the loop over the discovered files and `finalize()`: skip, replay, reuse or parse; the shared macro table; the failed unit that is recorded and left out |
| `EffectiveJobs` | `_effective_jobs`: when there is a pool |
| `Entry`, `LinkGraph`, `LinkIncremental`, `AffectedRefs` | what the graph holds of a file, in full and scoped |
| `Saved`, `Patched`, `Outcome` | the rows of `save` and of the scoped delta |
| `Plan`, `LinkSafe`, `SelectiveUnavailable` | `run_update`'s choice: full, nothing to do, selective, legacy; what makes a scoped link unavailable (options, schema, missing IRs, VHDL, bind, cocotb, SDC, enrichment) |
| `Start`, `Build`, `Update` | a run begins |
| `Pass`, `Enqueue`, `Continue`, `AllDispatched` | the loop, which fills the queue of pending units and drains what is ready between two files |
| `Work`, `WorkerDies` | a worker answers, its parse raises, or the process dies and with it every parse in flight |
| `Finalize` | the oldest pending unit is taken, with its result or its failure |
| `SubmitFails` | `executor.submit` on a broken pool |
| `Retry` | a corrupt row or a bind directive met half way: again, with every IR decoded |
| `Write` | link and write (the steps of which are in `Store`) |
| `Edit`, `Configure`, `Corrupt` | between two runs: a text changes, the options change, a stored row goes bad |

`Pipeline` implements `SerialRun` (`Serial == INSTANCE SerialRun WITH ...`, the
operators of `Compile` for its operator constants) under the identity on `disk`,
`opts` and `db`: whatever the pool does, the database changes in one step to what the
files, compiled one after the other, give - for some set of units that failed.
`drifted` is a history variable: since the last full build an update met what
it does not cover. Each case is named: `Overlooked`, a clean unit whose header
includes a file that was added, and the four of `Beyond`, which only a scoped
write can meet - a unit compiled again although its text is unchanged (its last
parse failed, or it was a header until now), a file whose failure is recorded
and that became a header, an untouched file whose nodes come from another unit
from now on, and a design-wide unit in the base of a scoped link.

### KGraph, Clocks, Linker, Relink

`KGraph` is the graph as a value: nodes under ids of file, kind and scope path,
and a set of edges with confidence and attributes. `Linker` is pass 2 rule by
rule:

| Definition | Code |
|---|---|
| `FirstUnit`, `Loaded`, `Defs`, `Children` | the indices of `_Linker.__init__` |
| `Candidates`, `ResolveTarget`, `ResolveGlobal` | `_resolve`: candidates by kind and name, same language first, other languages, stub |
| `Chosen`, `Scored` | `_score`: live, local and conditional candidates, and the confidence of each outcome |
| `Visible`, `ScopedTarget`, `ResolveScoped` | names seen from a scope, implicit nets, enum members, `` `ifdef `` twins |
| `Formals`, `ByName`, `Matched`, `BindTo`, `Dataflow` | port and parameter bindings, by name, position and wildcard, and the READS and DRIVES edges that follow |
| `ReferrerLibrary`, `FilterLibrary`, `BindingsFor`, `ViaConfiguration`, `Component` | VHDL libraries, component, entity and configuration instances, configuration bindings |
| `FilterForeign`, `CrossLanguage`, `ResolveCocotb`, `ResolveSln`, `ResolveConstrains`, `ResolveFileRef` | DPI-C, mixed languages, cocotb, SLN, SDC, file references |
| `LinkGraph` | `link_graph` |
| `ChangedNames`, `AffectedSrcs` | `changed_target_names`, `affected_clean_refs` |
| `LinkIncremental`, `WithoutOrphans` | `link_incremental`, `_gc_orphan_stubs` |
| `LinkBounded`, `Hydrated`, `AffectedPass1`, `StubNeighbourhood` | `link_incremental_bounded` and what it reads back from the database |
| `ScopedWrite`, `Recovered` | `_apply_delta_scoped`, the refresh of TEST_COVERS |

`Relink` puts it in motion: `Edit` changes the IR of a unit (or adds or removes
it), `LinkAll`, `LinkLoaded` and `LinkSelected` are the three ways a run then
links. `Clocks` has what is inferred from a linked graph: nets joined through
ports, clock domains, resets, crossings, what constraints declare safe, the UVM
topology and test covers.

### Analysis, Queries, Summaries, Assembly

`Analysis` is `graph/analysis.py` and what the MCP tools return of it. It works
on a *reading* of a graph: nodes, edges, and how often each edge was loaded.
`Queries` says for each question which rows `GraphQuery` loads (`ForFind`,
`ForPorts`, `ForTree`, `ForImpact`, ...) and lets the same analysis run on
them. `Summaries` folds the reports of `storage/summaries.py` row by row, next
to those of the graph in memory. `Assembly` is `merge.py` and asks the merged
database:

| Action | Code |
|---|---|
| `Open` | `_gate_source`, `_resolve_conflict`, `_AdapterUnion.absorb`: a source is refused (schema, enrichment, root, a conflict of paths, rows or adapters) or absorbed under the policy |
| `Link` | `run_merge`: one link of the union, the files table; an empty union is an error |
| `Ask` | any tool with any of its arguments |

### Inputs, Changes, Sources

`Inputs` is what decides the work of a run: `ParseFilelist` and the flattened
lists, `Config` and `ResolveBuildOptions`, `Discover` with links, globs,
exclusions and guards (`CheckFile`: missing, of no known suffix, excluded, too
large, encrypted, Python without cocotb, a Visual Studio solution),
`DiscoverInputs`, `OptionsHash`. `Changes` is what git, svn and p4 print of a
work tree and the change set `vcs.py` makes of it. `Sources` is a tree and a
command line under changes, and a database that keeps of it what an update
compares:

| Action | Code |
|---|---|
| `Change` | a file is edited, created or deleted, or another command line is used |
| `Build` | `run_build` over the inputs: `RunUnits` has the preprocessor's include search, the depth limit, consumed headers |
| `Update` | `run_update` with the same base and options fingerprint: hash diff, closure over stored includes, newly resolvable includes, rows of touched files |

`DetectChanges` is the command, a function of the state, of the version control
and, for git, of the repository's top.

### Setup

`Start` (setup for any of the detected assistants, with notes or without),
`Write` (one file: merged or refused), `Decline` (no at the prompt), `Killed`
(between two files or inside a write, which leaves the file truncated), `Edit`
(the user). `MergedConfig`, `MergedToml` and `InstructionsPreview` are the three
merges.

### How the modules compose

`Update` has the content of a write and takes it as one step; `Store` has the
steps of a write and abstracts its content to versions; `Watch` has when an
update runs and abstracts it to hashing and storing; `Pipeline` has how the
content comes about and abstracts texts to versions; `Sources` has which texts
these are; `Relink` what the link makes of them. The interfaces are the same
everywhere: hashes are taken at the scan, texts may change from there on, what
is stored is what was scanned, and the link is a function of the IRs in
discovery order and of the rows that are stored. `Relink`, `Assembly` and
`Pipeline` share no module but the shape of that function: `Pipeline`'s
`LinkIncremental` is `Linker`'s, with references abstracted to texts.

### MC modules and configurations

`MCUpdate` has one tree shape - a unit, a header, a unit, in discovery order -
with one set of texts per question; the `.cfg` files choose texts, order and
racing. `MCStore` has two sources of which one uses the other (or one source),
with writers and inodes as symmetric model values, `MCWatch` two files.
`MCPipeline` has a header between two units, of which one uses the other, and a
constraints script. `Samples` builds the designs of `MCRelink` and `MCAssembly`
from constructors for IRs. `MCSources` has three scenes, `MCSetup` two
assistants, one with a JSON and one with a TOML file.

### Numbers and the proof modules

`Numbers` has induction, least and greatest elements and recursive functions
over the numbers, stated for sets and functions; `Update_proofs` (which also has
the lemmas about `Design`), `Freshness_proofs` (about `Update`), `Store_proofs`,
`Watch_proofs`, `Pipeline_proofs`, `Rebuild_proofs` (about `Pipeline`) and
`Setup_proofs` the theorems. Section 5 has their arguments.

## 3. Abstractions

Kept: the control flow of every modelled operation, the order of files
everywhere it matters, both link modes, every early return in the modelled
path. Abstracted:

In all modules:

* A content hash is the content. Two texts never collide. (In `Assembly` a
  database may hold another IR under the same hash, as a file parsed under other
  defines would be: `Coherent` is where it may not.)
* Messages, line numbers, counters of the report, paging and progress are left
  out.

In `Design` and `Update`:

* A text's directives come in one order: includes, conditional blocks, macro
  directives, instances. (So a text cannot use a macro and then redefine it.)
* A file defines a name at most once (`DefinesOnce`); otherwise the `@line`
  suffix of node ids would have to be carried.
* Headers have no include guard; a header included twice is spliced twice.
* An `` `include `` text has one list of candidate files (`Search`), not one
  per including directory (`Sources` has the search).
* `conditional_defines = "both"`, the default: both arms are kept. The other
  mode selects an arm and is left out; so are nested conditionals and macro
  arguments.
* References are instances, a tree is a SystemVerilog tree, options do not
  change (`Linker` has the other references, `Pipeline` the other languages and
  the options).
* The database write is one atomic step, and one update runs at a time
  (`Store` has the transactions inside it and two writers).

In `Store`:

* A transaction of the code that opens, commits and closes one connection is
  one step; so is each SELECT. The lock waits inside SQLite (`busy_timeout`)
  are not modelled: a writer whose `BEGIN IMMEDIATE` has to wait takes its step
  later.
* SQLite and the file system are modelled as far as the code rests on them: a
  rename is atomic; a connection keeps the inode, and the WAL it opened, when a
  name is moved or unlinked; a WAL opened beside another file than its own
  gives neither database (`Torn`); an open transaction of a dead process is
  rolled back.
* `sums` stands for the summaries derived from edges and TEST_COVERS together;
  migration leaves them absent (`Missing`), and readers then compute them.
* No command is modelled on a `Torn` database: what SQLite makes of it is not
  the program's.
* Foreign or unreadable files, Windows' retried swap, file systems without WAL,
  and lock timeouts are left out.

In `Watch`:

* Event kinds and payloads are paths: the code uses nothing else of an event.
  Directory events, which the handler drops, are not emitted.
* What is not a build input is one path (`Scratch`: an editor's temporary file)
  and the path of the database.
* An update stores the versions it hashed. That a text can change between its
  hashing and its parsing is `update_racing`.
* The operating system delivers every event, in order, once the observer runs.
* `on_error` is given, as the CLI gives it; shutdown by an interrupt and the
  tests' `max_batches` are left out.

In `Compile` and `Pipeline`:

* No edit falls into a run (that is `Update`'s and `Store`'s question), and a
  failed parse depends on nothing: any parse may fail, up to `MaxFaults`.
* The IR of a unit is the map of its texts; macro events are the unit itself.
  A text's macro table is not carried: `Design` has what a table does to a text.
* Enrichment is an option that forces a full link.

In `KGraph`, `Linker`, `Relink`:

* Edges are a set. The code's multigraph may hold an identical edge twice; that
  an update leaves such a copy behind is not seen.
* An expression is the sequence of its tokens. Where the code takes the first
  of equals in source order (an assertable of the same name, formals with the
  same index) the model takes any.
* Texts of names are model strings; `Fold`, `Globs`, `Roles`, `TbNames`,
  `PinLeaf`, `Root` give what lower-casing, pattern matching and path handling
  make of those that occur.
* Confidences are tenths.
* `Plain` names what depends on the order of references and on what was linked
  before: nets that nobody declares and positional bindings to an undefined
  module. `OrderFree` and `RelinkExact` speak of `Plain` graphs only; section 4
  has what happens to the others.

In `Analysis` to `Assembly`:

* The union-find of net aliases is the set of its classes; where the code has a
  root id the model has the whole net.
* The result of a merge appears at once; `Store` has the steps of `save`.
* `Narrow` and `Unchained` exclude the questions and designs for which the two
  computations are known to differ (section 4).

In `Inputs` to `Sources`:

* A path is the sequence of its segments; links are a map of paths. A text is
  its version, size, marks, include texts, filelist tokens and settings.
* What version control prints is modelled from how `vcs.py` reads it.
* `Followed` names the changes an update cannot follow (section 4).

In `Setup`: a JSON file is what the merge looks at, a TOML or instruction file
a sequence of lines, a line a pair of words; an assistant's presence is a
constant.

## 4. What TLC checks

All runs are exhaustive over their instance. `Update`, `Relink`, `Sources` and
`Setup` have no counter, so no bound is put on the length of a behaviour: every
sequence of edits, updates and builds of any length over the given texts is
covered. Bounds: `Store` the versions of a source (`MaxVersion`) and the crashes
(`MaxCrashes`), `Watch` the saves (`MaxEdits`) and the failing updates
(`MaxFails`), `Pipeline` the faults (`MaxFaults`), `Relink` the units that
differ from what is stored (`MaxEdits`), `Assembly` the sources of a merge
(`MaxSources`) and one question each. The number of commands, queries, runs and
batches is not bounded.

| Run | Instance | Result |
|---|---|---|
| `update_core` | 4 texts for each of three files (with absence), one include text, two module names, one macro; no racing edits | 53 848 states; all seven properties hold |
| `update_racing` | 2-3 texts each, edits to new texts and deletions while an update runs | 34 189 states; `FreshOrPending` holds |
| `store_one_writer` | one writer, one reader, three inodes; two sources, one using the other, one edit each; one crash | 312 736 states; all six properties hold |
| `store_two_writers` | two writers, three inodes, one source edited once; no reader, no crash | 156 535 states; `Settled` holds |
| `watch` | two files of two versions, three saves, one failing update, a quiet period of two ticks | 130 772 states; all four properties hold |
| `pipeline` | two units, a header, a script; a bounded update with two workers or a legacy one without; one fault | 163 578 states; all six properties hold |
| `pool_break` | the same tree, always two workers | `NeverAborts` violated |
| `relink` | five designs of three to seven units; two units differ at most | 14 136 states; all five properties hold |
| `relink_exact` | the design with packages and classes | `RelinkAlwaysExact` violated |
| `assembly` | six projects of two to five sources, merged two at a time in every order, under three policies; every question | 22 121 states; all five properties hold |
| `sources` | three scenes | 3 644 states; all four properties hold |
| `setup` | two assistants, two databases, four files | 360 000 states; `UsersTextKept` holds |

Why the instances are large enough. For `Update`: every interaction in the code
is between a definer and a user, a header and its includer, or a unit and an
earlier one that spliced the same header. With the header *between* the two
units in discovery order, it is spliced before its own turn (by `a`, and
skipped) or compiled and spliced again later (by `b`), both units can own its
nodes, each file can define the macro that each other expands, a name has none,
one, two or three candidate definitions, and each file can disappear and come
back.

For `Store`: two sources are a reference and its target, so an update has rows
outside its scope; three inodes are the live file, a temp file and one that a
reader still holds after a swap; one crash may fall on any step of any command,
before or after others that ran to the end. For `Watch`: the third save can
undo a first while the update for it runs, with the other file's in between,
and two ticks are the shortest quiet period that a second event can restart.

For `Pipeline`: with three units and a header consumed by the first, an older
result can be late while a younger is there, a failure can fall on an owner of
the header or on another, and the script's presence decides whether an update
may link in scope. The header's other version binds and includes the second
unit, which may be added later: with it every disjunct of `Beyond`, and
`Overlooked`, is met by some write. For `Relink` and `Assembly`: every rule of `Linker` has a
reference in some design that takes it (TLC's coverage shows no branch of
`Resolve` unvisited), with its target present, absent, twice, or in another
language. For `Sources`: each scene holds the constructions that interact -
lists that name each other with a library file, a configuration above another,
a link before and one after what it leads to, a VHDL file that grows too large
and still asks for a full link - and git's top is every directory from the root
of the tree down to the build root. For `Setup`: a user-level file
with backup and a project file without, a rule with front matter, a TOML table
with a sub-table.

The properties that hold of `Update`:

* `LinkExact` - as long as no write disturbed what pass 1 makes of a file
  outside its scope, the database after any number of updates equals the one a
  full build writes: all tables, edges, confidences, stubs. This is the promise
  of `docs/usage/incremental.md`, with the condition under which it is true.
* `LinkModesAgree` - the bounded link writes the very delta the full decode
  writes, where every file that is a unit stays one outside the scope (`Steady`)
  and the first unit of each source it re-resolves is decoded (`FirstListed`).
  `MCUpdateBounded.cfg` shows what happens without the second condition.
* `DirectlyFresh` - a stored parse result was made from the texts the files
  table records as current: the unit's own and those it includes directly; an
  include stored as unresolved still is.
* `IncludesRecorded` - the rows that the next scope is computed from are there.
* `MacrosFresh` - a macro body that a unit's own text expanded is the one its
  defining file holds now.
* `UpdateSettles` - a write records exactly the hashes that were scanned.
* `FreshOrPending` - with racing edits, whatever was stored from a text other
  than the hashed one is found again by the next scan, provided a raced edit
  leaves neither the scanned nor the stored text and creates no file.

Of `Store`:

* `LiveWhole` - the live database, when it can be read, is not half built and
  its edges are those of the hashes it records: after any crash, what is there
  is the old or the new complete database, as `save` promises. One exception is
  excluded by name: between the swap and the removal of the sidecars, and after
  a crash there, the new file stands beside the old WAL.
* `QueryWhole` - the two reads of a query give one database, through swaps,
  checkpoints and migrations, unless a delta was committed to its file between
  them (`moved`), which the code does not exclude.
* `DerivedCurrent` - when no writer is at work, the derived tables are those of
  the edges, unless a crash cut an update off after its delta (`broken`): then
  they stay behind until a build, or an update that finds a change.
* `NeverBack` - no step takes the live database back to an older version.
* `Settled` - when all writers are done and none crashed, what is in place can
  be read, also with two writers on one temp file and one WAL.

Of `Watch`:

* `NothingForgotten` - a file that differs from the database is announced: by
  an event under way, a path on the queue, the batch, or a running update that
  has yet to hash it or hashed it as it is. The two exceptions are in `lost`.
* `Converges` - such a file comes to be in the database, or is overtaken by a
  failing update.
* `ComesToRest` - when the editor rests, so does the watcher: its own writes to
  `graph.db` do not set off updates.

Of `Pipeline`:

* `MatchesSerialBuild` - the refinement: whatever order results come in,
  whichever parses fail and however often the way is changed, the database
  changes in one step, to what a serial compile makes of the same tree.
* `MacrosInOrder` - the macro events of every unit, parsed, reused or replayed,
  reach the table once and in compile order.
* `CompiledOrFailed` - a file whose row does not say skipped or failed has a
  unit made of the text that was hashed.
* `MatchesFullBuild` - as long as no update met what it does not cover
  (`drifted`), the database is the one a full build writes, with the same
  parses failing; across changes of options, corrupt rows and the coming and
  going of the script. The hash of a filelist is left out (item 9 below).
* `RunEnds` - a run ends: a retry happens once.

Of `Relink`:

* `RelinkExact` - each of the three ways to link turns the graph of the old
  units into the graph a build makes of the new ones, row for row; `Plain`
  graphs given, and but for what a bounded link `Revived`.
* `OrderFree` - the graph does not depend on the order of the units.
* `CertaintyUnique` - a reference whose edge has a confidence above 0.6 has no
  other edge: where there was a choice, the confidence says so.
* `StubsMissing` - a stub stands for a missing definition only.

Of `Assembly`:

* `MergedIsMonolith` - the merge is the build of the union, in whichever order
  the sources are given, with the versions the policy picks.
* `FilesFaithful` - its files table names every file, a parsed one by the text
  its unit was parsed from.
* `BoundedExact` - every question is answered from the rows loaded for it as
  from the whole graph.
* `SummariesExact` - every report read by SQL is the report in memory, in
  whichever order the rows come.

Of `Sources`:

* `CompileOrder` - no file is compiled under two names; the order that a
  filelist's edges record in the graph is the order its sources are compiled
  in, and its `-v` files come after all of them.
* `UpdateIsBuild` - after a change that an update can follow (`Followed`), its
  units are those of a full build.
* `VcsSees` - `detect-changes` against version control names every file the
  hash diff would, and exits with 1: under git, svn and p4, whatever part of
  the new files the tool was told of, and with git's repository made in the
  build root or in any directory above it. git names a file it tracks from the
  top of the repository and any other from the build root (`NamedBy`). Where
  these names are the graph's (svn, p4, and git with the build root as the
  top), `--closure` lists what the hash diff lists; below git's top it does
  not (disagreement 12).

Of `Setup`: `UsersTextKept` - through any sequence of runs, refusals, kills and
edits, the user's part of each file is what the user wrote, a second run
changes nothing, and a user-level file that a killed run truncated has its
backup.

Each module that is a state machine has a `TypeOK` besides (`Setup` excepted,
whose one property fixes every file), some of which say what no unit test does:
that no stored edge has lost an end, that a file has a hash exactly when no
guard skips it.

Fairness is assumed in `Watch` and `Pipeline` only, and is weak. In `Watch`: of
the loop's thread, of the observer's thread and of the clock. Each is a thread
or a clock that the program keeps running and that nothing blocks for ever:
`events.get` has a timeout, the queue has no bound. In `Pipeline`: of the main
loop, and of every submitted parse (a worker that neither answers nor dies
would keep `entry.result()` waiting for ever; the code sets no timeout). The
editor, failures and corruption have none. Saves are bounded in `Watch`, so the
stream of events ends; under a stream that does not, the code restarts the
quiet period without bound and promises nothing. Deadlock is checked in every
run but `assembly`, where a merge that is refused, or answered, is over.

Each property of a passing run has a mutant in `PROJECT.json`: a plausible bug
of one operator that makes TLC find the property violated. `DepRelIncludes`,
for instance, forgets macro edges in the closure and breaks `MacrosFresh`;
`FinalizeAsCompleted` takes results as they come and breaks
`MatchesSerialBuild`; `LevelsExact` loads no level past the depth and breaks
`BoundedExact`.

### Disagreements with what the repository says

Two are runs:

1. **A dead worker ends the build** (`pool_break`). A failed parse is isolated
   to its unit, as `pipeline.py` says, but the next `executor.submit` on the
   broken pool is outside the guard: the run aborts and writes nothing.
2. **A removed module stays** (`relink_exact`). When a file is removed, or
   parsed again, in the same update in which what it referred to changes, the
   bounded link takes its source for an affected clean one and reads its stored
   rows back: the old module and its children stay in the database.
   `link_incremental` does not do this.

The others are configurations to run by hand, `tlc -config X.cfg M`; each finds
the violation within seconds.

3. **A header that stops being included** (`MCUpdateOwner.cfg`, `MCUpdate`;
   `GraphIdentical`). It becomes a unit of the run but is not in the update's
   scope. Its `file_irs` and `ref_index` rows are never written, so a definition
   added or removed later does not re-resolve its references; their edges can
   keep pointing at a node that is gone. The docs promise a result
   byte-identical to a full rebuild. The shortest trace has three steps.
4. **An added file that resolves an include in a header**
   (`MCUpdateNested.cfg`; `DirectlyFresh`). `newly_resolvable_includes` is added
   after the closure, so the header is parsed again and the unit that splices it
   is not.
5. **A header outside the discovered files** (`MCUpdateHidden.cfg`;
   `NoBareEndpoint`). The scoped write stores an INCLUDES edge and not the FILE
   node it ends in.
6. **Edits during an update** (`MCUpdateRace.cfg`; `FreshOrPending`). A text
   edited after it was hashed and changed back afterwards, or a header created
   in between, is parsed and stored under a hash it does not have; every later
   scan says the tree is up to date.
7. **Macro rows of a header** (`MCUpdateMacro.cfg`; `ExpansionsFresh`). They are
   replaced only when the header itself is in scope, not when the unit that
   splices it is.
8. **Two updates at once** (`MCStoreBase.cfg`, `MCStore`; `DeltaOnItsBase`). The
   second applies a delta computed from hashes that the first has replaced; the
   self-check that `run_update` relies on in a comment looks at the presence and
   the schema of the database only.
9. **An edited filelist** (`MCPipelineLists.cfg`, `MCPipeline`; `Settles`). Its
   row in the files table is in no scope: every later update finds it changed.
10. **A file parsed under two sets of defines** (`MCAssemblyDefines.cfg`,
    `MCAssembly`; `ConflictsNoticed`). `docs/usage/merge-design.md` counts "the
    same file preprocessed differently" as a conflict; the hashes that are
    compared are of the file's bytes, and the first version is silently kept.
11. **Bounded decoding and the owner of a header** (`MCUpdateBounded.cfg`,
    `MCUpdate`; `DecodingAgrees`). A comment in `_selective_link` says the order
    of the decoded units keeps the result "byte-identical to the full-decode
    path". `bounded_link.py` takes the unit a source belongs to from the units
    it decodes; when the first unit that splices a header is clean and not
    affected, and a later one is in scope, the header's instances are scored as
    the later unit's, so that a definition in that unit counts as one in the
    instance's own file and the edge has another confidence.
12. **A build root below git's top** (`MCSourcesTop.cfg`, `MCSources`;
    `ClosureListed`). `git diff --name-status` names files from the top of the
    repository, `git ls-files --others` and the graph from the build root;
    `incremental.py` and `detect-changes` join the two as they are. The report
    has names of both kinds, lists changed files outside the build root, and
    `--closure` starts from names the graph does not hold, so that it does not
    "also list unchanged files dirtied through include/macro dependencies".

Met while modelling, and excluded by the operator named:

* `Plain`: the stub of an implicit net is stored under its unit, and a re-link
  takes it for a declared signal (confidence 1.0, where a full link gives 0.6 at
  most); a positional binding to an undefined module depends on which named
  bindings to it were linked before.
* `Narrow`: `find_module` with a dotted pattern finds nothing in the database;
  an architecture that implements two entities is loaded with each, and its
  rows appear twice in a tree.
* `Unchained`: of two processes without a clock, of which one reads what the
  other drives, the crossing reported depends on the order of the rows.
* `Followed`: an include through `..` or `.`, one that only another header
  names, and a file reached under a link's name escape `newly_resolvable_includes`;
  so does a header that appears in a directory searched earlier.
* `VcsSees`: Subversion names a new directory and not the files in it; without
  version control `detect-changes` ignores the build's options; `--closure`
  leaves out the includers of added files.
* `Promised`: a start marker without its end makes the next run of `setup`
  replace the user's text up to a later end. TOML with a sub-table of the
  server's is reported as changed by every run, and a comment before the next
  table goes with the section.

## 5. What is proved

Every theorem holds for all values of the constants that satisfy the named
assumptions. Each assumption is about the instance, and TLC evaluates it on
every run: discovery order is a sequence without repetition, include texts are a
sequence and have lists of candidate files, the special values are distinct from
texts and databases, the words of a configuration include those the program
writes.

| Theorem | States | Where |
|---|---|---|
| `Update_proofs!Types` | `[]TypeOK` | any tree, search list, link mode, racing |
| `Update_proofs!Settling` | `UpdateSettles` | the same |
| `Update_proofs!UpdateExact` | `[]LinkExact` | `Racing = "none"` |
| `Update_proofs!ModesAgree` | `[]LinkModesAgree` | `Racing = "none"` |
| `Freshness_proofs!IncludesKept` | `[]IncludesRecorded` | `FlatIncludes`, `Racing # "any"` |
| `Freshness_proofs!Freshness` | `[]DirectlyFresh` | `FlatIncludes`, `Racing = "none"` |
| `Freshness_proofs!StaleIsPending` | `[]FreshOrPending` | `FlatIncludes`, `Racing # "any"` |
| `Freshness_proofs!MacrosCurrent` | `[]MacrosFresh` | `FlatIncludes`, `Racing = "none"` |
| `Update_proofs!UnitsProperty` | the units of a run exist, and satisfy the rule that skips what an earlier unit spliced | any tree |
| `Store_proofs!StoreTypes` | `[]TypeOK` | any number of writers, readers, crashes, inodes, sources |
| `Store_proofs!WritersSettle` | `[]Settled` | the same |
| `Store_proofs!LiveDatabaseWhole` | `[]LiveWhole` | `OneWriter` |
| `Store_proofs!QueriesWhole` | `[]QueryWhole` | `OneWriter` |
| `Store_proofs!DerivedTablesCurrent` | `[]DerivedCurrent` | `OneWriter` |
| `Store_proofs!NeverGoesBack` | `NeverBack` | `OneWriter` |
| `Watch_proofs!WatchTypes` | `[]TypeOK` | any files, texts, quiet period, saves, failures |
| `Watch_proofs!NoEditForgotten` | `[]NothingForgotten` | the same |
| `Pipeline_proofs!RunTypes` | `[]TypeOK` | any files, texts, options, faults, size of the pool |
| `Pipeline_proofs!NoRowLost` | `[]CompiledOrFailed` | the same |
| `Pipeline_proofs!TableInOrder` | `[]MacrosInOrder` | the same |
| `Pipeline_proofs!RunsAsSerial` | `MatchesSerialBuild`, the refinement of `SerialRun` | the same |
| `Rebuild_proofs!UpdatesAsFullBuild` | `[]MatchesFullBuild` | the same |
| `Setup_proofs!UsersTextSurvives` | `[]UsersTextKept` | any assistants, entries, notes, texts of the user's |

The conditions are named in the theorems and none of them can be dropped:
`MCUpdateNested.cfg` refutes `DirectlyFresh` without `FlatIncludes` (an included
file includes nothing itself), `MCUpdateRace.cfg` refutes `FreshOrPending` when
files are created, or changed back, during an update, and `MCStoreBase.cfg`
shows what two writers do to each other. `MacrosFresh` fails in
`MCUpdate.cfg` with `Racing = "rewrites"`, and in the nested instance when `b`
defines a macro that `a` expands and can be gone. The code does not enforce them; they
are the limits within which its promise is true.

### Update: types and hashes

`Types` has one lemma for the type of each operator that makes database rows,
up to `FullBuild` and `Delta`. `Settling` has a step lemma per action; the
content is `DeltaHash`: outside the scope stored and scanned hashes agree
(`OutsideScope`), because every file that differs is changed, added or removed
and each of these is in the scope.

### Update: an update writes what a full build writes

`LinkExact` and `LinkModesAgree` compare two computations: the link of a few
affected references over tables that earlier updates left behind, and the link
of everything. `Exactness` - types, a scan that is still the disk, and
`LinkExact` - is inductive; its only step with content is `Commit` with `exact`
still true afterwards, where the stored tables are `FullBuild(built)`.

1. The update's own pass 1 gives the IRs of the new tree (`RunIsNew`): the units
   it parses are parsed from that tree, the others are undisturbed.
2. A file in scope is held by units in scope only (`HeldInScope`), so what the
   decoded units say of the scope is what all units say. With `FirstListed` a
   re-resolved source has the same owner under either decoding, and the two
   write the same tables (`DeltaIs`; `ModesAgree` is its consequence).
3. A reference outside the scope of which no name has gained or lost a
   definition keeps its candidates, the owner of its source, and so its score
   (`Owner` is the first in the linker's order: `OwnerFirst`, `OwnerUnique`).
   The stored edge is the one a full build makes; the others are made again.
4. Table by table, the undisturbed delta is the full build of the new tree
   (`AfterIsFullBuild`): IRs, hashes, FILE nodes, `ref_index`, dependencies,
   edges and stubs.

The proof changed the model twice. A unit that is clean in the files table and
becomes a header in the run is linked with full decoding and not with bounded
decoding: that is `Steady`. And the owner of a source is taken from the decoded
units only: that is `FirstListed`, and item 11 above.

### Update: freshness

`DirectlyFresh` alone is not inductive, because an update decides what to parse
again from the *stored edges*, so a unit whose include edge is missing would
stay clean although its header changed. The invariant `Inv` therefore says,
beside types and the legality of the texts, that no file appears while an
update runs, and that the database is `Sound`:

1. every stored IR is well parsed (its resolutions are those of the search
   list over its texts), and its files have a hash, whichever (`Known`);
2. a discovered file with a hash and no IR is a header, and a header has no
   include rows of its own;
3. every discovered file has its FILE node, every include of a stored unit its
   edge and every unresolved include its stub (`Recorded`).

`Inv` speaks of no hash being current, and so it is kept also when edits race
the update; `IncludesKept` is its consequence. What is current comes on top of
it: without racing, every IR is fresh (`AllFresh`); with rewrites that race, a
file whose text an IR does not have differs on disk from its recorded hash
(`AllAwaited`), and no edit allowed by `"rewrites"` undoes that.

The step that matters is `Commit`. For a unit that stays clean, none of its
headers changed, or (3) would have put it in the closure; no header of it
appeared, or its unresolved edge would have made it newly resolvable
(`CleanIncludesUntouched`); so its IR is as fresh, or as awaited, against the
new hashes as it was against the old. For a unit that is parsed, freshness
comes from `Parse` and from the scan. A stored edge survives exactly when its
source is outside the scope, and stubs survive exactly when an edge ends in
them. The other actions either leave the database alone or install `FullBuild`,
which is sound because all of its IRs come from one tree.

### Update: macro bodies

`MacrosFresh` is not inductive either: the body a unit expands comes from the
macro table, which the run fills with the *stored* events of every clean unit
before it, and a unit that stays clean is right only if the rows that would have
made it dirty are there. `MacroSound` adds to `Inv` and `AllFresh`:

1. every event a stored IR keeps is a definition in one of the texts the IR was
   made from (`EventsMade`);
2. every body a unit's own text expanded is what its defining file records now,
   and the unit has the row that names that file (`UsesBound`);
3. every definition in a recorded file has its row (`DefinitionsRecorded`).

TLC was given it as an invariant of `MCUpdate` before it was proved. In a
`Commit`, the clean units' events are of texts that are still current, because
those IRs are fresh (`RunEvents`); so every entry of the table is current, from
whichever unit it comes (`TableBound`), and with it what a parsed unit expands
(`RunMacros`). For a unit that stays clean, a definition of another body would
by (2) and (3) be an edge of the closure that reaches it (`KeptUses`). `Racing`
matters: a text that was not the one hashed gives an event that is not current.

The events of a unit are read off `Expansion`, which is recursive, and of a
recursive function the prover knows nothing until it has been shown to exist.
`VisitIs` shows it: where headers include nothing, `Flat` (built with
`Numbers!Recursion`) satisfies the equation, and every text it splices is one
of `Spliced` (`ExpansionFlat`).

### Store

`LiveWhole` and `QueryWhole` are not inductive: a delta keeps a database whole
only if its rows were computed from the hashes that are in the file when it is
committed, and a swap only if what is behind the temp name is the file this
build has filled. `IInv` adds what the writer at work has read (`JobOK`), that
the live database is still the one it read and that the file it swaps in is
complete (`Knows`), that the temp file is neither the live one nor held by a
reader nor the base of the WAL (`TmpApart`), and that the live file, the WAL's
contents and what each query has open are whole (`MainWhole`, `WalWhole`,
`ConnOK`). `Knows` is where `OneWriter` is used: with two writers its third
conjunct fails, and `MCStoreBase.cfg` shows the behaviour. The central lemma is
`DeltaWhole`: with the stored hashes those the scan saw, edges outside the
reach of the changed sources are the edges of the new hashes too, and the ones
in reach are written.

`DerivedCurrent` and `NeverBack` rest on `IInv` and two more parts, `HInv`
together. `DInv`: a database that nobody writes, and no crash has left half
updated, has the derived tables of its edges, and a writer between the delta
and `Stats` has derived what it is about to write from the edges that are there,
and replaced what its place says (`DerivesOK`). `AInv`: what
is stored is no newer than what the writer has read, and that no newer than the
sources (`AgeOK`), so what it commits or swaps in is never older than what it
replaces.

`Settled` speaks of any number of writers, so `IInv` is of no use. `SInv` is
weaker and needs no `OneWriter`: every job is typed for its place, what is being
read or has a WAL is a filled file, and, unless one crashed, a half-filled file
in place has a writer who is filling it and a WAL of a replaced file one who is
about to remove it. That two writers may fill
one temp file, and each apply its delta to the other's database, does not break
it (`DeltaType`).

### Watch

A running update announces a file when it hashed it as it is; what is missing
is a file saved again after it was hashed, possibly back to what the database
holds, so that it differs from what the update will store. `Overtaken` says
that such a file is news. It is what makes the `Store` step go through; the
rest is that `Observe` and `Get` move news and lose none (`ObserveNews`,
`GetNews`).

### Pipeline

`CInv` has the types, the ledger of a run, and that the stored database is
`Complete`. The ledger says that every file up to the loop's place is accounted
for - skipped, failed, finalized, pending, or clean in a selective update -,
that every result, finalized or pending, is made of the text of its own file,
and that nothing waits when the run links. From there `NoRowLost` is a matter of what `Saved` and `Patched` write
for each kind of entry, and of what an update reuses.

For the order of the results the queue is the difficulty: the run has
dispatched files (and moved the macro table) that it has not finalized, so its
state is none of the serial run's. `Follows` bridges it. For every guess `F` at
which parses fail that agrees with the failures known so far, finalizing the
pending units one after the other (`Chain`) leads from the run to the serial
run over the files dispatched, in which those of `F` fail. A worker's failure
only makes fewer guesses agree. To dispatch a file ahead of the pending units
moves the whole chain (`DispatchChain`), because finalizing does not touch what
dispatching reads (`SameFront`); to finalize the head of the queue is to drop
the first link. When all is dispatched and the queue is empty the chain has no
link, and the run *is* the serial one in which the failures are those it has
seen: that is the step of `SerialRun` which `Write` takes. Every other step
leaves `disk`, `opts` and `db` alone, or is an edit, a change of options or a
corrupted row of both specifications. `TableInOrder` needs no chain: a file's
events enter the table at its turn in the loop, whichever way it is treated, so
the table holds those of the files done and not skipped (`Fed`), in order.

The serial run is a function defined by recursion on the place in discovery
order, and `Chain` is built by induction on it. The library's theorems for both
take an operator as a parameter, which no installed prover can instantiate.
`Numbers` proves what is needed of them for *sets*: a set of numbers that holds
0 and all successors of its elements holds every number (or the successor would
be an injection of a finite set into itself that is not onto), from which the
least number, the constant stretch and the existence of a recursive function
follow.

### Pipeline: an update writes what a full build writes

`MatchesFullBuild` compares the database with one that nobody computed, so it
needs to be said what a full build's database *is*. `Mirrors(db, d)` says it of
the tree `d`: the hashes are `d`'s, the skipped files are those the full serial
run skips (those that a unit before them splices: `SkipRule`), every other
present file has a unit with the texts of `d` or has failed, and the graph has,
for every file that a unit holds, the entry of the first such unit (`GraphOf`). `SoundIsFull` shows that a database which mirrors the tree on disk
is the one `Saved` makes of the serial run with the same failures.

`MatchesFullBuild` is not inductive. Most of the time the database is *not* the
one of the tree on disk, because the user has edited since; the next update
starts from that database all the same, and what it reuses, skips and patches
is right only because the database was right for *some* tree. The invariant is
therefore

* `StoredSound`: unless drifted, the stored database mirrors some legal tree;
* `WrittenSound`: when a run has just written, undrifted, that tree is the disk
  (and root, inputs and enrichment are those of the options).

With `CInv` and `Follows` of the previous section they are inductive
(`SoundKept`). TLC was given `Sound` as an invariant of `MCPipeline` before it
was proved. `WriteSound` is the step that matters, a write of any of the
three modes over a base that mirrors some older tree:

1. What is not dirty is intact: no text that went into a clean unit has changed
   (`CleanIntact`; it uses that the closure is closed, and `Overlooked` is what
   the closure does not follow), so the parts a run reuses are those it would
   parse again (`ReuseIntact`), and the serial run over reused, replayed and
   parsed units tallies with the tree (`SerialTally`).
2. A full link of that run gives `GraphOf` (`LinkGraphIs`, `GraphIs`).
3. The IRs a selective link picks are, for the files in scope, those of the full
   decode (`SelectiveIs`); a scoped link over either re-resolves what the scope
   touches and keeps the rest (`RelinkIs`).
4. Outside the scope nothing had to change: the same units (`CoveredUnits`), the
   same owner (`CoveredOwners`), the same entry of the graph (`CoveredGraph`).
   Each disjunct of `Beyond` is used in one of these, and none is left over.
5. So the delta mirrors the disk (`PatchedMirrors`), as a save does
   (`SavedMirrors`).

The proof corrected the model's history variable twice: a file that is added
and that only a header of a clean unit includes, and a failed file that becomes
a header, were both counted as covered until `CleanIntact` and `CoveredUnits`
could not be proved. Both are behaviours of the code; the instance did not
reach them then, and does now.

### Setup

`IInv` says that texts have the type of their file (`Typed`), that a file whose
user's part is promised has at most one block and holds that part around it
(`Kept`), and that a user-level file whose text was lost has a backup
(`BackupKept`). A text falls into what precedes the program's part and what
follows it (`Halves`), whatever is put between (`BlockHalves`,
`SectionHalves`). What comes before and after holds no other start marker, or
no header of the section before it and a table right after, so that the next
run finds its own block or section where it was put (`BlockFound`,
`SectionFound`) and swaps it for itself (`Swap`). That gives both parts of the
property for every text: the user's part is the two halves, before and after,
and the second run is the identity (`MergedKeeps`). A write that is killed
leaves an empty text, which owns nothing.

### What only TLC checks

* Liveness (`Converges` and `ComesToRest` of `Watch`, `RunEnds` of `Pipeline`):
  fairness and ENABLED are out of the prover's reach.
* All of `Relink`, `Assembly` and `Sources`. `Inputs`, `Sources` and `Analysis`
  follow paths, lists and trees with recursive operators, which the prover does
  not support; `Relink` compares two computations of the whole linker.

Alternatives that the code tries in order are nested `IF`s in the modules
proved about, `CASE` only where the guards exclude each other: the prover knows
of `CASE` no order.

## 6. Plan

Done: every component of section 1 that keeps state or computes what others
rest on has its module. Left:

1. Theorems: `Freshness` and `IncludesKept` without `FlatIncludes` for trees in
   which no file is added, where the closure has to be followed along chains of
   includes (`DirtyClosed` of `Rebuild_proofs` does it for `Pipeline`); `TypeOK`
   of `Relink`.
2. The abstract store that changes in one step, as a refinement of the build,
   and the places where several transactions make one update; lock timeouts and
   file systems without WAL.
3. The conditional stack of the preprocessor (`` `ifdef ``/`` `elsif ``/`` `else ``,
   nested in inactive regions) against a reference definition over bounded
   texts.

Not modelled:

* The language parsers' tree walks and the JSON of the IR codec: functions of
  one text with no state, most of whose lines name grammar nodes. Their results
  are the IRs that the other modules take for given.
* Enrichment: it drives external frontends, and what it does to the graph is
  what they report; that it forces full links is modelled.
* `lint.py`, `metrics.py`: counts and thresholds over a finished graph.
* Views, export, benchmarks, the text of the CLI, the transport and paging of
  the MCP server: presentation.
* A parse worker that neither answers nor dies; two runs of `setup` at once; two
  merges into one file.
