------------------------------ MODULE Compile -------------------------------
(***************************************************************************)
(* One run of pipeline._execute as operators: what a discovered file is    *)
(* turned into (Treatment), what the run's state becomes when the file is  *)
(* dispatched (Dispatched) and when its result is finalized (Finalized),   *)
(* which rows are written (Saved, Patched), and how run_update chooses     *)
(* between the ways to run (Plan).                                         *)
(*                                                                         *)
(* A text is its version, the files it includes, the files whose           *)
(* definitions it refers to, and whether it holds `bind directives.        *)
(***************************************************************************)
EXTENDS Integers, SequencesExt, FiniteSetsExt

CONSTANTS
    Order,      \* the source files in discovery (compile) order
    Lists,      \* the filelists (.f) of the build options
    Lang,       \* source file -> language
    Absent,     \* no such file
    NoDatabase, \* no graph.db
    MinParallel, JobsCap   \* MIN_PARALLEL_FILES, DEFAULT_JOBS_CAP

Sources == Range(Order)
Files == Sources \union Lists
Position(f) == CHOOSE i \in DOMAIN Order : Order[i] = f
Preprocessed == {"verilog", "systemverilog"}
Parsed == Preprocessed \union {"vhdl", "c", "python", "tcl"}
(* Languages whose references are resolved across the whole design.        *)
Wide == {"vhdl", "python", "tcl"}

(* Discovery yields a file once.                                           *)
ASSUME OrderAssumption ==
    /\ Order \in Seq(Sources)
    /\ \A i, j \in DOMAIN Order : Order[i] = Order[j] => i = j

Text == [ver : Nat, skip : BOOLEAN, inc : SUBSET Sources, uses : SUBSET Sources,
         binds : BOOLEAN]

Present(d) == {f \in Files : d[f] # Absent}
Discovered(d) == {f \in Sources : d[f] # Absent}

(* The present files whose texts the preprocessor splices into f's: f, and *)
(* with each file the present ones it includes.                            *)
Spliced(d, f) ==
    LET present == Discovered(d) \union {f}
        closed(S) == f \in S /\ \A g \in S : d[g].inc \intersect present \subseteq S
    IN  IF Lang[f] \in Preprocessed
        THEN {g \in present : \A S \in SUBSET present : closed(S) => g \in S}
        ELSE {f}

(* A unit's IR: the texts it was made of; bad is the column of its stored  *)
(* row that no longer decodes: "none", "ir" or "events".                   *)
IR(d, f) == [unit |-> f, parts |-> [g \in Spliced(d, f) |-> d[g]], bad |-> "none"]

Binds(irs) == \E ir \in irs : \E g \in DOMAIN ir.parts : ir.parts[g].binds

(* Parse workers of a run; None stands for no --jobs.                      *)
EffectiveJobs(jobs, candidates) ==
    IF jobs # Absent THEN Max({1, jobs})
    ELSE IF candidates < MinParallel THEN 1 ELSE JobsCap

(***************************************************************************)
(* Pass 0 and pass 1                                                       *)
(***************************************************************************)
(* A run before its first file: mode "full" reuses nothing, "legacy" the   *)
(* decoded IRs of the clean units, "selective" only their macro events.    *)
Fresh(mode, clean) ==
    [mode |-> mode, clean |-> clean, table |-> << >>, processed |-> {}, consumed |-> {},
     irs |-> << >>, units |-> {}, skipped |-> {}, failed |-> {}, parsed |-> 0]

(* What becomes of a discovered file f.                                    *)
Treatment(run, d, base, f) ==
    IF d[f].skip \/ f \in run.consumed THEN "skip"
    ELSE IF run.mode = "selective" /\ f \in run.clean THEN "replay"
    ELSE IF run.mode = "legacy" /\ f \in run.clean /\ base.unit[f].bad = "none" THEN "reuse"
    ELSE IF Lang[f] \notin Parsed THEN "skip" ELSE "parse"

(* The IR that f contributes, and the macro events it applies.             *)
Contribution(run, d, base, f) ==
    IF Treatment(run, d, base, f) \in {"replay", "reuse"} THEN base.unit[f] ELSE IR(d, f)

DispatchedNotReplayed(run, d, base, f) ==
    LET how == Treatment(run, d, base, f)
    IN  [run EXCEPT
            !.parsed = IF how = "replay" THEN @ + 1 ELSE @,
            !.skipped = IF how = "skip" THEN @ \union {f} ELSE @,
            !.table = IF how \in {"skip", "replay"} THEN @ ELSE Append(@, f)]

(* The shared macro table, the units seen and the headers they consumed,   *)
(* advanced by f in compile order.                                         *)
Dispatched(run, d, base, f) ==
    LET how == Treatment(run, d, base, f)
        counted == [run EXCEPT !.parsed = IF how = "replay" THEN @ + 1 ELSE @,
                               !.skipped = IF how = "skip" THEN @ \union {f} ELSE @]
    IN  IF how = "skip" \/ Lang[f] \notin Preprocessed THEN counted
        ELSE [counted EXCEPT
                !.table = Append(@, f),
                !.processed = @ \union {f},
                !.consumed = @ \union ((DOMAIN Contribution(run, d, base, f).parts)
                                          \ (run.processed \union {f}))]

(* A unit's result arrives: its IR joins the linker's input.               *)
Finalized(run, f, ir) ==
    [run EXCEPT !.irs = Append(@, ir), !.units = @ \union {f}, !.parsed = @ + 1]

WorkerFailedUnrecorded(run, f) == run

(* The parse of a unit failed: recorded, and the unit is left out.         *)
WorkerFailed(run, f) == [run EXCEPT !.failed = @ \union {f}]

(***************************************************************************)
(* Pass 2                                                                  *)
(***************************************************************************)
(* Of the IRs at the places live, the first that holds a file owns its     *)
(* nodes.                                                                  *)
Holders(irs, live, f) == {i \in live : f \in DOMAIN irs[i].parts}
OwnerOf(irs, live, f) ==
    irs[CHOOSE i \in Holders(irs, live, f) : \A j \in Holders(irs, live, f) : i <= j]
Owned(irs, live) == UNION {DOMAIN irs[i].parts : i \in live}

Resolved(texts, text) ==
    [g \in text.uses |-> IF g \in DOMAIN texts THEN texts[g] ELSE Absent]

(* What the graph holds of file f: the unit it comes from, its text, the   *)
(* text each of its references resolved to, and the design-wide units that *)
(* touched its edges.                                                      *)
Entry(irs, live, texts, f, enriched) ==
    LET text == OwnerOf(irs, live, f).parts[f]
        wide == {i \in live : Lang[irs[i].unit] \in Wide}
    IN  [owner |-> OwnerOf(irs, live, f).unit, text |-> text,
         res   |-> Resolved(texts, text),
         wide  |-> {irs[i].unit : i \in {j \in wide : f \in irs[j].parts[irs[j].unit].uses}},
         enriched |-> enriched]

Texts(irs, live) == [f \in Owned(irs, live) |-> OwnerOf(irs, live, f).parts[f]]
LinkGraph(irs, enriched) ==
    LET all == DOMAIN irs
    IN  [f \in Owned(irs, all) |-> Entry(irs, all, Texts(irs, all), f, enriched)]

(* The stored references: <<unit, file, target>>.                          *)
RefIndex(units) ==
    UNION {UNION {{<<u, f, g>> : g \in units[u].parts[f].uses} : f \in DOMAIN units[u].parts} :
              u \in DOMAIN units}

AffectedRefsKnown(base, touched) ==
    {r \in RefIndex(base.unit) : r[3] \in touched \intersect DOMAIN base.graph}

(* The stored references to what changed.                                  *)
AffectedRefs(base, touched) == {r \in RefIndex(base.unit) : r[3] \in touched}

LinkIncremental(irs, base, touched) ==
    LET graph == base.graph
        stays == DOMAIN graph \ touched
        fresh == {i \in DOMAIN irs : irs[i].unit \in touched}
        comes == touched \intersect Owned(irs, fresh)
        again == stays \intersect {r[2] : r \in AffectedRefs(base, touched)}
        texts == [f \in stays \union comes |->
                    IF f \in stays THEN graph[f].text ELSE OwnerOf(irs, fresh, f).parts[f]]
    IN  [f \in stays \union comes |->
            IF f \in comes THEN Entry(irs, fresh, texts, f, FALSE)
            ELSE IF f \in again THEN [graph[f] EXCEPT !.res = Resolved(texts, graph[f].text)]
            ELSE graph[f]]

(***************************************************************************)
(* What is written                                                         *)
(***************************************************************************)
UnitsOf(run) ==
    [u \in run.units |-> run.irs[CHOOSE i \in DOMAIN run.irs : run.irs[i].unit = u]]

(* save(), and the delta of a full link: every row.                        *)
Saved(run, d, o) ==
    [root    |-> o.root,
     inputs  |-> o.inputs, enrich |-> o.enrich,
     hash    |-> [f \in Files |-> d[f]],
     skipped |-> run.skipped,
     failed  |-> run.failed,
     unit    |-> UnitsOf(run),
     graph   |-> LinkGraph(run.irs, o.enrich)]

(* The scoped delta: rows of the touched files only.                       *)
Patched(run, d, base, touched, irs) ==
    LET units == UnitsOf(run)
    IN  [base EXCEPT
            !.hash = [f \in Files |-> IF f \in touched THEN d[f] ELSE @[f]],
            !.skipped = (@ \ touched) \union (run.skipped \intersect touched),
            !.failed = (@ \ touched) \union (run.failed \intersect touched),
            !.unit = [u \in ((DOMAIN @) \ touched) \union (run.units \intersect touched) |->
                        IF u \in touched THEN units[u] ELSE base.unit[u]],
            !.graph = LinkIncremental(irs, base, touched)]

(***************************************************************************)
(* run_update                                                              *)
(***************************************************************************)
Changed(d, base) == {f \in Files : base.hash[f] # Absent /\ d[f] # Absent /\ base.hash[f] # d[f]}
Added(d, base) == {f \in Files : base.hash[f] = Absent /\ d[f] # Absent}
Removed(d, base) == {f \in Files : base.hash[f] # Absent /\ d[f] = Absent}

Includers(base, S) == {f \in DOMAIN base.graph : base.graph[f].text.inc \intersect S # {}}

(* dirty_closure over the stored includes, the includers of an added file, *)
(* and the added files themselves.                                         *)
Dirty(d, base) ==
    LET seeds == Changed(d, base) \union Removed(d, base)
        closed(S) == seeds \subseteq S /\ Includers(base, S) \subseteq S
    IN  {f \in Files : \A S \in SUBSET Files : closed(S) => f \in S}
            \union Added(d, base) \union Includers(base, Added(d, base))

(* The dirty files that discovery yields, and the removed ones.            *)
Touched(d, base) == (Dirty(d, base) \intersect Discovered(d)) \union Removed(d, base)
CleanHashed(d, base) == {f \in Sources : base.hash[f] # Absent} \ Dirty(d, base)
Clean(d, base) == DOMAIN base.unit \ Dirty(d, base)

HasWide(d) == \E f \in Discovered(d) : Lang[f] \in Wide /\ (Lang[f] = "vhdl" \/ ~d[f].skip)

(* The way an update runs.                                                 *)
Plan(d, base, o) ==
    IF \/ base = NoDatabase
       \/ base.root # o.root
       \/ base.inputs = "merged"
       \/ <<base.inputs, base.enrich>> # <<o.inputs, o.enrich>> THEN "full"
    ELSE IF \A f \in Files : base.hash[f] = d[f] THEN "up to date"
    ELSE IF DOMAIN base.unit = {} THEN "full"
    ELSE IF o.bounded /\ ~o.enrich /\ ~HasWide(d) THEN "selective" ELSE "legacy"

CleanOf(plan, d, base) == IF plan \in {"selective", "legacy"} THEN Clean(d, base) ELSE {}

(* The affected clean units, which the selective link decodes.             *)
ToDecode(run, d, base) ==
    {r[1] : r \in AffectedRefs(base, Touched(d, base))} \intersect run.clean

(* What the selective path cannot link: bind directives, a corrupt row.    *)
SelectiveUnavailable(run, d, base) ==
    \/ Binds(Range(base.unit) \union Range(run.irs))
    \/ \E u \in ToDecode(run, d, base) : base.unit[u].bad = "ir"

(* The elements of s at the places I.                                      *)
Picked(s, I) ==
    LET picked[n \in 0 .. Len(s)] ==
            IF n = 0 THEN << >>
            ELSE IF n \in I THEN Append(picked[n - 1], s[n]) ELSE picked[n - 1]
    IN  picked[Len(s)]

(* Its linker's input: units of this run and decoded ones, in discovery    *)
(* order, then what belongs to no dirty file.                              *)
SelectiveIRs(run, d, base) ==
    LET decoded == ToDecode(run, d, base)
        dirty == run.units \intersect Touched(d, base)
        inOrder == Picked(Order, {i \in DOMAIN Order : Order[i] \in decoded \union dirty})
    IN  IF decoded = {} THEN run.irs
        ELSE [i \in DOMAIN inOrder |-> IF inOrder[i] \in decoded THEN base.unit[inOrder[i]]
                                       ELSE UnitsOf(run)[inOrder[i]]]
             \o Picked(run.irs, {i \in DOMAIN run.irs : run.irs[i].unit \notin dirty})

(* Whether the link of an update may be scoped (incremental_link_safe).    *)
LinkSafe(run, d, base, o) ==
    /\ run.mode = "legacy"
    /\ ~o.enrich /\ ~HasWide(d)
    /\ ~Binds(Range(base.unit) \union Range(run.irs))

(* The database after a run that parsed something.                         *)
Outcome(run, d, base, o) ==
    CASE run.mode = "selective" ->
            Patched(run, d, base, Touched(d, base), SelectiveIRs(run, d, base))
      [] LinkSafe(run, d, base, o) -> Patched(run, d, base, Touched(d, base), run.irs)
      [] OTHER -> Saved(run, d, o)
=============================================================================
