-------------------------------- MODULE Sources --------------------------------
(***************************************************************************)
(* A tree of sources, filelists and configuration under edits, and the     *)
(* database that builds and updates keep of it: which files are units,     *)
(* what the preprocessor spliced into each, the rows an update compares.   *)
(* What the units define and how they are linked is in Compile and Linker. *)
(***************************************************************************)
EXTENDS Changes

CONSTANTS
    Scenes,             \* the scenes: [texts |-> path -> the texts it may hold,
                        \*   start |-> the tree at first, commands |-> the commands]
    MaxIncludeDepth     \* DEFAULT_MAX_INCLUDE_DEPTH

VARIABLES
    scene,      \* the number of the scene
    tree,       \* path -> text, or Absent
    cli,        \* the command line used
    given,      \* the inputs of a run as tree and cli give them, or Absent
    db,         \* the database, or Absent
    built       \* the tree and the command line of the last write

vars == <<scene, tree, cli, given, db, built>>

Preprocessed == {"verilog", "systemverilog"}
Wide == {"python", "tcl", "perl", "sln"}

(***************************************************************************)
(* Pass 0: the include directives of a unit and what they reach            *)
(***************************************************************************)
(* The directory of the including file, then the search directories.       *)
ResolveInclude(t, dirs, dir, text) ==
    LET hits == {i \in 1..(Len(dirs) + 1) : IsFile(t, Join((<<dir>> \o dirs)[i], text))}
    IN  IF hits = {} THEN Absent ELSE Join((<<dir>> \o dirs)[Min(hits)], text)

RECURSIVE Process(_, _, _, _)
Process(t, search, path, stack) ==
    LET event(text) ==
            LET r == ResolveInclude(t, search.dirs, Front(path), text)
                out == r = Absent \/ \A root \in search.roots : ~WithinRoot(r, root)
            IN  [file |-> path, text |-> text, resolved |-> IF out THEN Absent ELSE r,
                 ver |-> IF out \/ Contains(stack, r) \/ Len(stack) >= MaxIncludeDepth THEN 0 ELSE t[r].ver]
        with(e) == IF e.ver = 0 THEN <<e>>
                   ELSE <<e>> \o Process(t, search, e.resolved, Append(stack, e.resolved))
    IN  EachOf(t[path].inc, LAMBDA text : with(event(text)))

(* What a unit's stored row was made of; ver 0: a header not spliced.      *)
RowOf(t, libs, p, events) ==
    [ver |-> t[Real(p)].ver, events |-> events, included |-> {e.resolved : e \in {x \in events : x.ver # 0}},
     library |-> IF Language(p) = "vhdl" THEN LibraryFor(p, libs) ELSE Absent]
Row(t, search, libs, p) ==
    RowOf(t, libs, p, IF Language(p) \in Preprocessed THEN ToSet(Process(t, search, Real(p), <<Real(p)>>)) ELSE {})

(* A unit joins the run; what it spliced in is no unit of its own, unless  *)
(* it was one before.                                                      *)
Taken(st, p, row) ==
    [units |-> p :> row @@ st.units, processed |-> st.processed \union {p},
     consumed |-> IF Language(p) \in Preprocessed THEN st.consumed \union (row.included \ (st.processed \union {p}))
                  ELSE st.consumed]

(* One run over the discovered files, rows of clean units reused.          *)
RunUnits(t, search, libs, found, reuse) ==
    LET step(st, f) ==
            IF f.skip # "none" \/ f.path \in st.consumed THEN st
            ELSE Taken(st, f.path, IF f.path \in DOMAIN reuse THEN reuse[f.path] ELSE Row(t, search, libs, f.path))
    IN  Folded(step, [units |-> << >>, processed |-> {}, consumed |-> {}], found).units

(* The inputs of a run: what the tree and the command line give it. A      *)
(* configuration file with an error ends the run.                          *)
Resolved(t, base, o, inputs, found) ==
    [base |-> base, libs |-> o.libs, lists |-> inputs.lists, found |-> found,
     opts |-> OptionsHash(o, inputs), hash |-> CurrentHashes(t, found, inputs),
     search |-> [dirs |-> inputs.incdirs \o (IF o.auto THEN SourceDirs(found, base) ELSE <<>>),
                 roots |-> {base} \union ToSet(inputs.incdirs)]]
FoundBy(t, c, base, o, inputs) == Resolved(t, base, o, inputs, DiscoverInputs(t, c.source, base, o, inputs))
GivenBy(t, c, base, o) == FoundBy(t, c, base, o, ResolveInputs(t, o, base))
OptionsBy(t, c, config) ==
    IF config.bad THEN Absent ELSE GivenBy(t, c, BaseOf(t, c.source), ResolveBuildOptions(config, c))
InputsOf(t, c) == OptionsBy(t, c, Config(t, c))

Database(in, units) == [base |-> in.base, opts |-> in.opts, hash |-> in.hash, units |-> units]
FullBuild(t, in) == Database(in, RunUnits(t, in.search, in.libs, in.found, << >>))

(***************************************************************************)
(* Update                                                                  *)
(***************************************************************************)
Changed(old, in) == {p \in DOMAIN in.hash \intersect DOMAIN old.hash : in.hash[p] # old.hash[p]}
Added(old, in) == DOMAIN in.hash \ DOMAIN old.hash
Removed(old, in) == DOMAIN old.hash \ DOMAIN in.hash
Events(old) == UNION {old.units[p].events : p \in DOMAIN old.units}

NewlyResolvableNone(old, added) == {}
(* The files whose failed include names a file that was added.             *)
NewlyResolvable(old, added) ==
    {e.file : e \in {x \in Events(old) :
        x.resolved = Absent /\ \E p \in added : IsSuffix(x.text, Below(p, old.base))}}

DirtyClosure(old, seeds) ==
    LET grow(S) == S \union {e.file : e \in {x \in Events(old) : x.resolved \in S}}
        reach[n \in Nat] == IF n = 0 THEN seeds ELSE grow(reach[n - 1])
    IN  reach[Cardinality(DOMAIN tree)]
Dirty(old, in) ==
    DirtyClosure(old, Changed(old, in) \union Removed(old, in))
    \union Added(old, in) \union NewlyResolvable(old, Added(old, in))

Touched(old, in, dirty) == (dirty \intersect {in.found[i].path : i \in DOMAIN in.found}) \union Removed(old, in)

(* A file that asks for a full link: one of VHDL even if it was skipped,   *)
(* one of another design-wide language only if it was not.                 *)
DesignWide(f) == Language(f.path) = "vhdl" \/ (f.skip = "none" /\ Language(f.path) \in Wide)

(* Only the rows of touched files are written, unless one of the files     *)
(* asks for a full link.                                                   *)
Merged(old, in, units, touched) ==
    LET scope(was, is) ==
            [p \in (DOMAIN was \ touched) \union (DOMAIN is \intersect touched) |->
                IF p \in touched THEN is[p] ELSE was[p]]
        wide == \E i \in DOMAIN in.found : DesignWide(in.found[i])
    IN  IF wide \/ units = << >> THEN Database(in, units)
        ELSE [old EXCEPT !.hash = scope(@, in.hash), !.units = scope(@, units)]
Relinked(t, old, in, dirty) ==
    Merged(old, in, RunUnits(t, in.search, in.libs, in.found, [p \in DOMAIN old.units \ dirty |-> old.units[p]]),
           Touched(old, in, dirty))
Updated(t, old, in) == Relinked(t, old, in, Dirty(old, in))

UpToDate(old, in) == Changed(old, in) = {} /\ Added(old, in) = {} /\ Removed(old, in) = {}

(***************************************************************************)
(* The detect-changes command, with --closure: against the content hashes  *)
(* or against version control, where staged is what the tool was told of   *)
(* and top is the directory a git repository was made in.                  *)
(***************************************************************************)
RelPath(p, base) == IF IsStrictPrefix(base, p) THEN Below(p, base) ELSE <<"/">> \o p
FromRel(text, base) == IF Head(text) = "/" THEN Tail(text) ELSE base \o text
ScanChanges(old, in) ==
    LET at(S) == {RelPath(p, in.base) : p \in S}
    IN  [changed |-> at(Changed(old, in)), added |-> at(Added(old, in)), removed |-> at(Removed(old, in))]
Reported(old, base, set) ==
    LET seeds == {FromRel(p, base) : p \in set.changed \union set.removed}
    IN  [names |-> set.changed \union set.added \union set.removed,
         dirtied |-> DirtyClosure(old, seeds) \ seeds,
         exit |-> IF set.changed \union set.added \union set.removed = {} THEN 0 ELSE 1]
DetectChanges(vcs, ref, t, staged, top, old, in) ==
    Reported(old, in.base, IF vcs = "none" THEN ScanChanges(old, in)
                           ELSE DetectVcsChanges(vcs, ref, t, staged, in.base, top))

(***************************************************************************)
(* Behaviour                                                               *)
(***************************************************************************)
Init ==
    /\ scene \in DOMAIN Scenes
    /\ tree = Scenes[scene].start
    /\ cli \in Scenes[scene].commands
    /\ given = InputsOf(tree, cli)
    /\ db = Absent
    /\ built = [tree |-> tree, cli |-> cli]

(* A file is edited, created or deleted, or the command line is another.   *)
Change ==
    LET texts == Scenes[scene].texts
        edits == UNION {{<<[tree EXCEPT ![p] = x], cli>> : x \in texts[p]} : p \in DOMAIN texts}
    IN  \E e \in (edits \union {<<tree, c>> : c \in Scenes[scene].commands}) \ {<<tree, cli>>} :
            /\ tree' = e[1]
            /\ cli' = e[2]
            /\ given' = InputsOf(e[1], e[2])
            /\ UNCHANGED <<scene, db, built>>

(* Nothing parsed: the database stays as it is.                            *)
Write(new) ==
    /\ new.units # << >>
    /\ db' = new
    /\ built' = [tree |-> tree, cli |-> cli]
    /\ UNCHANGED <<scene, tree, cli, given>>

(* A build, or an update that has no database of these inputs to start from. *)
Build ==
    /\ given # Absent
    /\ \E new \in {FullBuild(tree, given)} : Write(new)

Fits(old, in) == old.base = in.base /\ old.opts = in.opts

Update ==
    /\ given # Absent
    /\ db # Absent
    /\ Fits(db, given)
    /\ ~UpToDate(db, given)
    /\ \E new \in {Updated(tree, db, given)} : Write(new)

Next == Change \/ Build \/ Update

Spec == Init /\ [][Next]_vars

(***************************************************************************)
(* Properties                                                              *)
(***************************************************************************)
(* A file has a content hash exactly when no guard skips it, and a unit is *)
(* a file that has one.                                                    *)
TypeOK ==
    /\ scene \in DOMAIN Scenes
    /\ DOMAIN tree = DOMAIN Scenes[scene].start
    /\ given # Absent =>
          \A i \in DOMAIN given.found : (given.found[i].skip = "none") = (given.found[i].hash # 0)
    /\ db # Absent => \A p \in DOMAIN db.units : p \in DOMAIN db.hash /\ db.hash[p] # 0

(* The files of a list in the order of its edges in the graph.             *)
RECURSIVE Recovered(_, _, _)
Recovered(edges, list, stack) ==
    LET of == {e \in edges : e.src = list /\ e.order # 0}
        out == SetToSortSeq(of, LAMBDA a, b : a.order < b.order)
        one(e) == IF e.kind = "REFERENCES_FILE" THEN <<e.dst>>
                  ELSE IF e.dst \in stack THEN <<>>
                  ELSE Recovered(edges, e.dst, stack \union {e.dst})
    IN  EachOf(out, one)

(* No file is compiled under two names. A filelist's sources are compiled  *)
(* in the order its edges in the graph record, which is what filelist_irs  *)
(* keeps it for, and its -v files after all of them.                       *)
CompileOrder ==
    given # Absent =>
        LET order(fl) ==
                LET regular == Firsts(Recovered(FilelistIRs(fl), fl.path, {fl.path}))
                IN  /\ IsPrefix(regular, FlattenedFiles(fl))
                    /\ ToSet(FlattenedFiles(fl)) = ToSet(regular) \union ToSet(WalkLibraryFiles(fl))
        IN  /\ \A i, j \in DOMAIN given.found : Real(given.found[i].path) = Real(given.found[j].path) => i = j
            /\ \A i \in DOMAIN given.lists : order(given.lists[i])

(* What an update can see of a change to where an include leads: nothing   *)
(* changed, in a header whose hash is kept; the header went away; or it    *)
(* appeared under the path that the unit itself, not a header, names.      *)
Visible(old, in, p, e) ==
    LET now == ResolveInclude(tree, in.search.dirs, Front(e.file), e.text)
    IN  IF e.resolved = Absent
        THEN \/ now = Absent
             \/ e.file = p /\ now \in Added(old, in) /\ IsSuffix(e.text, Below(now, in.base))
        ELSE IF now = e.resolved THEN now \in DOMAIN old.hash /\ old.hash[now] # 0
        ELSE e.resolved \in Removed(old, in)

(* The database before a change of the tree that update can follow: it     *)
(* knows every file under its own name, sees every include that leads      *)
(* elsewhere, and no file it does not touch becomes or ceases to be a unit. *)
Followed(old, in, new) ==
    /\ \A p \in DOMAIN old.hash : Real(p) = p
    /\ \A p \in DOMAIN old.units : \A e \in old.units[p].events : Visible(old, in, p, e)
    /\ \A p \in DOMAIN old.hash \ Touched(old, in, Dirty(old, in)) : (p \in DOMAIN old.units) = (p \in DOMAIN new.units)

(* After an update, or when it finds nothing to do, the units are those of *)
(* a full build: the hash diff, the closure over the stored includes and   *)
(* the fingerprint of the options miss no change that update can follow.   *)
UpdateIsBuild ==
    (db # Absent /\ given # Absent) =>
        LET full == FullBuild(tree, given)
            next == IF UpToDate(db, given) THEN db ELSE Updated(tree, db, given)
        IN  (Fits(db, given) /\ full.units # << >> /\ Followed(db, given, full)) => next.units = full.units

(* The version control of a build root: git's repository is that directory *)
(* or one above it.                                                        *)
VersionControls(base) ==
    {[vcs |-> "git", top |-> SubSeq(base, 1, n)] : n \in 0..Len(base)}
    \union {[vcs |-> vcs, top |-> base] : vcs \in {"svn", "p4"}}

(* The files of a report, whose names are relative to the build root.      *)
At(names) == {FromRel(p, given.base) : p \in names}

(* The files of the hash diff that version control can see: under the      *)
(* build root by their own names, not ignored, with another content than   *)
(* was committed; Subversion names a new directory, and not what is in it. *)
Told(scan, v, staged) ==
    LET ref == built.tree
        hidden(p) == v.vcs = "svn" /\ \A q \in Known(ref, tree, staged) : ~IsPrefix(Front(p), q)
    IN  {p \in At(scan.names) : /\ Real(p) = p /\ IsStrictPrefix(given.base, p)
                               /\ p \notin Ignored /\ tree[p] # ref[p] /\ ~hidden(p)}

(* git names a file that it tracks from the top of the repository; a file  *)
(* it does not track has its name below the build root, and so has every   *)
(* file that another tool names.                                           *)
NamedBy(v, p, staged) ==
    Below(p, IF v.vcs = "git" /\ p \in Known(built.tree, tree, staged) THEN v.top ELSE given.base)

AllNamed(scan, seen, v, staged) ==
    LET told == Told(scan, v, staged)
    IN  /\ \A p \in told : NamedBy(v, p, staged) \in seen.names
        /\ told # {} => seen.exit = 1

ClosureKept(scan, seen, v, staged) ==
    Told(scan, v, staged) = At(scan.names) => scan.dirtied \subseteq seen.dirtied \union At(seen.names)

(* Agree holds between what detect-changes reports from the content hashes *)
(* and what it reports from version control, since the commit that was     *)
(* built and whichever new files the tool was told of.                     *)
Compared(Agree(_, _, _, _)) ==
    (db # Absent /\ cli = built.cli /\ given # Absent) =>
        LET report(vcs, staged, top) == DetectChanges(vcs, built.tree, tree, staged, top, db, given)
            scan == report("none", {}, given.base)
        IN  \A v \in VersionControls(given.base), staged \in SUBSET New(built.tree, tree) :
                Agree(scan, report(v.vcs, staged, v.top), v, staged)

(* detect-changes against version control names every file whose content   *)
(* the hash diff reports, by the name the tool prints, and exits with 1: a *)
(* gate in CI sees what an update would. With --closure it lists what the  *)
(* hash diff lists, if the tool's names are those of the graph: under git, *)
(* if the build root is the top of the repository.                         *)
VcsSees ==
    Compared(LAMBDA scan, seen, v, staged :
                /\ AllNamed(scan, seen, v, staged)
                /\ v.top = given.base => ClosureKept(scan, seen, v, staged))

(* The same of --closure wherever the build root lies in the repository,   *)
(* as the option's help has it: "Also list unchanged files dirtied through *)
(* include/macro dependencies". The seeds of the closure are the tool's    *)
(* names, so that this fails for a build root below the top.               *)
ClosureListed == Compared(ClosureKept)
===============================================================================
