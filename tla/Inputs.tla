-------------------------------- MODULE Inputs --------------------------------
(***************************************************************************)
(* What a run compiles, in which order and with which settings: the        *)
(* configuration file and the options (config.py), filelists               *)
(* (filelist.py), the search for source files (discovery.py), and the      *)
(* fingerprint an update compares (options_hash).                          *)
(*                                                                         *)
(* A path is the sequence of its segments below the root of the file       *)
(* system; a path text may also hold "/" (the start of an absolute one),   *)
(* "." and "..". A tree maps every path to a text or to Absent. A text is  *)
(* [ver, size, marks, inc, tokens, toml]; ver tells texts apart, which is  *)
(* what a content hash does.                                               *)
(***************************************************************************)
EXTENDS Integers, SequencesExt, FiniteSetsExt

CONSTANTS
    Names,      \* the names of files and directories, in sort order
    Links,      \* symbolic link -> the path it leads to
    Env,        \* environment variable -> its path text
    Suffix,     \* file name -> its suffix
    Wild,       \* segment pattern -> the names it matches
    Absent

MaxSizeKb == 1      \* DEFAULT_MAX_FILE_SIZE_KB

(* FoldLeft by the positions of s: TLC evaluates it in one pass.           *)
Folded(Op(_, _), start, s) ==
    LET upto[n \in 0..Len(s)] == IF n = 0 THEN start ELSE Op(upto[n - 1], s[n])
    IN  upto[Len(s)]

(***************************************************************************)
(* Paths                                                                   *)
(***************************************************************************)
Linked(p) == IF p \in DOMAIN Links THEN Links[p] ELSE p
Up(p) == IF p = <<>> THEN p ELSE Front(p)

(* (dir / text).resolve()                                                  *)
Join(dir, text) ==
    Folded(LAMBDA p, s : CASE s = "/" -> <<>>
                             [] s = "." -> p
                             [] s = ".." -> Up(p)
                             [] OTHER -> Linked(Append(p, s)), dir, text)
Real(p) == Join(<<>>, p)
WithinRoot(p, root) == IsPrefix(Real(root), Real(p))
IsFile(tree, p) == Real(p) \in DOMAIN tree /\ tree[Real(p)] # Absent
SuffixOf(p) == IF p # <<>> /\ Last(p) \in DOMAIN Suffix THEN Suffix[Last(p)] ELSE ""

Rank(s) == CHOOSE i \in DOMAIN Names : Names[i] = s
Less(p, q) ==
    \/ IsStrictPrefix(p, q)
    \/ \E i \in DOMAIN p \intersect DOMAIN q :
          /\ SubSeq(p, 1, i - 1) = SubSeq(q, 1, i - 1)
          /\ Rank(p[i]) < Rank(q[i])
Sorted(S) == SortSeq(FoldSet(LAMBDA x, s : Append(s, x), <<>>, S), Less)

(* A sequence without its later repetitions.                               *)
Firsts(s) == Folded(LAMBDA out, x : IF Contains(out, x) THEN out ELSE Append(out, x), <<>>, s)
Each(s, Op(_)) == Folded(LAMBDA out, x : Append(out, Op(x)), <<>>, s)
EachOf(s, Op(_)) == Folded(LAMBDA out, x : out \o Op(x), <<>>, s)
Counts(s) == [x \in ToSet(s) |-> Cardinality({i \in DOMAIN s : s[i] = x})]
(* dict() of pairs.                                                        *)
Dict(pairs) == Folded(LAMBDA d, p : p[1] :> p[2] @@ d, << >>, pairs)

(***************************************************************************)
(* Filelists. A token is [op, arg]: a source, -f, -y or -v with a path     *)
(* text, +incdir+ with path texts, +define+ with pairs, anything else.     *)
(***************************************************************************)
Expanded(text) ==
    EachOf(text, LAMBDA s : IF s \in DOMAIN Env THEN Env[s] ELSE <<s>>)

File(p) == [path |-> p, list |-> <<>>]
Empty(path) ==
    [path |-> path, entries |-> <<>>, incdirs |-> <<>>, defines |-> << >>, dirs |-> <<>>, libs |-> <<>>]

(* A token that leaves root, when there is one, is dropped; a list being   *)
(* read is not entered again.                                              *)
RECURSIVE ParseFilelist(_, _, _, _)
ParseFilelist(tree, path, root, stack) ==
    LET at(text) == Join(Front(path), Expanded(text))
        inside(p) == root = Absent \/ WithinRoot(p, root)
        read(fl, t) ==
            CASE t.op = "+define+" -> [fl EXCEPT !.defines = Dict(t.arg) @@ @]
              [] t.op = "+incdir+" ->
                    [fl EXCEPT !.incdirs = @ \o SelectSeq(Each(t.arg, at), inside)]
              [] t.op \in {"source", "-f", "-y", "-v"} ->
                    (LET p == at(t.arg)
                     IN  IF ~inside(p) THEN fl
                         ELSE IF t.op = "source" THEN [fl EXCEPT !.entries = Append(@, File(p))]
                         ELSE IF t.op = "-y" THEN [fl EXCEPT !.dirs = Append(@, p)]
                         ELSE IF t.op = "-v" THEN [fl EXCEPT !.libs = Append(@, p)]
                         ELSE IF p = path \/ Contains(stack, p) THEN fl
                         ELSE [fl EXCEPT !.entries = Append(@,
                                  [path |-> p,
                                   list |-> <<ParseFilelist(tree, p, root, Append(stack, path))>>])])
              [] OTHER -> fl
    IN  IF IsFile(tree, path) THEN Folded(read, Empty(path), tree[path].tokens) ELSE Empty(path)

Nested(fl) == EachOf(fl.entries, LAMBDA x : x.list)

RECURSIVE WalkFiles(_), WalkLibraryFiles(_), FlattenedIncdirs(_), FlattenedDefines(_)
WalkFiles(fl) ==
    EachOf(fl.entries, LAMBDA x : IF x.list = <<>> THEN <<x.path>> ELSE WalkFiles(x.list[1]))
WalkLibraryFiles(fl) ==
    fl.libs \o EachOf(Nested(fl), WalkLibraryFiles)

FlattenedLibrariesFirst(fl) == Firsts(WalkLibraryFiles(fl) \o WalkFiles(fl))

(* The compile order of a filelist, its search directories, its defines.   *)
FlattenedFiles(fl) == Firsts(WalkFiles(fl) \o WalkLibraryFiles(fl))
FlattenedIncdirs(fl) ==
    Firsts(fl.incdirs \o EachOf(Nested(fl), FlattenedIncdirs))
FlattenedDefines(fl) ==
    Folded(LAMBDA d, n : FlattenedDefines(n) @@ d, fl.defines, Nested(fl))

(* The filelists below fl that were not seen, in reading order.            *)
RECURSIVE WalkFilelists(_, _)
WalkFilelists(fl, seen) ==
    IF fl.path \in seen THEN <<>>
    ELSE Folded(LAMBDA out, n : out \o WalkFilelists(n, seen \union {fl.path} \union {x.path : x \in ToSet(out)}),
                  <<fl>>, Nested(fl))

(* The FILELIST edges of one list, with their order.                       *)
Emitted(fl) ==
    {[src |-> fl.path, dst |-> fl.entries[i].path, order |-> i,
      kind |-> IF fl.entries[i].list = <<>> THEN "REFERENCES_FILE" ELSE "INCLUDES"] : i \in DOMAIN fl.entries}
    \union {[src |-> fl.path, dst |-> p, order |-> 0, kind |-> "LIBRARY"] : p \in ToSet(fl.libs)}
FilelistIRs(fl) == UNION {Emitted(x) : x \in ToSet(WalkFilelists(fl, {}))}

(***************************************************************************)
(* Configuration. The table of a configuration file has the fields of      *)
(* BuildConfig, paths as texts, and bad: a type error in it.               *)
(***************************************************************************)
NoConfig ==
    [bad |-> FALSE, sources |-> <<>>, filelists |-> <<>>, defines |-> <<>>, incdirs |-> <<>>, auto |-> TRUE,
     exclude |-> <<>>, size |-> Absent, top |-> <<>>, libs |-> <<>>, enrich |-> FALSE]
ConfigName == "hdl-kgraph.toml"

(* The nearest configuration file from start upward.                       *)
FindConfig(tree, start) ==
    LET dirs == {SubSeq(start, 1, n) : n \in 0..Len(start)}
        with == {d \in dirs : IsFile(tree, Append(d, ConfigName))}
    IN  IF with = {} THEN Absent ELSE Append(CHOOSE d \in with : \A e \in with : Len(e) <= Len(d), ConfigName)

Load(tree, path) ==
    LET at(text) == Join(Front(path), text)
    IN  [tree[path].toml EXCEPT !.filelists = Each(@, at), !.incdirs = Each(@, at), !.defines = Dict(@),
                                !.libs = Dict(Each(@, LAMBDA x : <<x[1], at(x[2])>>))]

(* A command for source without an option.                                 *)
Command(source) ==
    [source |-> source, filelists |-> <<>>, defines |-> <<>>, incdirs |-> <<>>, noAuto |-> FALSE, libs |-> <<>>,
     config |-> Absent, noConfig |-> FALSE, exclude |-> <<>>, size |-> Absent, outside |-> FALSE, enrich |-> FALSE]

(* The options of a command: its arguments over the configuration file's.  *)
Config(tree, cli) ==
    LET path == CASE cli.noConfig -> Absent
                  [] ~cli.noConfig /\ cli.config # Absent -> Real(cli.config)
                  [] OTHER -> FindConfig(tree, cli.source)
    IN  IF path = Absent THEN [NoConfig EXCEPT !.defines = << >>] ELSE Load(tree, path)

ResolveBuildOptions(config, cli) ==
    [filelists |-> config.filelists \o cli.filelists,
     defines   |-> Dict(cli.defines) @@ config.defines,
     incdirs   |-> config.incdirs \o cli.incdirs,
     auto      |-> config.auto /\ ~cli.noAuto,
     sources   |-> config.sources,
     exclude   |-> config.exclude \o cli.exclude,
     size      |-> IF cli.size # Absent THEN cli.size ELSE config.size,
     top       |-> config.top,
     libs      |-> Dict(cli.libs) @@ config.libs,
     outside   |-> cli.outside,
     enrich    |-> config.enrich \/ cli.enrich]

(***************************************************************************)
(* Discovery                                                               *)
(***************************************************************************)
Language(p) ==
    CASE SuffixOf(p) \in {".vhd", ".vhdl"} -> "vhdl"
      [] SuffixOf(p) \in {".c", ".h"} -> "c"
      [] SuffixOf(p) = ".py" -> "python"
      [] SuffixOf(p) \in {".sdc", ".xdc", ".upf", ".tcl"} -> "tcl"
      [] SuffixOf(p) = ".sln" -> "sln"
      [] SuffixOf(p) \in {".sv", ".svh"} -> "systemverilog"
      [] SuffixOf(p) \in {".v", ".vh"} -> "verilog"
      [] OTHER -> "unknown"

Found(p, hash, skip) == [path |-> p, hash |-> hash, skip |-> skip]

(* Why a file is not compiled: the guards, in their order.                 *)
Guarded(tree, p, base, o) ==
    LET text == tree[Real(p)]
        limit == IF o.size = Absent THEN MaxSizeKb ELSE o.size
    IN  IF ~IsFile(tree, p) THEN "missing"
        ELSE IF Language(p) = "unknown" THEN "unsupported"
        ELSE IF \E x \in ToSet(o.exclude) : IsStrictPrefix(base \o x, p) THEN "exclude"
        ELSE IF text.size > limit THEN "size"
        ELSE IF "protect" \in text.marks THEN "pragma_protect"
        ELSE IF Language(p) = "python" /\ "cocotb" \notin text.marks THEN "not_cocotb"
        ELSE IF Language(p) = "sln" /\ "solution" \in text.marks THEN "visual_studio_solution"
        ELSE "none"

CheckFileHashed(tree, p, base, o) ==
    Found(p, IF IsFile(tree, p) THEN tree[Real(p)].ver ELSE 0, Guarded(tree, p, base, o))

(* A file that is skipped has no content hash.                             *)
CheckFile(tree, p, base, o) ==
    LET skip == Guarded(tree, p, base, o)
    IN  Found(p, IF skip = "none" THEN tree[Real(p)].ver ELSE 0, skip)

(* What the directory dir holds: names of directories, names of files.     *)
Entries(tree, dir) ==
    LET below == {p \in DOMAIN tree : tree[p] # Absent /\ IsStrictPrefix(Real(dir), p)}
        own == {l \in DOMAIN Links : Front(l) = Real(dir)}
    IN  {p[Len(Real(dir)) + 1] : p \in below} \union {Last(l) : l \in own}
SubDirs(tree, dir) ==
    {n \in Entries(tree, dir) : ~IsFile(tree, Append(dir, n)) /\ Entries(tree, Append(dir, n)) # {}}

(* Every file under dir, symbolic links followed, a directory entered at   *)
(* the first of its names only.                                            *)
RECURSIVE Walk(_, _, _)
Walk(tree, dir, st) ==
    LET keep(acc, n) ==
            LET real == Real(Append(dir, n))
            IN  IF real \in acc.visited THEN acc
                ELSE [visited |-> acc.visited \union {real}, kept |-> Append(acc.kept, Append(dir, n))]
        dirs == Folded(keep, [visited |-> st.visited, kept |-> <<>>],
                         SelectSeq(Names, LAMBDA n : n \in SubDirs(tree, dir)))
        here == {Append(dir, n) : n \in {x \in Entries(tree, dir) : IsFile(tree, Append(dir, x))}}
    IN  Folded(LAMBDA acc, d : Walk(tree, d, acc),
                 [visited |-> dirs.visited, files |-> st.files \union here], dirs.kept)
WalkTree(tree, root) == Walk(tree, root, [visited |-> {Real(root)}, files |-> {}]).files

RECURSIVE MatchGlob(_, _)
MatchGlob(rel, pat) ==
    CASE pat = <<>> -> rel = <<>>
      [] pat # <<>> /\ Head(pat) = "**" -> \E i \in 1..(Len(rel) + 1) : MatchGlob(SubSeq(rel, i, Len(rel)), Tail(pat))
      [] OTHER -> /\ rel # <<>>
                  /\ \/ Head(pat) = Head(rel)
                     \/ Head(pat) \in DOMAIN Wild /\ Head(rel) \in Wild[Head(pat)]
                  /\ MatchGlob(Tail(rel), Tail(pat))
GlobSources(tree, base, pattern) ==
    Sorted({p \in WalkTree(tree, base) : MatchGlob(SubSeq(p, Len(base) + 1, Len(p)), pattern)})

(* One name for a file that has several: the first.                        *)
FirstNames(paths) ==
    Folded(LAMBDA out, p : IF \E q \in ToSet(out) : Real(q) = Real(p) THEN out ELSE Append(out, p), <<>>, paths)
Discover(tree, root, base, o) ==
    LET paths == IF IsFile(tree, root) THEN SelectSeq(<<root>>, LAMBDA p : Language(p) # "unknown")
                 ELSE FirstNames(Sorted({p \in WalkTree(tree, root) : Language(p) # "unknown"}))
    IN  Each(paths, LAMBDA p : CheckFile(tree, p, base, o))

DiscoverFromPaths(tree, paths, base, o) ==
    Each(Firsts(Each(paths, Real)), LAMBDA p : CheckFile(tree, p, base, o))

(* The directories `include searches last.                                 *)
SourceDirs(found, base) ==
    LET dirs == {Real(Front(found[i].path)) : i \in {j \in DOMAIN found : found[j].skip = "none"}}
    IN  Sorted({d \in dirs : WithinRoot(d, base)})

(***************************************************************************)
(* The inputs of a run                                                     *)
(***************************************************************************)
BaseOf(tree, source) == IF IsFile(tree, Real(source)) THEN Front(Real(source)) ELSE Real(source)

AllLists(o, lists) ==
    [lists   |-> lists,
     defines |-> o.defines @@ Folded(LAMBDA d, fl : FlattenedDefines(fl) @@ d, << >>, lists),
     incdirs |-> o.incdirs \o EachOf(lists, FlattenedIncdirs),
     files   |-> EachOf(lists, FlattenedFiles)]
ResolveInputs(tree, o, base) ==
    AllLists(o, Each(o.filelists, LAMBDA p : ParseFilelist(tree, Real(p), IF o.outside THEN Absent ELSE base, <<>>)))

DiscoverInputs(tree, source, base, o, inputs) ==
    IF inputs.lists = <<>> /\ o.sources = <<>> THEN Discover(tree, Real(source), base, o)
    ELSE DiscoverFromPaths(tree,
            inputs.files \o EachOf(o.sources, LAMBDA x : GlobSources(tree, base, x)), base, o)

(* The fingerprint of the inputs: patterns, exclusions and tops sorted.    *)
OptionsHash(o, inputs) ==
    [defines |-> inputs.defines, incdirs |-> Each(inputs.incdirs, Real),
     auto |-> o.auto, outside |-> o.outside,
     sources |-> Counts(o.sources), exclude |-> Counts(o.exclude), size |-> o.size, top |-> Counts(o.top),
     libs |-> [n \in DOMAIN o.libs |-> Real(o.libs[n])],
     filelists |-> Each(o.filelists, Real), enrich |-> o.enrich]

(* The content hashes of the present tree: sources, then filelists.        *)
FilelistMeta(tree, fl) ==
    LET there == {x.path : x \in {y \in ToSet(WalkFilelists(fl, {})) : IsFile(tree, y.path)}}
    IN  [p \in there |-> tree[p].ver]
CurrentHashes(tree, found, inputs) ==
    Dict(Each(found, LAMBDA f : <<f.path, f.hash>>))
    @@ Folded(LAMBDA h, fl : h @@ FilelistMeta(tree, fl), << >>, inputs.lists)

(* The library a VHDL file compiles into: the longest mapped prefix.       *)
LibraryFor(p, libs) ==
    LET over == {n \in DOMAIN libs : IsPrefix(Real(libs[n]), p)}
    IN  IF over = {} THEN "work" ELSE CHOOSE n \in over : \A m \in over : Len(Real(libs[m])) <= Len(Real(libs[n]))
===============================================================================
