-------------------------------- MODULE Changes --------------------------------
(***************************************************************************)
(* detect-changes against version control (vcs.py and                      *)
(* incremental.detect_git_changes): what git, svn and p4 say of a work     *)
(* tree, and the change set made of it. Paths are those that are printed:  *)
(* relative to the build root, or to whatever the tool relates them to.    *)
(***************************************************************************)
EXTENDS Inputs

CONSTANTS
    Ignored     \* the files version control is told to ignore

Below(p, dir) == SubSeq(p, Len(dir) + 1, Len(p))
There(tree) == {p \in DOMAIN tree : tree[p] # Absent}
Known(ref, tree, staged) == There(ref) \union (staged \intersect There(tree))

IsBuildInput(text) ==
    \/ Language(text) # "unknown"
    \/ SuffixOf(text) \in {".f", ".vc"}
    \/ Last(text) = ConfigName

(***************************************************************************)
(* The tools, of a tree that was ref when it was committed; staged: the    *)
(* new files the tool has been told of.                                    *)
(***************************************************************************)
Entry(code, paths) == [code |-> code, paths |-> paths]
Gone(ref, tree) == There(ref) \ There(tree)
Differs(ref, tree) == {p \in There(ref) \intersect There(tree) : ref[p].ver # tree[p].ver}
New(ref, tree) == There(tree) \ There(ref)

(* git diff --name-status in the repository top; renames are detected.     *)
GitDiff(ref, tree, staged, top) ==
    LET at(S) == {p \in S : IsStrictPrefix(top, p)}
        new == at(New(ref, tree) \intersect staged)
        pairs == {x \in at(Gone(ref, tree)) \X new : ref[x[1]].ver = tree[x[2]].ver}
        name(p) == Below(p, top)
    IN  {Entry("M", <<name(p)>>) : p \in at(Differs(ref, tree))}
        \union {Entry("R", <<name(x[1]), name(x[2])>>) : x \in pairs}
        \union {Entry("D", <<name(p)>>) : p \in at(Gone(ref, tree)) \ {x[1] : x \in pairs}}
        \union {Entry("A", <<name(p)>>) : p \in new \ {x[2] : x \in pairs}}

(* git ls-files --others --exclude-standard, in the build root.            *)
Untracked(ref, tree, staged, base) ==
    {Below(p, base) : p \in {q \in New(ref, tree) \ (staged \union Ignored) : IsPrefix(base, q)}}

(* svn status: an unversioned directory is one entry.                      *)
SvnStatus(ref, tree, staged, base) ==
    LET dirs == UNION {{SubSeq(p, 1, n) : n \in 0..(Len(p) - 1)} : p \in Known(ref, tree, staged)}
        top(p) == SubSeq(p, 1, CHOOSE n \in 1..Len(p) :
                                  /\ SubSeq(p, 1, n) \notin dirs
                                  /\ \A k \in 1..(n - 1) : SubSeq(p, 1, k) \in dirs)
        at(S) == {p \in S : IsPrefix(base, p)}
        entry(code, p) == Entry(code, <<Below(p, base)>>)
    IN  {entry("M", p) : p \in at(Differs(ref, tree))} \union {entry("!", p) : p \in at(Gone(ref, tree))}
        \union {entry("A", p) : p \in at(New(ref, tree) \intersect staged)}
        \union {entry("?", top(p)) : p \in at(New(ref, tree) \ (staged \union Ignored))}

(* p4 status and p4 opened; staged: the files opened already.              *)
P4Records(ref, tree, staged) ==
    LET action(p) == IF p \in New(ref, tree) THEN "add" ELSE IF p \in Gone(ref, tree) THEN "delete" ELSE "edit"
        found == Differs(ref, tree) \union Gone(ref, tree) \union (New(ref, tree) \ Ignored)
    IN  {Entry(action(p), <<p>>) : p \in found \union (staged \intersect (There(ref) \union There(tree)))}

(***************************************************************************)
(* The change sets                                                         *)
(***************************************************************************)
ChangeSet(changed, added, removed) ==
    [changed |-> {p \in changed : IsBuildInput(p)}, added |-> {p \in added : IsBuildInput(p)},
     removed |-> {p \in removed : IsBuildInput(p)}]

DetectGitTracked(ref, tree, staged, base, top) ==
    LET of(codes, i) == {x.paths[i] : x \in {y \in GitDiff(ref, tree, staged, top) : y.code \in codes}}
    IN  ChangeSet(of({"M"}, 1), of({"A"}, 1) \union of({"R"}, 2), of({"D", "R"}, 1))

DetectGit(ref, tree, staged, base, top) ==
    LET of(codes, i) == {x.paths[i] : x \in {y \in GitDiff(ref, tree, staged, top) : y.code \in codes}}
    IN  ChangeSet(of({"M"}, 1), of({"A"}, 1) \union of({"R"}, 2) \union Untracked(ref, tree, staged, base),
                  of({"D", "R"}, 1))

DetectSvn(ref, tree, staged, base) ==
    LET of(codes) == {x.paths[1] : x \in {y \in SvnStatus(ref, tree, staged, base) : y.code \in codes}}
    IN  ChangeSet(of({"M"}), of({"A", "?"}), of({"D", "!"}))

DetectP4(ref, tree, staged, base) ==
    LET of(actions) == {Below(Real(x.paths[1]), base) :
                           x \in {y \in P4Records(ref, tree, staged) :
                                     y.code \in actions /\ IsStrictPrefix(base, Real(y.paths[1]))}}
    IN  ChangeSet(of({"edit", "integrate"}), of({"add", "branch", "move/add"}), of({"delete", "move/delete"}))

DetectVcsChanges(vcs, ref, tree, staged, base, top) ==
    CASE vcs = "git" -> DetectGit(ref, tree, staged, base, top)
      [] vcs = "svn" -> DetectSvn(ref, tree, staged, base)
      [] vcs = "p4" -> DetectP4(ref, tree, staged, base)
===============================================================================
