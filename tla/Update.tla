------------------------------- MODULE Update -------------------------------
(***************************************************************************)
(* `hdl-kgraph update` (pipeline.run_update) against the build database.   *)
(*                                                                         *)
(* An update hashes the tree, expands the changed files through the        *)
(* stored include / macro edges to the dirty files, re-parses those,       *)
(* re-resolves their references and the clean references whose target      *)
(* names they define, and writes only the rows in that scope.  The         *)
(* question is what the database then holds, compared with the one a full  *)
(* build of the same tree writes.                                          *)
(*                                                                         *)
(* An update is two steps, because the user's editor runs between them:    *)
(* Scan takes the hashes, Commit reads the texts and writes the database.  *)
(***************************************************************************)
EXTENDS Design

CONSTANTS
    Versions,   \* the texts each file can have (and whether it can be gone)
    Racing      \* which edits happen while an update runs: "none",
                \* "rewrites" (of scanned files, to new texts), or "any"

ASSUME VersionsAssumption ==
    /\ Versions \in [Files -> SUBSET (Content \union {Absent})]
    /\ \A f \in Files : \A c \in Versions[f] \ {Absent} : DefinesOnce(c)
ASSUME RacingAssumption == Racing \in {"none", "rewrites", "any"}

VARIABLES
    disk,       \* the tree: file -> contents or Absent
    db,         \* the database, tables as in Design!Database
    pc,         \* "idle", or "scanned" while an update has its hashes
    snap,       \* the tree as the running update hashed it
    built,      \* history: the tree the database was last written from
    exact       \* history: no write since the last full build disturbed
                \* what pass 1 makes of the files outside its scope, or
                \* took an owner from units that were not all listed

vars == <<disk, db, pc, snap, built, exact>>

(***************************************************************************)
(* The scope of an update                                                  *)
(***************************************************************************)
Stored(f) == db.hash[f] # Absent

Changed == {f \in Present(snap) : Stored(f) /\ db.hash[f] # snap[f]}
Added   == {f \in Present(snap) : ~Stored(f)}
Removed == {f \in Discoverable \ Present(snap) : Stored(f)}

\* Mutants of the operators below are named after what they get wrong.
DepRelIncludes(base) ==
    {e \in base.fnode \X base.fnode : \E x \in base.dep[e[2]].inc : x[2] = e[1]}

DepRelMacros(base) ==
    {e \in base.fnode \X base.fnode :
        \E x \in base.dep[e[1]].def : <<x[1], e[1]>> \in base.dep[e[2]].use}

(* <<g, f>> : a change of g makes f dirty.  An edge counts only if both    *)
(* its end nodes are in the database.                                      *)
DepRel(base) ==
    {e \in base.fnode \X base.fnode :
        \/ \E x \in base.dep[e[2]].inc : x[2] = e[1]
        \/ \E x \in base.dep[e[1]].def : <<x[1], e[1]>> \in base.dep[e[2]].use}

NewlyResolvableChanged ==
    {f \in db.fnode : \E x \in db.dep[f].inc :
        x[2] = Absent /\ Changed \intersect Range(Search[x[1]]) # {}}

NewlyResolvable ==
    {f \in db.fnode : \E x \in db.dep[f].inc :
        /\ x[2] = Absent
        /\ <<"include", x[1]>> \in db.stubs
        /\ Added \intersect Range(Search[x[1]]) # {}}

Dirty    == Closure(DepRel(db), Changed \union Removed) \union NewlyResolvable \union Added
Reparsed == Dirty \intersect Present(snap)
TouchedOnDisk == Reparsed
Touched  == Reparsed \union Removed
Clean    == DOMAIN db.ir \ Dirty

(***************************************************************************)
(* The incremental link and the scoped write.  bounded is the default      *)
(* selective decode (only affected clean units are decoded); otherwise     *)
(* every stored IR is.                                                     *)
(***************************************************************************)
ChangedNamesStored(scope, irs, decoded) == {x.name : x \in {y \in db.nodes : y.file \in scope}}

ChangedNames(scope, irs, decoded) ==
    {x.name : x \in {y \in db.nodes : y.file \in scope}}
    \union
    {x.name : x \in UNION {Defs(irs[u], f) : u \in decoded, f \in scope}}

Affected(changed) ==
    {a \in Discoverable \X (Files \X Names) :
        a[2] \in db.refs[a[1]] /\ a[2][2] \in changed}

(* The clean units that are linked again come before the fresh units that  *)
(* are not in scope: the whole list is compile order only without them.    *)
ListedFirstUnmerged(bounded, scope, fresh, extra) == IF bounded THEN fresh ELSE {}

ListedFirst(bounded, scope, fresh, extra) ==
    IF bounded /\ extra # {} THEN (fresh \intersect scope) \union extra ELSE {}

(* What the update's run hands to the store: the units' IRs, the nodes and *)
(* pass-1 edges of the files in scope, and the references of the re-parsed *)
(* units and of the affected clean sources, resolved again.                *)
LinkRun(bounded, scope, irs) ==
    LET fresh == DOMAIN irs \ Clean
        aff   == Affected(ChangedNames(scope, irs, IF bounded THEN fresh ELSE DOMAIN irs))
        srcs  == {a[2] : a \in aff}
        extra == {a[1] : a \in aff} \intersect Clean
        units == IF bounded THEN fresh \union extra ELSE DOMAIN irs
        head  == ListedFirst(bounded, scope, fresh, extra)
        ir    == [u \in units |-> IF bounded /\ u \in extra THEN db.ir[u] ELSE irs[u]]
        dirty == units \intersect scope
        own(f) == Owner(dirty, head, ir, f)
        kept  == {x \in db.nodes : x.file \notin scope}
        spliced == UNION {Defs(ir[own(f)], f) : f \in {g \in Files : own(g) # Absent}}
        added == {x \in spliced : \A y \in kept : <<y.file, y.name>> # <<x.file, x.name>>}
        live  == {r \in UNION {RefsOf(ir[u]) : u \in units} :
                    \/ r \in srcs
                    \/ \E u \in dirty : r \in RefsOf(ir[u])}
    IN  [irs   |-> irs,
         srcs  |-> srcs,
         fnode |-> {f \in scope : \E u \in dirty : ir[u].text[f] # Absent},
         dep   |-> DepOf(IRs(ir, dirty)),
         kept  |-> kept,
         added |-> added,
         edges |-> UNION {Score(kept \union added, Owner(units, head, ir, r[1]), r[1], r[2]) :
                            r \in live}]

Run == Pass1(Present(snap), disk, Clean, db.ir)
Relink(bounded) == LinkRun(bounded, Touched, Run)

(* The database after the scoped write: of each table, the rows of files   *)
(* and sources in scope are replaced and all others stay.                  *)
Write(scope, link) ==
    LET parsed == Reparsed
        rows == scope \intersect DOMAIN link.irs
        redo(e) == e[1] \in scope \/ <<e[1], e[2]>> \in link.srcs
        dep  == [f \in Files |-> IF f \in scope THEN link.dep[f] ELSE db.dep[f]]
        inst == {e \in db.inst : ~redo(e)} \union {e \in link.edges : redo(e)}
    IN  [hash  |-> [f \in Discoverable |->
                      IF f \in scope THEN (IF f \in parsed THEN snap[f] ELSE Absent)
                      ELSE db.hash[f]],
         skip  |-> (db.skip \ scope) \union (parsed \ DOMAIN link.irs),
         ir    |-> [u \in (DOMAIN db.ir \ scope) \union rows |->
                      IF u \in rows THEN link.irs[u] ELSE db.ir[u]],
         fnode |-> (db.fnode \ scope) \union link.fnode,
         dep   |-> dep,
         nodes |-> link.kept \union {x \in link.added : x.file \in scope},
         refs  |-> [u \in Discoverable |->
                      IF u \in rows THEN RefsOf(link.irs[u])
                      ELSE IF u \in scope THEN {} ELSE db.refs[u]],
         inst  |-> inst,
         stubs |-> Stubs(link.dep, link.edges) \union (db.stubs \intersect Stubs(dep, inst))]

Delta(bounded) == Write(Touched, Relink(bounded))

(* No file changes its kind outside the scope: the clean units are those   *)
(* of the run that the write leaves alone.                                 *)
Steady == DOMAIN Run \ Touched = Clean

(* Whose nodes a file's are the bounded link can tell only where the first *)
(* unit that holds the file is one it lists.                               *)
FirstListed ==
    LET fresh == DOMAIN Run \ Clean
        aff == Affected(ChangedNames(Touched, Run, fresh))
    IN  \A f \in Touched \union {a[2][1] : a \in aff} :
            Owner(DOMAIN Run, {}, Run, f) \in fresh \union {a[1] : a \in aff} \union {Absent}

(***************************************************************************)
(* What a write leaves alone is what pass 1 of the new tree would give     *)
(* again: the IRs of the clean units, and for every file outside the scope *)
(* the unit that owns it and its definitions, references and dependencies. *)
(***************************************************************************)
Face(irs, f) ==
    LET own == Owner(DOMAIN irs, {}, irs, f)
    IN  [owner |-> own,
         defs  |-> IF own = Absent THEN {} ELSE Defs(irs[own], f),
         refs  |-> UNION {Refs(irs[u], f) : u \in DOMAIN irs},
         dep   |-> DepOf(IRs(irs, DOMAIN irs))[f]]

SameOutside(scope, before, after) ==
    /\ \A u \in (DOMAIN before \union DOMAIN after) \ scope :
         /\ u \in DOMAIN before \intersect DOMAIN after
         /\ before[u] = after[u]
    /\ \A f \in Files \ scope : Face(before, f) = Face(after, f)

Undisturbed(old, new) ==
    SameOutside(Touched, Pass1(Present(old), old, {}, << >>),
                         Pass1(Present(new), new, {}, << >>))

(***************************************************************************)
(* The specification                                                       *)
(***************************************************************************)
Init ==
    /\ disk \in [Files -> UNION {Versions[f] : f \in Files}]
    /\ \A f \in Files : disk[f] \in Versions[f]
    /\ Present(disk) # {}
    /\ db = FullBuild(disk)
    /\ pc = "idle"
    /\ snap = disk
    /\ built = disk
    /\ exact = TRUE

(* The user writes, creates or deletes a file.                             *)
Edit(f) ==
    /\ \/ pc = "idle"
       \/ Racing = "rewrites" /\ snap[f] # Absent
       \/ Racing = "any"
    /\ \E c \in Versions[f] \ {disk[f]} :
         /\ Racing = "rewrites" /\ f \in Discoverable => c \notin {snap[f], db.hash[f]}
         /\ disk' = [disk EXCEPT ![f] = c]
    /\ snap' = IF pc = "idle" THEN disk' ELSE snap
    /\ UNCHANGED <<db, pc, built, exact>>

(* An update hashes the tree; with nothing changed it ends there.          *)
Scan ==
    /\ pc = "idle"
    /\ Hashes(disk) # db.hash
    /\ pc' = "scanned"
    /\ snap' = disk
    /\ UNCHANGED <<disk, db, built, exact>>

RunUnits == Units(Present(snap), disk, Clean, db.ir)
Vanished == \E u \in RunUnits \ Clean : disk[u] = Absent

Done == /\ pc' = "idle"
        /\ snap' = disk
        /\ UNCHANGED disk

(* The update parses, links and writes its delta.                          *)
Commit(bounded) ==
    /\ pc = "scanned"
    /\ DOMAIN db.ir # {}
    /\ RunUnits # {}
    /\ ~Vanished
    /\ db' = Delta(bounded)
    /\ built' = disk
    /\ exact' = (exact /\ Undisturbed(built, disk) /\ (bounded => FirstListed))
    /\ Done

(* A file hashed and then deleted cannot be read: the update raises.       *)
Abort ==
    /\ pc = "scanned"
    /\ DOMAIN db.ir # {}
    /\ Vanished
    /\ Done
    /\ UNCHANGED <<db, built, exact>>

(* Nothing left to parse: the database is left as it was.                  *)
NothingParsed ==
    /\ pc = "scanned"
    /\ DOMAIN db.ir # {}
    /\ RunUnits = {}
    /\ Done
    /\ UNCHANGED <<db, built, exact>>

Rewrite ==
    /\ db' = IF Present(disk) = {} THEN db ELSE FullBuild(disk)
    /\ built' = IF Present(disk) = {} THEN built ELSE disk
    /\ exact' = (exact \/ Present(disk) # {})

(* No stored parse results: the update falls back to a full build.         *)
Fallback ==
    /\ pc = "scanned"
    /\ DOMAIN db.ir = {}
    /\ Rewrite
    /\ Done

(* `hdl-kgraph build`.                                                     *)
Build ==
    /\ pc = "idle"
    /\ Rewrite
    /\ UNCHANGED <<disk, pc, snap>>

Next ==
    \/ \E f \in Files : Edit(f)
    \/ Scan
    \/ \E bounded \in BOOLEAN : Commit(bounded)
    \/ Abort
    \/ NothingParsed
    \/ Fallback
    \/ Build

Spec == Init /\ [][Next]_vars

(***************************************************************************)
(* Properties                                                              *)
(***************************************************************************)
(* The tables hold rows of their kinds: contents for hashes, IRs of trees, *)
(* nodes and edges of files and names.                                     *)
TablesOK(base) ==
    /\ base.hash \in [Discoverable -> Content \union {Absent}]
    /\ base.skip \subseteq Discoverable
    /\ DOMAIN base.ir \subseteq Discoverable
    /\ \A u \in DOMAIN base.ir : base.ir[u].text \in Tree
    /\ base.fnode \subseteq Files
    /\ base.nodes \subseteq [file : Files, name : Names, conditional : BOOLEAN]
    /\ base.refs \in [Discoverable -> SUBSET (Files \X Names)]
    /\ base.inst \subseteq Files \X Names \X (Files \union {Stub})
                             \X {"resolved", "unique", "ambiguous"}

(* The type invariant: a tree and a database stay a tree and a database    *)
(* through edits, updates and rebuilds.                                    *)
TypeOK ==
    /\ disk \in Tree /\ snap \in Tree /\ built \in Tree
    /\ pc \in {"idle", "scanned"}
    /\ exact \in BOOLEAN
    /\ TablesOK(db)

(* docs/usage/incremental.md promises that an update's result is           *)
(* byte-identical to a full rebuild.  The promise as it stands.            *)
ByteIdentical == db = FullBuild(built)

(* The part of it a query sees.                                            *)
Graph(base) == [fnode |-> base.fnode, dep |-> base.dep, nodes |-> base.nodes,
                inst |-> base.inst, stubs |-> base.stubs]
GraphIdentical == Graph(db) = Graph(FullBuild(built))

(* What the incremental link and the scoped write do guarantee: as long as *)
(* every update left alone only files of which pass 1 would have made the  *)
(* same again, all tables are the ones a full build writes - every         *)
(* re-resolved edge, confidence, stub, ref_index and files row.            *)
LinkExact == exact => ByteIdentical

(* pipeline._selective_link: decoding only the affected clean units is     *)
(* "byte-identical to the full-decode path".  The promise as it stands.    *)
DecodingAgrees == pc = "scanned" /\ exact /\ ~Vanished => Delta(TRUE) = Delta(FALSE)

(* What it does guarantee: the write is the same where no clean unit       *)
(* became a header, no header a unit, and the first unit of each source is *)
(* among those that are decoded.                                           *)
LinkModesAgree ==
    pc = "scanned" /\ exact /\ ~Vanished /\ Steady /\ FirstListed =>
        Delta(TRUE) = Delta(FALSE)

(* Every stored IR was made from the texts the files table says are        *)
(* current: the unit's own and those of the discoverable headers it        *)
(* includes itself; and an include recorded as unresolved is still so.     *)
UnitFresh(ir, u, hash) ==
    /\ ir.text[u] = hash[u]
    /\ \A p \in ir.text[u].inc :
         /\ ir.res[p] \in Discoverable => ir.text[ir.res[p]] = hash[ir.res[p]]
         /\ ir.res[p] = Absent =>
              \A f \in Range(Search[p]) \intersect Discoverable : hash[f] = Absent
DirectlyFresh == \A u \in DOMAIN db.ir : UnitFresh(db.ir[u], u, db.hash)

(* What the scope computation reads: every discovered file has its FILE    *)
(* node, every include of a stored unit its edge, and every unresolved     *)
(* include the stub node that the edge ends in.  A row missing here is a   *)
(* file that a later update fails to parse again.                          *)
Recorded(base) ==
    /\ \A f \in Discoverable : base.hash[f] # Absent => f \in base.fnode
    /\ \A u \in DOMAIN base.ir : \A p \in base.ir[u].text[u].inc :
         <<p, base.ir[u].res[p]>> \in base.dep[u].inc
    /\ \A f \in Files : \A x \in base.dep[f].inc :
         x[2] = Absent => <<"include", x[1]>> \in base.stubs
IncludesRecorded == Recorded(db)

(* Every macro body a unit's own text was expanded with is the one the     *)
(* defining file has now, however many files lie between the definition    *)
(* and the use in compile order.                                           *)
Current(x) ==
    x[2] # Undef /\ x[2][1] \in Discoverable =>
        db.hash[x[2][1]] # Absent /\ db.hash[x[2][1]].mac[x[1]] = x[2][2]
MacrosFresh == \A u \in DOMAIN db.ir : \A x \in Uses(db.ir[u], u) : Current(x)

(* The same of every text in the unit, headers included, which is what     *)
(* incremental.py promises: "editing a file that defines a macro dirties   *)
(* every file that expanded it".                                           *)
ExpansionsFresh ==
    \A u \in DOMAIN db.ir : \A f \in Files : \A x \in Uses(db.ir[u], f) : Current(x)

(* A stored IR made from another text than the files table records is one  *)
(* the next scan will still see: the file on disk differs from its stored  *)
(* hash.  (The texts are read again after they were hashed.)               *)
Pending(u, g) == db.ir[u].text[g] = db.hash[g] \/ disk[g] # db.hash[g]
FreshOrPending ==
    \A u \in DOMAIN db.ir :
        /\ Pending(u, u)
        /\ \A q \in db.ir[u].text[u].inc :
             db.ir[u].res[q] \in Discoverable => Pending(u, db.ir[u].res[q])

(* Every edge the database holds ends in a node it holds (link_graph: "so  *)
(* the graph never carries attribute-less nodes").                         *)
NoBareEndpoint ==
    /\ \A f \in Files : \A x \in db.dep[f].inc :
         IF x[2] = Absent THEN <<"include", x[1]>> \in db.stubs ELSE x[2] \in db.fnode
    /\ \A e \in db.inst :
         IF e[3] = Stub THEN <<"module", e[2]>> \in db.stubs
         ELSE \E x \in db.nodes : x.file = e[3] /\ x.name = e[2]

(* An update that writes records the hashes it scanned, so the next one    *)
(* starts from exactly the changes made since.                             *)
Settled == pc = "scanned" /\ DOMAIN db.ir # {} /\ db' # db => db'.hash = Hashes(snap)
UpdateSettles == [][Settled]_vars
=============================================================================
