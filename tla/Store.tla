-------------------------------- MODULE Store --------------------------------
(***************************************************************************)
(* The database file and what builds, updates, readers and crashes do to   *)
(* it (storage/sqlite_store.py, and the persist phase of pipeline.py).     *)
(*                                                                         *)
(* A full build writes a new file beside the live one, swaps it in and     *)
(* then removes the WAL of the file it replaced.  An update is a series of *)
(* transactions on the live file: a schema migration when one is due, the  *)
(* delta, the TEST_COVERS edges, the summaries, the build statistics.      *)
(* What of SQLite and the file system these rest on is modelled too: names *)
(* and the files behind them, the WAL that belongs to a name, checkpoints. *)
(*                                                                         *)
(* A source text is its version; the edges of a source are the versions,   *)
(* its own and those of the sources it uses, that they were resolved from. *)
(***************************************************************************)
EXTENDS Naturals, FiniteSets

CONSTANTS
    Sources,     \* the source files
    Uses,        \* source -> the sources its references resolve to
    Writers,     \* processes that run `build` or `update`
    Readers,     \* connections that queries open
    Inodes,      \* files a name can denote
    Commands,    \* the commands the writers run
    MaxVersion,  \* bound: versions of a source
    MaxCrashes,  \* bound: crashes of writers
    None,        \* no file behind a name, no WAL, no connection
    Half,        \* a file without its first commit: no meta table
    Torn,        \* a file read through the WAL of another
    Missing      \* no summaries stored

ASSUME UsesAssumption == Uses \in [Sources -> SUBSET Sources]
ASSUME BoundsAssumption == MaxVersion \in Nat /\ MaxCrashes \in Nat
ASSUME CommandsAssumption == Commands \subseteq {"build", "update"}

VARIABLES
    tree,     \* source -> its current version
    file,     \* inode -> what the file holds
    main,     \* the inode behind graph.db
    tmp,      \* the inode behind graph.db.tmp
    wal,      \* the WAL behind graph.db-wal: committed frames not yet in the
              \* file they were written for (base), or None
    pc,       \* writer -> the step it is at
    job,      \* writer -> what it has read so far
    conn,     \* reader -> its open connection and what it has read
    crashes,  \* number of crashes
    broken    \* history: a crash cut an update off after its delta, and
              \* no later one has replaced the summaries

vars == <<tree, file, main, tmp, wal, pc, job, conn, crashes, broken>>

Reach(f) == {f} \union Uses[f]
Trees == [Sources -> 0..MaxVersion]

(* The edges of source f, resolved against the given versions.             *)
Edges(versions, f) ==
    [x \in Sources |-> IF x \in Reach(f) THEN versions[x] ELSE None]

(* The database a full build of versions t writes.                         *)
Full(t) ==
    LET link == [f \in Sources |-> Edges(t, f)]
    IN  [schema |-> "current", hash |-> t, link |-> link,
         covers |-> link, sums |-> <<link, link>>]

(* What a connection on inode i reads: its file, with the frames of the    *)
(* WAL over it.                                                            *)
Through(i) ==
    IF wal # None /\ wal.base = i THEN wal.db ELSE file[i]

(* What a connection opened now by name reads.                             *)
View ==
    IF main = None THEN None
    ELSE IF wal # None /\ wal.base # main THEN Torn
    ELSE Through(main)

Readable == View \notin {None, Half, Torn}
Held(i)  == \E r \in Readers : conn[r] # None /\ conn[r].inode = i
Free(i)  == /\ i # main
            /\ ~Held(i)
            /\ \A w \in Writers : job[w].inode # i
            /\ wal # None => wal.base # i

(***************************************************************************)
(* Steps of a writer                                                       *)
(***************************************************************************)
NoJob == [tree |-> None, inode |-> None, hash |-> None, seen |-> None,
          link |-> "full", covers |-> None, sums |-> None, next |-> "idle"]

Goto(w, step) == pc' = [pc EXCEPT ![w] = step]
Finish(w) == Goto(w, "idle") /\ job' = [job EXCEPT ![w] = NoJob]

(* A transaction commits db to the WAL of the live file; the checkpoint    *)
(* that follows is the Fold step.                                          *)
CommitTx(w, db, next) ==
    /\ wal' = [base |-> main, db |-> db]
    /\ Goto(w, "fold")
    /\ job' = [job EXCEPT ![w].next = next]
    /\ UNCHANGED <<tree, file, main, tmp, crashes>>

(* A checkpoint moves the frames into their file.  A reader in the middle  *)
(* of a SELECT keeps it from finishing.                                    *)
Checkpointed ==
    /\ wal' = None
    /\ file' = IF wal = None THEN file ELSE [file EXCEPT ![wal.base] = wal.db]

Fold(w) ==
    /\ pc[w] = "fold"
    /\ \/ Checkpointed
       \/ wal # None /\ Held(wal.base) /\ UNCHANGED <<file, wal>>
    /\ IF job[w].next = "idle" THEN Finish(w)
       ELSE Goto(w, job[w].next) /\ UNCHANGED job
    /\ UNCHANGED <<tree, main, tmp, conn, crashes, broken>>

(* `build`: the sources are read and parsed.                               *)
StartBuild(w) ==
    /\ pc[w] = "idle" /\ "build" \in Commands
    /\ Goto(w, "create")
    /\ job' = [job EXCEPT ![w].tree = tree]
    /\ UNCHANGED <<tree, file, main, tmp, wal, conn, crashes, broken>>

\* A mutant: a leftover that is complete is swapped in.
CreateTmpResume(w) ==
    /\ pc[w] = "create"
    /\ IF tmp # None /\ file[tmp] # Half
       THEN Goto(w, "swap") /\ UNCHANGED <<file, tmp, job>>
       ELSE /\ \E i \in Inodes :
                 /\ Free(i)
                 /\ file' = [file EXCEPT ![i] = Half]
                 /\ tmp' = i
                 /\ job' = [job EXCEPT ![w].inode = i]
            /\ Goto(w, "fill")
    /\ UNCHANGED <<tree, main, wal, conn, crashes, broken>>

(* save(): a leftover temp file is removed and a new one created.          *)
CreateTmp(w) ==
    /\ pc[w] = "create"
    /\ \E i \in Inodes :
         /\ Free(i)
         /\ file' = [file EXCEPT ![i] = Half]
         /\ tmp' = i
         /\ job' = [job EXCEPT ![w].inode = i]
    /\ Goto(w, "fill")
    /\ UNCHANGED <<tree, main, wal, conn, crashes, broken>>

\* A mutant: the temp file is looked up by name.
FillByName(w) ==
    /\ pc[w] = "fill"
    /\ IF tmp = None
       THEN Finish(w) /\ UNCHANGED file
       ELSE /\ file' = [file EXCEPT ![tmp] = Full(job[w].tree)]
            /\ Goto(w, "swap")
            /\ UNCHANGED job
    /\ UNCHANGED <<tree, main, tmp, wal, conn, crashes, broken>>

(* The one commit of the temp file, checkpointed before it is closed.      *)
Fill(w) ==
    /\ pc[w] = "fill"
    /\ file' = [file EXCEPT ![job[w].inode] = Full(job[w].tree)]
    /\ Goto(w, "swap")
    /\ UNCHANGED <<tree, main, tmp, wal, job, conn, crashes, broken>>

(* os.replace: whatever the temp name denotes becomes the live database.   *)
(* If another build took the temp file away, it raises.                    *)
Swap(w) ==
    /\ pc[w] = "swap"
    /\ IF tmp = None
       THEN Finish(w) /\ UNCHANGED <<main, tmp, broken>>
       ELSE /\ main' = tmp
            /\ tmp' = None
            /\ broken' = FALSE
            /\ Goto(w, "unlink")
            /\ UNCHANGED job
    /\ UNCHANGED <<tree, file, wal, conn, crashes>>

\* A mutant: they stay.
UnlinkNothing(w) ==
    /\ pc[w] = "unlink"
    /\ Goto(w, "stats")
    /\ UNCHANGED <<tree, file, main, tmp, wal, job, conn, crashes, broken>>

(* The sidecars are removed by name.  Connections that are still open on   *)
(* the replaced file keep its WAL; frames of the live file are lost.       *)
UnlinkWal(w) ==
    /\ pc[w] = "unlink"
    /\ file' = IF wal # None /\ wal.base # main THEN [file EXCEPT ![wal.base] = wal.db]
               ELSE file
    /\ wal' = None
    /\ Goto(w, "stats")
    /\ UNCHANGED <<tree, main, tmp, job, conn, crashes, broken>>

\* A mutant of Migrated: the table has no rows and no default.
MigratedUnset(db) == [db EXCEPT !.schema = "current", !.sums = None]

(* `update` without a database, or on a file without tables, builds.  An   *)
(* old schema is migrated first, in one transaction with its version key.  *)
Migrated(db) == [db EXCEPT !.schema = "current", !.sums = Missing]

StartUpdate(w) ==
    /\ pc[w] = "idle" /\ "update" \in Commands
    /\ \/ /\ View \in {None, Half}
          /\ Goto(w, "create")
          /\ job' = [job EXCEPT ![w].tree = tree]
          /\ UNCHANGED <<tree, file, main, tmp, wal, conn, crashes>>
       \/ /\ Readable /\ View.schema = "old"
          /\ CommitTx(w, Migrated(View), "scan")
          /\ UNCHANGED conn
       \/ /\ Readable /\ View.schema = "current"
          /\ Goto(w, "scan")
          /\ UNCHANGED <<tree, file, main, tmp, wal, job, conn, crashes>>
    /\ UNCHANGED broken

(* The stored hashes are read and the sources hashed; with no difference   *)
(* the update is over.                                                     *)
Scan(w) ==
    /\ pc[w] = "scan" /\ Readable
    /\ IF View.hash = tree
       THEN Finish(w)
       ELSE /\ Goto(w, "link")
            /\ job' = [job EXCEPT ![w].hash = View.hash, ![w].tree = tree]
    /\ UNCHANGED <<tree, file, main, tmp, wal, conn, crashes, broken>>

(* The stored design is read, in transactions of its own, and the changed  *)
(* sources linked against it: all sources again, or those in reach of a    *)
(* change on the whole graph in memory, or on the part of it they need.    *)
Link(w) ==
    /\ pc[w] = "link" /\ Readable
    /\ \E link \in {"full", "memory", "bounded"} :
         job' = [job EXCEPT ![w].seen = View.hash, ![w].link = link]
    /\ Goto(w, "commit")
    /\ UNCHANGED <<tree, file, main, tmp, wal, conn, crashes, broken>>

Touched(j) == {f \in Sources : j.hash[f] # j.tree[f]}

(* The delta: the rows of the changed sources, and the edges of every      *)
(* source that is changed or uses a changed one.  A full link derives the  *)
(* other tables in memory and writes them too; one on the whole graph in   *)
(* memory, the summaries.                                                  *)
Linked(j) == [x \in Sources |-> IF x \in Touched(j) THEN j.tree[x] ELSE j.seen[x]]
InReachOwn(j) == Touched(j)   \* a mutant: the changed sources only
InReach(j) == {f \in Sources : Reach(f) \intersect Touched(j) # {}}

Merged(j, db, all) ==
    [db EXCEPT !.hash = [f \in Sources |-> IF f \in Touched(j) THEN j.tree[f] ELSE @[f]],
               !.link = [f \in Sources |-> IF j.link = "full" \/ f \in InReach(j)
                                           THEN all[f] ELSE @[f]],
               !.covers = IF j.link = "full" THEN all ELSE @,
               !.sums = IF j.link = "bounded" THEN @ ELSE <<all, all>>]

Delta(j, db) == Merged(j, db, [f \in Sources |-> Edges(Linked(j), f)])

(* BEGIN IMMEDIATE ... COMMIT of save_incremental, which looks only at     *)
(* whether there is a database of this schema, and saves all otherwise.    *)
CommitDelta(w) ==
    /\ pc[w] = "commit" /\ View # Torn
    /\ IF Readable
       THEN /\ CommitTx(w, Delta(job[w], View), IF job[w].link = "full" THEN "stats" ELSE "covers")
            /\ conn' = [r \in Readers |->
                         IF conn[r] # None /\ conn[r].inode = main /\ conn[r].link = None
                         THEN [conn[r] EXCEPT !.moved = TRUE] ELSE conn[r]]
            /\ broken' = (broken /\ job[w].link # "full")
       ELSE /\ Goto(w, "create")
            /\ UNCHANGED <<tree, file, main, tmp, wal, job, conn, crashes, broken>>

(* TEST_COVERS edges, then summaries, each derived on one connection and   *)
(* replaced on the next.                                                   *)
Derive(w) ==
    /\ pc[w] \in {"covers", "sums"} /\ Readable
    /\ IF pc[w] = "covers"
       THEN Goto(w, "put covers") /\ job' = [job EXCEPT ![w].covers = View.link]
       ELSE Goto(w, "put sums") /\ job' = [job EXCEPT ![w].sums = <<View.link, View.covers>>]
    /\ UNCHANGED <<tree, file, main, tmp, wal, conn, crashes, broken>>

\* A mutant: on to the statistics, whatever the link was.
PutCoversOnly(w) ==
    /\ pc[w] = "put covers" /\ Readable
    /\ CommitTx(w, [View EXCEPT !.covers = job[w].covers], "stats")
    /\ broken' = (broken /\ job[w].link = "bounded")
    /\ UNCHANGED conn

PutCovers(w) ==
    /\ pc[w] = "put covers" /\ Readable
    /\ CommitTx(w, [View EXCEPT !.covers = job[w].covers],
                IF job[w].link = "bounded" THEN "sums" ELSE "stats")
    /\ broken' = (broken /\ job[w].link = "bounded")
    /\ UNCHANGED conn

PutSums(w) ==
    /\ pc[w] = "put sums" /\ Readable
    /\ CommitTx(w, [View EXCEPT !.sums = job[w].sums], "stats")
    /\ broken' = FALSE
    /\ UNCHANGED conn

(* set_meta("build_stats"): on a database without tables it only warns.    *)
Stats(w) ==
    /\ pc[w] = "stats"
    /\ \/ Readable /\ CommitTx(w, View, "idle")
       \/ ~Readable /\ Finish(w) /\ UNCHANGED <<tree, file, main, tmp, wal, crashes>>
    /\ UNCHANGED <<conn, broken>>

(* A writer dies.  An open transaction is rolled back by the next opener;  *)
(* temp file and WAL stay where they are.                                  *)
AfterDelta(w) ==
    \/ pc[w] \in {"covers", "put covers", "sums", "put sums"}
    \/ pc[w] = "fold" /\ job[w].next \in {"covers", "sums"}

Crash(w) ==
    /\ pc[w] # "idle" /\ crashes < MaxCrashes
    /\ crashes' = crashes + 1
    /\ broken' = (broken \/ AfterDelta(w))
    /\ Finish(w)
    /\ UNCHANGED <<tree, file, main, tmp, wal, conn>>

(***************************************************************************)
(* Readers: a query opens a connection, reads nodes, then edges.  Each     *)
(* SELECT is a read transaction of its own.                                *)
(***************************************************************************)
ReadNodes(r) ==
    /\ conn[r] = None
    /\ Readable /\ View.schema = "current"
    /\ conn' = [conn EXCEPT ![r] = [inode |-> main, hash |-> View.hash, link |-> None,
                                    moved |-> FALSE]]
    /\ UNCHANGED <<tree, file, main, tmp, wal, pc, job, crashes, broken>>

\* A mutant: through a connection of its own.
ReadEdgesAnew(r) ==
    /\ conn[r] # None /\ conn[r].link = None /\ Readable
    /\ conn' = [conn EXCEPT ![r].link = View.link]
    /\ UNCHANGED <<tree, file, main, tmp, wal, pc, job, crashes, broken>>

ReadEdges(r) ==
    /\ conn[r] # None /\ conn[r].link = None
    /\ conn' = [conn EXCEPT ![r].link = Through(conn[r].inode).link]
    /\ UNCHANGED <<tree, file, main, tmp, wal, pc, job, crashes, broken>>

Close(r) ==
    /\ conn[r] # None
    /\ conn' = [conn EXCEPT ![r] = None]
    /\ UNCHANGED <<tree, file, main, tmp, wal, pc, job, crashes, broken>>

Edit(f) ==
    /\ tree[f] < MaxVersion
    /\ tree' = [tree EXCEPT ![f] = @ + 1]
    /\ UNCHANGED <<file, main, tmp, wal, pc, job, conn, crashes, broken>>

Init ==
    /\ tree = [f \in Sources |-> 0]
    /\ file \in [Inodes -> {Half, Full(tree), [Full(tree) EXCEPT !.schema = "old"]}]
    /\ main \in Inodes \union {None}
    /\ \A i \in Inodes : file[i] = Half <=> i # main
    /\ tmp = None /\ wal = None
    /\ pc = [w \in Writers |-> "idle"]
    /\ job = [w \in Writers |-> NoJob]
    /\ conn = [r \in Readers |-> None]
    /\ crashes = 0
    /\ broken = FALSE

Step(w) ==
    \/ StartBuild(w) \/ CreateTmp(w) \/ Fill(w) \/ Swap(w) \/ UnlinkWal(w)
    \/ StartUpdate(w) \/ Scan(w) \/ Link(w) \/ CommitDelta(w)
    \/ Derive(w) \/ PutCovers(w) \/ PutSums(w) \/ Stats(w) \/ Fold(w)

Next ==
    \/ \E w \in Writers : Step(w)
    \/ \E w \in Writers : Crash(w)
    \/ \E r \in Readers : ReadNodes(r)
    \/ \E r \in Readers : ReadEdges(r)
    \/ \E r \in Readers : Close(r)
    \/ \E f \in Sources : Edit(f)

Spec == Init /\ [][Next]_vars

(***************************************************************************)
(* Properties                                                              *)
(***************************************************************************)
Links == [Sources -> [Sources -> 0..MaxVersion \union {None}]]

Contents ==
    [schema : {"old", "current"}, hash : Trees, link : Links, covers : Links,
     sums : (Links \X Links) \union {Missing}]

Wals == [base : Inodes, db : Contents]

Jobs ==
    [tree : Trees \union {None}, inode : Inodes \union {None}, hash : Trees \union {None},
     seen : Trees \union {None}, link : {"full", "memory", "bounded"},
     covers : Links \union {None}, sums : (Links \X Links) \union {None},
     next : {"idle", "scan", "covers", "sums", "stats"}]

Conns == [inode : Inodes, hash : Trees, link : Links \union {None}, moved : BOOLEAN]

Steps == {"idle", "create", "fill", "swap", "unlink", "scan", "link", "commit",
          "covers", "put covers", "sums", "put sums", "stats", "fold"}

\* The type invariant, of every variable.
TypeOK ==
    /\ tree \in Trees
    /\ file \in [Inodes -> Contents \union {Half}]
    /\ main \in Inodes \union {None}
    /\ tmp \in Inodes \union {None}
    /\ wal \in Wals \union {None}
    /\ pc \in [Writers -> Steps]
    /\ job \in [Writers -> Jobs]
    /\ conn \in [Readers -> Conns \union {None}]
    /\ crashes \in 0..MaxCrashes
    /\ broken \in BOOLEAN

(* What is no database, file, WAL or connection is none of them.           *)
ASSUME SpecialsAssumption ==
    /\ None # Half /\ None # Torn /\ Half # Torn
    /\ \A special \in {None, Half, Torn} : special \notin Contents
    /\ None \notin Inodes /\ None \notin Wals /\ None \notin Conns

(* save and save_incremental promise that readers and crashes meet "the    *)
(* old or the new complete database": its edges are those of the sources   *)
(* it says it holds.  (A file read through the WAL of the file it replaced *)
(* is the exception: between the swap and the removal of the sidecars, or  *)
(* after a crash there.)                                                   *)
Whole(db) == \A f \in Sources : db.link[f] = Edges(db.hash, f)
LiveWhole == View \notin {None, Torn} => View # Half /\ Whole(View)

(* A query reads its nodes and its edges from one database although they   *)
(* are two reads, through swaps, removed WALs, checkpoints, migrations and *)
(* crashes; only a delta committed to its file in between can mix them.    *)
QueryWhole ==
    \A r \in Readers :
        conn[r] # None /\ conn[r].link # None /\ ~conn[r].moved => Whole(conn[r])

(* The derived tables are those of the edges whenever no writer is at      *)
(* work, unless a crash came between the transactions of an update: then   *)
(* they wait for the next build, or the next update that finds a change.   *)
(* A migrated database has no summaries, and readers compute them.         *)
DerivedCurrent ==
    Readable /\ ~broken /\ (\A w \in Writers : pc[w] = "idle") =>
        /\ View.covers = View.link
        /\ View.sums \in {Missing, <<View.link, View.link>>}

(* No command, crash or restart takes the live database back to an older   *)
(* version of a source.                                                    *)
NoOlder ==
    View' \notin {None, Half, Torn} /\ Readable =>
        \A f \in Sources : View.hash[f] <= View'.hash[f]
NeverBack == [][NoOlder]_vars

(* When every writer has finished and none crashed, the database can be    *)
(* read, whatever the builds and updates did to each other: no half-built  *)
(* file is left in its place, and no WAL of a replaced file beside it.     *)
Settled ==
    crashes = 0 /\ (\A w \in Writers : pc[w] = "idle") => View \notin {Half, Torn}

(* What run_update's comment says of a database that "changed underneath   *)
(* us": a delta is only applied to the database it was computed from.      *)
OnItsBase ==
    \A w \in Writers : pc[w] = "commit" /\ pc'[w] = "fold" => View.hash = job[w].hash
DeltaOnItsBase == [][OnItsBase]_vars
==============================================================================
