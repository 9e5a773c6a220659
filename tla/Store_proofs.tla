---------------------------- MODULE Store_proofs ----------------------------
(* Any number of writers keep the types and, without crashes, settle.      *)
(* With one writer at a time, and however often it crashes, the database   *)
(* that can be read is whole, so is what a query reads, its derived tables *)
(* follow its edges and it never goes back to older sources.               *)
EXTENDS Store, TLAPS

(***************************************************************************)
(* The inductive invariant                                                 *)
(***************************************************************************)
(* What a writer has read, by the step it is at.                           *)
JobOK(w) ==
    /\ pc[w] \in {"create", "fill", "link", "commit"} => job[w].tree \in Trees
    /\ pc[w] = "fill" => job[w].inode = tmp /\ tmp # None
    /\ pc[w] \in {"link", "commit"} => job[w].hash \in Trees
    /\ pc[w] = "commit" => job[w].seen \in Trees
    /\ pc[w] = "put covers" => job[w].covers \in Links
    /\ pc[w] = "put sums" => job[w].sums \in Links \X Links

(* The writer at work knows the database it works on: nobody else writes.  *)
Knows(w) ==
    /\ pc[w] = "swap" => tmp # None /\ file[tmp] # Half /\ Whole(file[tmp])
    /\ pc[w] = "unlink" /\ wal # None => wal.base # main
    /\ pc[w] \in {"link", "commit"} /\ Readable => View.hash = job[w].hash
    /\ pc[w] = "commit" => job[w].seen = job[w].hash

(* The temp file is nobody else's.                                         *)
TmpApart ==
    tmp # None => /\ tmp # main
                  /\ ~Held(tmp)
                  /\ wal # None => wal.base # tmp

MainWhole == main # None => file[main] # Half /\ Whole(file[main])
WalWhole  == wal # None => Whole(wal.db)

(* What a query is reading, and what it has read.                          *)
ConnOK(r) ==
    conn[r] # None =>
        /\ file[conn[r].inode] # Half
        /\ Whole(Through(conn[r].inode))
        /\ ~conn[r].moved => /\ conn[r].link = None => Through(conn[r].inode).hash = conn[r].hash
                             /\ conn[r].link # None => Whole(conn[r])

IInv ==
    /\ TypeOK
    /\ \A w \in Writers : JobOK(w) /\ Knows(w)
    /\ TmpApart /\ MainWhole /\ WalWhole
    /\ \A r \in Readers : ConnOK(r)

OneWriter == \A w, v \in Writers : w = v

(***************************************************************************)
(* The operators: types, and whole databases                               *)
(***************************************************************************)
LEMMA EdgesType ==
    ASSUME NEW t \in Trees, NEW f \in Sources
    PROVE  Edges(t, f) \in [Sources -> 0..MaxVersion \union {None}]
BY DEF Edges, Trees

\* What a full build writes is a database, and a whole one.
LEMMA FullWhole ==
    ASSUME NEW t \in Trees
    PROVE  Full(t) \in Contents /\ Whole(Full(t)) /\ Full(t).hash = t
<1> DEFINE link == [f \in Sources |-> Edges(t, f)]
<1>1. link \in Links
  BY EdgesType DEF Links
<1>2. Full(t) = [schema |-> "current", hash |-> t, link |-> link,
                 covers |-> link, sums |-> <<link, link>>]
  BY DEF Full
<1>3. Full(t) \in Contents
  <2> HIDE DEF link
  <2> QED BY <1>1, <1>2 DEF Contents
<1>4. Whole(Full(t))
  BY <1>2 DEF Whole
<1> QED BY <1>2, <1>3, <1>4

\* A job that knows the database it links against.
Linking(j, db) ==
    j.tree \in Trees /\ j.hash = db.hash /\ j.seen = db.hash

\* The hashes an update computes its rows for: the scanned ones in its scope,
\* the stored ones elsewhere.
LEMMA LinkedType ==
    ASSUME NEW j, NEW db \in Contents, Linking(j, db)
    PROVE  /\ Linked(j) \in Trees
           /\ Linked(j) = [f \in Sources |-> IF f \in Touched(j) THEN j.tree[f] ELSE db.hash[f]]
BY DEF Linking, Linked, Trees, Contents

\* A delta on the database it was computed from leaves it whole: what is
\* out of reach of a change keeps edges that are still right.
LEMMA DeltaWhole ==
    ASSUME NEW j \in Jobs, NEW db \in Contents, Linking(j, db), Whole(db)
    PROVE  Delta(j, db) \in Contents /\ Whole(Delta(j, db))
<1> DEFINE all  == [f \in Sources |-> Edges(Linked(j), f)]
           hash == [f \in Sources |-> IF f \in Touched(j) THEN j.tree[f] ELSE db.hash[f]]
           link == [f \in Sources |-> IF j.link = "full" \/ f \in InReach(j)
                                      THEN all[f] ELSE db.link[f]]
           covers == IF j.link = "full" THEN all ELSE db.covers
           sums == IF j.link = "bounded" THEN db.sums ELSE <<all, all>>
<1>1. Linked(j) = hash /\ hash \in Trees
  BY LinkedType
<1>2. all \in Links
  BY <1>1, EdgesType DEF Links
<1>3. link \in Links
  BY <1>2 DEF Links, Contents
<1>4. covers \in Links /\ sums \in (Links \X Links) \union {Missing}
  <2> HIDE DEF all
  <2> QED BY <1>2 DEF Contents
<1>5. Delta(j, db) = [db EXCEPT !.hash = hash, !.link = link, !.covers = covers, !.sums = sums]
  BY DEF Delta, Merged
<1>6. Delta(j, db) \in Contents
  <2> HIDE DEF all, hash, link, covers, sums
  <2> QED BY <1>1, <1>3, <1>4, <1>5 DEF Contents
<1>7. Delta(j, db).hash = hash /\ Delta(j, db).link = link
  <2> HIDE DEF all, hash, link, covers, sums
  <2> QED BY <1>5 DEF Contents
<1>8. ASSUME NEW f \in Sources PROVE link[f] = Edges(hash, f)
  <2>1. CASE j.link = "full" \/ f \in InReach(j)
    BY <2>1, <1>1
  <2>2. CASE ~(j.link = "full" \/ f \in InReach(j))
    <3>1. Reach(f) \intersect Touched(j) = {}
      BY <2>2 DEF InReach
    <3>2. \A x \in Sources : x \in Reach(f) => hash[x] = db.hash[x]
      BY <3>1
    <3>3. Edges(hash, f) = Edges(db.hash, f)
      <4> HIDE DEF hash
      <4> QED BY <3>2 DEF Edges
    <3> QED BY <2>2, <3>3 DEF Whole
  <2> QED BY <2>1, <2>2
<1>9. Whole(Delta(j, db))
  <2> HIDE DEF hash, link
  <2> QED BY <1>7, <1>8 DEF Whole
<1> QED BY <1>6, <1>9

(***************************************************************************)
(* What can be read                                                        *)
(***************************************************************************)
LEMMA ThroughType ==
    ASSUME TypeOK, NEW i \in Inodes, file[i] # Half
    PROVE  Through(i) \in Contents
BY DEF TypeOK, Through, Wals

\* A live database that can be read is a file, with no WAL or with its own.
LEMMA ReadableView ==
    ASSUME TypeOK, Readable
    PROVE  /\ main \in Inodes /\ main # None
           /\ View = Through(main)
           /\ View \in Contents
           /\ wal # None => wal.base = main
BY SpecialsAssumption DEF TypeOK, Readable, View, Through, Wals

\* What a connection opened now reads is whole, and its file is filled.
LEMMA ReadableWhole ==
    ASSUME TypeOK, MainWhole, WalWhole, Readable
    PROVE  Whole(View) /\ file[main] # Half
BY ReadableView DEF MainWhole, WalWhole, Through

(***************************************************************************)
(* The steps                                                               *)
(***************************************************************************)
\* A step of w that leaves the files, names and WAL as they are.
LEMMA StillFiles ==
    ASSUME UNCHANGED <<file, main, wal>>
    PROVE  /\ View' = View /\ Readable' = Readable
           /\ \A i : Through(i)' = Through(i)
BY DEF View, Readable, Through

\* There is nothing on disk and nobody at work.
LEMMA Initially ==
    ASSUME Init PROVE IInv
<1> USE DEF Init
<1> DEFINE old == [Full(tree) EXCEPT !.schema = "old"]
<1>1. tree \in Trees
  BY BoundsAssumption DEF Trees
<1>2. Full(tree) \in Contents /\ Whole(Full(tree))
  BY <1>1, FullWhole
<1>3. old \in Contents /\ Whole(old)
  <2>1. old \in Contents
    BY <1>2 DEF Contents
  <2>2. old.hash = Full(tree).hash /\ old.link = Full(tree).link
    BY <1>2 DEF Contents
  <2> QED BY <1>2, <2>1, <2>2 DEF Whole
<1>4. \A i \in Inodes : file[i] = Half \/ (file[i] \in Contents /\ Whole(file[i]))
  BY <1>2, <1>3
<1>5. TypeOK
  <2>1. file \in [Inodes -> Contents \union {Half}]
    BY <1>2, <1>3
  <2>2. job \in [Writers -> Jobs]
    BY DEF NoJob, Jobs
  <2>3. pc \in [Writers -> Steps] /\ conn \in [Readers -> Conns \union {None}]
    BY DEF Steps
  <2>4. crashes \in 0..MaxCrashes
    BY BoundsAssumption
  <2> QED BY <1>1, <2>1, <2>2, <2>3, <2>4 DEF TypeOK
<1>6. \A w \in Writers : JobOK(w) /\ Knows(w)
  BY DEF JobOK, Knows
<1>7. TmpApart /\ WalWhole /\ \A r \in Readers : ConnOK(r)
  BY DEF TmpApart, WalWhole, ConnOK
<1>8. MainWhole
  BY <1>4 DEF MainWhole
<1> QED BY <1>5, <1>6, <1>7, <1>8 DEF IInv

\* What a step may put in a job.
LEMMA JobFields ==
    ASSUME NEW j \in Jobs
    PROVE  /\ \A t \in Trees : [j EXCEPT !.tree = t] \in Jobs
           /\ \A i \in Inodes : [j EXCEPT !.inode = i] \in Jobs
           /\ \A t, u \in Trees : [j EXCEPT !.hash = t, !.tree = u] \in Jobs
           /\ \A t \in Trees, l \in {"full", "memory", "bounded"} :
                  [j EXCEPT !.seen = t, !.link = l] \in Jobs
           /\ \A c \in Links : [j EXCEPT !.covers = c] \in Jobs
           /\ \A c \in Links \X Links : [j EXCEPT !.sums = c] \in Jobs
           /\ \A n \in {"idle", "scan", "covers", "sums", "stats"} : [j EXCEPT !.next = n] \in Jobs
           /\ NoJob \in Jobs
<1>1. \A t \in Trees : [j EXCEPT !.tree = t] \in Jobs
  BY DEF Jobs
<1>2. \A i \in Inodes : [j EXCEPT !.inode = i] \in Jobs
  BY DEF Jobs
<1>3. \A t, u \in Trees : [j EXCEPT !.hash = t, !.tree = u] \in Jobs
  BY DEF Jobs
<1>4. \A t \in Trees, l \in {"full", "memory", "bounded"} : [j EXCEPT !.seen = t, !.link = l] \in Jobs
  BY DEF Jobs
<1>5. \A c \in Links : [j EXCEPT !.covers = c] \in Jobs
  BY DEF Jobs
<1>6. ASSUME NEW c \in Links \X Links PROVE [j EXCEPT !.sums = c] \in Jobs
  BY DEF Jobs
<1>7. \A n \in {"idle", "scan", "covers", "sums", "stats"} : [j EXCEPT !.next = n] \in Jobs
  BY DEF Jobs
<1>8. NoJob \in Jobs
  BY DEF Jobs, NoJob
<1> QED BY <1>1, <1>2, <1>3, <1>4, <1>5, <1>6, <1>7, <1>8

\* A transaction that writes a whole database keeps the invariant, if it
\* writes the sources it found or tells the queries that it moved on.
LEMMA Transaction ==
    ASSUME OneWriter, IInv, NEW w \in Writers, NEW db \in Contents, Readable, Whole(db),
           NEW next \in {"idle", "scan", "covers", "sums", "stats"},
           CommitTx(w, db, next), broken' \in BOOLEAN,
           conn' \in [Readers -> Conns \union {None}],
           \A r \in Readers :
               /\ conn'[r] # None => /\ conn[r] # None
                                     /\ conn'[r].inode = conn[r].inode
                                     /\ conn'[r].link = conn[r].link
                                     /\ conn'[r].hash = conn[r].hash
                                     /\ ~conn'[r].moved => ~conn[r].moved
               /\ conn'[r] # None /\ conn'[r].inode = main /\ conn'[r].link = None =>
                      conn'[r].moved \/ db.hash = View.hash
    PROVE  IInv'
<1>1. /\ main \in Inodes /\ main # None /\ View = Through(main) /\ View \in Contents
      /\ wal # None => wal.base = main
  BY ReadableView DEF IInv
<1>2. /\ wal' = [base |-> main, db |-> db] /\ wal' \in Wals /\ wal' # None
      /\ wal'.base = main /\ wal'.db = db
  BY <1>1, SpecialsAssumption DEF CommitTx, Wals
<1>3. pc' = [pc EXCEPT ![w] = "fold"] /\ pc'[w] = "fold" /\ job' = [job EXCEPT ![w].next = next]
  BY DEF CommitTx, Goto, IInv, TypeOK
<1>4. UNCHANGED <<tree, file, main, tmp, crashes>>
  BY DEF CommitTx
<1>5. TypeOK'
  <2>1. pc' \in [Writers -> Steps]
    BY <1>3 DEF IInv, TypeOK, Steps
  <2>2. job' \in [Writers -> Jobs]
    <3>1. job' = [job EXCEPT ![w] = [job[w] EXCEPT !.next = next]]
      BY <1>3 DEF IInv, TypeOK
    <3>2. [job[w] EXCEPT !.next = next] \in Jobs
      BY JobFields DEF IInv, TypeOK
    <3> QED BY <3>1, <3>2 DEF IInv, TypeOK
  <2> QED BY <1>2, <1>4, <2>1, <2>2 DEF IInv, TypeOK
<1>6. \A v \in Writers : JobOK(v)' /\ Knows(v)'
  BY <1>3 DEF OneWriter, JobOK, Knows
<1>7. TmpApart'
  BY <1>2, <1>4 DEF IInv, TmpApart, Held
<1>8. MainWhole' /\ WalWhole'
  BY <1>2, <1>4 DEF IInv, MainWhole, WalWhole, Whole
<1>9. ASSUME NEW r \in Readers PROVE ConnOK(r)'
  <2> SUFFICES ASSUME conn'[r] # None PROVE ConnOK(r)'
    BY DEF ConnOK
  <2>1. ConnOK(r) /\ conn[r] # None
    BY DEF IInv
  <2>2. PICK i : i = conn[r].inode /\ i = conn'[r].inode
    OBVIOUS
  <2>3. file'[i] # Half /\ Whole(Through(i))
    BY <1>4, <2>1, <2>2 DEF ConnOK
  <2>4. CASE i = main
    <3>1. Through(i)' = db /\ Through(i) = View
      BY <1>1, <1>2, <2>4 DEF Through
    <3>2. Whole(Through(i)')
      BY <3>1
    <3>3. conn'[r].link = None /\ ~conn'[r].moved => Through(i)'.hash = conn'[r].hash
      BY <2>1, <2>2, <2>4, <3>1 DEF ConnOK
    <3> QED BY <2>1, <2>2, <2>3, <3>2, <3>3 DEF ConnOK, Through, Whole
  <2>5. CASE i # main
    <3>1. Through(i)' = Through(i)
      BY <1>1, <1>2, <1>4, <2>5 DEF Through
    <3> QED BY <2>1, <2>2, <2>3, <3>1 DEF ConnOK, Through, Whole
  <2> QED BY <2>4, <2>5
<1> QED BY <1>5, <1>6, <1>7, <1>8, <1>9 DEF IInv

\* A step that only reads: pc and job change.
LEMMA Reading ==
    ASSUME IInv, UNCHANGED <<file, main, tmp, wal, conn>>,
           tree' \in Trees, pc' \in [Writers -> Steps], job' \in [Writers -> Jobs],
           crashes' \in 0..MaxCrashes, broken' \in BOOLEAN,
           \A w \in Writers : JobOK(w)' /\ Knows(w)'
    PROVE  IInv'
<1>1. \A i : Through(i)' = Through(i)
  BY StillFiles
<1>2. TypeOK'
  BY DEF IInv, TypeOK
<1>3. TmpApart' /\ MainWhole' /\ WalWhole'
  BY DEF IInv, TmpApart, Held, MainWhole, WalWhole, Whole
<1>4. ASSUME NEW r \in Readers PROVE ConnOK(r)'
  <2>1. ConnOK(r)
    BY DEF IInv
  <2>2. Through(conn[r].inode)' = Through(conn[r].inode)
    BY DEF Through
  <2> QED BY <2>1, <2>2 DEF ConnOK, Whole
<1> QED BY <1>2, <1>3, <1>4 DEF IInv

\* A checkpoint moves committed frames into the file they were written for:
\* the view stays.
LEMMA FoldStep ==
    ASSUME OneWriter, IInv, NEW w \in Writers, Fold(w) PROVE IInv'
<1>1. pc[w] = "fold" /\ UNCHANGED <<tree, main, tmp, conn, crashes, broken>>
  BY DEF Fold
<1>2. ASSUME NEW i \in Inodes PROVE Through(i)' = Through(i)
  <2>1. CASE Checkpointed
    <3>1. CASE wal = None
      BY <2>1, <3>1 DEF Checkpointed, Through
    <3>2. CASE wal # None
      BY <2>1, <3>2 DEF Checkpointed, Through, IInv, TypeOK
    <3> QED BY <3>1, <3>2
  <2>2. CASE UNCHANGED <<file, wal>>
    BY <2>2 DEF Through
  <2> QED BY <2>1, <2>2 DEF Fold
<1>3. /\ file' \in [Inodes -> Contents \union {Half}]
      /\ \A i \in Inodes : file[i] # Half => file'[i] # Half
      /\ wal' \in Wals \union {None} /\ (wal' # None => wal' = wal)
  BY SpecialsAssumption DEF Fold, Checkpointed, IInv, TypeOK, Wals
<1>4. /\ job' \in [Writers -> Jobs] /\ pc' \in [Writers -> Steps]
      /\ pc'[w] \in {"idle", "scan", "covers", "sums", "stats"}
  <2>1. job[w] \in Jobs /\ job[w].next \in {"idle", "scan", "covers", "sums", "stats"}
    BY DEF IInv, TypeOK, Jobs
  <2>2. NoJob \in Jobs
    BY DEF NoJob, Jobs
  <2> QED BY <2>1, <2>2 DEF Fold, Finish, Goto, IInv, TypeOK, Steps
<1>5. TypeOK'
  BY <1>1, <1>3, <1>4 DEF IInv, TypeOK
<1>6. \A v \in Writers : JobOK(v)' /\ Knows(v)'
  BY <1>4 DEF OneWriter, JobOK, Knows
<1>7. TmpApart' /\ WalWhole'
  BY <1>1, <1>3 DEF IInv, TmpApart, WalWhole, Held, Whole
<1>8. MainWhole'
  <2> SUFFICES ASSUME main # None PROVE file'[main] # Half /\ Whole(file'[main])
    BY <1>1 DEF MainWhole, Whole
  <2>1. file[main] # Half /\ Whole(file[main]) /\ main \in Inodes
    BY DEF IInv, MainWhole, TypeOK
  <2>2. file'[main] = file[main] \/ (wal # None /\ file'[main] = wal.db)
    BY <2>1 DEF Fold, Checkpointed, IInv, TypeOK
  <2> QED BY <1>3, <2>1, <2>2 DEF IInv, WalWhole
<1>9. ASSUME NEW r \in Readers PROVE ConnOK(r)'
  <2>1. ConnOK(r) /\ conn'[r] = conn[r]
    BY <1>1 DEF IInv
  <2>2. PICK i : i = conn[r].inode
    OBVIOUS
  <2>3. conn[r] # None => i \in Inodes
    BY <2>2 DEF IInv, TypeOK, Conns
  <2>4. conn[r] # None => Through(i)' = Through(i)
    BY <1>2, <2>3
  <2> QED BY <1>1, <1>3, <2>1, <2>2, <2>3, <2>4 DEF ConnOK, Through, Whole
<1> QED BY <1>5, <1>6, <1>7, <1>8, <1>9 DEF IInv

\* A build reads the tree and touches no file.
LEMMA StartBuildStep ==
    ASSUME OneWriter, IInv, NEW w \in Writers, StartBuild(w) PROVE IInv'
<1>1. pc' = [pc EXCEPT ![w] = "create"] /\ job' = [job EXCEPT ![w].tree = tree]
  BY DEF StartBuild, Goto
<1>2. pc' \in [Writers -> Steps] /\ job' \in [Writers -> Jobs]
  BY <1>1, JobFields DEF IInv, TypeOK, Steps
<1>3. ASSUME NEW v \in Writers PROVE JobOK(v)' /\ Knows(v)'
  <2>1. pc'[v] = "create" /\ job'[v].tree = tree
    BY <1>1 DEF OneWriter, IInv, TypeOK, Jobs
  <2> QED BY <2>1 DEF JobOK, Knows, StartBuild, IInv, TypeOK
<1> QED BY <1>2, <1>3, Reading DEF StartBuild, IInv, TypeOK

\* The temp file gets an inode that is neither live, nor held by a reader, nor
\* the base of the WAL.
LEMMA CreateTmpStep ==
    ASSUME OneWriter, IInv, NEW w \in Writers, CreateTmp(w) PROVE IInv'
<1>1. PICK i \in Inodes : /\ Free(i)
                          /\ file' = [file EXCEPT ![i] = Half]
                          /\ tmp' = i
                          /\ job' = [job EXCEPT ![w].inode = i]
  BY DEF CreateTmp
<1>2. /\ pc[w] = "create" /\ pc' = [pc EXCEPT ![w] = "fill"]
      /\ UNCHANGED <<tree, main, wal, conn, crashes, broken>>
  BY DEF CreateTmp, Goto
<1>3. TypeOK'
  <2>1. pc' \in [Writers -> Steps] /\ job' \in [Writers -> Jobs]
    BY <1>1, <1>2, JobFields DEF IInv, TypeOK, Steps
  <2>2. file' \in [Inodes -> Contents \union {Half}]
    BY <1>1 DEF IInv, TypeOK
  <2> QED BY <1>1, <1>2, <2>1, <2>2 DEF IInv, TypeOK
<1>4. i # main /\ i # None /\ ~Held(i) /\ (wal # None => wal.base # i)
  BY <1>1, SpecialsAssumption DEF Free
<1>5. ASSUME NEW v \in Writers PROVE JobOK(v)' /\ Knows(v)'
  <2>1. pc'[v] = "fill" /\ job'[v].inode = i /\ job'[v].tree = job[v].tree
    BY <1>1, <1>2 DEF OneWriter, IInv, TypeOK, Jobs
  <2>2. job[v].tree \in Trees
    BY <1>2 DEF OneWriter, IInv, JobOK
  <2> QED BY <1>1, <1>4, <2>1, <2>2 DEF JobOK, Knows, Trees
<1>6. TmpApart' /\ WalWhole'
  BY <1>1, <1>2, <1>4 DEF IInv, TmpApart, Held, WalWhole, Whole
<1>7. MainWhole'
  BY <1>1, <1>2, <1>4 DEF IInv, TypeOK, MainWhole, Whole
<1>8. ASSUME NEW r \in Readers PROVE ConnOK(r)'
  <2>1. ConnOK(r) /\ (conn[r] # None => conn[r].inode # i)
    BY <1>4 DEF IInv, Held
  <2> QED BY <1>1, <1>2, <2>1 DEF ConnOK, Through, Whole, IInv, TypeOK
<1> QED BY <1>3, <1>5, <1>6, <1>7, <1>8 DEF IInv

\* Only the temp inode is written, with all rows of the tree the build read.
LEMMA FillStep ==
    ASSUME OneWriter, IInv, NEW w \in Writers, Fill(w) PROVE IInv'
<1> DEFINE db == Full(job[w].tree)
<1>1. pc[w] = "fill" /\ JobOK(w) /\ TmpApart
  BY DEF Fill, IInv
<1>2. /\ tmp \in Inodes /\ tmp # None /\ file' = [file EXCEPT ![tmp] = db]
      /\ pc' = [pc EXCEPT ![w] = "swap"]
      /\ UNCHANGED <<tree, main, tmp, wal, job, conn, crashes, broken>>
  BY <1>1 DEF Fill, Goto, JobOK, IInv, TypeOK
<1>3. db \in Contents /\ Whole(db) /\ db # Half
  BY <1>1, FullWhole, SpecialsAssumption DEF JobOK
<1> HIDE DEF db
<1>4. file'[tmp] = db
  BY <1>2 DEF IInv, TypeOK
<1>5. TypeOK'
  <2>1. pc' \in [Writers -> Steps]
    BY <1>2 DEF IInv, TypeOK, Steps
  <2>2. file' \in [Inodes -> Contents \union {Half}]
    BY <1>2, <1>3 DEF IInv, TypeOK
  <2> QED BY <1>2, <2>1, <2>2 DEF IInv, TypeOK
<1>6. ASSUME NEW v \in Writers PROVE JobOK(v)' /\ Knows(v)'
  <2>1. pc'[v] = "swap"
    BY <1>2 DEF OneWriter, IInv, TypeOK
  <2> QED BY <1>2, <1>3, <1>4, <2>1 DEF JobOK, Knows, Whole
<1>7. TmpApart' /\ WalWhole'
  BY <1>2 DEF IInv, TmpApart, Held, WalWhole, Whole
<1>8. MainWhole'
  BY <1>1, <1>2 DEF IInv, TypeOK, TmpApart, MainWhole, Whole
<1>9. ASSUME NEW r \in Readers PROVE ConnOK(r)'
  <2>1. ConnOK(r) /\ (conn[r] # None => conn[r].inode # tmp)
    BY <1>1, <1>2 DEF IInv, TmpApart, Held
  <2> QED BY <1>2, <2>1 DEF ConnOK, Through, Whole, IInv, TypeOK
<1> QED BY <1>5, <1>6, <1>7, <1>8, <1>9 DEF IInv

\* What becomes live is the file this build has filled; an old WAL stays, and
\* is not its own.
LEMMA SwapStep ==
    ASSUME OneWriter, IInv, NEW w \in Writers, Swap(w) PROVE IInv'
<1>1. pc[w] = "swap" /\ tmp # None /\ file[tmp] # Half /\ Whole(file[tmp])
  BY DEF Swap, IInv, Knows
<1>2. /\ main' = tmp /\ tmp' = None /\ broken' = FALSE /\ pc' = [pc EXCEPT ![w] = "unlink"]
      /\ UNCHANGED <<tree, file, wal, job, conn, crashes>>
  BY <1>1 DEF Swap, Goto
<1>3. TypeOK'
  <2>1. pc' \in [Writers -> Steps]
    BY <1>2 DEF IInv, TypeOK, Steps
  <2> QED BY <1>2, <2>1 DEF IInv, TypeOK
<1>4. ASSUME NEW v \in Writers PROVE JobOK(v)' /\ Knows(v)'
  <2>1. pc'[v] = "unlink"
    BY <1>2 DEF OneWriter, IInv, TypeOK
  <2>2. wal # None => wal.base # tmp
    BY <1>1 DEF IInv, TmpApart
  <2> QED BY <1>2, <2>1, <2>2 DEF JobOK, Knows
<1>5. TmpApart' /\ MainWhole' /\ WalWhole'
  BY <1>1, <1>2 DEF IInv, TmpApart, MainWhole, WalWhole, Whole
<1>6. ASSUME NEW r \in Readers PROVE ConnOK(r)'
  <2>1. ConnOK(r)
    BY DEF IInv
  <2> QED BY <1>2, <2>1 DEF ConnOK, Through, Whole
<1> QED BY <1>3, <1>4, <1>5, <1>6 DEF IInv

\* With the sidecar gone the live file is read as it was filled.
LEMMA UnlinkWalStep ==
    ASSUME OneWriter, IInv, NEW w \in Writers, UnlinkWal(w) PROVE IInv'
<1>1. pc[w] = "unlink" /\ (wal # None => wal.base # main)
  BY DEF UnlinkWal, IInv, Knows
<1>2. /\ wal' = None /\ pc' = [pc EXCEPT ![w] = "stats"]
      /\ UNCHANGED <<tree, main, tmp, job, conn, crashes, broken>>
  BY DEF UnlinkWal, Goto
<1>3. file' = IF wal = None THEN file ELSE [file EXCEPT ![wal.base] = wal.db]
  BY <1>1 DEF UnlinkWal
<1>4. /\ file' \in [Inodes -> Contents \union {Half}]
      /\ \A i \in Inodes : file[i] # Half => file'[i] # Half
  BY <1>3, SpecialsAssumption DEF IInv, TypeOK, Wals
<1>5. \A i \in Inodes : Through(i)' = Through(i)
  BY <1>2, <1>3 DEF Through, IInv, TypeOK
<1>6. TypeOK'
  <2>1. pc' \in [Writers -> Steps]
    BY <1>2 DEF IInv, TypeOK, Steps
  <2> QED BY <1>2, <1>4, <2>1 DEF IInv, TypeOK
<1>7. ASSUME NEW v \in Writers PROVE JobOK(v)' /\ Knows(v)'
  <2>1. pc'[v] = "stats"
    BY <1>2 DEF OneWriter, IInv, TypeOK
  <2> QED BY <2>1 DEF JobOK, Knows
<1>8. TmpApart' /\ WalWhole'
  BY <1>2 DEF IInv, TmpApart, Held, WalWhole
<1>9. MainWhole'
  <2>1. main # None => file'[main] = file[main]
    BY <1>1, <1>3 DEF IInv, TypeOK
  <2> QED BY <1>2, <2>1 DEF IInv, MainWhole, Whole
<1>10. ASSUME NEW r \in Readers PROVE ConnOK(r)'
  <2>1. ConnOK(r) /\ conn'[r] = conn[r]
    BY <1>2 DEF IInv
  <2>2. PICK i : i = conn[r].inode
    OBVIOUS
  <2>3. conn[r] # None => i \in Inodes
    BY <2>2 DEF IInv, TypeOK, Conns
  <2>4. conn[r] # None => Through(i)' = Through(i)
    BY <1>5, <2>3
  <2> QED BY <1>2, <1>4, <2>1, <2>2, <2>3, <2>4 DEF ConnOK, Through, Whole
<1> QED BY <1>6, <1>7, <1>8, <1>9, <1>10 DEF IInv

\* A transaction that keeps sources and edges of what it found.
LEMMA SideTransaction ==
    ASSUME OneWriter, IInv, NEW w \in Writers, NEW db \in Contents, Readable,
           db.hash = View.hash, db.link = View.link,
           NEW next \in {"idle", "scan", "covers", "sums", "stats"},
           CommitTx(w, db, next), broken' \in BOOLEAN, conn' = conn
    PROVE  IInv'
<1>1. Whole(db)
  BY ReadableWhole DEF IInv, Whole
<1> QED BY <1>1, Transaction DEF IInv, TypeOK

\* Migration writes schema and rows in one transaction, through the WAL.
LEMMA StartUpdateStep ==
    ASSUME OneWriter, IInv, NEW w \in Writers, StartUpdate(w) PROVE IInv'
<1>0. broken' = broken /\ broken \in BOOLEAN
  BY DEF StartUpdate, IInv, TypeOK
<1>1. CASE View \in {None, Half} /\ Goto(w, "create") /\ job' = [job EXCEPT ![w].tree = tree]
           /\ UNCHANGED <<tree, file, main, tmp, wal, conn, crashes>>
  <2>1. pc' \in [Writers -> Steps] /\ job' \in [Writers -> Jobs]
    BY <1>1, JobFields DEF Goto, IInv, TypeOK, Steps
  <2>2. ASSUME NEW v \in Writers PROVE JobOK(v)' /\ Knows(v)'
    <3>1. pc'[v] = "create" /\ job'[v].tree = tree
      BY <1>1 DEF OneWriter, Goto, IInv, TypeOK, Jobs
    <3> QED BY <1>1, <3>1 DEF JobOK, Knows, IInv, TypeOK
  <2> QED BY <1>0, <1>1, <2>1, <2>2, Reading DEF IInv, TypeOK
<1>2. CASE Readable /\ CommitTx(w, Migrated(View), "scan") /\ UNCHANGED conn
  <2>1. View \in Contents
    BY <1>2, ReadableView DEF IInv
  <2>2. /\ Migrated(View) \in Contents
        /\ Migrated(View).hash = View.hash /\ Migrated(View).link = View.link
    BY <2>1 DEF Migrated, Contents
  <2> QED BY <1>0, <1>2, <2>2, SideTransaction
<1>3. CASE Readable /\ Goto(w, "scan")
           /\ UNCHANGED <<tree, file, main, tmp, wal, job, conn, crashes>>
  <2>1. pc' \in [Writers -> Steps]
    BY <1>3 DEF Goto, IInv, TypeOK, Steps
  <2>2. ASSUME NEW v \in Writers PROVE JobOK(v)' /\ Knows(v)'
    <3>1. pc'[v] = "scan"
      BY <1>3 DEF OneWriter, Goto, IInv, TypeOK
    <3> QED BY <3>1 DEF JobOK, Knows
  <2> QED BY <1>0, <1>3, <2>1, <2>2, Reading DEF IInv, TypeOK
<1> QED BY <1>1, <1>2, <1>3 DEF StartUpdate

\* A writer that returns forgets its job.
LEMMA FinishJob ==
    ASSUME IInv, NEW w \in Writers, Finish(w)
    PROVE  /\ pc' \in [Writers -> Steps] /\ pc'[w] = "idle"
           /\ job' \in [Writers -> Jobs]
BY JobFields DEF Finish, Goto, IInv, TypeOK, Steps

\* An update loads the hashes of a database that is whole.
LEMMA ScanStep ==
    ASSUME OneWriter, IInv, NEW w \in Writers, Scan(w) PROVE IInv'
<1>1. View \in Contents /\ View.hash \in Trees /\ View' = View
  BY ReadableView, StillFiles DEF Scan, IInv, Contents
<1>2. /\ pc' \in [Writers -> Steps] /\ job' \in [Writers -> Jobs]
      /\ \A v \in Writers : JobOK(v)' /\ Knows(v)'
  <2>1. CASE Finish(w)
    BY <2>1, FinishJob DEF OneWriter, JobOK, Knows
  <2>2. CASE /\ Goto(w, "link")
             /\ job' = [job EXCEPT ![w].hash = View.hash, ![w].tree = tree]
    <3>1. job' = [job EXCEPT ![w] = [job[w] EXCEPT !.hash = View.hash, !.tree = tree]]
      BY <2>2 DEF IInv, TypeOK
    <3>2. pc' \in [Writers -> Steps] /\ job' \in [Writers -> Jobs]
      <4>1. [job[w] EXCEPT !.hash = View.hash, !.tree = tree] \in Jobs
        BY <1>1, JobFields DEF IInv, TypeOK
      <4> QED BY <2>2, <3>1, <4>1 DEF Goto, IInv, TypeOK, Steps
    <3>3. ASSUME NEW v \in Writers PROVE JobOK(v)' /\ Knows(v)'
      <4>1. pc'[v] = "link" /\ job'[v].tree = tree /\ job'[v].hash = View.hash
        BY <2>2, <3>1 DEF OneWriter, Goto, IInv, TypeOK, Jobs
      <4> QED BY <1>1, <4>1 DEF JobOK, Knows, IInv, TypeOK, Scan
    <3> QED BY <3>2, <3>3
  <2> QED BY <2>1, <2>2 DEF Scan
<1> QED BY <1>2, Reading DEF Scan, IInv, TypeOK

\* With one writer, what is loaded for the link is still what was scanned.
LEMMA LinkStep ==
    ASSUME OneWriter, IInv, NEW w \in Writers, Link(w) PROVE IInv'
<1>1. /\ View \in Contents /\ View.hash \in Trees
      /\ View' = View /\ pc[w] = "link" /\ Readable
  BY ReadableView, StillFiles DEF Link, IInv, Contents
<1>2. PICK l \in {"full", "memory", "bounded"} :
          job' = [job EXCEPT ![w] = [job[w] EXCEPT !.seen = View.hash, !.link = l]]
  BY DEF Link, IInv, TypeOK
<1>3. /\ job' \in [Writers -> Jobs]
      /\ pc' = [pc EXCEPT ![w] = "commit"] /\ pc' \in [Writers -> Steps]
  BY <1>1, <1>2, JobFields DEF Link, Goto, IInv, TypeOK, Steps
<1>4. ASSUME NEW v \in Writers PROVE JobOK(v)' /\ Knows(v)'
  <2>1. /\ pc'[v] = "commit" /\ job'[v].seen = View.hash
        /\ job'[v].hash = job[v].hash /\ job'[v].tree = job[v].tree
    BY <1>2, <1>3 DEF OneWriter, IInv, TypeOK, Jobs
  <2>2. job[v].tree \in Trees /\ job[v].hash = View.hash
    BY <1>1 DEF OneWriter, IInv, JobOK, Knows
  <2> QED BY <1>1, <2>1, <2>2 DEF JobOK, Knows, Trees
<1> QED BY <1>3, <1>4, Reading DEF Link, IInv, TypeOK

\* The delta is applied to the database it was computed from, or replaced by a
\* full save.
LEMMA CommitDeltaStep ==
    ASSUME OneWriter, IInv, NEW w \in Writers, CommitDelta(w) PROVE IInv'
<1>1. pc[w] = "commit" /\ JobOK(w) /\ Knows(w) /\ job[w] \in Jobs
  BY DEF CommitDelta, IInv, TypeOK
<1>2. CASE Readable
  <2> DEFINE db   == Delta(job[w], View)
             next == IF job[w].link = "full" THEN "stats" ELSE "covers"
  <2>1. View \in Contents /\ Whole(View)
    BY <1>2, ReadableView, ReadableWhole DEF IInv
  <2>2. Linking(job[w], View)
    BY <1>1, <1>2 DEF Linking, JobOK, Knows
  <2>3. db \in Contents /\ Whole(db)
    BY <1>1, <2>1, <2>2, DeltaWhole
  <2>4. CommitTx(w, db, next)
    BY <1>2 DEF CommitDelta
  <2>5. conn' = [r \in Readers |->
                  IF conn[r] # None /\ conn[r].inode = main /\ conn[r].link = None
                  THEN [conn[r] EXCEPT !.moved = TRUE] ELSE conn[r]]
    BY <1>2 DEF CommitDelta
  <2>6. conn' \in [Readers -> Conns \union {None}]
    BY <2>5 DEF IInv, TypeOK, Conns
  <2>7. broken' \in BOOLEAN
    BY <1>2 DEF CommitDelta, IInv, TypeOK
  <2>8. ASSUME NEW r \in Readers
        PROVE  /\ conn'[r] # None => /\ conn[r] # None
                                     /\ conn'[r].inode = conn[r].inode
                                     /\ conn'[r].link = conn[r].link
                                     /\ conn'[r].hash = conn[r].hash
                                     /\ ~conn'[r].moved => ~conn[r].moved
               /\ conn'[r] # None /\ conn'[r].inode = main /\ conn'[r].link = None =>
                      conn'[r].moved
    <3>1. conn[r] \in Conns \union {None}
      BY DEF IInv, TypeOK
    <3>2. CASE conn[r] # None /\ conn[r].inode = main /\ conn[r].link = None
      <4>1. conn'[r] = [conn[r] EXCEPT !.moved = TRUE] /\ conn[r] \in Conns
        BY <2>5, <3>1, <3>2
      <4> QED BY <3>2, <4>1 DEF Conns
    <3>3. CASE ~(conn[r] # None /\ conn[r].inode = main /\ conn[r].link = None)
      BY <2>5, <3>3
    <3> QED BY <3>2, <3>3
  <2>9. next \in {"idle", "scan", "covers", "sums", "stats"}
    OBVIOUS
  <2> HIDE DEF db, next
  <2> QED BY <1>2, <2>3, <2>4, <2>6, <2>7, <2>8, <2>9, Transaction
<1>3. CASE ~Readable
  <2>1. Goto(w, "create") /\ UNCHANGED <<tree, file, main, tmp, wal, job, conn, crashes, broken>>
    BY <1>3 DEF CommitDelta
  <2>2. pc' \in [Writers -> Steps]
    BY <2>1 DEF Goto, IInv, TypeOK, Steps
  <2>3. ASSUME NEW v \in Writers PROVE JobOK(v)' /\ Knows(v)'
    <3>1. pc'[v] = "create" /\ v = w
      BY <2>1 DEF OneWriter, Goto, IInv, TypeOK
    <3> QED BY <1>1, <2>1, <3>1 DEF JobOK, Knows
  <2> QED BY <2>1, <2>2, <2>3, Reading DEF IInv, TypeOK
<1> QED BY <1>2, <1>3

\* Reading for a derived table changes no file.
LEMMA DeriveStep ==
    ASSUME OneWriter, IInv, NEW w \in Writers, Derive(w) PROVE IInv'
<1>1. View \in Contents /\ View.link \in Links /\ View.covers \in Links
  BY ReadableView DEF Derive, IInv, Contents
<1>2. /\ pc' \in [Writers -> Steps] /\ job' \in [Writers -> Jobs]
      /\ \A v \in Writers : JobOK(v)' /\ Knows(v)'
  <2>1. CASE Goto(w, "put covers") /\ job' = [job EXCEPT ![w].covers = View.link]
    <3>1. pc' \in [Writers -> Steps] /\ job' \in [Writers -> Jobs]
      BY <1>1, <2>1, JobFields DEF Goto, IInv, TypeOK, Steps
    <3>2. ASSUME NEW v \in Writers PROVE pc'[v] = "put covers" /\ job'[v].covers \in Links
      BY <1>1, <2>1 DEF OneWriter, Goto, IInv, TypeOK, Jobs
    <3> QED BY <3>1, <3>2 DEF JobOK, Knows
  <2>2. CASE Goto(w, "put sums") /\ job' = [job EXCEPT ![w].sums = <<View.link, View.covers>>]
    <3>0. <<View.link, View.covers>> \in Links \X Links
      BY <1>1
    <3>1. pc' \in [Writers -> Steps]
      BY <2>2 DEF Goto, IInv, TypeOK, Steps
    <3>2. job' = [job EXCEPT ![w] = [job[w] EXCEPT !.sums = <<View.link, View.covers>>]]
      BY <2>2 DEF IInv, TypeOK
    <3>3. job' \in [Writers -> Jobs]
      <4>1. [job[w] EXCEPT !.sums = <<View.link, View.covers>>] \in Jobs
        BY <3>0, JobFields DEF IInv, TypeOK
      <4> QED BY <3>2, <4>1 DEF IInv, TypeOK
    <3>4. pc'[w] = "put sums"
      BY <2>2 DEF Goto, IInv, TypeOK
    <3>5. job'[w].sums = <<View.link, View.covers>>
      <4>1. job'[w] = [job[w] EXCEPT !.sums = <<View.link, View.covers>>] /\ job[w] \in Jobs
        BY <3>2 DEF IInv, TypeOK
      <4> QED BY <4>1 DEF Jobs
    <3>6. ASSUME NEW v \in Writers PROVE JobOK(v)' /\ Knows(v)'
      <4>1. v = w
        BY DEF OneWriter
      <4> QED BY <3>0, <3>4, <3>5, <4>1 DEF JobOK, Knows
    <3> QED BY <3>1, <3>3, <3>6
  <2> QED BY <2>1, <2>2 DEF Derive
<1> QED BY <1>2, Reading DEF Derive, IInv, TypeOK

\* A derived table is replaced; nodes, edges and hashes are not touched.
LEMMA PutStep ==
    ASSUME OneWriter, IInv, NEW w \in Writers, PutCovers(w) \/ PutSums(w) PROVE IInv'
<1>1. Readable /\ View \in Contents /\ JobOK(w)
  BY ReadableView DEF PutCovers, PutSums, IInv
<1>2. CASE PutCovers(w)
  <2> DEFINE db == [View EXCEPT !.covers = job[w].covers]
  <2>0. job[w].covers \in Links
    BY <1>1, <1>2 DEF PutCovers, JobOK
  <2>1. db \in Contents /\ db.hash = View.hash /\ db.link = View.link
    BY <1>1, <2>0 DEF Contents
  <2> QED BY <1>1, <1>2, <2>1, SideTransaction DEF PutCovers, IInv, TypeOK
<1>3. CASE PutSums(w)
  <2> DEFINE db == [View EXCEPT !.sums = job[w].sums]
  <2>0. job[w].sums \in (Links \X Links) \union {Missing}
    BY <1>1, <1>3 DEF PutSums, JobOK
  <2>1. db \in Contents /\ db.hash = View.hash /\ db.link = View.link
    BY <1>1, <2>0 DEF Contents
  <2> QED BY <1>1, <1>3, <2>1, SideTransaction DEF PutSums, IInv, TypeOK
<1> QED BY <1>2, <1>3

\* The last transaction writes nothing that LiveWhole speaks of.
LEMMA StatsStep ==
    ASSUME OneWriter, IInv, NEW w \in Writers, Stats(w) PROVE IInv'
<1>1. UNCHANGED <<conn, broken>>
  BY DEF Stats
<1>2. CASE Readable /\ CommitTx(w, View, "idle")
  BY <1>1, <1>2, ReadableView, SideTransaction DEF IInv, TypeOK
<1>3. CASE Finish(w) /\ UNCHANGED <<tree, file, main, tmp, wal, crashes>>
  <2>1. \A v \in Writers : JobOK(v)' /\ Knows(v)'
    BY <1>3, FinishJob DEF OneWriter, JobOK, Knows
  <2> QED BY <1>1, <1>3, <2>1, FinishJob, Reading DEF IInv, TypeOK
<1> QED BY <1>2, <1>3 DEF Stats

\* Files, WAL and temp file stay as they are; the writer's knowledge is gone.
LEMMA CrashStep ==
    ASSUME OneWriter, IInv, NEW w \in Writers, Crash(w) PROVE IInv'
<1>1. \A v \in Writers : JobOK(v)' /\ Knows(v)'
  BY FinishJob DEF Crash, OneWriter, JobOK, Knows
<1>2. crashes' \in 0..MaxCrashes /\ broken' \in BOOLEAN
  BY BoundsAssumption DEF Crash, IInv, TypeOK
<1> QED BY <1>1, <1>2, FinishJob, Reading DEF Crash, IInv, TypeOK

\* A connection is opened on a view that is whole, and remembers its inode and
\* WAL.
LEMMA ReadNodesStep ==
    ASSUME IInv, NEW r \in Readers, ReadNodes(r) PROVE IInv'
<1> DEFINE new == [inode |-> main, hash |-> View.hash, link |-> None, moved |-> FALSE]
<1>1. /\ main \in Inodes /\ main # None /\ View = Through(main) /\ View \in Contents
      /\ Whole(View) /\ file[main] # Half
  BY ReadableView, ReadableWhole DEF ReadNodes, IInv
<1>2. conn' = [conn EXCEPT ![r] = new]
      /\ UNCHANGED <<tree, file, main, tmp, wal, pc, job, crashes, broken>>
  BY DEF ReadNodes
<1>3. new \in Conns
  BY <1>1 DEF Conns, Contents
<1>4. TypeOK'
  BY <1>2, <1>3 DEF IInv, TypeOK
<1>5. \A w \in Writers : JobOK(w)' /\ Knows(w)'
  BY <1>2 DEF IInv, JobOK, Knows, View, Readable, Through, Whole
<1>6. MainWhole' /\ WalWhole'
  BY <1>2 DEF IInv, MainWhole, WalWhole, Whole
<1>7. TmpApart'
  BY <1>2 DEF IInv, TypeOK, TmpApart, Held
<1>8. ASSUME NEW q \in Readers PROVE ConnOK(q)'
  <2>1. CASE q = r
    <3>1. conn'[q] = new
      BY <1>2, <2>1 DEF IInv, TypeOK
    <3>2. Through(main)' = Through(main)
      BY <1>2 DEF Through
    <3> QED BY <1>1, <1>2, <3>1, <3>2 DEF ConnOK, Through, Whole
  <2>2. CASE q # r
    <3>1. conn'[q] = conn[q] /\ ConnOK(q)
      BY <1>2, <2>2 DEF IInv, TypeOK
    <3> QED BY <1>2, <3>1 DEF ConnOK, Through, Whole
  <2> QED BY <2>1, <2>2
<1> QED BY <1>4, <1>5, <1>6, <1>7, <1>8 DEF IInv

\* The second SELECT reads through the inode that the connection holds.
LEMMA ReadEdgesStep ==
    ASSUME IInv, NEW r \in Readers, ReadEdges(r) PROVE IInv'
<1> DEFINE db == Through(conn[r].inode)
<1>1. conn[r] # None /\ conn[r] \in Conns /\ conn[r].link = None /\ ConnOK(r)
  BY DEF ReadEdges, IInv, TypeOK
<1>2. conn' = [conn EXCEPT ![r] = [conn[r] EXCEPT !.link = db.link]]
      /\ UNCHANGED <<tree, file, main, tmp, wal, pc, job, crashes, broken>>
  BY DEF ReadEdges, IInv, TypeOK
<1>3. db \in Contents /\ Whole(db)
  BY <1>1, ThroughType DEF ConnOK, Conns, IInv
<1>4. db.link \in Links
  BY <1>3 DEF Contents
<1>5. TypeOK'
  BY <1>1, <1>2, <1>4 DEF IInv, TypeOK, Conns
<1>6. \A w \in Writers : JobOK(w)' /\ Knows(w)'
  BY <1>2 DEF IInv, JobOK, Knows, View, Readable, Through, Whole
<1>7. MainWhole' /\ WalWhole'
  BY <1>2 DEF IInv, MainWhole, WalWhole, Whole
<1>8. conn'[r] = [conn[r] EXCEPT !.link = db.link]
  BY <1>2 DEF IInv, TypeOK
<1>9. /\ conn'[r].inode = conn[r].inode /\ conn'[r].link = db.link
      /\ conn'[r].hash = conn[r].hash /\ conn'[r].moved = conn[r].moved
  BY <1>1, <1>8 DEF Conns
<1>10. TmpApart'
  <2>1. \A q \in Readers : q # r => conn'[q] = conn[q]
    BY <1>2 DEF IInv, TypeOK
  <2> QED BY <1>1, <1>2, <1>9, <2>1 DEF IInv, TmpApart, Held
<1>11. ASSUME NEW q \in Readers PROVE ConnOK(q)'
  <2>1. CASE q = r
    <3>1. PICK i : i = conn[r].inode
      OBVIOUS
    <3>2. Through(i)' = Through(i)
      BY <1>2 DEF Through
    <3>3. db = Through(i)
      BY <3>1
    <3>4. ~conn[r].moved => db.hash = conn[r].hash
      BY <1>1 DEF ConnOK
    <3>5. ~conn'[r].moved => Whole(conn'[r])
      <4> HIDE DEF db
      <4> QED BY <1>3, <1>9, <3>4 DEF Whole
    <3>6. ~conn'[r].moved => Through(i).hash = conn'[r].hash
      <4> HIDE DEF db
      <4> QED BY <1>9, <3>3, <3>4
    <3>7. file[i] # Half
      BY <1>1, <3>1 DEF ConnOK
    <3> QED BY <1>2, <1>3, <1>9, <2>1, <3>1, <3>2, <3>3, <3>5, <3>6, <3>7 DEF ConnOK, Through, Whole
  <2>2. CASE q # r
    <3>1. conn'[q] = conn[q] /\ ConnOK(q)
      BY <1>2, <2>2 DEF IInv, TypeOK
    <3> QED BY <1>2, <3>1 DEF ConnOK, Through, Whole
  <2> QED BY <2>1, <2>2
<1> QED BY <1>5, <1>6, <1>7, <1>10, <1>11 DEF IInv

\* A reader that closes has nothing open.
LEMMA CloseStep ==
    ASSUME IInv, NEW r \in Readers, Close(r) PROVE IInv'
<1>1. conn' = [conn EXCEPT ![r] = None]
      /\ UNCHANGED <<tree, file, main, tmp, wal, pc, job, crashes, broken>>
  BY DEF Close
<1>2. TypeOK'
  BY <1>1 DEF IInv, TypeOK
<1>3. \A w \in Writers : JobOK(w)' /\ Knows(w)'
  BY <1>1 DEF IInv, JobOK, Knows, View, Readable, Through, Whole
<1>4. MainWhole' /\ WalWhole' /\ TmpApart'
  BY <1>1 DEF IInv, TypeOK, MainWhole, WalWhole, Whole, TmpApart, Held
<1>5. ASSUME NEW q \in Readers PROVE ConnOK(q)'
  <2>1. conn'[q] = None \/ conn'[q] = conn[q]
    BY <1>1 DEF IInv, TypeOK
  <2> QED BY <1>1, <2>1 DEF IInv, ConnOK, Through, Whole
<1> QED BY <1>2, <1>3, <1>4, <1>5 DEF IInv

\* An edit changes the sources only.
LEMMA EditStep ==
    ASSUME IInv, NEW f \in Sources, Edit(f) PROVE IInv'
<1>1. UNCHANGED <<file, main, tmp, wal, pc, job, conn, crashes, broken>>
  BY DEF Edit
<1>2. tree' \in Trees
  BY BoundsAssumption DEF Edit, IInv, TypeOK, Trees
<1>3. \A w \in Writers : JobOK(w)' /\ Knows(w)'
  BY <1>1 DEF IInv, JobOK, Knows, View, Readable, Through, Whole
<1> QED BY <1>1, <1>2, <1>3, Reading DEF IInv, TypeOK

\* Every step of the specification keeps the invariant.
LEMMA Inductive ==
    ASSUME OneWriter, IInv, [Next]_vars PROVE IInv'
<1>1. ASSUME NEW w \in Writers, Step(w) PROVE IInv'
  BY <1>1, StartBuildStep, CreateTmpStep, FillStep, SwapStep, UnlinkWalStep, StartUpdateStep,
     ScanStep, LinkStep, CommitDeltaStep, DeriveStep, PutStep, StatsStep, FoldStep DEF Step
<1>2. CASE UNCHANGED vars
  <2>1. \A w \in Writers : JobOK(w)' /\ Knows(w)'
    BY <1>2 DEF vars, IInv, JobOK, Knows, View, Readable, Through, Whole
  <2> QED BY <1>2, <2>1, Reading DEF vars, IInv, TypeOK
<1> QED BY <1>1, <1>2, CrashStep, ReadNodesStep, ReadEdgesStep, CloseStep, EditStep DEF Next

(***************************************************************************)
(* Any number of writers                                                   *)
(***************************************************************************)
(* What a writer has read is of its type, whoever else is at work.         *)
TypedAs(step, j) ==
    /\ step \in {"create", "fill", "link", "commit"} => j.tree \in Trees
    /\ step = "fill" => j.inode \in Inodes
    /\ step \in {"link", "commit"} => j.hash \in Trees
    /\ step = "commit" => j.seen \in Trees
    /\ step = "put covers" => j.covers \in Links
    /\ step = "put sums" => j.sums \in Links \X Links

Typed(w) == TypedAs(pc[w], job[w])

(* What is being read, and what has a WAL, is a filled file.               *)
Solid ==
    /\ wal # None => file[wal.base] # Half
    /\ \A r \in Readers : conn[r] # None => file[conn[r].inode] # Half

(* Without crashes somebody is still at work on what cannot be read: a     *)
(* half-filled file is being filled, the WAL of a replaced file is about   *)
(* to be removed.                                                          *)
Filling(i) == \E w \in Writers : pc[w] = "fill" /\ job[w].inode = i
Unlinking == \E w \in Writers : pc[w] = "unlink"
AtWork ==
    crashes = 0 =>
        /\ \A i \in {main, tmp} : i # None /\ file[i] = Half => Filling(i)
        /\ wal # None /\ wal.base # main => Unlinking

SInv == TypeOK /\ (\A w \in Writers : Typed(w)) /\ Solid /\ AtWork

\* A delta is a database, also on another one than it was computed from.
LEMMA DeltaType ==
    ASSUME NEW j \in Jobs, NEW db \in Contents, TypedAs("commit", j)
    PROVE  Delta(j, db) \in Contents
<1> DEFINE all  == [f \in Sources |-> Edges(Linked(j), f)]
           hash == [f \in Sources |-> IF f \in Touched(j) THEN j.tree[f] ELSE db.hash[f]]
           link == [f \in Sources |-> IF j.link = "full" \/ f \in InReach(j)
                                      THEN all[f] ELSE db.link[f]]
           covers == IF j.link = "full" THEN all ELSE db.covers
           sums == IF j.link = "bounded" THEN db.sums ELSE <<all, all>>
<1>1. Linked(j) \in Trees /\ hash \in Trees
  BY DEF TypedAs, Linked, Trees, Contents
<1>2. all \in Links
  BY <1>1, EdgesType DEF Links
<1>3. link \in Links
  BY <1>2 DEF Links, Contents
<1>4. covers \in Links /\ sums \in (Links \X Links) \union {Missing}
  <2> HIDE DEF all
  <2> QED BY <1>2 DEF Contents
<1>5. Delta(j, db) = [db EXCEPT !.hash = hash, !.link = link, !.covers = covers, !.sums = sums]
  BY DEF Delta, Merged
<1> HIDE DEF all, hash, link, covers, sums
<1> QED BY <1>1, <1>3, <1>4, <1>5 DEF Contents

\* One writer moves on.
LEMMA OneMoves ==
    ASSUME SInv, NEW w \in Writers, NEW s \in Steps, NEW j \in Jobs, TypedAs(s, j),
           pc' = [pc EXCEPT ![w] = s], job' = [job EXCEPT ![w] = j]
    PROVE  /\ pc' \in [Writers -> Steps] /\ job' \in [Writers -> Jobs]
           /\ \A v \in Writers : Typed(v)'
           /\ \A v \in Writers \ {w} : pc'[v] = pc[v] /\ job'[v] = job[v]
           /\ pc'[w] = s /\ job'[w] = j
<1>1. pc \in [Writers -> Steps] /\ job \in [Writers -> Jobs]
  BY DEF SInv, TypeOK
<1>2. /\ pc' \in [Writers -> Steps] /\ job' \in [Writers -> Jobs]
      /\ \A v \in Writers \ {w} : pc'[v] = pc[v] /\ job'[v] = job[v]
      /\ pc'[w] = s /\ job'[w] = j
  BY <1>1
<1>3. ASSUME NEW v \in Writers PROVE Typed(v)'
  <2>1. CASE v = w
    BY <1>2, <2>1 DEF Typed, TypedAs
  <2>2. CASE v # w
    <3>1. Typed(v) /\ pc'[v] = pc[v] /\ job'[v] = job[v]
      BY <1>2, <2>2 DEF SInv
    <3> QED BY <3>1 DEF Typed, TypedAs
  <2> QED BY <2>1, <2>2
<1> QED BY <1>2, <1>3

\* A step of a writer that neither fills nor removes a WAL, and leaves the
\* files as they are.
LEMMA QuietMove ==
    ASSUME SInv, NEW w \in Writers, NEW s \in Steps, NEW j \in Jobs, TypedAs(s, j),
           pc' = [pc EXCEPT ![w] = s], job' = [job EXCEPT ![w] = j],
           pc[w] \notin {"fill", "unlink"} \/ crashes' # 0,
           UNCHANGED <<tree, file, main, tmp, wal, conn>>,
           crashes' \in 0..MaxCrashes, crashes' = 0 => crashes = 0, broken' \in BOOLEAN
    PROVE  SInv'
<1>1. TypeOK' /\ \A v \in Writers : Typed(v)'
  BY OneMoves DEF SInv, TypeOK
<1>2. Solid'
  BY DEF SInv, Solid
<1>3. AtWork'
  <2> SUFFICES ASSUME crashes' = 0 PROVE AtWork'
    BY DEF AtWork
  <2>1. pc[w] \notin {"fill", "unlink"} /\ AtWork /\ crashes = 0
    BY DEF SInv
  <2>2. \A v \in Writers : pc[v] \in {"fill", "unlink"} => pc'[v] = pc[v] /\ job'[v] = job[v]
    BY <2>1, OneMoves
  <2> QED BY <2>1, <2>2 DEF AtWork, Filling, Unlinking
<1> QED BY <1>1, <1>2, <1>3 DEF SInv

\* A transaction, whatever it writes.
LEMMA AnyTransaction ==
    ASSUME SInv, NEW w \in Writers, NEW db \in Contents, Readable,
           pc[w] \notin {"fill", "unlink"},
           NEW next \in {"idle", "scan", "covers", "sums", "stats"},
           CommitTx(w, db, next), broken' \in BOOLEAN,
           conn' \in [Readers -> Conns \union {None}],
           \A r \in Readers : conn'[r] # None => conn[r] # None /\ conn'[r].inode = conn[r].inode
    PROVE  SInv'
<1>1. /\ main \in Inodes /\ main # None /\ View = Through(main) /\ View \in Contents
      /\ wal # None => wal.base = main
  BY ReadableView DEF SInv
<1>2. /\ wal' = [base |-> main, db |-> db] /\ wal' \in Wals /\ wal' # None /\ wal'.base = main
  BY <1>1, SpecialsAssumption DEF CommitTx, Wals
<1>3. file[main] # Half
  BY <1>1, SpecialsAssumption DEF SInv, Solid, Through
<1>4. UNCHANGED <<tree, file, main, tmp, crashes>>
  BY DEF CommitTx
<1> DEFINE j == [job[w] EXCEPT !.next = next]
<1>5. /\ "fold" \in Steps /\ j \in Jobs /\ TypedAs("fold", j)
      /\ pc' = [pc EXCEPT ![w] = "fold"] /\ job' = [job EXCEPT ![w] = j]
  <2>1. job[w] \in Jobs /\ job' = [job EXCEPT ![w] = j]
    BY DEF CommitTx, SInv, TypeOK
  <2> QED BY <2>1, JobFields DEF CommitTx, Goto, Steps, TypedAs
<1> HIDE DEF j
<1>6. TypeOK' /\ \A v \in Writers : Typed(v)'
  BY <1>2, <1>4, <1>5, OneMoves DEF SInv, TypeOK
<1>7. Solid'
  BY <1>2, <1>3, <1>4 DEF SInv, Solid
<1>8. AtWork'
  <2>1. \A v \in Writers : pc[v] \in {"fill", "unlink"} => pc'[v] = pc[v] /\ job'[v] = job[v]
    BY <1>5, OneMoves
  <2> QED BY <1>2, <1>3, <1>4, <2>1 DEF SInv, AtWork, Filling
<1> QED BY <1>6, <1>7, <1>8 DEF SInv

\* Nothing is on disk, and nothing is being filled.
LEMMA SoundInitially ==
    ASSUME Init PROVE SInv
<1>1. TypeOK
  BY Initially DEF IInv
<1>2. \A w \in Writers : Typed(w)
  BY DEF Init, Typed, TypedAs
<1>3. Solid /\ AtWork
  BY DEF Init, Solid, AtWork
<1> QED BY <1>1, <1>2, <1>3 DEF SInv

\* A writer that is finished has no job.
LEMMA Finished ==
    ASSUME NEW w \in Writers, Finish(w)
    PROVE  /\ pc' = [pc EXCEPT ![w] = "idle"] /\ job' = [job EXCEPT ![w] = NoJob]
           /\ "idle" \in Steps /\ NoJob \in Jobs /\ TypedAs("idle", NoJob)
<1>1. NoJob \in Jobs
  BY DEF NoJob, Jobs
<1> QED BY <1>1 DEF Finish, Goto, Steps, TypedAs

\* A writer that goes on with the job it has.
LEMMA SameJob ==
    ASSUME SInv, NEW w \in Writers, UNCHANGED job
    PROVE  job' = [job EXCEPT ![w] = job[w]] /\ job[w] \in Jobs
BY DEF SInv, TypeOK

\* Folding frames into a filled file leaves it filled.
LEMMA SoundFold ==
    ASSUME SInv, NEW w \in Writers, Fold(w) PROVE SInv'
<1>1. pc[w] = "fold" /\ UNCHANGED <<tree, main, tmp, conn, crashes, broken>>
  BY DEF Fold
<1>2. PICK s \in Steps, j \in Jobs : /\ TypedAs(s, j)
                                     /\ pc' = [pc EXCEPT ![w] = s] /\ job' = [job EXCEPT ![w] = j]
  <2>1. job[w] \in Jobs /\ job[w].next \in {"idle", "scan", "covers", "sums", "stats"}
    BY DEF SInv, TypeOK, Jobs
  <2>2. CASE Finish(w)
    BY <2>2, Finished
  <2>3. CASE Goto(w, job[w].next) /\ UNCHANGED job
    BY <2>1, <2>3, SameJob DEF Goto, Steps, TypedAs
  <2> QED BY <2>2, <2>3 DEF Fold
<1>3. /\ file' \in [Inodes -> Contents \union {Half}]
      /\ \A i \in Inodes : file[i] # Half => file'[i] # Half
      /\ wal' \in Wals \union {None} /\ (wal' # None => wal' = wal)
  BY SpecialsAssumption DEF Fold, Checkpointed, SInv, TypeOK, Wals
<1>4. TypeOK' /\ \A v \in Writers : Typed(v)'
  BY <1>1, <1>2, <1>3, OneMoves DEF SInv, TypeOK
<1>5. Solid'
  <2>1. \A r \in Readers : conn[r] # None => conn[r].inode \in Inodes
    BY DEF SInv, TypeOK, Conns
  <2>2. wal # None => wal.base \in Inodes
    BY DEF SInv, TypeOK, Wals
  <2> QED BY <1>1, <1>3, <2>1, <2>2 DEF SInv, Solid
<1>6. AtWork'
  <2>1. \A v \in Writers : pc[v] \in {"fill", "unlink"} => pc'[v] = pc[v] /\ job'[v] = job[v]
    BY <1>1, <1>2, OneMoves
  <2>2. \A i \in {main, tmp} : i # None => i \in Inodes
    BY DEF SInv, TypeOK
  <2> QED BY <1>1, <1>3, <2>1, <2>2 DEF SInv, AtWork, Filling, Unlinking
<1> QED BY <1>4, <1>5, <1>6 DEF SInv

\* A half file is created by a writer who is about to fill it.
LEMMA SoundCreateTmp ==
    ASSUME SInv, NEW w \in Writers, CreateTmp(w) PROVE SInv'
<1>1. PICK i \in Inodes : /\ Free(i)
                          /\ file' = [file EXCEPT ![i] = Half]
                          /\ tmp' = i
                          /\ job' = [job EXCEPT ![w].inode = i]
  BY DEF CreateTmp
<1> DEFINE j == [job[w] EXCEPT !.inode = i]
<1>2. /\ pc[w] = "create" /\ pc' = [pc EXCEPT ![w] = "fill"] /\ job' = [job EXCEPT ![w] = j]
      /\ UNCHANGED <<tree, main, wal, conn, crashes, broken>>
  BY <1>1 DEF CreateTmp, Goto, SInv, TypeOK
<1>3. "fill" \in Steps /\ j \in Jobs /\ TypedAs("fill", j) /\ j.inode = i
  <2>1. job[w] \in Jobs /\ job[w].tree \in Trees
    BY <1>2 DEF SInv, TypeOK, Typed, TypedAs
  <2>2. j.inode = i /\ j.tree = job[w].tree
    BY <2>1 DEF Jobs
  <2> QED BY <2>1, <2>2, JobFields DEF Steps, TypedAs
<1> HIDE DEF j
<1>4. /\ \A v \in Writers \ {w} : pc'[v] = pc[v] /\ job'[v] = job[v]
      /\ pc'[w] = "fill" /\ job'[w] = j
  BY <1>2, <1>3, OneMoves
<1>5. /\ i # main /\ ~Held(i) /\ (wal # None => wal.base # i)
      /\ \A v \in Writers : job[v].inode # i
  BY <1>1 DEF Free
<1>6. file' \in [Inodes -> Contents \union {Half}] /\ \A k \in Inodes \ {i} : file'[k] = file[k]
  BY <1>1 DEF SInv, TypeOK
<1>7. TypeOK' /\ \A v \in Writers : Typed(v)'
  BY <1>1, <1>2, <1>3, <1>6, OneMoves DEF SInv, TypeOK
<1>8. Solid'
  <2>1. \A r \in Readers : conn[r] # None => conn[r].inode \in Inodes /\ conn[r].inode # i
    BY <1>5 DEF SInv, TypeOK, Conns, Held
  <2>2. wal # None => wal.base \in Inodes
    BY DEF SInv, TypeOK, Wals
  <2> QED BY <1>2, <1>5, <1>6, <2>1, <2>2 DEF SInv, Solid
<1>9. AtWork'
  <2> SUFFICES ASSUME crashes = 0 PROVE AtWork'
    BY <1>2 DEF AtWork
  <2>1. Filling(i)'
    BY <1>3, <1>4 DEF Filling
  <2>2. main # None /\ file'[main] = Half => Filling(main)'
    <3> SUFFICES ASSUME main # None, file'[main] = Half PROVE Filling(main)'
      OBVIOUS
    <3>1. main \in Inodes
      BY DEF SInv, TypeOK
    <3>2. PICK v \in Writers : pc[v] = "fill" /\ job[v].inode = main
      BY <1>5, <1>6, <3>1 DEF SInv, AtWork, Filling
    <3>3. v # w
      BY <1>2, <3>2
    <3> QED BY <1>2, <1>4, <3>2, <3>3 DEF Filling
  <2>3. Unlinking => Unlinking'
    BY <1>2, <1>4 DEF Unlinking
  <2> QED BY <1>1, <1>2, <2>1, <2>2, <2>3 DEF SInv, AtWork, Filling
<1> QED BY <1>7, <1>8, <1>9 DEF SInv

\* The writer fills the inode it created, whatever the temp name leads to by
\* then.
LEMMA SoundFill ==
    ASSUME SInv, NEW w \in Writers, Fill(w) PROVE SInv'
<1> DEFINE db == Full(job[w].tree)
           i  == job[w].inode
<1>1. pc[w] = "fill" /\ i \in Inodes /\ db \in Contents /\ db # Half
  BY FullWhole, SpecialsAssumption DEF Fill, SInv, Typed, TypedAs
<1>2. /\ file' = [file EXCEPT ![i] = db] /\ pc' = [pc EXCEPT ![w] = "swap"]
      /\ UNCHANGED <<tree, main, tmp, wal, job, conn, crashes, broken>>
  BY DEF Fill, Goto
<1>3. "swap" \in Steps /\ TypedAs("swap", job[w])
  BY DEF Steps, TypedAs
<1>4. \A v \in Writers \ {w} : pc'[v] = pc[v] /\ job'[v] = job[v]
  BY <1>2, <1>3, SameJob, OneMoves
<1> HIDE DEF db
<1>5. /\ file' \in [Inodes -> Contents \union {Half}] /\ file'[i] # Half
      /\ \A k \in Inodes \ {i} : file'[k] = file[k]
  BY <1>1, <1>2 DEF SInv, TypeOK
<1>6. TypeOK' /\ \A v \in Writers : Typed(v)'
  BY <1>2, <1>3, <1>5, SameJob, OneMoves DEF SInv, TypeOK
<1>7. Solid'
  <2>1. \A r \in Readers : conn[r] # None => conn[r].inode \in Inodes
    BY DEF SInv, TypeOK, Conns
  <2>2. wal # None => wal.base \in Inodes
    BY DEF SInv, TypeOK, Wals
  <2> QED BY <1>2, <1>5, <2>1, <2>2 DEF SInv, Solid
<1>8. AtWork'
  <2> SUFFICES ASSUME crashes = 0 PROVE AtWork'
    BY <1>2 DEF AtWork
  <2>1. ASSUME NEW k \in {main, tmp}, k # None, file'[k] = Half PROVE Filling(k)'
    <3>1. k \in Inodes /\ k # i /\ file[k] = Half
      BY <1>5, <2>1 DEF SInv, TypeOK
    <3>2. PICK v \in Writers : pc[v] = "fill" /\ job[v].inode = k
      BY <2>1, <3>1 DEF SInv, AtWork, Filling
    <3>3. v # w
      BY <3>1, <3>2
    <3> QED BY <1>2, <1>4, <3>2, <3>3 DEF Filling
  <2>2. Unlinking => Unlinking'
    BY <1>1, <1>4 DEF Unlinking
  <2> QED BY <1>2, <2>1, <2>2 DEF SInv, AtWork
<1> QED BY <1>6, <1>7, <1>8 DEF SInv

\* A half file in place still has its writer at the fill, and the old WAL one
\* about to remove it.
LEMMA SoundSwap ==
    ASSUME SInv, NEW w \in Writers, Swap(w) PROVE SInv'
<1>1. CASE tmp = None
  <2>1. Finish(w) /\ UNCHANGED <<tree, file, main, tmp, wal, conn, crashes, broken>> /\ pc[w] = "swap"
    BY <1>1 DEF Swap
  <2> QED BY <2>1, Finished, QuietMove DEF SInv, TypeOK
<1>2. CASE tmp # None
  <2>1. /\ pc[w] = "swap" /\ main' = tmp /\ tmp' = None /\ broken' = FALSE
        /\ pc' = [pc EXCEPT ![w] = "unlink"]
        /\ UNCHANGED <<tree, file, wal, job, conn, crashes>>
    BY <1>2 DEF Swap, Goto
  <2>2. "unlink" \in Steps /\ TypedAs("unlink", job[w])
    BY DEF Steps, TypedAs
  <2>3. TypeOK' /\ \A v \in Writers : Typed(v)'
    BY <2>1, <2>2, SameJob, OneMoves DEF SInv, TypeOK
  <2>4. Solid'
    BY <2>1 DEF SInv, Solid
  <2>5. /\ pc'[w] = "unlink"
        /\ \A v \in Writers \ {w} : pc'[v] = pc[v] /\ job'[v] = job[v]
    BY <2>1, <2>2, SameJob, OneMoves
  <2>6. Unlinking'
    BY <2>5 DEF Unlinking
  <2>7. Filling(tmp) => Filling(main)'
    BY <2>1, <2>5 DEF Filling
  <2>8. crashes = 0 /\ file[tmp] = Half => Filling(tmp)
    BY <1>2 DEF SInv, AtWork
  <2>9. AtWork'
    BY <2>1, <2>6, <2>7, <2>8 DEF AtWork
  <2> QED BY <2>3, <2>4, <2>9 DEF SInv
<1> QED BY <1>1, <1>2

\* With the sidecar goes the only thing that waited for this writer.
LEMMA SoundUnlinkWal ==
    ASSUME SInv, NEW w \in Writers, UnlinkWal(w) PROVE SInv'
<1>1. /\ pc[w] = "unlink" /\ wal' = None /\ pc' = [pc EXCEPT ![w] = "stats"]
      /\ UNCHANGED <<tree, main, tmp, job, conn, crashes, broken>>
  BY DEF UnlinkWal, Goto
<1>2. /\ file' \in [Inodes -> Contents \union {Half}]
      /\ \A i \in Inodes : file[i] # Half => file'[i] # Half
  BY SpecialsAssumption DEF UnlinkWal, SInv, TypeOK, Wals
<1>3. "stats" \in Steps /\ TypedAs("stats", job[w])
  BY DEF Steps, TypedAs
<1>4. TypeOK' /\ \A v \in Writers : Typed(v)'
  BY <1>1, <1>2, <1>3, SameJob, OneMoves DEF SInv, TypeOK
<1>5. Solid'
  <2>1. \A r \in Readers : conn[r] # None => conn[r].inode \in Inodes
    BY DEF SInv, TypeOK, Conns
  <2> QED BY <1>1, <1>2, <2>1 DEF SInv, Solid
<1>6. \A v \in Writers : pc[v] = "fill" => pc'[v] = pc[v] /\ job'[v] = job[v]
  BY <1>1, <1>3, SameJob, OneMoves
<1>7. AtWork'
  <2>1. \A i \in {main, tmp} : i # None => i \in Inodes
    BY DEF SInv, TypeOK
  <2> QED BY <1>1, <1>2, <1>6, <2>1 DEF SInv, AtWork, Filling
<1> QED BY <1>4, <1>5, <1>7 DEF SInv

\* A job is typed for its place; migration writes to a filled file.
LEMMA SoundStart ==
    ASSUME SInv, NEW w \in Writers, StartBuild(w) \/ StartUpdate(w) PROVE SInv'
<1> DEFINE j == [job[w] EXCEPT !.tree = tree]
<1>1. /\ pc[w] = "idle" /\ broken' \in BOOLEAN /\ crashes' = crashes /\ conn' = conn
      /\ crashes \in 0..MaxCrashes
  BY DEF StartBuild, StartUpdate, CommitTx, SInv, TypeOK
<1>2. job[w] \in Jobs /\ tree \in Trees
  BY DEF SInv, TypeOK
<1>3. CASE /\ Goto(w, "create") /\ job' = [job EXCEPT ![w].tree = tree]
           /\ UNCHANGED <<tree, file, main, tmp, wal>>
  <2>1. j \in Jobs /\ j.tree = tree
    <3>1. j.tree = tree
      BY <1>2 DEF Jobs
    <3> QED BY <1>2, <3>1, JobFields
  <2>2. job' = [job EXCEPT ![w] = j]
    BY <1>3 DEF SInv, TypeOK
  <2> HIDE DEF j
  <2>3. "create" \in Steps /\ TypedAs("create", j)
    BY <1>2, <2>1 DEF Steps, TypedAs
  <2> QED BY <1>1, <1>3, <2>1, <2>2, <2>3, QuietMove DEF Goto
<1>4. CASE Readable /\ CommitTx(w, Migrated(View), "scan")
  <2>1. View \in Contents
    BY <1>4, ReadableView DEF SInv
  <2>2. Migrated(View) \in Contents
    BY <2>1 DEF Migrated, Contents
  <2>3. conn' \in [Readers -> Conns \union {None}] /\ \A r \in Readers : conn'[r] = conn[r]
    BY <1>1 DEF SInv, TypeOK
  <2> QED BY <1>1, <1>4, <2>2, <2>3, AnyTransaction
<1>5. CASE Goto(w, "scan") /\ UNCHANGED <<tree, file, main, tmp, wal, job>>
  <2>1. "scan" \in Steps /\ TypedAs("scan", job[w])
    BY DEF Steps, TypedAs
  <2> QED BY <1>1, <1>5, <2>1, SameJob, QuietMove DEF Goto
<1> QED BY <1>3, <1>4, <1>5 DEF StartBuild, StartUpdate

\* A scan reads, and types the job for the link.
LEMMA SoundScan ==
    ASSUME SInv, NEW w \in Writers, Scan(w) PROVE SInv'
<1>1. /\ pc[w] = "scan" /\ broken' \in BOOLEAN /\ crashes' = crashes /\ crashes \in 0..MaxCrashes
      /\ UNCHANGED <<tree, file, main, tmp, wal, conn>>
  BY DEF Scan, SInv, TypeOK
<1>2. CASE Finish(w)
  BY <1>1, <1>2, Finished, QuietMove
<1>3. CASE Goto(w, "link") /\ job' = [job EXCEPT ![w].hash = View.hash, ![w].tree = tree]
  <2> DEFINE j == [job[w] EXCEPT !.hash = View.hash, !.tree = tree]
  <2>1. View.hash \in Trees /\ tree \in Trees /\ job[w] \in Jobs
    BY ReadableView DEF Scan, SInv, TypeOK, Contents
  <2>2. j \in Jobs /\ j.hash = View.hash /\ j.tree = tree
    <3>1. j.hash = View.hash /\ j.tree = tree
      BY <2>1 DEF Jobs
    <3> QED BY <2>1, <3>1, JobFields
  <2>3. job' = [job EXCEPT ![w] = j]
    BY <1>3 DEF SInv, TypeOK
  <2> HIDE DEF j
  <2>4. "link" \in Steps /\ TypedAs("link", j)
    BY <2>1, <2>2 DEF Steps, TypedAs
  <2> QED BY <1>1, <1>3, <2>2, <2>3, <2>4, QuietMove DEF Goto
<1> QED BY <1>2, <1>3 DEF Scan

\* A link reads, and types the job for the delta.
LEMMA SoundLink ==
    ASSUME SInv, NEW w \in Writers, Link(w) PROVE SInv'
<1>1. /\ pc[w] = "link" /\ broken' \in BOOLEAN /\ crashes' = crashes /\ crashes \in 0..MaxCrashes
      /\ UNCHANGED <<tree, file, main, tmp, wal, conn>> /\ pc' = [pc EXCEPT ![w] = "commit"]
  BY DEF Link, Goto, SInv, TypeOK
<1>2. PICK l \in {"full", "memory", "bounded"} :
          job' = [job EXCEPT ![w] = [job[w] EXCEPT !.seen = View.hash, !.link = l]]
  BY DEF Link, SInv, TypeOK
<1> DEFINE j == [job[w] EXCEPT !.seen = View.hash, !.link = l]
<1>3. View.hash \in Trees /\ job[w] \in Jobs /\ job[w].hash \in Trees /\ job[w].tree \in Trees
  BY <1>1, ReadableView DEF Link, SInv, TypeOK, Contents, Typed, TypedAs
<1>4. j \in Jobs /\ j.seen = View.hash /\ j.hash = job[w].hash /\ j.tree = job[w].tree
  <2>1. j.seen = View.hash /\ j.hash = job[w].hash /\ j.tree = job[w].tree
    BY <1>3 DEF Jobs
  <2> QED BY <1>3, <2>1, JobFields
<1> HIDE DEF j
<1>5. "commit" \in Steps /\ TypedAs("commit", j)
  BY <1>3, <1>4 DEF Steps, TypedAs
<1> QED BY <1>1, <1>2, <1>4, <1>5, QuietMove DEF j

\* A delta of whatever base is a database again, on a filled file.
LEMMA SoundCommitDelta ==
    ASSUME SInv, NEW w \in Writers, CommitDelta(w) PROVE SInv'
<1>1. pc[w] = "commit" /\ job[w] \in Jobs /\ TypedAs("commit", job[w])
  BY DEF CommitDelta, SInv, TypeOK, Typed
<1>2. CASE Readable
  <2> DEFINE db   == Delta(job[w], View)
             next == IF job[w].link = "full" THEN "stats" ELSE "covers"
  <2>1. db \in Contents
    BY <1>1, <1>2, ReadableView, DeltaType DEF SInv
  <2>2. CommitTx(w, db, next) /\ broken' \in BOOLEAN
    BY <1>2 DEF CommitDelta, SInv, TypeOK
  <2>3. conn' = [r \in Readers |->
                  IF conn[r] # None /\ conn[r].inode = main /\ conn[r].link = None
                  THEN [conn[r] EXCEPT !.moved = TRUE] ELSE conn[r]]
    BY <1>2 DEF CommitDelta
  <2>4. /\ conn' \in [Readers -> Conns \union {None}]
        /\ \A r \in Readers : conn'[r] # None => conn[r] # None /\ conn'[r].inode = conn[r].inode
    BY <2>3 DEF SInv, TypeOK, Conns
  <2>5. next \in {"idle", "scan", "covers", "sums", "stats"}
    OBVIOUS
  <2> HIDE DEF db, next
  <2> QED BY <1>1, <1>2, <2>1, <2>2, <2>4, <2>5, AnyTransaction
<1>3. CASE ~Readable
  <2>1. Goto(w, "create") /\ UNCHANGED <<tree, file, main, tmp, wal, job, conn, crashes, broken>>
    BY <1>3 DEF CommitDelta
  <2>2. "create" \in Steps /\ TypedAs("create", job[w])
    BY <1>1 DEF Steps, TypedAs
  <2> QED BY <1>1, <2>1, <2>2, SameJob, QuietMove DEF Goto, SInv, TypeOK
<1> QED BY <1>2, <1>3

\* Deriving reads.
LEMMA SoundDerive ==
    ASSUME SInv, NEW w \in Writers, Derive(w) PROVE SInv'
<1>1. /\ View.link \in Links /\ View.covers \in Links /\ job[w] \in Jobs
      /\ pc[w] \in {"covers", "sums"} /\ broken' \in BOOLEAN /\ crashes' = crashes
      /\ crashes \in 0..MaxCrashes /\ UNCHANGED <<tree, file, main, tmp, wal, conn>>
  BY ReadableView DEF Derive, SInv, TypeOK, Contents
<1>2. CASE Goto(w, "put covers") /\ job' = [job EXCEPT ![w].covers = View.link]
  <2> DEFINE j == [job[w] EXCEPT !.covers = View.link]
  <2>1. j \in Jobs /\ j.covers = View.link
    <3>1. j.covers = View.link
      BY <1>1 DEF Jobs
    <3> QED BY <1>1, <3>1, JobFields
  <2>2. job' = [job EXCEPT ![w] = j]
    BY <1>2 DEF SInv, TypeOK
  <2> HIDE DEF j
  <2>3. "put covers" \in Steps /\ TypedAs("put covers", j)
    BY <1>1, <2>1 DEF Steps, TypedAs
  <2> QED BY <1>1, <1>2, <2>1, <2>2, <2>3, QuietMove DEF Goto
<1>3. CASE Goto(w, "put sums") /\ job' = [job EXCEPT ![w].sums = <<View.link, View.covers>>]
  <2> DEFINE pair == <<View.link, View.covers>>
             j == [job[w] EXCEPT !.sums = pair]
  <2>1. pair \in Links \X Links /\ job' = [job EXCEPT ![w] = j]
    BY <1>1, <1>3 DEF SInv, TypeOK
  <2> HIDE DEF pair
  <2>2. j \in Jobs /\ j.sums = pair
    <3>1. j.sums = pair
      BY <1>1 DEF Jobs
    <3> QED BY <1>1, <2>1, <3>1, JobFields
  <2> HIDE DEF j
  <2>3. "put sums" \in Steps /\ TypedAs("put sums", j)
    BY <2>1, <2>2 DEF Steps, TypedAs
  <2> QED BY <1>1, <1>3, <2>1, <2>2, <2>3, QuietMove DEF Goto
<1> QED BY <1>2, <1>3 DEF Derive

\* Replacing a derived table leaves a filled file filled.
LEMMA SoundPut ==
    ASSUME SInv, NEW w \in Writers, PutCovers(w) \/ PutSums(w) PROVE SInv'
<1>1. Readable /\ View \in Contents /\ Typed(w) /\ broken' \in BOOLEAN /\ conn' = conn
  BY ReadableView DEF PutCovers, PutSums, SInv, TypeOK
<1>2. conn' \in [Readers -> Conns \union {None}] /\ \A r \in Readers : conn'[r] = conn[r]
  BY <1>1 DEF SInv, TypeOK
<1>3. CASE PutCovers(w)
  <2> DEFINE db == [View EXCEPT !.covers = job[w].covers]
             next == IF job[w].link = "bounded" THEN "sums" ELSE "stats"
  <2>0. job[w].covers \in Links
    BY <1>1, <1>3 DEF PutCovers, Typed, TypedAs
  <2>1. db \in Contents /\ next \in {"idle", "scan", "covers", "sums", "stats"}
    BY <1>1, <2>0 DEF Contents
  <2>2. CommitTx(w, db, next) /\ pc[w] = "put covers"
    BY <1>3 DEF PutCovers
  <2> HIDE DEF db, next
  <2> QED BY <1>1, <1>2, <2>1, <2>2, AnyTransaction
<1>4. CASE PutSums(w)
  <2> DEFINE db == [View EXCEPT !.sums = job[w].sums]
  <2>0. job[w].sums \in (Links \X Links) \union {Missing}
    BY <1>1, <1>4 DEF PutSums, Typed, TypedAs
  <2>1. db \in Contents
    BY <1>1, <2>0 DEF Contents
  <2>2. CommitTx(w, db, "stats") /\ pc[w] = "put sums"
    BY <1>4 DEF PutSums
  <2> HIDE DEF db
  <2> QED BY <1>1, <1>2, <2>1, <2>2, AnyTransaction
<1> QED BY <1>3, <1>4

\* The last transaction changes no file's state.
LEMMA SoundStats ==
    ASSUME SInv, NEW w \in Writers, Stats(w) PROVE SInv'
<1>1. /\ pc[w] = "stats" /\ broken' \in BOOLEAN /\ conn' \in [Readers -> Conns \union {None}]
      /\ conn' = conn
  BY DEF Stats, SInv, TypeOK
<1>2. CASE Readable /\ CommitTx(w, View, "idle")
  BY <1>1, <1>2, ReadableView, AnyTransaction DEF SInv
<1>3. CASE Finish(w) /\ UNCHANGED <<tree, file, main, tmp, wal, crashes>>
  BY <1>1, <1>3, Finished, QuietMove DEF SInv, TypeOK
<1> QED BY <1>2, <1>3 DEF Stats

\* A crash ends what the property promises: it speaks of runs without one.
LEMMA SoundCrash ==
    ASSUME SInv, NEW w \in Writers, Crash(w) PROVE SInv'
<1>1. /\ crashes' \in 0..MaxCrashes /\ crashes' # 0 /\ broken' \in BOOLEAN
      /\ UNCHANGED <<tree, file, main, tmp, wal, conn>> /\ Finish(w)
  BY BoundsAssumption DEF Crash, SInv, TypeOK
<1> QED BY <1>1, Finished, QuietMove

\* Readers only hold and release inodes that are filled.
LEMMA SoundRead ==
    ASSUME SInv, NEW r \in Readers, ReadNodes(r) \/ ReadEdges(r) \/ Close(r) PROVE SInv'
<1>1. UNCHANGED <<tree, file, main, tmp, wal, pc, job, crashes, broken>>
  BY DEF ReadNodes, ReadEdges, Close
<1>2. (\A w \in Writers : Typed(w))' /\ AtWork'
  BY <1>1 DEF SInv, Typed, AtWork, Filling, Unlinking
<1>3. CASE ReadNodes(r)
  <2> DEFINE new == [inode |-> main, hash |-> View.hash, link |-> None, moved |-> FALSE]
  <2>1. /\ main \in Inodes /\ main # None /\ View = Through(main) /\ View \in Contents
        /\ wal # None => wal.base = main
    BY <1>3, ReadableView DEF ReadNodes, SInv
  <2>2. file[main] # Half
    BY <2>1, SpecialsAssumption DEF SInv, Solid, Through
  <2>3. new \in Conns /\ new.inode = main
    BY <2>1 DEF Conns, Contents
  <2>4. conn' = [conn EXCEPT ![r] = new]
    BY <1>3 DEF ReadNodes
  <2> HIDE DEF new
  <2>5. TypeOK' /\ Solid'
    BY <1>1, <2>2, <2>3, <2>4 DEF SInv, TypeOK, Solid
  <2> QED BY <1>2, <2>5 DEF SInv
<1>4. CASE ReadEdges(r)
  <2> DEFINE db == Through(conn[r].inode)
             new == [conn[r] EXCEPT !.link = db.link]
  <2>1. conn[r] # None /\ conn[r] \in Conns /\ conn[r].inode \in Inodes /\ file[conn[r].inode] # Half
    BY <1>4 DEF ReadEdges, SInv, TypeOK, Solid, Conns
  <2>2. db.link \in Links
    BY <2>1, ThroughType DEF SInv, Contents
  <2>3. conn' = [conn EXCEPT ![r] = new]
    BY <1>4 DEF ReadEdges, SInv, TypeOK
  <2>4. new \in Conns /\ new.inode = conn[r].inode
    BY <2>1, <2>2 DEF Conns
  <2> HIDE DEF new
  <2>5. TypeOK' /\ Solid'
    BY <1>1, <2>1, <2>3, <2>4 DEF SInv, TypeOK, Solid
  <2> QED BY <1>2, <2>5 DEF SInv
<1>5. CASE Close(r)
  <2>1. conn' = [conn EXCEPT ![r] = None]
    BY <1>5 DEF Close
  <2>2. TypeOK' /\ Solid'
    BY <1>1, <2>1 DEF SInv, TypeOK, Solid
  <2> QED BY <1>2, <2>2 DEF SInv
<1> QED BY <1>3, <1>4, <1>5

\* An edit changes the sources only.
LEMMA SoundEdit ==
    ASSUME SInv, NEW f \in Sources, Edit(f) PROVE SInv'
<1>1. UNCHANGED <<file, main, tmp, wal, pc, job, conn, crashes, broken>>
  BY DEF Edit
<1>2. tree' \in Trees
  BY BoundsAssumption DEF Edit, SInv, TypeOK, Trees
<1> QED BY <1>1, <1>2 DEF SInv, TypeOK, Typed, Solid, AtWork, Filling, Unlinking

\* Every step keeps SInv, with any number of writers.
LEMMA SoundNext ==
    ASSUME SInv, [Next]_vars PROVE SInv'
<1>1. ASSUME NEW w \in Writers, Step(w) PROVE SInv'
  BY <1>1, SoundStart, SoundCreateTmp, SoundFill, SoundSwap, SoundUnlinkWal, SoundScan, SoundLink,
     SoundCommitDelta, SoundDerive, SoundPut, SoundStats, SoundFold DEF Step
<1>2. CASE UNCHANGED vars
  BY <1>2 DEF vars, SInv, TypeOK, Typed, Solid, AtWork, Filling, Unlinking
<1> QED BY <1>1, <1>2, SoundCrash, SoundRead, SoundEdit DEF Next

(***************************************************************************)
(* One writer: what the live database holds, from commit to commit         *)
(***************************************************************************)
(* The derived tables are those of the edges.                              *)
Derived(db) == db.covers = db.link /\ db.sums \in {Missing, <<db.link, db.link>>}

Live == Through(main)

(* Between its delta and its last transaction the update knows which of    *)
(* the derived tables are still due, and has derived what it is to write   *)
(* from the edges that are there.                                          *)
DerivesOK(w) ==
    /\ pc[w] = "swap" => Derived(file[tmp])
    /\ AfterDelta(w) => job[w].link \in {"memory", "bounded"}
    /\ main # None =>
        /\ AfterDelta(w) /\ job[w].link = "memory" => Live.sums = <<Live.link, Live.link>>
        /\ pc[w] = "put covers" => job[w].covers = Live.link
        /\ pc[w] \in {"sums", "put sums"} \/ (pc[w] = "fold" /\ job[w].next = "sums") =>
              Live.covers = Live.link
        /\ pc[w] = "put sums" => job[w].sums = <<Live.link, Live.link>>

LiveDerived ==
    main # None /\ ~broken /\ (\A w \in Writers : ~AfterDelta(w)) => Derived(Live)

DInv == LiveDerived /\ \A w \in Writers : DerivesOK(w)

(* Sources only get newer: what is stored is no newer than what a build    *)
(* under way has read, and that no newer than the sources.                 *)
Older(s, t) == \A f \in Sources : s[f] <= t[f]

AgeOK(w) ==
    /\ pc[w] \in {"create", "fill", "swap"} /\ Readable => Older(View.hash, job[w].tree)
    /\ pc[w] \in {"create", "fill", "swap", "link", "commit"} => Older(job[w].tree, tree)
    /\ pc[w] \in {"link", "commit"} => Older(job[w].hash, job[w].tree)
    /\ pc[w] = "swap" => file[tmp].hash = job[w].tree /\ job[w].tree \in Trees

LiveAge == main # None => Older(Live.hash, tree)

AInv == LiveAge /\ \A w \in Writers : AgeOK(w)

HInv == IInv /\ DInv /\ AInv

\* Being no newer is reflexive and transitive.
LEMMA OlderFacts ==
    ASSUME NEW s \in Trees, NEW t \in Trees, NEW u \in Trees
    PROVE  Older(s, s) /\ (Older(s, t) /\ Older(t, u) => Older(s, u))
BY DEF Older, Trees

\* A full save writes the derived tables of its own edges.
LEMMA FullDerived ==
    ASSUME NEW t PROVE Derived(Full(t))
BY DEF Full, Derived

\* A file that is not being built is a database.
LEMMA LiveType ==
    ASSUME IInv, main # None
    PROVE  Live \in Contents /\ (Readable => View = Live)
BY ReadableView, ThroughType DEF IInv, TypeOK, MainWhole, Live

\* A step outside an update's later transactions that leaves the live
\* database, and what a connection by name reads, as they are.
LEMMA CalmMove ==
    ASSUME OneWriter, HInv, NEW w \in Writers, ~AfterDelta(w), ~AfterDelta(w)', pc'[w] # "swap",
           UNCHANGED <<tree, main, broken>>, View' = View, main # None => Live' = Live, AgeOK(w)'
    PROVE  DInv' /\ AInv' /\ NoOlder
<1>1. \A v \in Writers : v = w
  BY DEF OneWriter
<1>2. DerivesOK(w)'
  BY DEF DerivesOK, AfterDelta
<1>3. LiveDerived'
  BY <1>1 DEF HInv, DInv, LiveDerived, Derived
<1>4. LiveAge'
  BY DEF HInv, AInv, LiveAge, Older
<1>5. NoOlder
  <2>1. Readable => View.hash \in Trees
    BY ReadableView DEF HInv, IInv, Contents
  <2> QED BY <2>1, OlderFacts DEF NoOlder, Older
<1> QED BY <1>1, <1>2, <1>3, <1>4, <1>5 DEF DInv, AInv

\* What a transaction leaves behind.
LEMMA Committed ==
    ASSUME OneWriter, HInv, NEW w \in Writers, NEW db \in Contents, NEW next,
           Readable, CommitTx(w, db, next)
    PROVE  /\ main # None /\ main' = main /\ tree' = tree
           /\ View = Live /\ Live \in Contents /\ Live' = db /\ View' = db
           /\ pc'[w] = "fold" /\ job'[w].next = next /\ job'[w].link = job[w].link
<1>1. /\ main \in Inodes /\ main # None /\ View = Through(main) /\ View \in Contents
  BY ReadableView DEF HInv, IInv
<1>2. wal' = [base |-> main, db |-> db] /\ main' = main /\ tree' = tree
  BY DEF CommitTx
<1>3. wal' # None
  BY <1>1, <1>2, SpecialsAssumption DEF Wals
<1>4. Live' = db /\ View' = db
  BY <1>1, <1>2, <1>3 DEF Live, View, Through
<1>5. pc'[w] = "fold" /\ job'[w].next = next /\ job'[w].link = job[w].link
  BY DEF CommitTx, Goto, HInv, IInv, TypeOK, Jobs
<1> QED BY <1>1, <1>2, <1>4, <1>5 DEF Live

\* There is no database to be behind, and no job.
LEMMA HeldInitially ==
    ASSUME Init PROVE HInv
<1>1. IInv
  BY Initially
<1>2. \A w \in Writers : pc[w] = "idle" /\ ~AfterDelta(w)
  BY DEF Init, AfterDelta
<1>3. main # None => file[main] \in {Full(tree), [Full(tree) EXCEPT !.schema = "old"]} /\ Live = file[main]
  BY DEF Init, Live, Through
<1>5. tree \in Trees
  BY <1>1 DEF IInv, TypeOK
<1>4. main # None => Derived(Live) /\ Live.hash = tree
  <2> DEFINE db == Full(tree)
             old == [db EXCEPT !.schema = "old"]
  <2>1. db \in Contents /\ Derived(db) /\ db.hash = tree
    BY <1>5, FullWhole, FullDerived
  <2>2. main # None => Live = db \/ Live = old
    BY <1>3
  <2> HIDE DEF db
  <2>3. Derived(old) /\ old.hash = tree
    BY <2>1 DEF Contents, Derived
  <2> HIDE DEF old
  <2> QED BY <2>1, <2>2, <2>3
<1>6. DInv
  BY <1>2, <1>4 DEF DInv, LiveDerived, DerivesOK
<1>7. AInv
  BY <1>2, <1>4, <1>5, OlderFacts DEF AInv, LiveAge, AgeOK
<1> QED BY <1>1, <1>6, <1>7 DEF HInv

\* A transaction that leaves the hashes alone, or takes them on to those
\* of the tree.
LEMMA Aging ==
    ASSUME OneWriter, HInv, NEW w \in Writers, NEW db \in Contents, NEW next,
           Readable, CommitTx(w, db, next),
           Older(View.hash, db.hash), Older(db.hash, tree)
    PROVE  AInv' /\ NoOlder
<1>1. /\ main # None /\ main' = main /\ tree' = tree
      /\ View = Live /\ Live \in Contents /\ Live' = db /\ View' = db /\ pc'[w] = "fold"
  BY Committed
<1>2. LiveAge' /\ NoOlder
  BY <1>1 DEF LiveAge, NoOlder, Older
<1>3. \A v \in Writers : AgeOK(v)'
  BY <1>1 DEF OneWriter, AgeOK
<1> QED BY <1>2, <1>3 DEF AInv

\* A job starts with what the sources are now; migration leaves versions and
\* edges alone.
LEMMA HeldStart ==
    ASSUME OneWriter, HInv, NEW w \in Writers, StartBuild(w) \/ StartUpdate(w)
    PROVE  DInv' /\ AInv' /\ NoOlder
<1>1. /\ pc[w] = "idle" /\ broken' = broken /\ ~AfterDelta(w)
      /\ tree \in Trees /\ pc \in [Writers -> Steps] /\ job \in [Writers -> Jobs]
  BY DEF StartBuild, StartUpdate, AfterDelta, HInv, IInv, TypeOK
<1>2. main # None => Live \in Contents /\ Older(Live.hash, tree) /\ (Readable => View = Live)
  BY LiveType DEF HInv, AInv, LiveAge
<1>3. CASE /\ Goto(w, "create") /\ job' = [job EXCEPT ![w].tree = tree]
           /\ UNCHANGED <<tree, file, main, tmp, wal>>
  <2>1. /\ pc'[w] = "create" /\ job'[w].tree = tree /\ ~AfterDelta(w)'
        /\ View' = View /\ Live' = Live /\ Readable' = Readable
    BY <1>1, <1>3, StillFiles DEF Goto, Jobs, AfterDelta, Live
  <2>2. Readable => main # None
    BY DEF Readable, View
  <2>3. AgeOK(w)'
    BY <1>1, <1>2, <1>3, <2>1, <2>2, OlderFacts DEF AgeOK
  <2> QED BY <1>1, <1>3, <2>1, <2>3, CalmMove
<1>4. CASE Readable /\ CommitTx(w, Migrated(View), "scan")
  <2> DEFINE db == Migrated(View)
  <2>1. View \in Contents /\ main # None /\ View = Live
    BY <1>2, <1>4, ReadableView DEF HInv, IInv
  <2>2. db \in Contents /\ db.hash = View.hash /\ db.link = View.link
        /\ db.covers = View.covers /\ db.sums = Missing
    BY <2>1 DEF Migrated, Contents
  <2> HIDE DEF db
  <2>3. /\ Live' = db /\ main' = main /\ pc'[w] = "fold" /\ job'[w].next = "scan"
    BY <1>4, <2>2, Committed DEF db
  <2>4. AInv' /\ NoOlder
    <3>1. Older(View.hash, db.hash) /\ Older(db.hash, tree)
      BY <1>2, <2>1, <2>2, OlderFacts DEF Contents
    <3> QED BY <1>4, <2>2, <3>1, Aging DEF db
  <2>5. \A v \in Writers : v = w
    BY DEF OneWriter
  <2>6. LiveDerived'
    <3>1. ~broken => Derived(View)
      BY <1>1, <2>1, <2>5 DEF HInv, DInv, LiveDerived
    <3> QED BY <1>1, <2>2, <2>3, <3>1 DEF LiveDerived, Derived
  <2>7. DerivesOK(w)'
    BY <2>3 DEF DerivesOK, AfterDelta
  <2> QED BY <2>4, <2>5, <2>6, <2>7 DEF DInv
<1>5. CASE Goto(w, "scan") /\ UNCHANGED <<tree, file, main, tmp, wal, job>>
  <2>1. /\ pc'[w] = "scan" /\ ~AfterDelta(w)' /\ View' = View /\ Live' = Live
    BY <1>1, <1>5, StillFiles DEF Goto, AfterDelta, Live
  <2>2. AgeOK(w)'
    BY <2>1 DEF AgeOK
  <2> QED BY <1>1, <1>5, <2>1, <2>2, CalmMove
<1> QED BY <1>3, <1>4, <1>5 DEF StartBuild, StartUpdate

\* The live database and what the build has read of the sources stay.
LEMMA HeldCreateTmp ==
    ASSUME OneWriter, HInv, NEW w \in Writers, CreateTmp(w)
    PROVE  DInv' /\ AInv' /\ NoOlder
<1>1. PICK i \in Inodes : /\ Free(i)
                          /\ file' = [file EXCEPT ![i] = Half]
                          /\ job' = [job EXCEPT ![w].inode = i]
  BY DEF CreateTmp
<1>2. /\ pc[w] = "create" /\ pc'[w] = "fill" /\ UNCHANGED <<tree, main, wal, broken>>
      /\ ~AfterDelta(w) /\ ~AfterDelta(w)'
  BY DEF CreateTmp, Goto, AfterDelta, HInv, IInv, TypeOK
<1>3. job'[w].tree = job[w].tree
  BY <1>1 DEF HInv, IInv, TypeOK, Jobs
<1>4. /\ i # main /\ (wal # None => wal.base # i) /\ main \in Inodes \union {None}
      /\ file \in [Inodes -> Contents \union {Half}]
  BY <1>1 DEF Free, HInv, IInv, TypeOK
<1>5. main # None => Through(main)' = Through(main)
  BY <1>1, <1>2, <1>4 DEF Through
<1>6. View' = View /\ (main # None => Live' = Live) /\ Readable' = Readable
  BY <1>2, <1>5 DEF View, Live, Readable
<1>7. AgeOK(w)'
  BY <1>2, <1>3, <1>6 DEF HInv, AInv, AgeOK, Older
<1> QED BY <1>2, <1>6, <1>7, CalmMove

\* The temp file gets the versions the build has read.
LEMMA HeldFill ==
    ASSUME OneWriter, HInv, NEW w \in Writers, Fill(w)
    PROVE  DInv' /\ AInv' /\ NoOlder
<1> DEFINE db == Full(job[w].tree)
<1>1. /\ pc[w] = "fill" /\ pc'[w] = "swap" /\ UNCHANGED <<tree, main, tmp, wal, job, broken>>
      /\ ~AfterDelta(w) /\ ~AfterDelta(w)'
  BY DEF Fill, Goto, AfterDelta, HInv, IInv, TypeOK
<1>2. /\ job[w].tree \in Trees /\ job[w].inode = tmp /\ tmp # None /\ tmp # main
      /\ (wal # None => wal.base # tmp) /\ file' = [file EXCEPT ![tmp] = db]
      /\ tmp \in Inodes /\ main \in Inodes \union {None}
      /\ file \in [Inodes -> Contents \union {Half}]
  BY <1>1 DEF Fill, HInv, IInv, JobOK, TmpApart, TypeOK
<1>3. Derived(db) /\ db.hash = job[w].tree
  BY <1>2, FullDerived, FullWhole
<1> HIDE DEF db
<1>4. file'[tmp'] = db /\ (main # None => Through(main)' = Through(main))
  BY <1>1, <1>2 DEF Through
<1>5. View' = View /\ (main # None => Live' = Live) /\ Readable' = Readable
  BY <1>1, <1>4 DEF View, Live, Readable
<1>6. \A v \in Writers : v = w
  BY DEF OneWriter
<1>7. DInv'
  <2>1. DerivesOK(w)'
    BY <1>1, <1>3, <1>4 DEF DerivesOK, AfterDelta, Derived
  <2>2. LiveDerived'
    BY <1>1, <1>5, <1>6 DEF HInv, DInv, LiveDerived, Derived
  <2> QED BY <1>6, <2>1, <2>2 DEF DInv
<1>8. AInv' /\ NoOlder
  <2>1. AgeOK(w)'
    BY <1>1, <1>2, <1>3, <1>4, <1>5 DEF HInv, AInv, AgeOK, Older
  <2>2. LiveAge'
    BY <1>1, <1>5 DEF HInv, AInv, LiveAge, Older
  <2>3. NoOlder
    <3>1. Readable => View.hash \in Trees
      BY ReadableView DEF HInv, IInv, Contents
    <3> QED BY <1>5, <3>1, OlderFacts DEF NoOlder, Older
  <2> QED BY <1>6, <2>1, <2>2, <2>3 DEF AInv
<1> QED BY <1>7, <1>8

\* What becomes live was read after what it replaces.
LEMMA HeldSwap ==
    ASSUME OneWriter, HInv, NEW w \in Writers, Swap(w)
    PROVE  DInv' /\ AInv' /\ NoOlder
<1>1. /\ pc[w] = "swap" /\ tmp # None /\ file[tmp] # Half /\ tmp \in Inodes
      /\ (wal # None => wal.base # tmp) /\ tree \in Trees
  BY DEF Swap, HInv, IInv, Knows, TmpApart, TypeOK
<1>2. /\ main' = tmp /\ broken' = FALSE /\ pc'[w] = "unlink"
      /\ UNCHANGED <<tree, file, wal, job>>
  BY <1>1 DEF Swap, Goto, HInv, IInv, TypeOK
<1>3. Derived(file[tmp]) /\ file[tmp].hash = job[w].tree /\ job[w].tree \in Trees
  BY <1>1 DEF HInv, DInv, AInv, DerivesOK, AgeOK
<1>4. Live' = file[tmp]
  BY <1>1, <1>2 DEF Live, Through
<1>5. \A v \in Writers : v = w
  BY DEF OneWriter
<1>6. DInv'
  <2>1. LiveDerived' /\ DerivesOK(w)'
    BY <1>2, <1>3, <1>4 DEF LiveDerived, DerivesOK, AfterDelta, Derived
  <2> QED BY <1>5, <2>1 DEF DInv
<1>7. AInv'
  <2>1. Older(job[w].tree, tree)
    BY <1>1 DEF HInv, AInv, AgeOK
  <2>2. LiveAge' /\ AgeOK(w)'
    BY <1>2, <1>3, <1>4, <2>1 DEF LiveAge, AgeOK, Older
  <2> QED BY <1>5, <2>2 DEF AInv
<1>8. NoOlder
  <2> SUFFICES ASSUME View' # Torn, Readable PROVE Older(View.hash, View'.hash)
    BY DEF NoOlder, Older
  <2>1. View' = file[tmp]
    BY <1>1, <1>2, <1>4 DEF View, Live
  <2> QED BY <1>1, <1>3, <2>1 DEF HInv, AInv, AgeOK
<1> QED BY <1>6, <1>7, <1>8

\* The live file comes into view, with its derived tables and versions.
LEMMA HeldUnlinkWal ==
    ASSUME OneWriter, HInv, NEW w \in Writers, UnlinkWal(w)
    PROVE  DInv' /\ AInv' /\ NoOlder
<1>1. /\ pc[w] = "unlink" /\ pc'[w] = "stats" /\ wal' = None /\ UNCHANGED <<tree, main, job, broken>>
      /\ ~AfterDelta(w) /\ ~AfterDelta(w)'
  BY DEF UnlinkWal, Goto, AfterDelta, HInv, IInv, TypeOK
<1>2. wal # None => wal.base # main
  BY <1>1 DEF HInv, IInv, Knows
<1>3. main # None => Live = file[main] /\ Live' = file'[main] /\ file'[main] = file[main]
  BY <1>1, <1>2 DEF UnlinkWal, Live, Through, HInv, IInv, TypeOK, Wals
<1>4. \A v \in Writers : v = w
  BY DEF OneWriter
<1>5. DInv'
  <2>1. LiveDerived' /\ DerivesOK(w)'
    BY <1>1, <1>3, <1>4 DEF HInv, DInv, LiveDerived, DerivesOK, AfterDelta, Derived
  <2> QED BY <1>4, <2>1 DEF DInv
<1>6. AInv'
  BY <1>1, <1>3, <1>4 DEF HInv, AInv, LiveAge, AgeOK, Older
<1>7. NoOlder
  <2> SUFFICES ASSUME Readable PROVE Older(View.hash, View'.hash)
    BY DEF NoOlder, Older
  <2>1. main # None /\ View = Live /\ View \in Contents
    BY ReadableView, LiveType DEF HInv, IInv
  <2>2. View' = Live'
    BY <1>1, <2>1 DEF View, Live
  <2> QED BY <1>3, <2>1, <2>2, OlderFacts DEF Contents
<1> QED BY <1>5, <1>6, <1>7

\* The hashes scanned are no older than the stored ones.
LEMMA HeldScan ==
    ASSUME OneWriter, HInv, NEW w \in Writers, Scan(w)
    PROVE  DInv' /\ AInv' /\ NoOlder
<1>1. /\ pc[w] = "scan" /\ UNCHANGED <<tree, file, main, wal, broken>> /\ ~AfterDelta(w)
      /\ pc \in [Writers -> Steps] /\ job \in [Writers -> Jobs] /\ tree \in Trees
  BY DEF Scan, AfterDelta, HInv, IInv, TypeOK
<1>2. View' = View /\ Live' = Live
  BY <1>1, StillFiles DEF Live
<1>3. View = Live /\ main # None /\ View.hash \in Trees
  BY ReadableView, LiveType DEF Scan, HInv, IInv, Contents
<1>4. ~AfterDelta(w)' /\ pc'[w] # "swap" /\ AgeOK(w)'
  <2>1. CASE Finish(w)
    <3>1. pc'[w] = "idle"
      BY <1>1, <2>1 DEF Finish, Goto
    <3> QED BY <3>1 DEF AgeOK, AfterDelta
  <2>2. CASE Goto(w, "link") /\ job' = [job EXCEPT ![w].hash = View.hash, ![w].tree = tree]
    <3>1. pc'[w] = "link" /\ job'[w].hash = View.hash /\ job'[w].tree = tree
      BY <1>1, <2>2 DEF Goto, Jobs
    <3>2. Older(View.hash, tree)
      BY <1>3 DEF HInv, AInv, LiveAge
    <3> QED BY <1>1, <3>1, <3>2, OlderFacts DEF AgeOK, AfterDelta
  <2> QED BY <2>1, <2>2 DEF Scan
<1> QED BY <1>1, <1>2, <1>4, CalmMove

\* Linking reads, and the base is the one that was scanned.
LEMMA HeldLink ==
    ASSUME OneWriter, HInv, NEW w \in Writers, Link(w)
    PROVE  DInv' /\ AInv' /\ NoOlder
<1>1. /\ pc[w] = "link" /\ pc'[w] = "commit" /\ UNCHANGED <<tree, file, main, wal, broken>>
      /\ ~AfterDelta(w) /\ ~AfterDelta(w)'
  BY DEF Link, Goto, AfterDelta, HInv, IInv, TypeOK
<1>2. View' = View /\ Live' = Live
  BY <1>1, StillFiles DEF Live
<1>3. job'[w].hash = job[w].hash /\ job'[w].tree = job[w].tree
  BY DEF Link, HInv, IInv, TypeOK, Jobs
<1>4. AgeOK(w)'
  BY <1>1, <1>3 DEF HInv, AInv, AgeOK, Older
<1> QED BY <1>1, <1>2, <1>4, CalmMove

\* A delta on the whole graph in memory writes the summaries of the edges
\* it leaves, a full link all derived tables.
LEMMA DeltaDerives ==
    ASSUME NEW j \in Jobs, NEW db \in Contents, Linking(j, db), Whole(db)
    PROVE  /\ j.link = "full" => Derived(Delta(j, db))
           /\ j.link = "memory" => Delta(j, db).sums = <<Delta(j, db).link, Delta(j, db).link>>
<1> DEFINE all  == [f \in Sources |-> Edges(Linked(j), f)]
           hash == [f \in Sources |-> IF f \in Touched(j) THEN j.tree[f] ELSE db.hash[f]]
           link == [f \in Sources |-> IF j.link = "full" \/ f \in InReach(j)
                                      THEN all[f] ELSE db.link[f]]
           covers == IF j.link = "full" THEN all ELSE db.covers
           sums == IF j.link = "bounded" THEN db.sums ELSE <<all, all>>
<1>1. Delta(j, db) = [db EXCEPT !.hash = hash, !.link = link, !.covers = covers, !.sums = sums]
  BY DEF Delta, Merged
<1>2. /\ Delta(j, db).hash = hash /\ Delta(j, db).link = link
      /\ Delta(j, db).covers = covers /\ Delta(j, db).sums = sums
  <2> HIDE DEF all, hash, link, covers, sums
  <2> QED BY <1>1 DEF Contents
<1>3. Linked(j) = hash
  BY LinkedType
<1>4. \A f \in Sources : link[f] = Edges(hash, f)
  <2> HIDE DEF link, hash
  <2> QED BY <1>2, DeltaWhole DEF Whole
<1>5. link = all
  <2>1. \A f \in Sources : link[f] = all[f]
    <3> HIDE DEF link, hash
    <3> QED BY <1>3, <1>4
  <2>2. link = [f \in Sources |-> link[f]] /\ all = [f \in Sources |-> all[f]]
    OBVIOUS
  <2> HIDE DEF link, all
  <2> QED BY <2>1, <2>2
<1> HIDE DEF all, link, hash
<1> QED BY <1>2, <1>5 DEF Derived

\* The delta moves each source forward to the version scanned; the derived
\* tables are now this writer's to replace.
LEMMA HeldCommitDelta ==
    ASSUME OneWriter, HInv, NEW w \in Writers, CommitDelta(w)
    PROVE  DInv' /\ AInv' /\ NoOlder
<1>1. /\ pc[w] = "commit" /\ job[w] \in Jobs /\ job[w].tree \in Trees /\ tree \in Trees
      /\ pc \in [Writers -> Steps] /\ job[w].hash \in Trees /\ ~AfterDelta(w)
      /\ Older(job[w].hash, job[w].tree) /\ Older(job[w].tree, tree)
  BY DEF CommitDelta, HInv, IInv, TypeOK, JobOK, AInv, AgeOK, AfterDelta
<1>2. CASE Readable
  <2> DEFINE j    == job[w]
             db   == Delta(j, View)
             next == IF j.link = "full" THEN "stats" ELSE "covers"
  <2>1. View \in Contents /\ Whole(View) /\ Linking(j, View) /\ View.hash = j.hash
    BY <1>1, <1>2, ReadableView, ReadableWhole DEF HInv, IInv, Knows, Linking
  <2>2. /\ db \in Contents
        /\ j.link = "full" => Derived(db)
        /\ j.link = "memory" => db.sums = <<db.link, db.link>>
    BY <1>1, <2>1, DeltaWhole, DeltaDerives
  <2>3. CommitTx(w, db, next) /\ broken' = (broken /\ j.link # "full")
    BY <1>2 DEF CommitDelta
  <2>4. Older(View.hash, db.hash) /\ Older(db.hash, tree)
    <3>1. \A f \in Sources : db.hash[f] = IF f \in Touched(j) THEN j.tree[f] ELSE View.hash[f]
      BY <2>1 DEF Delta, Merged, Contents
    <3>2. Older(View.hash, tree)
      BY <1>1, <2>1, OlderFacts
    <3> HIDE DEF db, j
    <3> QED BY <1>1, <2>1, <3>1, <3>2 DEF Older, Trees, j
  <2> HIDE DEF db, next
  <2>5. /\ Live' = db /\ main' = main /\ pc'[w] = "fold"
        /\ job'[w].next = next /\ job'[w].link = j.link
    BY <1>2, <2>2, <2>3, Committed
  <2>6. AInv' /\ NoOlder
    BY <1>2, <2>2, <2>3, <2>4, Aging
  <2>7. \A v \in Writers : v = w
    BY DEF OneWriter
  <2>8. j.link \in {"full", "memory", "bounded"}
    BY <1>1 DEF Jobs
  <2>9. DerivesOK(w)'
    BY <2>2, <2>5, <2>8 DEF DerivesOK, AfterDelta, next
  <2>10. LiveDerived'
    BY <2>2, <2>3, <2>5, <2>7, <2>8 DEF LiveDerived, AfterDelta, next, Derived
  <2> QED BY <2>6, <2>7, <2>9, <2>10 DEF DInv
<1>3. CASE ~Readable
  <2>1. pc'[w] = "create" /\ UNCHANGED <<tree, file, main, wal, job, broken>> /\ ~AfterDelta(w)'
    BY <1>1, <1>3 DEF CommitDelta, Goto, AfterDelta
  <2>2. View' = View /\ Live' = Live /\ Readable' = Readable
    BY <2>1, StillFiles DEF Live
  <2>3. AgeOK(w)'
    BY <1>1, <1>3, <2>1, <2>2 DEF AgeOK, Older
  <2> QED BY <1>1, <2>1, <2>2, <2>3, CalmMove
<1> QED BY <1>2, <1>3

\* A step that leaves files, names and sources as they are, and the writer
\* at an update's later transactions.
LEMMA StillAge ==
    ASSUME OneWriter, HInv, NEW w \in Writers, UNCHANGED <<tree, main>>,
           View' = View, main # None => Live' = Live,
           pc'[w] \notin {"create", "fill", "swap", "link", "commit"}
    PROVE  AInv' /\ NoOlder
<1>1. \A v \in Writers : AgeOK(v)'
  BY DEF OneWriter, AgeOK
<1>2. LiveAge'
  BY DEF HInv, AInv, LiveAge, Older
<1>3. NoOlder
  <2>1. Readable => View.hash \in Trees
    BY ReadableView DEF HInv, IInv, Contents
  <2> QED BY <2>1, OlderFacts DEF NoOlder, Older
<1> QED BY <1>1, <1>2, <1>3 DEF AInv

\* What is derived is derived from the edges that are there.
LEMMA HeldDerive ==
    ASSUME OneWriter, HInv, NEW w \in Writers, Derive(w)
    PROVE  DInv' /\ AInv' /\ NoOlder
<1>1. /\ pc[w] \in {"covers", "sums"} /\ UNCHANGED <<tree, file, main, tmp, wal, broken>>
      /\ pc \in [Writers -> Steps] /\ job \in [Writers -> Jobs] /\ AfterDelta(w)
  BY DEF Derive, AfterDelta, HInv, IInv, TypeOK
<1>2. View' = View /\ Live' = Live
  BY <1>1, StillFiles DEF Live
<1>3. View = Live /\ main # None
  BY ReadableView, LiveType DEF Derive, HInv, IInv
<1>4. DerivesOK(w)
  BY DEF HInv, DInv
<1>5. CASE pc[w] = "covers"
  <2>1. pc'[w] = "put covers" /\ job'[w].covers = Live.link /\ job'[w].link = job[w].link
    BY <1>1, <1>3, <1>5 DEF Derive, Goto, Jobs
  <2>2. DerivesOK(w)' /\ AfterDelta(w)'
    BY <1>1, <1>2, <1>4, <2>1 DEF DerivesOK, AfterDelta
  <2> QED BY <1>1, <1>2, <2>1, <2>2, StillAge DEF DInv, LiveDerived, OneWriter
<1>6. CASE pc[w] = "sums"
  <2> DEFINE pair == <<Live.link, Live.covers>>
  <2>1. pc'[w] = "put sums" /\ job'[w].sums = pair /\ job'[w].link = job[w].link
    <3>1. Goto(w, "put sums") /\ job' = [job EXCEPT ![w].sums = pair]
      BY <1>3, <1>6 DEF Derive
    <3> HIDE DEF pair
    <3> QED BY <1>1, <3>1 DEF Goto, Jobs
  <2>2. DerivesOK(w)' /\ AfterDelta(w)'
    BY <1>1, <1>2, <1>3, <1>4, <1>6, <2>1 DEF DerivesOK, AfterDelta
  <2> QED BY <1>1, <1>2, <2>1, <2>2, StillAge DEF DInv, LiveDerived, OneWriter
<1> QED BY <1>1, <1>5, <1>6

\* TEST_COVERS is replaced by what was derived from these edges.
LEMMA HeldPutCovers ==
    ASSUME OneWriter, HInv, NEW w \in Writers, PutCovers(w)
    PROVE  DInv' /\ AInv' /\ NoOlder
<1> DEFINE db   == [View EXCEPT !.covers = job[w].covers]
           next == IF job[w].link = "bounded" THEN "sums" ELSE "stats"
<1>1. /\ pc[w] = "put covers" /\ Readable /\ CommitTx(w, db, next) /\ AfterDelta(w)
      /\ broken' = (broken /\ job[w].link = "bounded") /\ job[w].covers \in Links
  BY DEF PutCovers, AfterDelta, HInv, IInv, JobOK
<1>2. View \in Contents /\ View = Live /\ main # None
  BY <1>1, ReadableView, LiveType DEF HInv, IInv
<1>3. /\ db \in Contents /\ db.hash = View.hash /\ db.link = View.link
      /\ db.covers = job[w].covers /\ db.sums = View.sums
  BY <1>1, <1>2 DEF Contents
<1>4. /\ job[w].covers = Live.link /\ job[w].link \in {"memory", "bounded"}
      /\ job[w].link = "memory" => Live.sums = <<Live.link, Live.link>>
  BY <1>1, <1>2 DEF HInv, DInv, DerivesOK
<1> HIDE DEF db, next
<1>5. /\ Live' = db /\ main' = main /\ pc'[w] = "fold"
      /\ job'[w].next = next /\ job'[w].link = job[w].link
  BY <1>1, <1>3, Committed
<1>6. AInv' /\ NoOlder
  <2>1. Older(View.hash, db.hash) /\ Older(db.hash, tree)
    BY <1>2, <1>3, OlderFacts DEF Contents, HInv, AInv, LiveAge
  <2> QED BY <1>1, <1>3, <2>1, Aging
<1>7. DerivesOK(w)'
  BY <1>2, <1>3, <1>4, <1>5 DEF DerivesOK, AfterDelta, next
<1>8. LiveDerived'
  BY <1>1, <1>2, <1>3, <1>4, <1>5 DEF LiveDerived, AfterDelta, next, Derived
<1> QED BY <1>6, <1>7, <1>8 DEF DInv, OneWriter

\* The summaries are replaced by what was derived from these edges.
LEMMA HeldPutSums ==
    ASSUME OneWriter, HInv, NEW w \in Writers, PutSums(w)
    PROVE  DInv' /\ AInv' /\ NoOlder
<1> DEFINE db   == [View EXCEPT !.sums = job[w].sums]
           next == "stats"
<1>1. /\ pc[w] = "put sums" /\ Readable /\ CommitTx(w, db, next) /\ AfterDelta(w)
  BY DEF PutSums, AfterDelta
<1>2. View \in Contents /\ View = Live /\ main # None
  BY <1>1, ReadableView, LiveType DEF HInv, IInv
<1>3. /\ db \in Contents /\ db.hash = View.hash /\ db.link = View.link
      /\ db.covers = View.covers /\ db.sums = job[w].sums
  <2>1. job[w].sums \in Links \X Links
    BY <1>1 DEF HInv, IInv, JobOK
  <2> QED BY <1>2, <2>1 DEF Contents
<1>4. Live.covers = Live.link /\ job[w].sums = <<Live.link, Live.link>>
  BY <1>1, <1>2 DEF HInv, DInv, DerivesOK
<1> HIDE DEF db, next
<1>5. Live' = db /\ main' = main /\ pc'[w] = "fold" /\ job'[w].next = next
  BY <1>1, <1>3, Committed
<1>6. AInv' /\ NoOlder
  <2>1. Older(View.hash, db.hash) /\ Older(db.hash, tree)
    BY <1>2, <1>3, OlderFacts DEF Contents, HInv, AInv, LiveAge
  <2> QED BY <1>1, <1>3, <2>1, Aging
<1>7. DerivesOK(w)' /\ LiveDerived'
  BY <1>2, <1>3, <1>4, <1>5 DEF DerivesOK, AfterDelta, LiveDerived, Derived, next
<1> QED BY <1>6, <1>7 DEF DInv, OneWriter

\* The writer leaves with both derived tables replaced.
LEMMA HeldStats ==
    ASSUME OneWriter, HInv, NEW w \in Writers, Stats(w)
    PROVE  DInv' /\ AInv' /\ NoOlder
<1>1. pc[w] = "stats" /\ broken' = broken /\ ~AfterDelta(w)
  BY DEF Stats, AfterDelta
<1>2. CASE Readable /\ CommitTx(w, View, "idle")
  <2>1. View \in Contents /\ View = Live /\ main # None
    BY <1>2, ReadableView, LiveType DEF HInv, IInv
  <2>2. Live' = View /\ main' = main /\ pc'[w] = "fold" /\ job'[w].next = "idle"
    BY <1>2, <2>1, Committed
  <2>3. AInv' /\ NoOlder
    <3>1. Older(View.hash, View.hash) /\ Older(View.hash, tree)
      BY <2>1, OlderFacts DEF Contents, HInv, AInv, LiveAge
    <3> QED BY <1>2, <2>1, <3>1, Aging
  <2>4. DerivesOK(w)' /\ LiveDerived'
    BY <1>1, <2>1, <2>2 DEF DerivesOK, AfterDelta, HInv, DInv, LiveDerived, Derived, OneWriter
  <2> QED BY <2>3, <2>4 DEF DInv, OneWriter
<1>3. CASE Finish(w) /\ UNCHANGED <<tree, file, main, tmp, wal, crashes>>
  <2>1. pc'[w] = "idle" /\ ~AfterDelta(w)'
    BY <1>3 DEF Finish, Goto, AfterDelta, HInv, IInv, TypeOK
  <2>2. View' = View /\ Live' = Live
    BY <1>3, StillFiles DEF Live
  <2>3. AgeOK(w)'
    BY <2>1 DEF AgeOK
  <2> QED BY <1>1, <1>3, <2>1, <2>2, <2>3, CalmMove
<1> QED BY <1>2, <1>3 DEF Stats

\* Folding changes neither versions nor derived tables of the view.
LEMMA HeldFold ==
    ASSUME OneWriter, HInv, NEW w \in Writers, Fold(w)
    PROVE  DInv' /\ AInv' /\ NoOlder
<1>1. /\ pc[w] = "fold" /\ UNCHANGED <<tree, main, tmp, conn, crashes, broken>>
      /\ pc \in [Writers -> Steps] /\ job \in [Writers -> Jobs] /\ job[w] \in Jobs
      /\ main \in Inodes \union {None} /\ file \in [Inodes -> Contents \union {Half}]
  BY DEF Fold, HInv, IInv, TypeOK
<1>2. main # None => Live' = Live
  <2>1. CASE Checkpointed
    BY <1>1, <2>1 DEF Checkpointed, Live, Through
  <2>2. CASE UNCHANGED <<file, wal>>
    BY <1>1, <2>2 DEF Live, Through
  <2> QED BY <2>1, <2>2 DEF Fold
<1>3. /\ wal' = wal \/ wal' = None
      /\ job[w].next = pc'[w]
      /\ job[w].next = "idle" \/ job' = job
      /\ job[w].next \in {"idle", "scan", "covers", "sums", "stats"}
  BY <1>1 DEF Fold, Checkpointed, Finish, Goto, Jobs
<1>4. main # None => Live \in Contents /\ Live # Half /\ Live # Torn /\ Live # None
  BY LiveType, SpecialsAssumption DEF HInv
<1>5. LiveAge'
  BY <1>1, <1>2 DEF HInv, AInv, LiveAge, Older
<1>6. \A v \in Writers : v = w
  BY DEF OneWriter
<1>7. NoOlder
  <2> SUFFICES ASSUME Readable PROVE Older(View.hash, View'.hash)
    BY DEF NoOlder, Older
  <2>1. main # None /\ View = Live /\ View \in Contents /\ (wal # None => wal.base = main)
    BY ReadableView, LiveType DEF HInv, IInv
  <2>2. View' = Live'
    BY <1>1, <1>3, <2>1 DEF View, Live
  <2> QED BY <1>2, <2>1, <2>2, OlderFacts DEF Contents
<1>8. AgeOK(w)'
  BY <1>3 DEF AgeOK
<1>9. DerivesOK(w)'
  <2>1. DerivesOK(w)
    BY DEF HInv, DInv
  <2> QED BY <1>1, <1>2, <1>3, <2>1 DEF DerivesOK, AfterDelta
<1>10. LiveDerived'
  <2>1. ~AfterDelta(w)' => ~AfterDelta(w)
    BY <1>1, <1>3 DEF AfterDelta
  <2> QED BY <1>1, <1>2, <1>6, <2>1 DEF HInv, DInv, LiveDerived, Derived
<1> QED BY <1>5, <1>6, <1>7, <1>8, <1>9, <1>10 DEF DInv, AInv

\* A crash between the delta and the last table is what broken records.
LEMMA HeldCrash ==
    ASSUME OneWriter, HInv, NEW w \in Writers, Crash(w)
    PROVE  DInv' /\ AInv' /\ NoOlder
<1>1. /\ UNCHANGED <<tree, file, main, tmp, wal>> /\ broken' = (broken \/ AfterDelta(w))
      /\ pc'[w] = "idle"
  BY DEF Crash, Finish, Goto, HInv, IInv, TypeOK
<1>2. View' = View /\ Live' = Live
  BY <1>1, StillFiles DEF Live
<1>3. AInv' /\ NoOlder
  BY <1>1, <1>2, StillAge
<1>4. \A v \in Writers : v = w
  BY DEF OneWriter
<1>5. DerivesOK(w)'
  BY <1>1 DEF DerivesOK, AfterDelta
<1>6. LiveDerived'
  BY <1>1, <1>2, <1>4 DEF HInv, DInv, LiveDerived, Derived
<1> QED BY <1>3, <1>4, <1>5, <1>6 DEF DInv

\* A step of a reader, an edit, or a stutter.
LEMMA HeldElse ==
    ASSUME OneWriter, HInv, UNCHANGED <<file, main, tmp, wal, pc, job, broken>>,
           tree' \in Trees, Older(tree, tree')
    PROVE  DInv' /\ AInv' /\ NoOlder
<1>1. View' = View /\ Live' = Live /\ Readable' = Readable
  BY StillFiles DEF Live
<1>2. \A w \in Writers : AfterDelta(w)' = AfterDelta(w)
  BY DEF AfterDelta
<1>3. DInv'
  <2>1. \A w \in Writers : DerivesOK(w)'
    BY <1>1, <1>2 DEF HInv, DInv, DerivesOK, Derived
  <2> QED BY <1>1, <1>2, <2>1 DEF HInv, DInv, LiveDerived, Derived
<1>4. tree \in Trees /\ \A w \in Writers : JobOK(w) /\ AgeOK(w)
  BY DEF HInv, IInv, TypeOK, AInv
<1>5. ASSUME NEW w \in Writers PROVE AgeOK(w)'
  <2>1. pc[w] \in {"create", "fill", "swap", "link", "commit"} => Older(job[w].tree, tree')
    <3>1. pc[w] \in {"create", "fill", "swap", "link", "commit"} => job[w].tree \in Trees
      BY <1>4 DEF JobOK, AgeOK
    <3> QED BY <1>4, <3>1, OlderFacts DEF AgeOK
  <2> QED BY <1>1, <1>4, <2>1 DEF AgeOK, Older
<1>6. LiveAge'
  <2> SUFFICES ASSUME main # None PROVE Older(Live.hash, tree')
    BY <1>1 DEF LiveAge, Older
  <2>1. Live.hash \in Trees
    BY LiveType DEF HInv, Contents
  <2> QED BY <1>4, <2>1, OlderFacts DEF HInv, AInv, LiveAge
<1>7. NoOlder
  <2>1. Readable => View.hash \in Trees
    BY ReadableView DEF HInv, IInv, Contents
  <2> QED BY <1>1, <2>1, OlderFacts DEF NoOlder, Older
<1> QED BY <1>3, <1>5, <1>6, <1>7 DEF AInv

\* Every step keeps HInv, and none takes the live database back.
LEMMA HeldNext ==
    ASSUME OneWriter, HInv, [Next]_vars PROVE HInv' /\ [NoOlder]_vars
<1>1. IInv' /\ tree \in Trees
  BY Inductive DEF HInv, IInv, TypeOK
<1>2. ASSUME NEW w \in Writers, Step(w) PROVE DInv' /\ AInv' /\ NoOlder
  BY <1>2, HeldStart, HeldCreateTmp, HeldFill, HeldSwap, HeldUnlinkWal, HeldScan, HeldLink,
     HeldCommitDelta, HeldDerive, HeldPutCovers, HeldPutSums, HeldStats, HeldFold DEF Step
<1>3. ASSUME NEW r \in Readers, ReadNodes(r) \/ ReadEdges(r) \/ Close(r)
      PROVE  DInv' /\ AInv' /\ NoOlder
  BY <1>1, <1>3, HeldElse, OlderFacts DEF ReadNodes, ReadEdges, Close
<1>4. ASSUME NEW f \in Sources, Edit(f) PROVE DInv' /\ AInv' /\ NoOlder
  <2>1. tree' \in Trees /\ Older(tree, tree')
    BY <1>1, <1>4, BoundsAssumption DEF Edit, Trees, Older
  <2> QED BY <1>4, <2>1, HeldElse DEF Edit
<1>5. CASE UNCHANGED vars
  <2>1. tree' \in Trees /\ Older(tree, tree')
    BY <1>1, <1>5, OlderFacts DEF vars
  <2>2. DInv' /\ AInv'
    BY <1>5, <2>1, HeldElse DEF vars
  <2> QED BY <1>1, <1>5, <2>2 DEF HInv
<1> QED BY <1>1, <1>2, <1>3, <1>4, <1>5, HeldCrash DEF HInv, Next

(***************************************************************************)
(* The theorems                                                            *)
(***************************************************************************)
(* Every variable keeps its type, however many writers are at work: what   *)
(* a writer commits to a database it did not read is a database too.       *)
THEOREM StoreTypes == Spec => []TypeOK
<1>1. SInv => TypeOK
  BY DEF SInv
<1> QED BY <1>1, SoundInitially, SoundNext, PTL DEF Spec

(* With any number of builds and updates at work on one database, and none *)
(* crashed: when all have finished no half-filled file is live and no WAL  *)
(* of a replaced file lies beside it.                                      *)
THEOREM WritersSettle == Spec => []Settled
<1>1. ASSUME SInv PROVE Settled
  <2> SUFFICES ASSUME crashes = 0, \A w \in Writers : pc[w] = "idle" PROVE View \notin {Half, Torn}
    BY DEF Settled
  <2>1. main # None => file[main] # Half /\ (wal # None => wal.base = main)
    BY <1>1 DEF SInv, AtWork, Filling, Unlinking
  <2>2. main # None => Through(main) \in Contents /\ main \in Inodes
    BY <1>1, <2>1, ThroughType DEF SInv, TypeOK
  <2> QED BY <2>1, <2>2, SpecialsAssumption DEF View
<1> QED BY <1>1, SoundInitially, SoundNext, PTL DEF Spec

(* With one writer at a time, a database that can be read is whole after   *)
(* any sequence of edits, builds, updates, migrations, queries and crashes:*)
(* no reader and no later update meets a half-written or mixed one.        *)
THEOREM LiveDatabaseWhole == OneWriter => (Spec => []LiveWhole)
<1> SUFFICES ASSUME OneWriter PROVE Spec => []LiveWhole
  OBVIOUS
<1>1. ASSUME IInv PROVE LiveWhole
  <2> SUFFICES ASSUME View # None, View # Torn PROVE View # Half /\ Whole(View)
    BY DEF LiveWhole
  <2>1. main # None /\ main \in Inodes /\ (wal # None => wal.base = main) /\ View = Through(main)
    BY <1>1 DEF View, IInv, TypeOK
  <2>2. CASE wal = None
    BY <1>1, <2>1, <2>2 DEF Through, IInv, MainWhole
  <2>3. CASE wal # None
    <3>1. View = wal.db /\ wal.db \in Contents
      BY <1>1, <2>1, <2>3 DEF Through, IInv, TypeOK, Wals
    <3> QED BY <1>1, <2>3, <3>1, SpecialsAssumption DEF IInv, WalWhole
  <2> QED BY <2>2, <2>3
<1> QED BY <1>1, Initially, Inductive, PTL DEF Spec

(* With one writer at a time, nodes and edges that a query reads come from *)
(* one database, unless a delta was committed to its file in between.      *)
THEOREM QueriesWhole == OneWriter => (Spec => []QueryWhole)
<1> SUFFICES ASSUME OneWriter PROVE Spec => []QueryWhole
  OBVIOUS
<1>1. ASSUME IInv PROVE QueryWhole
  BY <1>1 DEF IInv, ConnOK, QueryWhole
<1> QED BY <1>1, Initially, Inductive, PTL DEF Spec

(* With one writer at a time, the derived tables are those of the edges    *)
(* whenever the writer rests, if no crash came between the transactions of *)
(* its last update: whichever way the update linked, through migrations,   *)
(* checkpoints and restarts.                                               *)
THEOREM DerivedTablesCurrent == OneWriter => (Spec => []DerivedCurrent)
<1> SUFFICES ASSUME OneWriter PROVE Spec => []DerivedCurrent
  OBVIOUS
<1>1. ASSUME HInv PROVE DerivedCurrent
  <2> SUFFICES ASSUME Readable, ~broken, \A w \in Writers : pc[w] = "idle" PROVE Derived(View)
    BY DEF DerivedCurrent, Derived
  <2>1. main # None /\ View = Live
    BY <1>1, ReadableView, LiveType DEF HInv, IInv
  <2> QED BY <1>1, <2>1 DEF HInv, DInv, LiveDerived, AfterDelta
<1> QED BY <1>1, HeldInitially, HeldNext, PTL DEF Spec

(* With one writer at a time, no command, crash or restart takes the live  *)
(* database back to an older version of a source.                          *)
THEOREM NeverGoesBack == OneWriter => (Spec => NeverBack)
<1> SUFFICES ASSUME OneWriter PROVE Spec => NeverBack
  OBVIOUS
<1> QED BY HeldInitially, HeldNext, PTL DEF Spec, NeverBack
=============================================================================
