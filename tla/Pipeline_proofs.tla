--------------------------- MODULE Pipeline_proofs ---------------------------
(* A run, however its workers answer or fail, keeps its types, feeds the   *)
(* macro table in compile order, loses no file, and writes what a serial   *)
(* run would have written: Pipeline implements SerialRun.                  *)
EXTENDS Pipeline, Numbers, TLAPS

(***************************************************************************)
(* Types                                                                   *)
(***************************************************************************)
Disks == [Files -> Text \union {Absent}]
Parts == UNION {[S -> Text] : S \in SUBSET Sources}
IRs   == [unit : Sources, parts : Parts, bad : {"none", "ir", "events"}]

Runs ==
    [mode : {"full", "legacy", "selective"}, clean : SUBSET Sources, table : Seq(Sources),
     processed : SUBSET Sources, consumed : SUBSET Sources, irs : Seq(IRs),
     units : SUBSET Sources, skipped : SUBSET Sources, failed : SUBSET Sources, parsed : Nat]

Items == [unit : Sources, state : {"ready", "thunk", "running", "failed"}, ir : IRs]

(* An IR of f, made from the text t of f.                                  *)
Made(ir, f, t) == ir \in IRs /\ ir.unit = f /\ f \in DOMAIN ir.parts /\ ir.parts[f] = t

(* The stored units are those of the texts that were hashed.               *)
Stored(base) ==
    /\ base = [root |-> base.root, inputs |-> base.inputs, enrich |-> base.enrich,
               hash |-> base.hash, skipped |-> base.skipped, failed |-> base.failed,
               unit |-> base.unit, graph |-> base.graph]
    /\ base.hash = [f \in Files |-> base.hash[f]]
    /\ base.unit = [u \in DOMAIN base.unit |-> base.unit[u]]
    /\ DOMAIN base.unit \subseteq Sources
    /\ \A u \in DOMAIN base.unit : Made(base.unit[u], u, base.hash[u])

(* The ways in which a run may compile.                                    *)
Ways(d, base, o) == Serial!Modes(d, base, o) \ {"up to date"}

(* The way of a run that is under way, and what it may reuse.              *)
Way ==
    pc # "idle" =>
        /\ run.mode \in Ways(disk, db, opts)
        /\ run.clean = CleanOf(run.mode, disk, db)

TInv ==
    /\ disk \in Disks
    /\ opts \in Options
    /\ db # NoDatabase => Stored(db)
    /\ pc \in {"idle", "pass", "drain", "tail", "link"}
    /\ run \in Runs
    /\ pc = "idle" => run.clean = {}
    /\ next \in 1 .. Len(Order) + 1
    /\ queue \in Seq(Items)
    /\ pool \in {"none", "up", "broken"}
    /\ Way

(***************************************************************************)
(* Operators                                                               *)
(***************************************************************************)
LEMMA OrderFacts ==
    /\ Len(Order) \in Nat /\ DOMAIN Order = 1 .. Len(Order)
    /\ \A i \in DOMAIN Order : Order[i] \in Sources /\ Position(Order[i]) = i
    /\ \A f \in Sources : Position(f) \in DOMAIN Order /\ Order[Position(f)] = f
    /\ Sources \subseteq Files
<1>1. Order \in Seq(Sources)
  BY OrderAssumption
<1>2. Len(Order) \in Nat /\ DOMAIN Order = 1 .. Len(Order)
  BY <1>1
<1>3. \A f \in Sources : \E i \in DOMAIN Order : Order[i] = f
  BY DEF Sources, Range
<1>4. \A f \in Sources : Position(f) \in DOMAIN Order /\ Order[Position(f)] = f
  BY <1>3 DEF Position
<1>5. \A i \in DOMAIN Order : Order[i] \in Sources
  BY <1>1
<1>6. \A i \in DOMAIN Order : Position(Order[i]) = i
  BY <1>4, <1>5, OrderAssumption
<1>7. Sources \subseteq Files
  BY DEF Files
<1> QED BY <1>2, <1>4, <1>5, <1>6, <1>7

\* What is not dirty is as it was hashed.
LEMMA CleanSame ==
    ASSUME NEW d, NEW base, NEW f \in Files, f \notin Dirty(d, base)
    PROVE  base.hash[f] = d[f]
BY DEF Dirty, Changed, Added, Removed

\* What an update touches is dirty; a file that is there and was not touched is not.
LEMMA TouchedDirty ==
    ASSUME NEW d, NEW base
    PROVE  /\ Touched(d, base) \subseteq Dirty(d, base)
           /\ \A f \in Files : d[f] # Absent /\ f \notin Touched(d, base) /\ f \in Sources =>
                  f \notin Dirty(d, base)
<1>1. Removed(d, base) \subseteq Dirty(d, base)
  BY DEF Dirty, Removed
<1> QED BY <1>1 DEF Touched, Discovered

\* Parsing a file yields an IR of it, made from its text.
LEMMA IRType ==
    ASSUME NEW d \in Disks, NEW f \in Sources, d[f] # Absent
    PROVE  Made(IR(d, f), f, d[f])
<1>1. f \in Spliced(d, f) /\ \A g \in Spliced(d, f) : g \in Sources /\ d[g] # Absent
  BY DEF Spliced, Discovered
<1>2. \A g \in Spliced(d, f) : d[g] \in Text
  BY <1>1, OrderFacts DEF Disks
<1> DEFINE parts == [g \in Spliced(d, f) |-> d[g]]
<1>3. parts \in [Spliced(d, f) -> Text] /\ Spliced(d, f) \in SUBSET Sources
  BY <1>1, <1>2
<1>4. parts \in Parts /\ f \in DOMAIN parts /\ parts[f] = d[f]
  BY <1>1, <1>3 DEF Parts
<1>5. IR(d, f) = [unit |-> f, parts |-> parts, bad |-> "none"]
  BY DEF IR
<1> HIDE DEF parts
<1> QED BY <1>4, <1>5 DEF Made, IRs

\* What may be reused: the clean units.
Reusable(r, d, base) == \A u \in r.clean : Made(base.unit[u], u, d[u])

\* Only clean units are replayed or reused, and only the selective way replays.
LEMMA TreatmentType ==
    ASSUME NEW r, NEW d, NEW base, NEW f
    PROVE  /\ Treatment(r, d, base, f) \in {"skip", "replay", "reuse", "parse"}
           /\ Treatment(r, d, base, f) \in {"replay", "reuse"} => f \in r.clean
           /\ Treatment(r, d, base, f) = "replay" => r.mode = "selective"
BY DEF Treatment

\* Parsed or reused, a file contributes an IR made from its text.
LEMMA ContributionType ==
    ASSUME NEW r, NEW d \in Disks, NEW base, NEW f \in Sources, d[f] # Absent, Reusable(r, d, base)
    PROVE  Made(Contribution(r, d, base, f), f, d[f])
BY TreatmentType, IRType DEF Contribution, Reusable

\* A run starts with nothing done.
LEMMA FreshType ==
    ASSUME NEW mode \in {"full", "legacy", "selective"}, NEW clean \in SUBSET Sources
    PROVE  Fresh(mode, clean) \in Runs
<1>1. << >> \in Seq(Sources) /\ << >> \in Seq(IRs)
  OBVIOUS
<1> QED BY <1>1 DEF Fresh, Runs

\* Runs that agree on every field are the same.
LEMMA RunsEqual ==
    ASSUME NEW a \in Runs, NEW b \in Runs,
           a.mode = b.mode, a.clean = b.clean, a.table = b.table, a.processed = b.processed,
           a.consumed = b.consumed, a.irs = b.irs, a.units = b.units, a.skipped = b.skipped,
           a.failed = b.failed, a.parsed = b.parsed
    PROVE  a = b
BY DEF Runs

\* What dispatching f makes of a run, field by field.
LEMMA DispatchedIs ==
    ASSUME NEW r \in Runs, NEW d \in Disks, NEW base, NEW f \in Sources, d[f] # Absent,
           Reusable(r, d, base),
           NEW new, new = Dispatched(r, d, base, f),
           NEW how, how = Treatment(r, d, base, f)
    PROVE  /\ new \in Runs
           /\ new.mode = r.mode /\ new.clean = r.clean /\ new.irs = r.irs
           /\ new.units = r.units /\ new.failed = r.failed
           /\ new.parsed = IF how = "replay" THEN r.parsed + 1 ELSE r.parsed
           /\ how = "skip" => new.skipped = r.skipped \union {f}
           /\ how # "skip" => new.skipped = r.skipped
           /\ how = "skip" \/ Lang[f] \notin Preprocessed =>
                 /\ new.table = r.table /\ new.processed = r.processed
                 /\ new.consumed = r.consumed
           /\ how # "skip" /\ Lang[f] \in Preprocessed =>
                 /\ new.table = Append(r.table, f) /\ new.processed = r.processed \union {f}
                 /\ new.consumed = r.consumed \union
                       ((DOMAIN Contribution(r, d, base, f).parts) \ (r.processed \union {f}))
<1> DEFINE ir   == Contribution(r, d, base, f)
           p    == IF how = "replay" THEN r.parsed + 1 ELSE r.parsed
           s    == IF how = "skip" THEN r.skipped \union {f} ELSE r.skipped
           c    == r.consumed \union ((DOMAIN ir.parts) \ (r.processed \union {f}))
           counted == [r EXCEPT !.parsed = p, !.skipped = s]
           full == [counted EXCEPT !.table = Append(r.table, f),
                                   !.processed = r.processed \union {f},
                                   !.consumed = c]
<1>1. p \in Nat /\ s \in SUBSET Sources
  BY DEF Runs
<1>2. DOMAIN ir.parts \subseteq Sources
  BY ContributionType DEF Made, IRs, Parts
<1>3. c \in SUBSET Sources /\ r.processed \union {f} \in SUBSET Sources
      /\ Append(r.table, f) \in Seq(Sources)
  <2> HIDE DEF ir
  <2> QED BY <1>2 DEF Runs
<1> HIDE DEF ir, p, s, c
<1>4. /\ counted \in Runs /\ counted.parsed = p /\ counted.skipped = s
      /\ counted.mode = r.mode /\ counted.clean = r.clean /\ counted.irs = r.irs
      /\ counted.units = r.units /\ counted.failed = r.failed /\ counted.table = r.table
      /\ counted.processed = r.processed /\ counted.consumed = r.consumed
  BY <1>1 DEF Runs
<1>5. new =
          IF how = "skip" \/ Lang[f] \notin Preprocessed THEN counted
          ELSE [counted EXCEPT !.table = Append(@, f), !.processed = @ \union {f},
                               !.consumed = @ \union ((DOMAIN ir.parts) \ (r.processed \union {f}))]
  BY DEF Dispatched, ir, p, s
<1> HIDE DEF counted
<1>6. new =
          IF how = "skip" \/ Lang[f] \notin Preprocessed THEN counted ELSE full
  BY <1>4, <1>5 DEF c
<1>7. /\ full \in Runs /\ full.parsed = p /\ full.skipped = s
      /\ full.mode = r.mode /\ full.clean = r.clean /\ full.irs = r.irs
      /\ full.units = r.units /\ full.failed = r.failed /\ full.table = Append(r.table, f)
      /\ full.processed = r.processed \union {f} /\ full.consumed = c
  BY <1>3, <1>4 DEF Runs
<1> HIDE DEF full
<1>8. CASE how = "skip" \/ Lang[f] \notin Preprocessed
  BY <1>4, <1>6, <1>8 DEF p, s, ir
<1>9. CASE how # "skip" /\ Lang[f] \in Preprocessed
  BY <1>6, <1>7, <1>9 DEF p, s, c, ir
<1> QED BY <1>8, <1>9

\* What finalizing a result makes of a run, field by field.
LEMMA FinalizedIs ==
    ASSUME NEW r \in Runs, NEW f \in Sources, NEW ir \in IRs
    PROVE  LET new == Finalized(r, f, ir)
           IN  /\ new \in Runs
               /\ new.mode = r.mode /\ new.clean = r.clean /\ new.table = r.table
               /\ new.processed = r.processed /\ new.consumed = r.consumed
               /\ new.skipped = r.skipped /\ new.failed = r.failed
               /\ new.irs = Append(r.irs, ir) /\ new.units = r.units \union {f}
               /\ new.parsed = r.parsed + 1
<1> DEFINE irs    == Append(r.irs, ir)
           units  == r.units \union {f}
           parsed == r.parsed + 1
           new    == [r EXCEPT !.irs = irs, !.units = units, !.parsed = parsed]
<1>1. Finalized(r, f, ir) = new
  BY DEF Finalized
<1>2. irs \in Seq(IRs) /\ units \in SUBSET Sources /\ parsed \in Nat
  BY DEF Runs
<1> HIDE DEF irs, units, parsed
<1>3. /\ new \in Runs
      /\ new.mode = r.mode /\ new.clean = r.clean /\ new.table = r.table
      /\ new.processed = r.processed /\ new.consumed = r.consumed
      /\ new.skipped = r.skipped /\ new.failed = r.failed
      /\ new.irs = irs /\ new.units = units /\ new.parsed = parsed
  BY <1>2 DEF Runs
<1> QED BY <1>1, <1>3 DEF irs, units, parsed

\* What recording a failed parse makes of a run, field by field.
LEMMA FailedIs ==
    ASSUME NEW r \in Runs, NEW f \in Sources
    PROVE  LET new == WorkerFailed(r, f)
           IN  /\ new \in Runs
               /\ new.mode = r.mode /\ new.clean = r.clean /\ new.table = r.table
               /\ new.processed = r.processed /\ new.consumed = r.consumed
               /\ new.skipped = r.skipped /\ new.failed = r.failed \union {f}
               /\ new.irs = r.irs /\ new.units = r.units /\ new.parsed = r.parsed
BY DEF WorkerFailed, Runs

\* A sequence with one element more.
LEMMA Appended ==
    ASSUME NEW S, NEW q \in Seq(S), NEW x \in S
    PROVE  /\ Append(q, x) \in Seq(S)
           /\ DOMAIN q = 1 .. Len(q) /\ Len(q) \in Nat
           /\ Len(Append(q, x)) = Len(q) + 1
           /\ DOMAIN Append(q, x) = 1 .. Len(q) + 1
           /\ \A i \in 1 .. Len(q) : Append(q, x)[i] = q[i]
           /\ Append(q, x)[Len(q) + 1] = x
OBVIOUS

\* A sequence without its first element.
LEMMA Popped ==
    ASSUME NEW S, NEW q \in Seq(S), q # << >>
    PROVE  /\ Tail(q) \in Seq(S) /\ Head(q) \in S /\ Head(q) = q[1]
           /\ DOMAIN q = 1 .. Len(q) /\ Len(q) \in Nat /\ Len(q) > 0
           /\ Len(Tail(q)) = Len(q) - 1
           /\ DOMAIN Tail(q) = 1 .. Len(q) - 1
           /\ \A i \in 1 .. Len(q) - 1 : Tail(q)[i] = q[i + 1]
OBVIOUS

(***************************************************************************)
(* The books of a run: every discovered file that was passed is accounted  *)
(* for, each result is that of its file's text.                            *)
(***************************************************************************)
Done    == {f \in Sources : Position(f) < next}
Pending == {queue[i].unit : i \in DOMAIN queue}

Account ==
    /\ run.failed \union run.units \union run.skipped \union Pending \subseteq Done
    /\ run.failed \intersect Pending = {}
    /\ \A f \in Done : disk[f] # Absent =>
          \/ f \in run.skipped \union run.failed \union run.units \union Pending
          \/ run.mode = "selective" /\ f \in run.clean

Results ==
    /\ \A i, j \in DOMAIN queue : queue[i].unit = queue[j].unit => i = j
    /\ \A i \in DOMAIN queue : Made(queue[i].ir, queue[i].unit, disk[queue[i].unit])
    /\ \A i \in DOMAIN run.irs : Made(run.irs[i], run.irs[i].unit, disk[run.irs[i].unit])
    /\ \A u \in run.units : \E i \in DOMAIN run.irs : run.irs[i].unit = u

Ends ==
    /\ pc \in {"tail", "link"} => Waiting = {}
    /\ pc = "link" => queue = << >> /\ run.parsed > 0

Ledger == pc # "idle" => Account /\ Results /\ Ends

PInv == TInv /\ Ledger

\* What a run may do, and reuse.
LEMMA ModeFacts ==
    ASSUME NEW d, NEW base, NEW o, NEW mode \in Ways(d, base, o)
    PROVE  /\ mode \in {"full", "legacy", "selective"}
           /\ mode # "full" => base # NoDatabase
<1>1. /\ Plan(d, base, o) \in {"full", "up to date", "selective", "legacy"}
      /\ Plan(d, base, o) # "full" => base # NoDatabase
  BY DEF Plan
<1>2. /\ mode # "up to date"
      /\ \/ mode = "full" \/ mode = Plan(d, base, o)
         \/ mode = "legacy" /\ Plan(d, base, o) = "selective"
  BY DEF Ways, Serial!Modes
<1>3. CASE mode = "full"
  BY <1>3
<1>4. CASE mode = Plan(d, base, o)
  BY <1>1, <1>2, <1>4
<1>5. CASE mode = "legacy" /\ Plan(d, base, o) = "selective"
  BY <1>1, <1>5
<1> QED BY <1>2, <1>3, <1>4, <1>5

\* The clean units are stored, made from the present texts, and not touched.
LEMMA CleanFacts ==
    ASSUME NEW d \in Disks, NEW base, base # NoDatabase => Stored(base),
           NEW mode \in {"full", "legacy", "selective"}, mode # "full" => base # NoDatabase
    PROVE  /\ CleanOf(mode, d, base) \in SUBSET Sources
           /\ CleanOf(mode, d, base) # {} =>
                 base # NoDatabase /\ CleanOf(mode, d, base) \subseteq DOMAIN base.unit
           /\ \A u \in CleanOf(mode, d, base) : Made(base.unit[u], u, d[u])
           /\ mode # "full" => CleanOf(mode, d, base) \intersect Touched(d, base) = {}
<1>1. CASE mode = "full"
  BY <1>1 DEF CleanOf
<1>2. CASE mode # "full"
  <2>1. Stored(base) /\ CleanOf(mode, d, base) = DOMAIN base.unit \ Dirty(d, base)
    BY <1>2 DEF CleanOf, Clean
  <2>2. ASSUME NEW u \in CleanOf(mode, d, base) PROVE Made(base.unit[u], u, d[u])
    <3>1. u \in Files /\ Made(base.unit[u], u, base.hash[u])
      BY <2>1, OrderFacts DEF Stored
    <3> QED BY <2>1, <3>1, CleanSame
  <2>3. CleanOf(mode, d, base) \subseteq DOMAIN base.unit
    BY <2>1
  <2> QED BY <1>2, <2>1, <2>2, <2>3, TouchedDirty DEF Stored
<1> QED BY <1>1, <1>2

\* What a run under way reuses was made from the present texts.
LEMMA RunReusable ==
    ASSUME TInv, pc # "idle" PROVE Reusable(run, disk, db)
<1>1. /\ disk \in Disks /\ (db # NoDatabase => Stored(db))
      /\ run.mode \in Ways(disk, db, opts)
      /\ run.clean = CleanOf(run.mode, disk, db)
  BY DEF TInv, Way
<1>2. run.mode \in {"full", "legacy", "selective"} /\ (run.mode # "full" => db # NoDatabase)
  BY <1>1, ModeFacts
<1>3. \A u \in CleanOf(run.mode, disk, db) : Made(db.unit[u], u, disk[u])
  BY <1>1, <1>2, CleanFacts
<1> QED BY <1>1, <1>3 DEF Reusable

\* The types of the next state, from those of its parts.
LEMMA TypesHold ==
    ASSUME disk' \in Disks, opts' \in Options, db' # NoDatabase => Stored(db'),
           pc' \in {"idle", "pass", "drain", "tail", "link"}, run' \in Runs,
           pc' = "idle" => run'.clean = {}, next' \in 1 .. Len(Order) + 1,
           queue' \in Seq(Items), pool' \in {"none", "up", "broken"},
           pc' # "idle" => /\ run'.mode \in Ways(disk', db', opts')
                           /\ run'.clean = CleanOf(run'.mode, disk', db')
    PROVE  TInv'
BY DEF TInv, Way, Stored

\* The empty sequence.
LEMMA EmptyQueue == << >> \in Seq(Items) /\ << >> \in Seq(IRs) /\ DOMAIN << >> = {}
OBVIOUS

\* The next file.
LEMMA NextFile ==
    ASSUME TInv, NEW f, AtFile(f), next' = Position(f) + 1, disk' = disk
    PROVE  /\ f \in Sources /\ f \in Files /\ disk[f] # Absent /\ f \notin Done
           /\ pc = "pass" /\ Position(f) \in DOMAIN Order /\ Order[Position(f)] = f
           /\ next <= Position(f) /\ next' \in 1 .. Len(Order) + 1
           /\ \A k \in next .. Position(f) - 1 : disk[Order[k]] = Absent
           /\ Done \subseteq Done' /\ f \in Done'
           /\ \A g \in Done' : disk[g] # Absent => g \in Done \/ g = f
<1>1. PICK i \in Waiting : f = Order[i] /\ \A j \in Waiting : i <= j
  BY DEF AtFile
<1>2. /\ i \in DOMAIN Order /\ DOMAIN Order = 1 .. Len(Order) /\ Len(Order) \in Nat
      /\ f \in Sources /\ f \in Files /\ Position(f) = i
      /\ next <= i /\ disk[f] # Absent /\ next \in 1 .. Len(Order) + 1
  BY <1>1, OrderFacts DEF Waiting, TInv
<1>3. \A k \in next .. i - 1 : disk[Order[k]] = Absent
  BY <1>1, <1>2 DEF Waiting
<1>4. \A g \in Sources : Position(g) \in DOMAIN Order /\ Order[Position(g)] = g
  BY OrderFacts
<1>5. \A g \in Done' : disk[g] # Absent => g \in Done \/ g = f
  <2> SUFFICES ASSUME NEW g \in Sources, Position(g) < i + 1, disk[g] # Absent, g # f
               PROVE  Position(g) < next
    BY <1>2 DEF Done
  <2>1. Position(g) # i /\ Position(g) \in 1 .. Len(Order)
    BY <1>1, <1>2, <1>4
  <2> QED BY <1>2, <1>3, <1>4, <2>1
<1> QED BY <1>2, <1>3, <1>4, <1>5 DEF Done, AtFile

\* A run starts, or starts over.
LEMMA Started ==
    ASSUME TInv, NEW mode \in Ways(disk, db, opts), Start(mode),
           UNCHANGED <<disk, opts, db>>
    PROVE  PInv' /\ run' = Fresh(mode, CleanOf(mode, disk, db)) /\ next' = 1 /\ queue' = << >>
           /\ pc' = "pass"
<1>1. /\ mode \in {"full", "legacy", "selective"} /\ CleanOf(mode, disk, db) \in SUBSET Sources
  BY ModeFacts, CleanFacts DEF TInv
<1>2. /\ run' = Fresh(mode, CleanOf(mode, disk, db)) /\ next' = 1 /\ queue' = << >>
      /\ pc' = "pass" /\ pool' \in {"none", "up", "broken"}
  BY DEF Start
<1>3. /\ run' \in Runs /\ run'.mode = mode /\ run'.clean = CleanOf(mode, disk, db)
      /\ run'.irs = << >> /\ run'.units = {} /\ run'.skipped = {} /\ run'.failed = {}
  BY <1>1, <1>2, FreshType DEF Fresh
<1>4. TInv'
  <2>1. /\ disk' \in Disks /\ opts' \in Options /\ (db' # NoDatabase => Stored(db'))
    BY DEF TInv
  <2>2. run'.mode \in Ways(disk', db', opts')
    BY <1>3
  <2>3. run'.clean = CleanOf(run'.mode, disk', db')
    BY <1>3
  <2>4. next' \in 1 .. Len(Order) + 1
    BY <1>2, OrderFacts
  <2> QED BY <1>2, <1>3, <2>1, <2>2, <2>3, <2>4, EmptyQueue, TypesHold
<1>5. Done' = {}
  <2>1. \A f \in Sources : Position(f) \in Int /\ Position(f) >= 1
    BY OrderFacts
  <2> QED BY <1>2, <2>1 DEF Done
<1>6. Pending' = {}
  BY <1>2, EmptyQueue DEF Pending
<1>7. Account' /\ Ends'
  BY <1>2, <1>3, <1>5, <1>6 DEF Account, Ends
<1>8. Results'
  BY <1>2, <1>3, EmptyQueue DEF Results
<1> QED BY <1>2, <1>4, <1>7, <1>8 DEF PInv, Ledger

\* A run ends.
LEMMA Ended ==
    ASSUME TInv, NEW how, End(how), UNCHANGED <<disk, opts>>,
           db' # NoDatabase => Stored(db')
    PROVE  PInv'
<1>1. /\ run' = Fresh("full", {}) /\ next' = 1 /\ queue' = << >> /\ pc' = "idle" /\ pool' = "none"
  BY DEF End
<1>2. run' \in Runs /\ run'.clean = {}
  BY <1>1, FreshType DEF Fresh
<1>3. disk' \in Disks /\ opts' \in Options
  BY DEF TInv
<1>4. next' \in 1 .. Len(Order) + 1
  BY <1>1, OrderFacts
<1>5. TInv'
  BY <1>1, <1>2, <1>3, <1>4, EmptyQueue, TypesHold
<1> QED BY <1>1, <1>5 DEF PInv, Ledger

\* The turn of a file: it is dispatched, and queued unless done with.
LEMMA PassKeeps ==
    ASSUME PInv, NEW f \in Sources, Pass(f) PROVE PInv'
<1>1. /\ UNCHANGED <<disk, opts, db, pc, queue, pool>> /\ AtFile(f)
      /\ run' = Dispatched(run, disk, db, f) /\ next' = Position(f) + 1
      /\ Treatment(run, disk, db, f) \in {"skip", "replay"}
  BY DEF Pass, tree
<1>2. /\ f \in Sources /\ disk[f] # Absent /\ pc = "pass" /\ next' \in 1 .. Len(Order) + 1
      /\ Done \subseteq Done' /\ f \in Done'
      /\ \A g \in Done' : disk[g] # Absent => g \in Done \/ g = f
  BY <1>1, NextFile DEF PInv
<1>3. Reusable(run, disk, db) /\ run \in Runs /\ disk \in Disks
  BY <1>2, RunReusable DEF PInv, TInv
<1>4. /\ run' \in Runs /\ run'.mode = run.mode /\ run'.clean = run.clean /\ run'.irs = run.irs
      /\ run'.units = run.units /\ run'.failed = run.failed
      /\ Treatment(run, disk, db, f) = "skip" => run'.skipped = run.skipped \union {f}
      /\ Treatment(run, disk, db, f) # "skip" => run'.skipped = run.skipped
  BY <1>1, <1>2, <1>3, DispatchedIs
<1>5. TInv'
  BY <1>1, <1>2, <1>4 DEF PInv, TInv, Way, Stored
<1>6. Account /\ Results
  BY <1>2 DEF PInv, Ledger
<1>7. Account'
  <2>1. Treatment(run, disk, db, f) = "replay" => run.mode = "selective" /\ f \in run.clean
    BY TreatmentType
  <2>2. Pending' = Pending
    BY <1>1 DEF Pending
  <2> QED BY <1>1, <1>2, <1>4, <1>6, <2>1, <2>2 DEF Account
<1>8. Results' /\ Ends'
  BY <1>1, <1>2, <1>4, <1>6 DEF Results, Ends
<1> QED BY <1>5, <1>7, <1>8 DEF PInv, Ledger

\* The turn of a file whose result is awaited: it goes to the end of the queue.
LEMMA EnqueueKeeps ==
    ASSUME PInv, NEW f \in Sources, Enqueue(f)
    PROVE  /\ PInv'
           /\ \E item \in Items : /\ queue' = Append(queue, item)
                                  /\ item.unit = f /\ item.ir = Contribution(run, disk, db, f)
<1> DEFINE ir    == Contribution(run, disk, db, f)
           reused == Treatment(run, disk, db, f) = "reuse"
           state == IF reused THEN "ready" ELSE IF pool = "none" THEN "thunk" ELSE "running"
           item  == [unit |-> f, state |-> state, ir |-> ir]
<1>1. /\ UNCHANGED <<disk, opts, db, pool>> /\ AtFile(f) /\ pc' = "drain"
      /\ run' = Dispatched(run, disk, db, f) /\ next' = Position(f) + 1
      /\ queue' = Append(queue, item) /\ Treatment(run, disk, db, f) # "skip"
  BY DEF Enqueue, tree
<1>2. /\ f \in Sources /\ disk[f] # Absent /\ pc = "pass" /\ next' \in 1 .. Len(Order) + 1
      /\ Done \subseteq Done' /\ f \in Done' /\ f \notin Done
      /\ \A g \in Done' : disk[g] # Absent => g \in Done \/ g = f
  BY <1>1, NextFile DEF PInv
<1>3. Reusable(run, disk, db) /\ run \in Runs /\ disk \in Disks
  BY <1>2, RunReusable DEF PInv, TInv
<1>4. /\ run' \in Runs /\ run'.mode = run.mode /\ run'.clean = run.clean /\ run'.irs = run.irs
      /\ run'.units = run.units /\ run'.failed = run.failed /\ run'.skipped = run.skipped
  BY <1>1, <1>2, <1>3, DispatchedIs
<1>5. Made(ir, f, disk[f]) /\ ir \in IRs
  BY <1>2, <1>3, ContributionType DEF Made
<1> HIDE DEF ir
<1>6. item \in Items /\ item.unit = f /\ item.ir = ir
  BY <1>5 DEF Items
<1> HIDE DEF item
<1>7. /\ queue' \in Seq(Items) /\ DOMAIN queue = 1 .. Len(queue) /\ Len(queue) \in Nat
      /\ DOMAIN queue' = 1 .. Len(queue) + 1
      /\ \A i \in 1 .. Len(queue) : queue'[i] = queue[i]
      /\ queue'[Len(queue) + 1] = item
  BY <1>1, <1>6, Appended DEF PInv, TInv
<1>8. TInv'
  BY <1>1, <1>2, <1>4, <1>7 DEF PInv, TInv, Way, Stored
<1>9. Account /\ Results
  BY <1>2 DEF PInv, Ledger
<1>10. Pending' = Pending \union {f}
  BY <1>6, <1>7 DEF Pending
<1>11. Account'
  BY <1>1, <1>2, <1>4, <1>9, <1>10 DEF Account
<1>12. Results'
  <2>1. f \notin Pending
    BY <1>2, <1>9 DEF Account
  <2>2. \A i, j \in DOMAIN queue' : queue'[i].unit = queue'[j].unit => i = j
    BY <1>6, <1>7, <1>9, <2>1 DEF Results, Pending
  <2>3. \A i \in DOMAIN queue' : Made(queue'[i].ir, queue'[i].unit, disk[queue'[i].unit])
    BY <1>5, <1>6, <1>7, <1>9 DEF Results
  <2> QED BY <1>1, <1>4, <1>9, <2>2, <2>3 DEF Results
<1> QED BY <1>1, <1>6, <1>8, <1>11, <1>12 DEF PInv, Ledger, Ends, ir

\* The oldest pending unit is pending no more.
LEMMA Dequeued ==
    ASSUME queue \in Seq(Items), queue # << >>, queue' = Tail(queue), Results
    PROVE  LET u == queue[1].unit
           IN  Pending = Pending' \union {u} /\ u \notin Pending' /\ u \in Pending
<1> DEFINE u == queue[1].unit
<1>1. /\ DOMAIN queue = 1 .. Len(queue) /\ Len(queue) \in Nat /\ Len(queue) > 0
      /\ DOMAIN queue' = 1 .. Len(queue) - 1
      /\ \A i \in 1 .. Len(queue) - 1 : queue'[i] = queue[i + 1]
  BY Popped
<1>2. \A i \in DOMAIN queue' : i + 1 \in DOMAIN queue /\ queue'[i].unit = queue[i + 1].unit
  BY <1>1
<1>3. \A i \in DOMAIN queue : i = 1 \/ (i - 1 \in DOMAIN queue' /\ queue'[i - 1] = queue[i])
  BY <1>1
<1>4. 1 \in DOMAIN queue
  BY <1>1
<1>5. u \notin Pending'
  <2> SUFFICES ASSUME NEW i \in DOMAIN queue', queue'[i].unit = u PROVE FALSE
    BY DEF Pending
  <2>1. i + 1 = 1
    BY <1>2, <1>4 DEF Results
  <2> QED BY <1>1, <2>1
<1>6. Pending \subseteq Pending' \union {u}
  <2> SUFFICES ASSUME NEW i \in DOMAIN queue, i # 1 PROVE queue[i].unit \in Pending'
    BY DEF Pending
  <2>1. i - 1 \in DOMAIN queue' /\ queue'[i - 1] = queue[i]
    BY <1>3
  <2> QED BY <2>1 DEF Pending
<1>7. Pending' \union {u} \subseteq Pending
  BY <1>2, <1>4 DEF Pending
<1> QED BY <1>5, <1>6, <1>7

\* The oldest pending unit leaves the queue: its parse failed, or its result
\* joins the others.
LEMMA FinalizeKeeps ==
    ASSUME PInv, Finalize
    PROVE  /\ PInv' /\ queue # << >> /\ queue' = Tail(queue)
           /\ \/ run' = WorkerFailed(run, queue[1].unit)
              \/ run' = Finalized(run, queue[1].unit, queue[1].ir)
<1> DEFINE u == queue[1].unit
           ir == queue[1].ir
<1>1. /\ UNCHANGED <<disk, opts, db, pc, next, pool>> /\ pc \in {"drain", "tail"}
      /\ queue # << >> /\ queue' = Tail(queue)
  BY DEF Finalize, Ready, tree
<1>2. /\ queue' \in Seq(Items) /\ Head(queue) = queue[1] /\ queue[1] \in Items
      /\ DOMAIN queue = 1 .. Len(queue) /\ Len(queue) \in Nat /\ Len(queue) > 0
      /\ DOMAIN queue' = 1 .. Len(queue) - 1
      /\ \A i \in 1 .. Len(queue) - 1 : queue'[i] = queue[i + 1]
  BY <1>1, Popped DEF PInv, TInv
<1>3. run' = WorkerFailed(run, u) \/ run' = Finalized(run, u, ir)
  BY <1>2 DEF Finalize
<1>4. u \in Sources /\ ir \in IRs /\ run \in Runs
  BY <1>2 DEF PInv, TInv, Items
<1>5. /\ run' \in Runs /\ run'.mode = run.mode /\ run'.clean = run.clean
      /\ run'.skipped = run.skipped
      /\ \/ /\ run'.failed = run.failed \union {u} /\ run'.irs = run.irs /\ run'.units = run.units
         \/ /\ run'.failed = run.failed /\ run'.irs = Append(run.irs, ir)
            /\ run'.units = run.units \union {u} /\ run'.parsed = run.parsed + 1
  <2> HIDE DEF u, ir
  <2>1. CASE run' = WorkerFailed(run, u)
    BY <1>4, <2>1, FailedIs
  <2>2. CASE run' = Finalized(run, u, ir)
    BY <1>4, <2>2, FinalizedIs
  <2> QED BY <1>3, <2>1, <2>2
<1>6. TInv'
  BY <1>1, <1>2, <1>5 DEF PInv, TInv, Way, Stored
<1>7. Account /\ Results /\ Ends
  BY <1>1 DEF PInv, Ledger
<1>8. Pending = Pending' \union {u} /\ u \notin Pending'
  BY <1>1, <1>2, <1>7, Dequeued DEF PInv, TInv
<1>9. Done' = Done
  BY <1>1 DEF Done
<1>10. Account'
  BY <1>1, <1>5, <1>7, <1>8, <1>9 DEF Account
<1>11. Results'
  <2>1. \A i, j \in DOMAIN queue' : queue'[i].unit = queue'[j].unit => i = j
    BY <1>2, <1>7 DEF Results
  <2>2. \A i \in DOMAIN queue' : Made(queue'[i].ir, queue'[i].unit, disk[queue'[i].unit])
    BY <1>2, <1>7 DEF Results
  <2>3. Made(ir, u, disk[u])
    BY <1>2, <1>7 DEF Results
  <2>4. /\ \A i \in DOMAIN run'.irs : Made(run'.irs[i], run'.irs[i].unit, disk[run'.irs[i].unit])
        /\ \A v \in run'.units : \E i \in DOMAIN run'.irs : run'.irs[i].unit = v
    <3>1. CASE run'.irs = run.irs /\ run'.units = run.units
      BY <1>7, <3>1 DEF Results
    <3>2. CASE run'.irs = Append(run.irs, ir) /\ run'.units = run.units \union {u}
      <4>1. /\ DOMAIN run.irs = 1 .. Len(run.irs) /\ Len(run.irs) \in Nat
            /\ DOMAIN run'.irs = 1 .. Len(run.irs) + 1
            /\ \A i \in 1 .. Len(run.irs) : run'.irs[i] = run.irs[i]
            /\ run'.irs[Len(run.irs) + 1] = ir
        BY <1>4, <3>2, Appended DEF Runs
      <4>2. ir.unit = u
        BY <2>3 DEF Made
      <4> QED BY <1>7, <2>3, <3>2, <4>1, <4>2 DEF Results
    <3> QED BY <1>5, <3>1, <3>2
  <2> QED BY <1>1, <2>1, <2>2, <2>4 DEF Results
<1>12. Ends'
  BY <1>1, <1>7 DEF Ends, Waiting
<1> QED BY <1>1, <1>3, <1>6, <1>10, <1>11, <1>12 DEF PInv, Ledger

\* Workers: only states of queued parses change.
LEMMA WorkersKeep ==
    ASSUME PInv, (\E i \in 1 .. Len(Order) : Work(i)) \/ WorkerDies
    PROVE  /\ PInv' /\ UNCHANGED <<disk, opts, db, pc, run, next>>
           /\ Len(queue') = Len(queue) /\ DOMAIN queue' = DOMAIN queue
           /\ \A k \in DOMAIN queue : queue'[k].unit = queue[k].unit /\ queue'[k].ir = queue[k].ir
<1>1. UNCHANGED <<disk, opts, db, pc, run, next>> /\ pool' \in {"none", "up", "broken"}
  BY DEF Work, WorkerDies, tree, PInv, TInv
<1>2. queue \in Seq(Items) /\ DOMAIN queue = 1 .. Len(queue) /\ Len(queue) \in Nat
  BY DEF PInv, TInv
<1>3. \A k \in DOMAIN queue, s \in {"ready", "failed"} :
         LET new == [queue[k] EXCEPT !.state = s]
         IN  new \in Items /\ new.unit = queue[k].unit /\ new.ir = queue[k].ir
  <2>1. \A k \in DOMAIN queue : queue[k] \in Items
    BY <1>2
  <2> QED BY <2>1 DEF Items
<1>4. /\ queue' \in [1 .. Len(queue) -> Items]
      /\ \A k \in DOMAIN queue : queue'[k].unit = queue[k].unit /\ queue'[k].ir = queue[k].ir
  <2>1. ASSUME NEW i \in 1 .. Len(Order), Work(i)
        PROVE  /\ queue' \in [1 .. Len(queue) -> Items]
               /\ \A k \in DOMAIN queue : queue'[k].unit = queue[k].unit /\ queue'[k].ir = queue[k].ir
    <3>1. PICK s \in {"ready", "failed"} : queue' = [queue EXCEPT ![i].state = s] /\ i \in DOMAIN queue
      BY <2>1 DEF Work
    <3> DEFINE new == [queue[i] EXCEPT !.state = s]
    <3>2. queue' = [queue EXCEPT ![i] = new]
      BY <3>1
    <3>3. new \in Items /\ new.unit = queue[i].unit /\ new.ir = queue[i].ir
      BY <1>3, <3>1
    <3> HIDE DEF new
    <3> QED BY <1>2, <3>1, <3>2, <3>3
  <2>2. ASSUME WorkerDies
        PROVE  /\ queue' \in [1 .. Len(queue) -> Items]
               /\ \A k \in DOMAIN queue : queue'[k].unit = queue[k].unit /\ queue'[k].ir = queue[k].ir
    <3> DEFINE new(k) == IF queue[k].state = "running" THEN [queue[k] EXCEPT !.state = "failed"]
                         ELSE queue[k]
    <3>1. queue' = [k \in DOMAIN queue |-> new(k)]
      BY <2>2 DEF WorkerDies
    <3>2. ASSUME NEW k \in DOMAIN queue
          PROVE  new(k) \in Items /\ new(k).unit = queue[k].unit /\ new(k).ir = queue[k].ir
      <4>1. queue[k] \in Items
        BY <1>2
      <4>2. CASE queue[k].state = "running"
        BY <1>3, <4>2
      <4>3. CASE queue[k].state # "running"
        BY <4>1, <4>3
      <4> QED BY <4>2, <4>3
    <3> HIDE DEF new
    <3> QED BY <1>2, <3>1, <3>2
  <2> QED BY <2>1, <2>2
<1>5. /\ queue' \in Seq(Items) /\ Len(queue') = Len(queue) /\ DOMAIN queue' = DOMAIN queue
  BY <1>2, <1>4
<1>6. TInv'
  BY <1>1, <1>5 DEF PInv, TInv, Way, Stored
<1>7. pc # "idle" => Account' /\ Results' /\ Ends'
  <2> SUFFICES ASSUME pc # "idle" PROVE Account' /\ Results' /\ Ends'
    OBVIOUS
  <2>1. Account /\ Results /\ Ends
    BY DEF PInv, Ledger
  <2>2. Pending' = Pending /\ Done' = Done
    BY <1>1, <1>4, <1>5 DEF Pending, Done
  <2>3. Account' /\ Results'
    BY <1>1, <1>4, <1>5, <2>1, <2>2 DEF Account, Results
  <2>4. pc # "link"
    <3>1. queue # << >>
      <4>1. \E i \in DOMAIN queue : queue[i].state = "running"
        BY DEF Work, WorkerDies
      <4> QED BY <4>1, <1>2
    <3> QED BY <2>1, <3>1 DEF Ends
  <2> QED BY <1>1, <2>1, <2>3, <2>4 DEF Ends, Waiting
<1> QED BY <1>1, <1>4, <1>5, <1>6, <1>7 DEF PInv, Ledger

\* On to the next part of the loop.
LEMMA TurnKeeps ==
    ASSUME PInv, Continue \/ AllDispatched \/ AllFinalized PROVE PInv'
<1>1. UNCHANGED <<disk, opts, db>> /\ pc # "idle"
  BY DEF Continue, AllDispatched, AllFinalized, tree
<1>2. CASE End("nothing parsed")
  BY <1>1, <1>2, Ended DEF PInv, TInv, Stored
<1>3. CASE /\ UNCHANGED <<run, next, queue, pool>> /\ pc' \in {"pass", "tail", "link"}
           /\ pc' = "tail" => Waiting = {}
           /\ pc' = "link" => Waiting = {} /\ queue = << >> /\ run.parsed > 0
  <2>1. TInv'
    BY <1>1, <1>3 DEF PInv, TInv, Way, Stored
  <2>2. Account /\ Results
    BY <1>1 DEF PInv, Ledger
  <2>3. Account' /\ Results' /\ Ends'
    BY <1>1, <1>3, <2>2 DEF Account, Results, Ends, Done, Pending, Waiting
  <2> QED BY <2>1, <2>3 DEF PInv, Ledger
<1>4. AllFinalized => Waiting = {} /\ run \in Runs
  BY DEF AllFinalized, PInv, TInv, Ledger, Ends
<1>5. run \in Runs => (run.parsed # 0 => run.parsed > 0)
  BY DEF Runs
<1> QED BY <1>2, <1>3, <1>4, <1>5 DEF Continue, AllDispatched, AllFinalized

\* A row that goes bad keeps all but the mark.
Marked(new, base) ==
    /\ new.root = base.root /\ new.inputs = base.inputs /\ new.enrich = base.enrich
    /\ new.hash = base.hash /\ new.skipped = base.skipped /\ new.failed = base.failed
    /\ new.graph = base.graph /\ DOMAIN new.unit = DOMAIN base.unit
    /\ \A v \in DOMAIN base.unit : new.unit[v].parts = base.unit[v].parts

\* A row that goes bad.
LEMMA CorruptMarks ==
    ASSUME Stored(db), NEW u \in Sources, Corrupt(u)
    PROVE  Stored(db') /\ Marked(db', db)
<1>1. PICK column \in {"ir", "events"} : db' = [db EXCEPT !.unit[u].bad = column]
  BY DEF Corrupt
<1>2. u \in DOMAIN db.unit
  BY DEF Corrupt
<1> DEFINE new   == [db.unit[u] EXCEPT !.bad = column]
           units == [db.unit EXCEPT ![u] = new]
<1>3. Made(new, u, db.hash[u]) /\ new.parts = db.unit[u].parts
  BY <1>2 DEF Stored, Made, IRs
<1>4. db' = [root |-> db.root, inputs |-> db.inputs, enrich |-> db.enrich,
             hash |-> db.hash, skipped |-> db.skipped, failed |-> db.failed,
             unit |-> units, graph |-> db.graph]
  BY <1>1, <1>2 DEF Stored
<1> HIDE DEF new
<1>5. /\ DOMAIN units = DOMAIN db.unit /\ units[u] = new
      /\ \A v \in DOMAIN db.unit : v # u => units[v] = db.unit[v]
      /\ units = [v \in DOMAIN units |-> units[v]]
  BY <1>2 DEF Stored
<1> HIDE DEF units
<1>6. Stored(db')
  BY <1>2, <1>3, <1>4, <1>5 DEF Stored
<1>7. Marked(db', db)
  BY <1>3, <1>4, <1>5 DEF Marked
<1> QED BY <1>6, <1>7

\* Between the runs.
LEMMA IdleKeeps ==
    ASSUME PInv, (\E f \in Files : Edit(f)) \/ Configure \/ (\E u \in Sources : Corrupt(u))
    PROVE  PInv'
<1>1. pc = "idle" /\ UNCHANGED <<pc, run, next, queue, pool>>
  BY DEF Edit, Configure, Corrupt
<1>2. disk' \in Disks /\ opts' \in Options
  <2>1. ASSUME NEW f \in Files, Edit(f) PROVE disk' \in Disks /\ opts' \in Options
    BY <2>1, VersionsAssumption DEF Edit, PInv, TInv, Disks
  <2>2. CASE Configure
    BY <2>2 DEF Configure, PInv, TInv
  <2>3. CASE \E u \in Sources : Corrupt(u)
    BY <2>3 DEF Corrupt, PInv, TInv
  <2> QED BY <2>1, <2>2, <2>3
<1>3. db' # NoDatabase => Stored(db')
  <2>1. CASE UNCHANGED db
    BY <2>1 DEF PInv, TInv, Stored
  <2>2. ASSUME NEW u \in Sources, Corrupt(u) PROVE Stored(db')
    <3>1. Stored(db)
      BY <2>2 DEF Corrupt, PInv, TInv
    <3> QED BY <2>2, <3>1, CorruptMarks
  <2> QED BY <2>1, <2>2 DEF Edit, Configure
<1>4. TInv'
  BY <1>1, <1>2, <1>3 DEF PInv, TInv, Way
<1> QED BY <1>1, <1>4 DEF PInv, Ledger

\* The commands that start a run.
LEMMA CommandKeeps ==
    ASSUME PInv, Build \/ Update PROVE PInv'
<1>1. CASE Build
  <2>1. "full" \in Ways(disk, db, opts) /\ Start("full")
    BY <1>1 DEF Build, Ways, Serial!Modes
  <2> QED BY <1>1, <2>1, Started DEF Build, tree, PInv
<1>2. CASE Update /\ Plan(disk, db, opts) = "up to date"
  BY <1>2 DEF Update, tree, PInv, TInv, Way, Stored, Ledger, Account, Results, Ends, Done, Pending, Waiting
<1>3. CASE Update /\ Plan(disk, db, opts) # "up to date"
  <2> DEFINE mode == Plan(disk, db, opts)
  <2>1. mode \in Ways(disk, db, opts)
    BY <1>3 DEF Ways, Serial!Modes
  <2>2. Start(mode) /\ UNCHANGED <<disk, opts, db>>
    BY <1>3 DEF Update, tree
  <2> HIDE DEF mode
  <2> QED BY <2>1, <2>2, Started DEF PInv
<1> QED BY <1>1, <1>2, <1>3

\* A retry starts over, with every IR decoded.
LEMMA RetryStarts ==
    ASSUME PInv, Retry
    PROVE  /\ "legacy" \in Ways(disk, db, opts)
           /\ Start("legacy") /\ UNCHANGED <<disk, opts, db>> /\ pc # "idle"
<1>1. pc # "idle" /\ run.mode = "selective" /\ Start("legacy") /\ UNCHANGED <<disk, opts, db>>
  BY DEF Retry, AtFile, tree
<1>2. "selective" = Plan(disk, db, opts)
  BY <1>1 DEF PInv, TInv, Way, Ways, Serial!Modes
<1> QED BY <1>1, <1>2 DEF Ways, Serial!Modes

\* A unit's row of a run that was made.
LEMMA UnitMade ==
    ASSUME Results, NEW u \in run.units PROVE Made(UnitsOf(run)[u], u, disk[u])
<1>1. PICK i : i \in DOMAIN run.irs /\ run.irs[i].unit = u
  BY DEF Results
<1>2. UnitsOf(run)[u] = run.irs[CHOOSE k \in DOMAIN run.irs : run.irs[k].unit = u]
  BY DEF UnitsOf
<1>3. PICK k \in DOMAIN run.irs : UnitsOf(run)[u] = run.irs[k] /\ run.irs[k].unit = u
  BY <1>1, <1>2
<1> QED BY <1>3 DEF Results

\* What is written: a unit for each text, or the note that there is none.
Complete(base) ==
    \A f \in Sources \ (base.skipped \union base.failed) :
        base.hash[f] # Absent => f \in DOMAIN base.unit /\ base.unit[f].parts[f] = base.hash[f]

\* A full save books every file.
LEMMA SavedComplete ==
    ASSUME PInv, pc = "link", run.mode # "selective"
    PROVE  Stored(Saved(run, disk, opts)) /\ Complete(Saved(run, disk, opts))
<1> DEFINE new == Saved(run, disk, opts)
<1>1. /\ new = [root |-> new.root, inputs |-> new.inputs, enrich |-> new.enrich,
                hash |-> new.hash, skipped |-> new.skipped, failed |-> new.failed,
                unit |-> new.unit, graph |-> new.graph]
      /\ new.hash = [f \in Files |-> disk[f]] /\ new.skipped = run.skipped
      /\ new.failed = run.failed /\ new.unit = UnitsOf(run)
  BY DEF Saved
<1> HIDE DEF new
<1>2. DOMAIN UnitsOf(run) = run.units /\ UnitsOf(run) = [u \in DOMAIN UnitsOf(run) |-> UnitsOf(run)[u]]
  BY DEF UnitsOf
<1>3. run.units \subseteq Sources /\ Account /\ Results /\ Waiting = {} /\ queue = << >>
  BY DEF PInv, TInv, Runs, Ledger, Ends
<1>4. \A u \in run.units : Made(UnitsOf(run)[u], u, disk[u])
  BY <1>3, UnitMade
<1>5. Stored(new)
  BY <1>1, <1>2, <1>3, <1>4, OrderFacts DEF Stored
<1>6. \A f \in Sources : disk[f] # Absent => f \in Done
  BY <1>3, OrderFacts DEF Waiting, Done, PInv, TInv
<1>7. Pending = {}
  BY <1>3 DEF Pending
<1>8. Complete(new)
  BY <1>1, <1>2, <1>3, <1>4, <1>6, <1>7, OrderFacts DEF Complete, Account, Made
<1> QED BY <1>5, <1>8 DEF new

\* A scoped write books every touched file and leaves the others' books right.
LEMMA PatchedComplete ==
    ASSUME PInv, pc = "link", run.mode # "full", Complete(db), NEW irs
    PROVE  LET new == Patched(run, disk, db, Touched(disk, db), irs)
           IN  Stored(new) /\ Complete(new)
<1> DEFINE T   == Touched(disk, db)
           new == Patched(run, disk, db, T, irs)
           hash == [f \in Files |-> IF f \in T THEN disk[f] ELSE db.hash[f]]
           units == [u \in ((DOMAIN db.unit) \ T) \union (run.units \intersect T) |->
                        IF u \in T THEN UnitsOf(run)[u] ELSE db.unit[u]]
           skipped == (db.skipped \ T) \union (run.skipped \intersect T)
           failed  == (db.failed \ T) \union (run.failed \intersect T)
           graph == LinkIncremental(irs, db, T)
<1>1. Stored(db) /\ run.clean = CleanOf(run.mode, disk, db) /\ disk \in Disks /\ db # NoDatabase
  BY ModeFacts DEF PInv, TInv, Way
<1>2. run.clean \intersect T = {}
  BY <1>1, CleanFacts, ModeFacts DEF PInv, TInv, Way
<1>3. new = [db EXCEPT !.hash = hash, !.skipped = skipped, !.failed = failed,
                       !.unit = units, !.graph = graph]
  BY DEF Patched
<1> HIDE DEF hash, units, skipped, failed, graph, new
<1>4. new = [root |-> db.root, inputs |-> db.inputs, enrich |-> db.enrich,
             hash |-> hash, skipped |-> skipped, failed |-> failed,
             unit |-> units, graph |-> graph]
  BY <1>1, <1>3 DEF Stored
<1>5. run.units \subseteq Sources /\ Account /\ Results /\ Waiting = {} /\ queue = << >>
  BY DEF PInv, TInv, Runs, Ledger, Ends
<1>6. \A u \in run.units : Made(UnitsOf(run)[u], u, disk[u])
  BY <1>5, UnitMade
<1>7. /\ DOMAIN units = ((DOMAIN db.unit) \ T) \union (run.units \intersect T)
      /\ units = [u \in DOMAIN units |-> units[u]]
      /\ hash = [f \in Files |-> hash[f]]
      /\ \A f \in Files : hash[f] = IF f \in T THEN disk[f] ELSE db.hash[f]
  BY DEF units, hash
<1>8. \A u \in DOMAIN units : u \in Sources /\ Made(units[u], u, hash[u])
  BY <1>1, <1>5, <1>6, <1>7, OrderFacts DEF Stored, units
<1>9. Stored(new)
  BY <1>4, <1>7, <1>8 DEF Stored
<1>10. \A f \in Sources : disk[f] # Absent => f \in Done
  BY <1>5, OrderFacts DEF Waiting, Done, PInv, TInv
<1>11. Pending = {}
  BY <1>5 DEF Pending
<1>12. ASSUME NEW f \in Sources, f \notin skipped \union failed, hash[f] # Absent
       PROVE  f \in DOMAIN units /\ units[f].parts[f] = hash[f]
  <2>1. f \in DOMAIN units
    <3>1. CASE f \in T
      BY <1>2, <1>5, <1>7, <1>10, <1>11, <1>12, <3>1, OrderFacts DEF Account, skipped, failed
    <3>2. CASE f \notin T
      BY <1>7, <1>12, <3>2, OrderFacts DEF Complete, skipped, failed
    <3> QED BY <3>1, <3>2
  <2> QED BY <1>8, <2>1 DEF Made
<1>13. Complete(new)
  BY <1>4, <1>12 DEF Complete
<1> QED BY <1>9, <1>13 DEF new

\* The write, full or scoped.
LEMMA WriteKeeps ==
    ASSUME PInv, db # NoDatabase => Complete(db), Write
    PROVE  PInv' /\ Stored(db') /\ Complete(db') /\ pc = "link" /\ db' = Outcome(run, disk, db, opts)
           /\ UNCHANGED <<disk, opts>>
<1>1. /\ pc = "link" /\ db' = Outcome(run, disk, db, opts) /\ UNCHANGED <<disk, opts>> /\ End("wrote")
  BY DEF Write, tree
<1>2. /\ run.mode \in {"full", "legacy", "selective"} /\ (run.mode # "full" => db # NoDatabase)
  BY <1>1, ModeFacts DEF PInv, TInv, Way
<1>3. Stored(db') /\ Complete(db')
  <2>1. CASE run.mode = "selective" \/ LinkSafe(run, disk, db, opts)
    <3>1. run.mode # "full"
      BY <2>1 DEF LinkSafe
    <3>2. \E irs : db' = Patched(run, disk, db, Touched(disk, db), irs)
      BY <1>1, <2>1 DEF Outcome
    <3> QED BY <1>1, <1>2, <3>1, <3>2, PatchedComplete
  <2>2. CASE ~(run.mode = "selective" \/ LinkSafe(run, disk, db, opts))
    <3>1. db' = Saved(run, disk, opts)
      BY <1>1, <2>2 DEF Outcome
    <3> QED BY <1>1, <2>2, <3>1, SavedComplete
  <2> QED BY <2>1, <2>2
<1> QED BY <1>1, <1>3, Ended DEF PInv

\* A run ends because its pool is broken.
LEMMA AbortKeeps ==
    ASSUME PInv, NEW f \in Sources, SubmitFails(f)
    PROVE  PInv' /\ UNCHANGED <<disk, opts, db>> /\ pc' = "idle"
<1>1. End("aborted") /\ UNCHANGED <<disk, opts, db>>
  BY DEF SubmitFails, tree
<1> QED BY <1>1, Ended DEF PInv, TInv, Stored, End

(***************************************************************************)
(* Types and complete rows, together                                       *)
(***************************************************************************)
CInv == PInv /\ (db # NoDatabase => Complete(db))

\* Nothing is booked before the first run.
LEMMA CInitially ==
    ASSUME Init PROVE CInv
<1>1. disk \in Disks
  BY VersionsAssumption DEF Init, Disks
<1>2. run \in Runs /\ run.clean = {}
  BY FreshType DEF Init, Fresh
<1>3. db # NoDatabase => Stored(db) /\ Complete(db)
  <2> SUFFICES ASSUME db # NoDatabase PROVE Stored(db) /\ Complete(db)
    OBVIOUS
  <2>1. db = [root |-> "here", inputs |-> "merged", enrich |-> FALSE,
              hash |-> [f \in Files |-> Absent], skipped |-> {},
              failed |-> {}, unit |-> << >>, graph |-> << >>]
    BY DEF Init
  <2>2. DOMAIN << >> = {}
    OBVIOUS
  <2> QED BY <2>1, <2>2, OrderFacts DEF Stored, Complete
<1>4. TInv
  BY <1>1, <1>2, <1>3, OrderFacts DEF Init, TInv, Way
<1> QED BY <1>3, <1>4 DEF CInv, PInv, Ledger, Init

\* Every step keeps the books.
LEMMA CNext ==
    ASSUME CInv, [Next]_vars PROVE CInv'
<1>1. PInv'
  <2>1. ASSUME NEW f \in Sources, Pass(f) \/ Enqueue(f) \/ SubmitFails(f) PROVE PInv'
    BY <2>1, PassKeeps, EnqueueKeeps, AbortKeeps DEF CInv
  <2>2. CASE Retry
    BY <2>2, RetryStarts, Started DEF CInv, PInv
  <2>3. CASE UNCHANGED vars
    <3>1. TInv'
      BY <2>3, TypesHold DEF vars, CInv, PInv, TInv, Way
    <3>2. Ledger'
      BY <2>3 DEF vars, CInv, PInv, Ledger, Account, Results, Ends, Done, Pending, Waiting
    <3> QED BY <3>1, <3>2 DEF PInv
  <2> QED BY <2>1, <2>2, <2>3, IdleKeeps, CommandKeeps, WorkersKeep, FinalizeKeeps, TurnKeeps,
             WriteKeeps DEF CInv, Next, PassOver
<1>2. db' # NoDatabase => Complete(db')
  <2>1. CASE UNCHANGED db
    BY <2>1 DEF CInv, Complete
  <2>2. ASSUME NEW u \in Sources, Corrupt(u) PROVE Complete(db')
    <3>1. Stored(db) /\ Complete(db)
      BY <2>2 DEF Corrupt, CInv, PInv, TInv
    <3>2. Marked(db', db)
      BY <2>2, <3>1, CorruptMarks
    <3> QED BY <3>1, <3>2 DEF Complete, Marked
  <2>3. CASE Write
    BY <2>3, WriteKeeps DEF CInv
  <2> QED BY <2>1, <2>2, <2>3 DEF Next, vars, Edit, Configure, Build, Update, PassOver, Pass,
             Enqueue, SubmitFails, Work, WorkerDies, Finalize, Continue, AllDispatched,
             AllFinalized, Retry
<1> QED BY <1>1, <1>2 DEF CInv

\* Types and complete rows, always.
LEMMA CInvariant == Spec => []CInv
<1>1. Init => CInv
  BY CInitially
<1>2. CInv /\ [Next]_vars => CInv'
  BY CNext
<1> QED BY <1>1, <1>2, PTL DEF Spec

(* The state of a run has its type; what it reuses are stored units, and   *)
(* every file it books is a source file.                                   *)
THEOREM RunTypes == Spec => []TypeOK
<1>1. CInv => TypeOK
  <2> SUFFICES ASSUME TInv PROVE TypeOK
    BY DEF CInv, PInv
  <2>1. \A f \in Files : disk[f] \in Text \union {Absent}
    BY DEF TInv, Disks
  <2>2. /\ run.mode \in {"full", "legacy", "selective"}
        /\ run.failed \union run.skipped \union run.units \union run.consumed \subseteq Sources
    BY DEF TInv, Runs
  <2>3. \A i \in DOMAIN queue : queue[i].state \in {"ready", "thunk", "running", "failed"}
    <3>1. \A i \in DOMAIN queue : queue[i] \in Items
      BY DEF TInv
    <3> QED BY <3>1 DEF Items
  <2>4. run.clean \subseteq IF db = NoDatabase THEN {} ELSE DOMAIN db.unit
    <3>1. CASE pc = "idle"
      BY <3>1 DEF TInv
    <3>2. CASE pc # "idle"
      <4>1. run.mode \in Ways(disk, db, opts) /\ run.clean = CleanOf(run.mode, disk, db)
            /\ disk \in Disks /\ (db # NoDatabase => Stored(db))
        BY <3>2 DEF TInv, Way
      <4>2. run.mode # "full" => db # NoDatabase
        BY <4>1, ModeFacts
      <4> QED BY <2>2, <4>1, <4>2, CleanFacts
    <3> QED BY <3>1, <3>2
  <2> QED BY <2>1, <2>2, <2>3, <2>4 DEF TInv, TypeOK
<1> QED BY <1>1, CInvariant, PTL

(* However the workers answer or fail, and whichever way an update takes,  *)
(* no file's row claims a compilation that did not happen: its unit is     *)
(* stored, made from the text that was hashed, or its failure is.          *)
THEOREM NoRowLost == Spec => []CompiledOrFailed
<1>1. CInv => CompiledOrFailed
  BY DEF CInv, Complete, CompiledOrFailed
<1> QED BY <1>1, CInvariant, PTL

(***************************************************************************)
(* The macro table                                                         *)
(***************************************************************************)
\* The units whose events the table must hold.
Fed == {f \in Done : disk[f] # Absent /\ Lang[f] \in Preprocessed /\ f \notin run.skipped}

InOrder(t) == \A i, j \in DOMAIN t : i < j => Position(t[i]) < Position(t[j])

Macros == pc # "idle" => Range(run.table) = Fed /\ InOrder(run.table)

\* The elements of a sequence with one element more.
LEMMA RangeAppended ==
    ASSUME NEW t \in Seq(Sources), NEW f \in Sources
    PROVE  Range(Append(t, f)) = Range(t) \union {f}
<1>1. /\ DOMAIN t = 1 .. Len(t) /\ Len(t) \in Nat /\ DOMAIN Append(t, f) = 1 .. Len(t) + 1
      /\ \A i \in 1 .. Len(t) : Append(t, f)[i] = t[i]
      /\ Append(t, f)[Len(t) + 1] = f
  BY Appended
<1> DEFINE u == Append(t, f)
<1> HIDE DEF u
<1>2. /\ DOMAIN u = 1 .. Len(t) + 1 /\ u[Len(t) + 1] = f /\ \A i \in 1 .. Len(t) : u[i] = t[i]
  BY <1>1 DEF u
<1>3. Range(u) = Range(t) \union {f}
  <2>1. \A x \in Range(u) : x \in Range(t) \union {f}
    <3> SUFFICES ASSUME NEW i \in DOMAIN u PROVE u[i] \in Range(t) \union {f}
      BY DEF Range
    <3> QED BY <1>1, <1>2 DEF Range
  <2>2. \A x \in Range(t) : x \in Range(u)
    <3> SUFFICES ASSUME NEW i \in DOMAIN t PROVE t[i] \in Range(u)
      BY DEF Range
    <3>1. i \in DOMAIN u /\ u[i] = t[i]
      BY <1>1, <1>2
    <3> QED BY <3>1 DEF Range
  <2>3. f \in Range(u)
    <3>1. Len(t) + 1 \in DOMAIN u
      BY <1>1, <1>2
    <3> QED BY <1>2, <3>1 DEF Range
  <2> QED BY <2>1, <2>2, <2>3
<1> QED BY <1>3 DEF u

\* The turn of a file: its events go to the end of the table, or nowhere.
LEMMA TurnFeeds ==
    ASSUME CInv, Macros, NEW f \in Sources, AtFile(f), run' = Dispatched(run, disk, db, f),
           next' = Position(f) + 1, UNCHANGED disk
    PROVE  Range(run'.table) = Fed' /\ InOrder(run'.table)
<1> DEFINE how == Treatment(run, disk, db, f)
<1>1. /\ disk[f] # Absent /\ pc = "pass" /\ f \notin Done /\ Done \subseteq Done' /\ f \in Done'
      /\ next <= Position(f)
      /\ \A g \in Done' : disk[g] # Absent => g \in Done \/ g = f
  BY NextFile DEF CInv, PInv
<1>2. Reusable(run, disk, db) /\ run \in Runs /\ disk \in Disks
  BY <1>1, RunReusable DEF CInv, PInv, TInv
<1>3. Range(run.table) = Fed /\ InOrder(run.table) /\ run.table \in Seq(Sources)
  BY <1>1, <1>2 DEF Macros, Runs
<1>4. f \notin run.skipped /\ f \notin Range(run.table)
  BY <1>1, <1>3 DEF CInv, PInv, Ledger, Account, Fed
<1>5. /\ how = "skip" => run'.skipped = run.skipped \union {f}
      /\ how # "skip" => run'.skipped = run.skipped
      /\ how = "skip" \/ Lang[f] \notin Preprocessed => run'.table = run.table
      /\ how # "skip" /\ Lang[f] \in Preprocessed => run'.table = Append(run.table, f)
  BY <1>1, <1>2, DispatchedIs
<1> HIDE DEF how
<1>6. CASE how = "skip" \/ Lang[f] \notin Preprocessed
  <2>1. Fed' = Fed
    BY <1>1, <1>4, <1>5, <1>6 DEF Fed
  <2> QED BY <1>3, <1>5, <1>6, <2>1
<1>7. CASE how # "skip" /\ Lang[f] \in Preprocessed
  <2>1. Fed' = Fed \union {f}
    BY <1>1, <1>4, <1>5, <1>7 DEF Fed
  <2>2. Range(run'.table) = Fed'
    BY <1>3, <1>5, <1>7, <2>1, RangeAppended
  <2> DEFINE t == run.table
             u == run'.table
  <2>3. /\ DOMAIN t = 1 .. Len(t) /\ Len(t) \in Nat /\ DOMAIN u = 1 .. Len(t) + 1
        /\ \A i \in 1 .. Len(t) : u[i] = t[i]
        /\ u[Len(t) + 1] = f
    BY <1>3, <1>5, <1>7, Appended
  <2>4. \A i \in DOMAIN t : Position(t[i]) < Position(f)
    <3>1. \A g \in Fed : Position(g) < next
      BY DEF Fed, Done
    <3>2. \A i \in DOMAIN t : t[i] \in Fed
      BY <1>3 DEF Range
    <3>3. \A g \in Sources : Position(g) \in Int
      BY OrderFacts
    <3>4. next \in Int /\ Fed \subseteq Sources
      BY DEF CInv, PInv, TInv, Fed, Done
    <3> QED BY <1>1, <3>1, <3>2, <3>3, <3>4
  <2> HIDE DEF t, u
  <2>5. InOrder(t)
    BY <1>3 DEF t
  <2>6. ASSUME NEW i \in DOMAIN u, NEW j \in DOMAIN u, i < j PROVE Position(u[i]) < Position(u[j])
    <3>1. i \in DOMAIN t /\ u[i] = t[i]
      BY <2>3, <2>6
    <3>2. CASE j = Len(t) + 1
      BY <2>3, <2>4, <3>1, <3>2
    <3>3. CASE j # Len(t) + 1
      <4>1. j \in DOMAIN t /\ u[j] = t[j]
        BY <2>3, <3>3
      <4> QED BY <2>5, <2>6, <3>1, <4>1 DEF InOrder
    <3> QED BY <3>2, <3>3
  <2>7. InOrder(u)
    BY <2>6 DEF InOrder
  <2> QED BY <2>2, <2>7 DEF u
<1> QED BY <1>6, <1>7

\* At the start of a run nothing was fed to the table.
LEMMA FreshFeeds ==
    ASSUME NEW mode, NEW clean, run' = Fresh(mode, clean), next' = 1
    PROVE  Range(run'.table) = Fed' /\ InOrder(run'.table)
<1>1. run'.table = << >> /\ DOMAIN << >> = {}
  BY EmptyQueue DEF Fresh
<1>2. Done' = {}
  <2>1. \A f \in Sources : Position(f) \in Int /\ Position(f) >= 1
    BY OrderFacts
  <2> QED BY <2>1 DEF Done
<1> QED BY <1>1, <1>2 DEF Fed, Range, InOrder

\* The macro events of each unit that was preprocessed reach the table once,
\* in compile order: what preprocess_unit's caller counts on.
LEMMA MacrosKept ==
    ASSUME CInv, CInv', Macros, [Next]_vars PROVE Macros'
<1>1. ASSUME NEW f \in Sources, Pass(f) \/ Enqueue(f) PROVE Macros'
  BY <1>1, TurnFeeds DEF Pass, Enqueue, tree, Macros
<1>2. CASE pc' = "idle"
  BY <1>2 DEF Macros
<1>3. ASSUME NEW mode, Start(mode) PROVE Macros'
  BY <1>3, FreshFeeds DEF Start, Macros
<1>4. CASE Finalize
  <2>1. /\ pc # "idle" /\ UNCHANGED <<disk, next>> /\ run \in Runs
        /\ run' = WorkerFailed(run, queue[1].unit)
           \/ run' = Finalized(run, queue[1].unit, queue[1].ir)
    BY <1>4, FinalizeKeeps DEF Finalize, tree, CInv, PInv, TInv
  <2>2. queue[1] \in Items
    BY <1>4, FinalizeKeeps, Popped DEF CInv, PInv, TInv
  <2>3. queue[1].unit \in Sources /\ queue[1].ir \in IRs
    BY <2>2 DEF Items
  <2>4. run'.table = run.table /\ run'.skipped = run.skipped
    BY <2>1, <2>3, FinalizedIs, FailedIs
  <2> QED BY <2>1, <2>4 DEF Macros, Fed, Done
<1>5. CASE UNCHANGED <<disk, run, next>> /\ pc # "idle"
  BY <1>5 DEF Macros, Fed, Done
<1>6. CASE UNCHANGED vars
  BY <1>6 DEF vars, Macros, Fed, Done
<1>7. (\E i \in 1 .. Len(Order) : Work(i)) \/ WorkerDies => UNCHANGED <<disk, run, next>>
                                                          /\ (pc # "idle" \/ pc' = "idle")
  BY DEF Work, WorkerDies, tree
<1>8. Continue \/ AllDispatched \/ AllFinalized =>
        (pc # "idle" /\ UNCHANGED <<disk, run, next>>) \/ pc' = "idle"
  BY DEF Continue, AllDispatched, AllFinalized, tree, End
<1> QED BY <1>1, <1>2, <1>3, <1>4, <1>5, <1>6, <1>7, <1>8
        DEF Next, PassOver, Edit, Configure, Corrupt, Build, Update, Retry, Write, SubmitFails, End

(* Whatever order the workers answer in, the macro events of the units     *)
(* reach the shared table once each and in compile order.                  *)
THEOREM TableInOrder == Spec => []MacrosInOrder
<1>1. Init => Macros
  BY DEF Init, Macros
<1>2. Macros => MacrosInOrder
  BY DEF Macros, MacrosInOrder, Fed, Done, Discovered, InOrder
<1>3. CInv /\ CInv' /\ Macros /\ [Next]_vars => Macros'
  BY MacrosKept
<1> QED BY <1>1, <1>2, <1>3, CInvariant, PTL DEF Spec

(***************************************************************************)
(* A run is a serial run                                                   *)
(***************************************************************************)
Compilation(r, d, base, F, f) == Serial!Compiled(r, d, base, F, f)
SerialAfter(mode, clean, d, base, F) == Serial!After(mode, clean, d, base, F)
SerialResult(mode, clean, d, base, F) == Serial!Serial(mode, clean, d, base, F)

\* What the oldest pending unit makes of a run, if the units in F fail.
Turn(r, item, F) == IF item.unit \in F THEN WorkerFailed(r, item.unit)
                    ELSE Finalized(r, item.unit, item.ir)

\* Runs that treat the files to come alike: pass 0 left them the same.
SameFront(r, s) ==
    /\ r.mode = s.mode /\ r.clean = s.clean /\ r.table = s.table
    /\ r.processed = s.processed /\ r.consumed = s.consumed /\ r.skipped = s.skipped

RunsOf(mode, clean) == {r \in Runs : r.mode = mode /\ r.clean = clean}

\* Runs that pass 0 left the same treat a file alike.
LEMMA FrontTreats ==
    ASSUME NEW r, NEW s, SameFront(r, s), NEW d, NEW base, NEW f
    PROVE  /\ Treatment(r, d, base, f) = Treatment(s, d, base, f)
           /\ Contribution(r, d, base, f) = Contribution(s, d, base, f)
<1>1. Treatment(r, d, base, f) = Treatment(s, d, base, f)
  BY DEF Treatment, SameFront
<1> QED BY <1>1 DEF Contribution

\* Finalizing a unit leaves pass 0's part of the run alone.
LEMMA TurnKeepsFront ==
    ASSUME NEW r \in Runs, NEW item \in Items, NEW F
    PROVE  Turn(r, item, F) \in Runs /\ SameFront(r, Turn(r, item, F))
<1>1. item.unit \in Sources /\ item.ir \in IRs
  BY DEF Items
<1>2. CASE item.unit \in F
  BY <1>1, <1>2, FailedIs DEF Turn, SameFront
<1>3. CASE item.unit \notin F
  BY <1>1, <1>3, FinalizedIs DEF Turn, SameFront
<1> QED BY <1>2, <1>3

\* Runs that pass 0 left the same are left the same by the next file.
LEMMA DispatchFront ==
    ASSUME NEW r \in Runs, NEW s \in Runs, SameFront(r, s), NEW d \in Disks, NEW base,
           NEW f \in Sources, d[f] # Absent, Reusable(r, d, base)
    PROVE  /\ Dispatched(s, d, base, f) \in Runs
           /\ SameFront(Dispatched(r, d, base, f), Dispatched(s, d, base, f))
<1> DEFINE a == Dispatched(r, d, base, f)
           b == Dispatched(s, d, base, f)
           how == Treatment(r, d, base, f)
           parts == DOMAIN Contribution(r, d, base, f).parts
<1>1. how = Treatment(s, d, base, f) /\ parts = DOMAIN Contribution(s, d, base, f).parts
  BY FrontTreats
<1>2. Reusable(s, d, base)
  BY DEF Reusable, SameFront
<1>3. /\ a.mode = r.mode /\ a.clean = r.clean
      /\ how = "skip" => a.skipped = r.skipped \union {f}
      /\ how # "skip" => a.skipped = r.skipped
      /\ how = "skip" \/ Lang[f] \notin Preprocessed =>
            a.table = r.table /\ a.processed = r.processed /\ a.consumed = r.consumed
      /\ how # "skip" /\ Lang[f] \in Preprocessed =>
            /\ a.table = Append(r.table, f) /\ a.processed = r.processed \union {f}
            /\ a.consumed = r.consumed \union (parts \ (r.processed \union {f}))
  BY DispatchedIs
<1>4. /\ b \in Runs /\ b.mode = s.mode /\ b.clean = s.clean
      /\ how = "skip" => b.skipped = s.skipped \union {f}
      /\ how # "skip" => b.skipped = s.skipped
      /\ how = "skip" \/ Lang[f] \notin Preprocessed =>
            b.table = s.table /\ b.processed = s.processed /\ b.consumed = s.consumed
      /\ how # "skip" /\ Lang[f] \in Preprocessed =>
            /\ b.table = Append(s.table, f) /\ b.processed = s.processed \union {f}
            /\ b.consumed = s.consumed \union (parts \ (s.processed \union {f}))
  BY <1>1, <1>2, DispatchedIs
<1> HIDE DEF a, b, how, parts
<1>5. SameFront(a, b)
  BY <1>3, <1>4 DEF SameFront
<1> QED BY <1>4, <1>5 DEF a, b

\* A unit may be dispatched before the results of earlier ones are in.
LEMMA DispatchCommutes ==
    ASSUME NEW r \in Runs, NEW item \in Items, NEW F, NEW d \in Disks, NEW base,
           NEW f \in Sources, d[f] # Absent, Reusable(r, d, base)
    PROVE  Dispatched(Turn(r, item, F), d, base, f) = Turn(Dispatched(r, d, base, f), item, F)
<1> DEFINE t == Turn(r, item, F)
           a == Dispatched(t, d, base, f)
           n == Dispatched(r, d, base, f)
           b == Turn(n, item, F)
           u == item.unit
           ir == item.ir
           how == Treatment(r, d, base, f)
<1>1. u \in Sources /\ ir \in IRs
  BY DEF Items
<1>2. t \in Runs /\ SameFront(r, t)
  BY TurnKeepsFront
<1>3. a \in Runs /\ n \in Runs /\ SameFront(n, a)
  <2>1. a \in Runs /\ SameFront(n, a)
    BY <1>2, DispatchFront
  <2>2. n \in Runs
    BY DispatchedIs
  <2> QED BY <2>1, <2>2
<1>4. b \in Runs /\ SameFront(n, b)
  BY <1>3, TurnKeepsFront
<1>5. how = Treatment(t, d, base, f) /\ Reusable(t, d, base)
  BY <1>2, FrontTreats DEF Reusable, SameFront
<1>6. /\ a.irs = t.irs /\ a.units = t.units /\ a.failed = t.failed
      /\ a.parsed = IF how = "replay" THEN t.parsed + 1 ELSE t.parsed
  BY <1>2, <1>5, DispatchedIs
<1>7. /\ n.irs = r.irs /\ n.units = r.units /\ n.failed = r.failed
      /\ n.parsed = IF how = "replay" THEN r.parsed + 1 ELSE r.parsed
  BY DispatchedIs
<1>8. /\ t.irs = IF u \in F THEN r.irs ELSE Append(r.irs, ir)
      /\ t.units = IF u \in F THEN r.units ELSE r.units \union {u}
      /\ t.failed = IF u \in F THEN r.failed \union {u} ELSE r.failed
      /\ t.parsed = IF u \in F THEN r.parsed ELSE r.parsed + 1
  <2>1. CASE u \in F
    BY <1>1, <2>1, FailedIs DEF Turn
  <2>2. CASE u \notin F
    BY <1>1, <2>2, FinalizedIs DEF Turn
  <2> QED BY <2>1, <2>2
<1>9. /\ b.irs = IF u \in F THEN n.irs ELSE Append(n.irs, ir)
      /\ b.units = IF u \in F THEN n.units ELSE n.units \union {u}
      /\ b.failed = IF u \in F THEN n.failed \union {u} ELSE n.failed
      /\ b.parsed = IF u \in F THEN n.parsed ELSE n.parsed + 1
  <2> HIDE DEF n
  <2>1. CASE u \in F
    BY <1>1, <1>3, <2>1, FailedIs DEF Turn
  <2>2. CASE u \notin F
    BY <1>1, <1>3, <2>2, FinalizedIs DEF Turn
  <2> QED BY <2>1, <2>2
<1>10. r.parsed \in Nat
  BY DEF Runs
<1> HIDE DEF t, a, n, b, u, ir, how
<1>11. a.irs = b.irs /\ a.units = b.units /\ a.failed = b.failed /\ a.parsed = b.parsed
  BY <1>6, <1>7, <1>8, <1>9, <1>10
<1>12. a = b
  BY <1>3, <1>4, <1>11, RunsEqual DEF SameFront
<1> QED BY <1>12 DEF a, b, n, t

\* Compiling a file leaves a run of the same way.
LEMMA CompilationType ==
    ASSUME NEW r \in Runs, NEW d \in Disks, NEW base, NEW F, NEW f \in Sources, d[f] # Absent,
           Reusable(r, d, base)
    PROVE  Compilation(r, d, base, F, f) \in RunsOf(r.mode, r.clean)
<1> DEFINE n == Dispatched(r, d, base, f)
           ir == Contribution(r, d, base, f)
<1>1. n \in Runs /\ n.mode = r.mode /\ n.clean = r.clean
  BY DispatchedIs
<1>2. ir \in IRs
  BY ContributionType DEF Made
<1>3. \/ Compilation(r, d, base, F, f) = n
      \/ Compilation(r, d, base, F, f) = WorkerFailed(n, f)
      \/ Compilation(r, d, base, F, f) = Finalized(n, f, ir)
  BY DEF Compilation, Serial!Compiled
<1> HIDE DEF n, ir
<1> QED BY <1>1, <1>2, <1>3, FailedIs, FinalizedIs DEF RunsOf

\* The serial run exists, and goes from file to file.
Fits(clean, d, base) == \A u \in clean : Made(base.unit[u], u, d[u])

IsSerial(after, mode, clean, d, base, F) ==
    /\ after[0] = Fresh(mode, clean)
    /\ \A n \in 0 .. Len(Order) : after[n] \in RunsOf(mode, clean)
    /\ \A n \in 1 .. Len(Order) :
         after[n] = IF d[Order[n]] = Absent THEN after[n - 1]
                    ELSE Compilation(after[n - 1], d, base, F, Order[n])

\* The serial run starts afresh and compiles one file after the other.
LEMMA SerialSteps ==
    ASSUME NEW mode \in {"full", "legacy", "selective"}, NEW clean \in SUBSET Sources,
           NEW d \in Disks, NEW base, Fits(clean, d, base), NEW F,
           NEW after, after = SerialAfter(mode, clean, d, base, F)
    PROVE  IsSerial(after, mode, clean, d, base, F)
<1> DEFINE R == RunsOf(mode, clean)
           N == Len(Order)
           start == Fresh(mode, clean)
           To(r, n) == IF d[Order[n]] = Absent THEN r ELSE Compilation(r, d, base, F, Order[n])
           step == [p \in (1 .. N) \X R |-> To(p[2], p[1])]
           Whole(g) == [n \in 0 .. N |-> IF n = 0 THEN start ELSE To(g[n - 1], n)]
<1>1. N \in Nat /\ \A n \in 1 .. N : Order[n] \in Sources
  BY OrderFacts
<1>2. start \in R
  BY FreshType DEF RunsOf, Fresh
<1>3. \A n \in 1 .. N, r \in R : To(r, n) \in R
  <2> SUFFICES ASSUME NEW n \in 1 .. N, NEW r \in R, d[Order[n]] # Absent
               PROVE  Compilation(r, d, base, F, Order[n]) \in R
    OBVIOUS
  <2>1. r \in Runs /\ r.mode = mode /\ r.clean = clean /\ Reusable(r, d, base)
    BY DEF RunsOf, Reusable, Fits
  <2> QED BY <1>1, <2>1, CompilationType
<1> HIDE DEF R, To, start, N
<1>4. \A n \in 1 .. N, r \in R : step[<<n, r>>] = To(r, n)
  OBVIOUS
<1>5. PICK g : g \in Recursive(N, R, start, step)
  <2>1. step \in [(1 .. N) \X R -> R]
    BY <1>3
  <2> HIDE DEF step
  <2>2. N \in Nat
    BY <1>1
  <2> QED BY <1>2, <2>1, <2>2, Recursion
<1> HIDE DEF step
<1>5a. /\ g \in [0 .. N -> R] /\ g[0] = start
       /\ \A k \in 1 .. N : g[k] = step[<<k, g[k - 1]>>]
  BY <1>5 DEF Recursive
<1>6. \A k \in 1 .. N : g[k] = To(g[k - 1], k)
  <2> SUFFICES ASSUME NEW k \in 1 .. N PROVE g[k] = To(g[k - 1], k)
    OBVIOUS
  <2>1. g[k - 1] \in R
    BY <1>1, <1>5a
  <2> QED BY <1>4, <1>5a, <2>1
<1>7. g = Whole(g)
  BY <1>1, <1>5a, <1>6
<1>8. after = CHOOSE h : h = Whole(h)
  BY DEF SerialAfter, Serial!After, Compilation, To, start, N
<1>9. after = Whole(after)
  <2> HIDE DEF Whole
  <2> QED BY <1>7, <1>8
<1>10. DOMAIN after = 0 .. N /\ \A n \in 0 .. N : after[n] = IF n = 0 THEN start ELSE To(after[n - 1], n)
  BY <1>9
<1> HIDE DEF Whole
<1>11. after[0] = start /\ \A n \in 1 .. N : after[n] = To(after[n - 1], n)
  BY <1>1, <1>10
<1>12. \A n \in 0 .. N : after[n] \in R
  <2> DEFINE T == {n \in Nat : n <= N => after[n] \in R}
  <2>1. 0 \in T
    BY <1>2, <1>11
  <2>2. \A n \in T : n + 1 \in T
    <3> SUFFICES ASSUME NEW n \in T, n + 1 <= N PROVE after[n + 1] \in R
      OBVIOUS
    <3>1. n + 1 \in 1 .. N /\ (n + 1) - 1 = n /\ after[n] \in R
      BY <1>1
    <3> QED BY <1>3, <1>11, <3>1
  <2>3. T \in SUBSET Nat
    OBVIOUS
  <2> HIDE DEF T
  <2>4. \A n \in 0 .. N : n \in T
    BY <2>1, <2>2, <2>3, SetInduction
  <2> QED BY <1>1, <2>4 DEF T
<1> QED BY <1>11, <1>12 DEF R, N, start, To, IsSerial

\* Positions without a file change nothing in the serial run.
Same(g, i, j) == g[i] = g[j]
Vacant(d, i, j) == \A k \in i + 1 .. j : d[Order[k]] = Absent

\* A stretch of positions without a file.
LEMMA SerialSkips ==
    ASSUME NEW mode \in {"full", "legacy", "selective"}, NEW clean \in SUBSET Sources,
           NEW d \in Disks, NEW base, Fits(clean, d, base), NEW F,
           NEW i \in Nat, NEW j \in Nat, i <= j, j <= Len(Order),
           Vacant(d, i, j)
    PROVE  Same(SerialAfter(mode, clean, d, base, F), i, j)
<1> DEFINE after == SerialAfter(mode, clean, d, base, F)
<1>0. IsSerial(after, mode, clean, d, base, F)
  BY SerialSteps
<1>1. \A n \in 1 .. Len(Order) :
          after[n] = IF d[Order[n]] = Absent THEN after[n - 1]
                     ELSE Compilation(after[n - 1], d, base, F, Order[n])
  BY <1>0 DEF IsSerial
<1>2. \A k \in i + 1 .. j : k \in 1 .. Len(Order)
  BY OrderFacts
<1>3. \A k \in i + 1 .. j : after[k] = after[k - 1]
  BY <1>1, <1>2 DEF Vacant
<1>4. after[j] = after[i]
  BY <1>3, Constant
<1> QED BY <1>4 DEF Same

(* What is decided of a run: the files that were dispatched and are not    *)
(* pending.  F is a guess at which parses fail that agrees with it.        *)
Agrees(F) == F \intersect (Done \ Pending) = run.failed

(* Finalizing the pending units one after the other, those in F as failed, *)
(* leads from the run to the serial run in which the units of F fail.      *)
Links(s, F, r, q) ==
    /\ s \in [0 .. Len(q) -> Runs]
    /\ s[0] = r
    /\ \A i \in 1 .. Len(q) : s[i] = Turn(s[i - 1], q[i], F)
    /\ \A i \in 0 .. Len(q) : SameFront(r, s[i])

Chain(s, F, r, q, d, base, n) ==
    /\ Links(s, F, r, q)
    /\ s[Len(q)] = SerialAfter(r.mode, r.clean, d, base, F)[n - 1]

Follows ==
    pc # "idle" =>
      \A F \in SUBSET Sources : Agrees(F) => \E s : Chain(s, F, run, queue, disk, db, next)

\* Dispatching a file ahead of the pending units moves the whole chain.
LEMMA DispatchChain ==
    ASSUME NEW r \in Runs, NEW q \in Seq(Items), NEW d \in Disks, NEW base, NEW F, NEW s,
           Links(s, F, r, q),
           NEW f \in Sources, d[f] # Absent, Reusable(r, d, base),
           NEW t, t = [i \in 0 .. Len(q) |-> Dispatched(s[i], d, base, f)]
    PROVE  /\ Links(t, F, Dispatched(r, d, base, f), q)
           /\ t[Len(q)] = Dispatched(s[Len(q)], d, base, f)
           /\ Treatment(s[Len(q)], d, base, f) = Treatment(r, d, base, f)
           /\ Contribution(s[Len(q)], d, base, f) = Contribution(r, d, base, f)
<1>0. Len(q) \in Nat /\ \A i \in 1 .. Len(q) : q[i] \in Items
  OBVIOUS
<1>1. /\ Len(q) \in Nat /\ \A i \in 1 .. Len(q) : q[i] \in Items
      /\ \A i \in 0 .. Len(q) : s[i] \in Runs /\ SameFront(r, s[i])
      /\ s[0] = r
      /\ \A i \in 1 .. Len(q) : s[i] = Turn(s[i - 1], q[i], F)
  BY <1>0 DEF Links
<1>2. \A i \in 0 .. Len(q) : t[i] = Dispatched(s[i], d, base, f)
  OBVIOUS
<1>3. \A i \in 0 .. Len(q) : t[i] \in Runs /\ SameFront(Dispatched(r, d, base, f), t[i])
  BY <1>1, <1>2, DispatchFront
<1>4. t \in [0 .. Len(q) -> Runs]
  BY <1>3
<1>5. ASSUME NEW i \in 1 .. Len(q) PROVE t[i] = Turn(t[i - 1], q[i], F)
  <2>1. i - 1 \in 0 .. Len(q) /\ i \in 0 .. Len(q)
    BY <1>1
  <2>2. s[i - 1] \in Runs /\ SameFront(r, s[i - 1]) /\ q[i] \in Items
    BY <1>1, <2>1
  <2>3. Reusable(s[i - 1], d, base)
    BY <2>2 DEF Reusable, SameFront
  <2>4. Dispatched(Turn(s[i - 1], q[i], F), d, base, f)
          = Turn(Dispatched(s[i - 1], d, base, f), q[i], F)
    BY <2>2, <2>3, DispatchCommutes
  <2> QED BY <1>1, <1>2, <2>1, <2>4
<1>6. 0 \in 0 .. Len(q) /\ Len(q) \in 0 .. Len(q)
  BY <1>1
<1>7. /\ Treatment(s[Len(q)], d, base, f) = Treatment(r, d, base, f)
      /\ Contribution(s[Len(q)], d, base, f) = Contribution(r, d, base, f)
  BY <1>1, <1>6, FrontTreats
<1> QED BY <1>1, <1>2, <1>3, <1>4, <1>5, <1>6, <1>7 DEF Links

\* What the serial run makes of the next file.
LEMMA SerialNext ==
    ASSUME TInv, NEW f, AtFile(f), next' = Position(f) + 1, disk' = disk, NEW F
    PROVE  LET after == SerialAfter(run.mode, run.clean, disk, db, F)
           IN  after[Position(f)] = Compilation(after[next - 1], disk, db, F, f)
<1> DEFINE after == SerialAfter(run.mode, run.clean, disk, db, F)
           k == Position(f)
<1>1. /\ f \in Sources /\ disk[f] # Absent /\ pc = "pass"
      /\ k \in DOMAIN Order /\ Order[k] = f /\ next <= k
      /\ \A j \in next .. k - 1 : disk[Order[j]] = Absent
  BY NextFile
<1>2. run.mode \in {"full", "legacy", "selective"} /\ run.clean \in SUBSET Sources
      /\ disk \in Disks /\ next \in 1 .. Len(Order) + 1
  BY DEF TInv, Runs
<1>3. Fits(run.clean, disk, db)
  BY <1>1, RunReusable DEF Reusable, Fits
<1>4. Len(Order) \in Nat /\ k \in 1 .. Len(Order)
  BY <1>1, OrderFacts
<1>5. IsSerial(after, run.mode, run.clean, disk, db, F)
  BY <1>2, <1>3, SerialSteps
<1>6. after[k] = Compilation(after[k - 1], disk, db, F, f)
  BY <1>1, <1>4, <1>5 DEF IsSerial
<1>7. ASSUME NEW i \in Nat, NEW j \in Nat, i = next - 1, j = k - 1 PROVE after[j] = after[i]
  <2>1. i <= j /\ j <= Len(Order) /\ i + 1 = next
    BY <1>1, <1>2, <1>4, <1>7
  <2>2. Vacant(disk, i, j)
    BY <1>1, <1>7, <2>1 DEF Vacant
  <2>3. Same(after, i, j)
    BY <1>2, <1>3, <2>1, <2>2, SerialSkips
  <2> QED BY <2>3 DEF Same
<1>8. next - 1 \in Nat /\ k - 1 \in Nat
  BY <1>1, <1>2, <1>4
<1>9. after[k - 1] = after[next - 1]
  BY <1>7, <1>8
<1> QED BY <1>6, <1>9

\* A file done with at once is done with in the serial run, too.
LEMMA PassFollows ==
    ASSUME CInv, Follows, NEW f \in Sources, Pass(f) PROVE Follows'
<1>1. /\ UNCHANGED <<disk, opts, db, pc, queue, pool>> /\ AtFile(f)
      /\ run' = Dispatched(run, disk, db, f) /\ next' = Position(f) + 1
      /\ Treatment(run, disk, db, f) \in {"skip", "replay"}
  BY DEF Pass, tree
<1>2. /\ disk[f] # Absent /\ pc = "pass" /\ Done \subseteq Done' /\ f \notin Done
      /\ Position(f) \in DOMAIN Order
  BY <1>1, NextFile DEF CInv, PInv
<1>3. /\ Reusable(run, disk, db) /\ run \in Runs /\ disk \in Disks /\ queue \in Seq(Items)
      /\ Account
  BY <1>2, RunReusable DEF CInv, PInv, TInv, Ledger
<1>4. run'.mode = run.mode /\ run'.clean = run.clean /\ run'.failed = run.failed
  BY <1>1, <1>2, <1>3, DispatchedIs
<1> SUFFICES ASSUME NEW F \in SUBSET Sources, Agrees(F)'
             PROVE  \E s : Chain(s, F, run', queue', disk', db', next')
  BY DEF Follows
<1>5. Agrees(F)
  <2>1. Pending' = Pending
    BY <1>1 DEF Pending
  <2> QED BY <1>2, <1>3, <1>4, <2>1 DEF Agrees, Account
<1>6. PICK s : Chain(s, F, run, queue, disk, db, next)
  BY <1>2, <1>5 DEF Follows
<1>7. PICK t : t = [i \in 0 .. Len(queue) |-> Dispatched(s[i], disk, db, f)]
  OBVIOUS
<1> DEFINE L == Len(queue)
           after == SerialAfter(run.mode, run.clean, disk, db, F)
<1>8. /\ Links(t, F, run', queue)
      /\ t[L] = Dispatched(s[L], disk, db, f)
      /\ Treatment(s[L], disk, db, f) = Treatment(run, disk, db, f)
  <2>1. Links(s, F, run, queue)
    BY <1>6 DEF Chain
  <2> QED BY <1>1, <1>2, <1>3, <1>7, <2>1, DispatchChain
<1>9. s[L] = after[next - 1]
  BY <1>6 DEF Chain
<1>10. after[Position(f)] = Compilation(after[next - 1], disk, db, F, f)
  BY <1>1, SerialNext DEF CInv, PInv
<1>11. Compilation(s[L], disk, db, F, f) = Dispatched(s[L], disk, db, f)
  BY <1>1, <1>8 DEF Compilation, Serial!Compiled
<1>12. next' - 1 = Position(f)
  BY <1>1, <1>2, OrderFacts
<1>13. t[L] = after[next' - 1]
  BY <1>8, <1>9, <1>10, <1>11, <1>12
<1> HIDE DEF L, after
<1>14. Chain(t, F, run', queue, disk, db, next')
  BY <1>4, <1>8, <1>13 DEF Chain, L, after
<1> QED BY <1>1, <1>14

\* A queued file is the last link of the chain.
LEMMA EnqueueFollows ==
    ASSUME CInv, Follows, NEW f \in Sources, Enqueue(f) PROVE Follows'
<1>1. /\ UNCHANGED <<disk, opts, db, pool>> /\ AtFile(f)
      /\ run' = Dispatched(run, disk, db, f) /\ next' = Position(f) + 1
      /\ Treatment(run, disk, db, f) \notin {"skip", "replay"}
  BY DEF Enqueue, tree
<1>2. /\ disk[f] # Absent /\ pc = "pass" /\ Done \subseteq Done' /\ f \notin Done
      /\ Position(f) \in DOMAIN Order
  BY <1>1, NextFile DEF CInv, PInv
<1>3. /\ Reusable(run, disk, db) /\ run \in Runs /\ disk \in Disks /\ queue \in Seq(Items)
      /\ Account
  BY <1>2, RunReusable DEF CInv, PInv, TInv, Ledger
<1>4. run'.mode = run.mode /\ run'.clean = run.clean /\ run'.failed = run.failed
  BY <1>1, <1>2, <1>3, DispatchedIs
<1>5. PICK item \in Items : /\ queue' = Append(queue, item) /\ item.unit = f
                            /\ item.ir = Contribution(run, disk, db, f)
  BY EnqueueKeeps DEF CInv
<1> DEFINE L == Len(queue)
<1>6. /\ L \in Nat /\ DOMAIN queue = 1 .. L /\ Len(queue') = L + 1 /\ DOMAIN queue' = 1 .. L + 1
      /\ \A i \in 1 .. L : queue'[i] = queue[i]
      /\ queue'[L + 1] = item
  BY <1>3, <1>5, Appended
<1> SUFFICES ASSUME NEW F \in SUBSET Sources, Agrees(F)'
             PROVE  \E s : Chain(s, F, run', queue', disk', db', next')
  BY DEF Follows
<1>7. Agrees(F)
  <2>1. Pending' = Pending \union {f}
    BY <1>5, <1>6 DEF Pending
  <2> QED BY <1>2, <1>3, <1>4, <2>1 DEF Agrees, Account
<1>8. PICK s : Chain(s, F, run, queue, disk, db, next)
  BY <1>2, <1>7 DEF Follows
<1>9. PICK t : t = [i \in 0 .. Len(queue) |-> Dispatched(s[i], disk, db, f)]
  OBVIOUS
<1>10a. /\ Links(t, F, run', queue)
        /\ t[L] = Dispatched(s[L], disk, db, f)
        /\ Treatment(s[L], disk, db, f) = Treatment(run, disk, db, f)
        /\ Contribution(s[L], disk, db, f) = Contribution(run, disk, db, f)
  <2>1. Links(s, F, run, queue)
    BY <1>8 DEF Chain
  <2> QED BY <1>1, <1>2, <1>3, <1>9, <2>1, DispatchChain
<1>10. /\ t \in [0 .. L -> Runs] /\ t[0] = run'
       /\ \A i \in 1 .. L : t[i] = Turn(t[i - 1], queue[i], F)
       /\ \A i \in 0 .. L : SameFront(run', t[i])
  BY <1>10a DEF Links
<1>11. PICK last : last = Turn(t[L], item, F)
  OBVIOUS
<1>12. PICK v : v = [i \in 0 .. L + 1 |-> IF i = L + 1 THEN last ELSE t[i]]
  OBVIOUS
<1>13. last \in Runs /\ SameFront(run', last)
  <2>1. t[L] \in Runs /\ SameFront(run', t[L])
    BY <1>6, <1>10
  <2>2. last \in Runs /\ SameFront(t[L], last)
    BY <1>11, <2>1, TurnKeepsFront
  <2> QED BY <2>1, <2>2 DEF SameFront
<1>14. SerialAfter(run.mode, run.clean, disk, db, F)[next' - 1] = last
  <2> DEFINE serial == SerialAfter(run.mode, run.clean, disk, db, F)
  <2>1. s[L] = serial[next - 1]
    BY <1>8 DEF Chain
  <2>2. serial[Position(f)] = Compilation(serial[next - 1], disk, db, F, f)
    BY <1>1, SerialNext DEF CInv, PInv
  <2>3. Compilation(s[L], disk, db, F, f)
          = IF f \in F THEN WorkerFailed(Dispatched(s[L], disk, db, f), f)
            ELSE Finalized(Dispatched(s[L], disk, db, f), f, Contribution(s[L], disk, db, f))
    BY <1>1, <1>10a DEF Compilation, Serial!Compiled
  <2>4. next' - 1 = Position(f)
    BY <1>1, <1>2, OrderFacts
  <2>5. last = IF f \in F THEN WorkerFailed(t[L], f)
               ELSE Finalized(t[L], f, Contribution(run, disk, db, f))
    BY <1>5, <1>11 DEF Turn
  <2> HIDE DEF serial
  <2>6. serial[next' - 1] = last
    BY <1>10a, <2>1, <2>2, <2>3, <2>4, <2>5
  <2> QED BY <2>6 DEF serial
<1>15. /\ v \in [0 .. L + 1 -> Runs] /\ v[L + 1] = last /\ \A i \in 0 .. L : v[i] = t[i]
  BY <1>6, <1>10, <1>12, <1>13
<1>16. \A i \in 0 .. L + 1 : SameFront(run', v[i])
  BY <1>6, <1>10, <1>13, <1>15
<1>17. ASSUME NEW i \in 1 .. L + 1 PROVE v[i] = Turn(v[i - 1], queue'[i], F)
  <2>1. CASE i = L + 1
    <3>1. i - 1 = L /\ L \in 0 .. L
      BY <1>6, <2>1
    <3> QED BY <1>6, <1>11, <1>15, <2>1, <3>1
  <2>2. CASE i # L + 1
    <3>1. i \in 1 .. L /\ i \in 0 .. L /\ i - 1 \in 0 .. L
      BY <1>6, <2>2
    <3> QED BY <1>6, <1>10, <1>15, <3>1
  <2> QED BY <2>1, <2>2
<1>18. v[0] = run'
  BY <1>6, <1>10, <1>15
<1>19. Chain(v, F, run', queue', disk, db, next')
  BY <1>4, <1>6, <1>14, <1>15, <1>16, <1>17, <1>18 DEF Chain, Links
<1> QED BY <1>1, <1>19

\* The oldest pending unit is the first link of the chain.
LEMMA FinalizeFollows ==
    ASSUME CInv, Follows, Finalize PROVE Follows'
<1>1. /\ UNCHANGED <<disk, opts, db, pc, next, pool>> /\ pc # "idle"
      /\ queue # << >> /\ queue' = Tail(queue)
      /\ run' = WorkerFailed(run, queue[1].unit) \/ run' = Finalized(run, queue[1].unit, queue[1].ir)
  BY FinalizeKeeps DEF Finalize, tree, CInv
<1>2. run \in Runs /\ queue \in Seq(Items) /\ Account /\ Results
  BY <1>1 DEF CInv, PInv, TInv, Ledger
<1> DEFINE u == queue[1].unit
           ir == queue[1].ir
           L == Len(queue)
<1>3. /\ queue[1] \in Items /\ DOMAIN queue = 1 .. L /\ L \in Nat /\ L > 0
      /\ Len(queue') = L - 1 /\ DOMAIN queue' = 1 .. L - 1
      /\ \A i \in 1 .. L - 1 : queue'[i] = queue[i + 1]
  BY <1>1, <1>2, Popped
<1>4. u \in Sources /\ ir \in IRs
  BY <1>3 DEF Items
<1>5. /\ Pending = Pending' \union {u} /\ u \notin Pending' /\ u \in Pending
  BY <1>1, <1>2, Dequeued
<1>6. Done' = Done /\ u \in Done /\ u \notin run.failed
  BY <1>1, <1>2, <1>5 DEF Done, Account
<1> SUFFICES ASSUME NEW F \in SUBSET Sources, Agrees(F)'
             PROVE  \E s : Chain(s, F, run', queue', disk', db', next')
  BY <1>1 DEF Follows
<1>7. /\ Agrees(F) /\ run' = Turn(run, queue[1], F) /\ SameFront(run, run')
      /\ run'.mode = run.mode /\ run'.clean = run.clean
  <2>1. F \intersect (Done \ Pending') = run'.failed
    BY <1>6 DEF Agrees
  <2>2. CASE run' = WorkerFailed(run, u)
    <3>1. /\ run'.failed = run.failed \union {u} /\ run'.mode = run.mode
          /\ run'.clean = run.clean /\ SameFront(run, run')
      BY <1>2, <1>4, <2>2, FailedIs DEF SameFront
    <3>2. u \in F
      BY <2>1, <3>1
    <3> QED BY <1>5, <1>6, <2>1, <2>2, <3>1, <3>2 DEF Agrees, Turn
  <2>3. CASE run' = Finalized(run, u, ir)
    <3>1. /\ run'.failed = run.failed /\ run'.mode = run.mode
          /\ run'.clean = run.clean /\ SameFront(run, run')
      BY <1>2, <1>4, <2>3, FinalizedIs DEF SameFront
    <3>2. u \notin F
      BY <1>5, <1>6, <2>1, <3>1
    <3> QED BY <1>5, <1>6, <2>1, <2>3, <3>1, <3>2 DEF Agrees, Turn
  <2> QED BY <1>1, <2>2, <2>3
<1>8. PICK s : Chain(s, F, run, queue, disk, db, next)
  BY <1>1, <1>7 DEF Follows
<1>9. /\ s[0] = run /\ \A i \in 0 .. L : s[i] \in Runs /\ SameFront(run, s[i])
      /\ \A i \in 1 .. L : s[i] = Turn(s[i - 1], queue[i], F)
      /\ s[L] = SerialAfter(run.mode, run.clean, disk, db, F)[next - 1]
  BY <1>3, <1>8 DEF Chain, Links
<1>10. PICK t : t = [i \in 0 .. L - 1 |-> s[i + 1]]
  OBVIOUS
<1> HIDE DEF L, u, ir
<1>11. \A i \in 0 .. L - 1 : i + 1 \in 0 .. L /\ t[i] = s[i + 1]
  BY <1>3, <1>10
<1>12. t \in [0 .. L - 1 -> Runs] /\ \A i \in 0 .. L - 1 : SameFront(run', t[i])
  <2>1. \A i \in 0 .. L - 1 : t[i] \in Runs /\ SameFront(run, t[i])
    BY <1>9, <1>11
  <2>2. \A i \in 0 .. L - 1 : SameFront(run', t[i])
    BY <1>7, <2>1 DEF SameFront
  <2> QED BY <1>10, <2>1, <2>2
<1>13. t[0] = run'
  <2>1. 0 \in 0 .. L - 1 /\ 1 \in 1 .. L /\ 0 + 1 = 1 /\ 1 - 1 = 0
    BY <1>3
  <2>2. s[1] = Turn(s[0], queue[1], F)
    BY <1>9, <2>1
  <2> QED BY <1>7, <1>9, <1>11, <2>1, <2>2
<1>14. ASSUME NEW i \in 1 .. L - 1 PROVE t[i] = Turn(t[i - 1], queue'[i], F)
  <2>1. i \in 0 .. L - 1 /\ i - 1 \in 0 .. L - 1 /\ i + 1 \in 1 .. L /\ (i - 1) + 1 = i
        /\ (i + 1) - 1 = i
    BY <1>3
  <2>2. s[i + 1] = Turn(s[i], queue[i + 1], F)
    BY <1>9, <2>1
  <2> QED BY <1>3, <1>11, <2>1, <2>2
<1>15. t[L - 1] = s[L]
  <2>1. L - 1 \in 0 .. L - 1 /\ (L - 1) + 1 = L
    BY <1>3
  <2> QED BY <1>11, <2>1
<1>16. Chain(t, F, run', queue', disk, db, next)
  BY <1>3, <1>7, <1>9, <1>12, <1>13, <1>14, <1>15 DEF Chain, Links
<1> QED BY <1>1, <1>16

\* A run starts where the serial run starts.
LEMMA StartFollows ==
    ASSUME TInv, NEW mode \in Ways(disk, db, opts), Start(mode), UNCHANGED <<disk, opts, db>>
    PROVE  Follows'
<1> DEFINE clean == CleanOf(mode, disk, db)
<1>1. run' = Fresh(mode, clean) /\ next' = 1 /\ queue' = << >>
  BY Started
<1>2. /\ mode \in {"full", "legacy", "selective"} /\ clean \in SUBSET Sources
      /\ Fits(clean, disk, db) /\ disk \in Disks
  BY ModeFacts, CleanFacts DEF TInv, Fits
<1>3. run' \in Runs /\ run'.mode = mode /\ run'.clean = clean
  BY <1>1, <1>2, FreshType DEF Fresh
<1> HIDE DEF clean
<1> SUFFICES ASSUME NEW F \in SUBSET Sources
             PROVE  \E s : Chain(s, F, run', queue', disk', db', next')
  BY DEF Follows
<1>4. SerialAfter(mode, clean, disk, db, F)[0] = Fresh(mode, clean)
  <2>1. IsSerial(SerialAfter(mode, clean, disk, db, F), mode, clean, disk, db, F)
    BY <1>2, SerialSteps
  <2> QED BY <2>1 DEF IsSerial
<1>5. PICK s : s = [i \in {0} |-> run']
  OBVIOUS
<1>6. Len(queue') = 0 /\ 0 .. 0 = {0} /\ 1 .. 0 = {} /\ next' - 1 = 0
  BY <1>1
<1>7. s \in [{0} -> Runs] /\ s[0] = run' /\ SameFront(run', s[0])
  BY <1>3, <1>5 DEF SameFront
<1>8. Links(s, F, run', queue')
  BY <1>6, <1>7 DEF Links
<1>9. s[0] = SerialAfter(run'.mode, run'.clean, disk', db', F)[0]
  BY <1>1, <1>3, <1>4, <1>7
<1>10. Chain(s, F, run', queue', disk', db', next')
  BY <1>6, <1>8, <1>9 DEF Chain
<1> QED BY <1>10

\* Nothing but states of queued parses and the place in the loop changes.
LEMMA StillFollows ==
    ASSUME Follows, pc # "idle", UNCHANGED <<disk, db, run, next>>, Len(queue) \in Nat,
           DOMAIN queue = 1 .. Len(queue),
           Len(queue') = Len(queue), DOMAIN queue' = DOMAIN queue,
           \A k \in DOMAIN queue : queue'[k].unit = queue[k].unit /\ queue'[k].ir = queue[k].ir
    PROVE  Follows'
<1> SUFFICES ASSUME NEW F \in SUBSET Sources, Agrees(F)'
             PROVE  \E s : Chain(s, F, run', queue', disk', db', next')
  BY DEF Follows
<1>1. Agrees(F)
  <2>1. Pending' = Pending /\ Done' = Done
    BY DEF Pending, Done
  <2> QED BY <2>1 DEF Agrees
<1>2. PICK s : Chain(s, F, run, queue, disk, db, next)
  BY <1>1 DEF Follows
<1>3. \A r, i \in 1 .. Len(queue) : Turn(r, queue'[i], F) = Turn(r, queue[i], F)
  BY DEF Turn
<1>4. Links(s, F, run, queue) /\ s[Len(queue)] = SerialAfter(run.mode, run.clean, disk, db, F)[next - 1]
  BY <1>2 DEF Chain
<1>5. \A i \in 1 .. Len(queue) : Turn(s[i - 1], queue'[i], F) = Turn(s[i - 1], queue[i], F)
  BY DEF Turn
<1>6. Links(s, F, run, queue')
  BY <1>4, <1>5 DEF Links
<1>7. Chain(s, F, run, queue', disk, db, next)
  BY <1>4, <1>6 DEF Chain
<1> QED BY <1>7

\* Every step keeps the run ahead of a serial one.
LEMMA FollowsKept ==
    ASSUME CInv, Follows, [Next]_vars PROVE Follows'
<1>1. ASSUME NEW f \in Sources, Pass(f) \/ Enqueue(f) PROVE Follows'
  BY <1>1, PassFollows, EnqueueFollows
<1>2. CASE pc' = "idle"
  BY <1>2 DEF Follows
<1>3. ASSUME NEW mode \in Ways(disk, db, opts), Start(mode), UNCHANGED <<disk, opts, db>>
      PROVE  Follows'
  BY <1>3, StartFollows DEF CInv, PInv
<1>4. queue \in Seq(Items) /\ Len(queue) \in Nat /\ DOMAIN queue = 1 .. Len(queue)
  BY DEF CInv, PInv, TInv
<1>5. CASE UNCHANGED <<disk, db, run, next, queue>> /\ pc # "idle"
  BY <1>4, <1>5, StillFollows
<1>6. CASE (\E i \in 1 .. Len(Order) : Work(i)) \/ WorkerDies
  <2>1. /\ UNCHANGED <<disk, db, run, next, pc>> /\ Len(queue') = Len(queue)
        /\ DOMAIN queue' = DOMAIN queue
        /\ \A k \in DOMAIN queue : queue'[k].unit = queue[k].unit /\ queue'[k].ir = queue[k].ir
    BY <1>6, WorkersKeep DEF CInv
  <2>2. CASE pc # "idle"
    BY <1>4, <2>1, <2>2, StillFollows
  <2> QED BY <1>2, <2>1, <2>2
<1>7. CASE Build
  <2>1. "full" \in Ways(disk, db, opts)
    BY DEF Ways, Serial!Modes
  <2> QED BY <1>3, <1>7, <2>1 DEF Build, tree
<1>8. CASE Update
  <2>1. CASE Plan(disk, db, opts) = "up to date"
    BY <1>2, <1>8, <2>1 DEF Update
  <2>2. CASE Plan(disk, db, opts) # "up to date"
    <3> DEFINE mode == Plan(disk, db, opts)
    <3>1. mode \in Ways(disk, db, opts)
      BY <2>2 DEF Ways, Serial!Modes
    <3>2. Start(mode) /\ UNCHANGED <<disk, opts, db>>
      BY <1>8, <2>2 DEF Update, tree
    <3> HIDE DEF mode
    <3> QED BY <1>3, <3>1, <3>2
  <2> QED BY <2>1, <2>2
<1>9. CASE Retry
  BY <1>3, <1>9, RetryStarts DEF CInv
<1>10. CASE Finalize
  BY <1>10, FinalizeFollows
<1>11. CASE UNCHANGED vars
  BY <1>2, <1>5, <1>11 DEF vars
<1>12. Continue \/ AllDispatched \/ AllFinalized =>
         (pc # "idle" /\ UNCHANGED <<disk, db, run, next, queue>>) \/ pc' = "idle"
  BY DEF Continue, AllDispatched, AllFinalized, tree, End
<1>13. CASE (\E f \in Files : Edit(f)) \/ Configure \/ (\E u \in Sources : Corrupt(u))
            \/ (\E f \in Sources : SubmitFails(f)) \/ Write
  BY <1>2, <1>13 DEF Edit, Configure, Corrupt, SubmitFails, Write, End
<1> QED BY <1>1, <1>2, <1>5, <1>6, <1>7, <1>8, <1>9, <1>10, <1>11, <1>12, <1>13 DEF Next, PassOver

\* When all units are in, the run is the serial run in which those fail that
\* failed.
LEMMA WriteIsSerial ==
    ASSUME CInv, Follows, Write
    PROVE  /\ run = SerialResult(run.mode, run.clean, disk, db, run.failed)
           /\ run.mode \in Ways(disk, db, opts) /\ run.clean = CleanOf(run.mode, disk, db)
           /\ run.parsed > 0
<1>1. /\ pc = "link" /\ db' = Outcome(run, disk, db, opts) /\ UNCHANGED <<disk, opts>>
  BY WriteKeeps DEF CInv
<1>2. /\ Waiting = {} /\ queue = << >> /\ run.parsed > 0 /\ Account
      /\ run \in Runs /\ disk \in Disks /\ next \in 1 .. Len(Order) + 1
      /\ run.mode \in Ways(disk, db, opts) /\ run.clean = CleanOf(run.mode, disk, db)
  BY <1>1 DEF CInv, PInv, TInv, Way, Ledger, Ends
<1>3. run.mode \in {"full", "legacy", "selective"} /\ run.clean \in SUBSET Sources
      /\ run.failed \in SUBSET Sources /\ Len(Order) \in Nat
  BY <1>2, OrderFacts DEF Runs
<1>4. Fits(run.clean, disk, db)
  BY <1>1, RunReusable DEF CInv, PInv, Reusable, Fits
<1> DEFINE F == run.failed
           serial == SerialAfter(run.mode, run.clean, disk, db, F)
<1>5. Agrees(F)
  <2>1. Pending = {}
    BY <1>2 DEF Pending
  <2> QED BY <1>2, <2>1 DEF Agrees, Account
<1>6. PICK s : Chain(s, F, run, queue, disk, db, next)
  BY <1>1, <1>3, <1>5 DEF Follows
<1>7. run = serial[next - 1]
  <2>1. Len(queue) = 0
    BY <1>2
  <2> QED BY <1>6, <2>1 DEF Chain, Links
<1>8. serial[Len(Order)] = serial[next - 1]
  <2>1. next - 1 \in Nat /\ next - 1 <= Len(Order) /\ Len(Order) <= Len(Order)
    BY <1>2, <1>3
  <2>2. Vacant(disk, next - 1, Len(Order))
    <3>1. \A k \in (next - 1) + 1 .. Len(Order) : k \in DOMAIN Order /\ k >= next
      BY <1>2, <1>3, OrderFacts
    <3> QED BY <1>2, <3>1 DEF Waiting, Vacant
  <2>3. Same(serial, next - 1, Len(Order))
    BY <1>2, <1>3, <1>4, <2>1, <2>2, SerialSkips
  <2> QED BY <2>3 DEF Same
<1>9. run = SerialResult(run.mode, run.clean, disk, db, F)
  BY <1>7, <1>8 DEF SerialResult, Serial!Serial, SerialAfter
<1> QED BY <1>2, <1>9

\* So what is written is what a serial run writes.
LEMMA WriteIsRun ==
    ASSUME CInv, Follows, Write PROVE Serial!Run
<1>1. db' = Outcome(run, disk, db, opts) /\ UNCHANGED <<disk, opts>>
  BY WriteKeeps DEF CInv
<1>2. /\ run = SerialResult(run.mode, run.clean, disk, db, run.failed)
      /\ run.mode \in Ways(disk, db, opts) /\ run.clean = CleanOf(run.mode, disk, db)
      /\ run.parsed > 0
  BY WriteIsSerial
<1> DEFINE F == run.failed
<1>3. F \in SUBSET Sources
  BY DEF CInv, PInv, TInv, Runs
<1>4. run.mode \in Serial!Modes(disk, db, opts) \ {"up to date"}
  BY <1>2 DEF Ways
<1>5. run = Serial!Serial(run.mode, CleanOf(run.mode, disk, db), disk, db, F)
  BY <1>2 DEF SerialResult
<1> HIDE DEF F
<1> QED BY <1>1, <1>2, <1>3, <1>4, <1>5 DEF Serial!Run

\* Each step is one of the serial build, or none.
LEMMA StepIsSerial ==
    ASSUME CInv, Follows, [Next]_vars PROVE [Serial!Next]_(Serial!vars)
<1>1. ASSUME NEW f \in Files, Edit(f) PROVE Serial!Edit(f)
  BY <1>1 DEF Edit, Serial!Edit
<1>2. Configure => Serial!Configure
  BY DEF Configure, Serial!Configure
<1>3. ASSUME NEW u \in Sources, Corrupt(u) PROVE Serial!Corrupt(u)
  BY <1>3 DEF Corrupt, Serial!Corrupt
<1>4. Write => Serial!Run
  BY WriteIsRun
<1>5. \/ UNCHANGED <<disk, opts, db>>
      \/ \E f \in Files : Edit(f)
      \/ Configure
      \/ \E u \in Sources : Corrupt(u)
      \/ Write
  BY DEF Next, vars, Build, Update, PassOver, Pass, Enqueue, SubmitFails, Work, WorkerDies,
         Finalize, Continue, AllDispatched, AllFinalized, Retry, tree
<1> QED BY <1>1, <1>2, <1>3, <1>4, <1>5 DEF Serial!Next, Serial!vars

(* Whatever order the workers answer in, whichever of them fail, whichever *)
(* way an update takes and retries, the database is written as by          *)
(* compiling the files one after the other (pipeline.py: "irs order must   *)
(* match a serial build"), and by nothing else.                            *)
THEOREM RunsAsSerial == Spec => MatchesSerialBuild
<1>1. Init => Serial!Init
  BY DEF Init, Serial!Init, Serial!Merged
<1>2. Init => Follows
  BY DEF Init, Follows
<1>3. CInv /\ Follows /\ [Next]_vars => Follows'
  BY FollowsKept
<1>4. CInv /\ Follows /\ [Next]_vars => [Serial!Next]_(Serial!vars)
  BY StepIsSerial
<1> QED BY <1>1, <1>2, <1>3, <1>4, CInvariant, PTL DEF Spec, MatchesSerialBuild, Serial!Spec

=============================================================================
