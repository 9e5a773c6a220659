------------------------------ MODULE Pipeline ------------------------------
(***************************************************************************)
(* pipeline.py as it runs: pass 0 walks the discovered files in compile    *)
(* order and hands each unit to a pool of parse workers, whose results     *)
(* come back in any order or not at all and are finalized in discovery     *)
(* order; then the units are linked and the database is written.           *)
(* run_update chooses the way; the selective way may turn out to be        *)
(* unavailable half-way and is then retried with every IR decoded.         *)
(***************************************************************************)
EXTENDS Compile

CONSTANTS
    Versions, Options,  \* as in SerialRun
    MaxFaults           \* bound: parses that fail, workers that die and stored
                        \* rows that go bad in one behaviour

VARIABLES
    disk,     \* file -> text
    opts,     \* the options of the next run
    db,       \* the database
    pc,       \* "idle", "pass", "drain", "tail", "link"
    run,      \* the run's accumulators (Compile!Fresh)
    next,     \* position in Order from which files are still to come
    queue,    \* the pending units, oldest first
    pool,     \* "none" (serial), "up" or "broken"
    faults,   \* failures and bad rows so far
    outcome,  \* how the last run ended
    drifted   \* history: since the last full build an update met what its
              \* scope or its dirty closure does not cover

tree == <<disk, opts>>
bookkeeping == <<faults, outcome, drifted>>
vars == <<disk, opts, db, pc, run, next, queue, pool, faults, outcome, drifted>>

ASSUME VersionsAssumption ==
    \A f \in Files : Versions[f] \subseteq Text \union {Absent}
ASSUME OptionsAssumption == \A o \in Options : o.enrich \in BOOLEAN

(* The positions of the discovered files that are still to come.           *)
Waiting == {i \in DOMAIN Order : i >= next /\ disk[Order[i]] # Absent}

Init ==
    /\ disk \in [Files -> UNION {Versions[f] : f \in Files}]
    /\ \A f \in Files : disk[f] \in Versions[f]
    /\ opts \in Options
    /\ db \in {NoDatabase, [root |-> "here", inputs |-> "merged", enrich |-> FALSE,
                            hash |-> [f \in Files |-> Absent], skipped |-> {},
                            failed |-> {}, unit |-> << >>, graph |-> << >>]}
    /\ pc = "idle"
    /\ run = Fresh("full", {})
    /\ next = 1
    /\ queue = << >>
    /\ pool = "none"
    /\ faults = 0
    /\ outcome = "none"
    /\ drifted = FALSE

(***************************************************************************)
(* Between the runs                                                        *)
(***************************************************************************)
Edit(f) ==
    /\ pc = "idle"
    /\ \E text \in Versions[f] \ {disk[f]} : disk' = [disk EXCEPT ![f] = text]
    /\ outcome' = "none"
    /\ UNCHANGED <<opts, db, pc, run, next, queue, pool, faults, drifted>>

Configure ==
    /\ pc = "idle"
    /\ opts' \in Options \ {opts}
    /\ outcome' = "none"
    /\ UNCHANGED <<disk, db, pc, run, next, queue, pool, faults, drifted>>

Corrupt(u) ==
    /\ pc = "idle"
    /\ faults < MaxFaults
    /\ db # NoDatabase
    /\ u \in DOMAIN db.unit
    /\ \E column \in {"ir", "events"} : db' = [db EXCEPT !.unit[u].bad = column]
    /\ faults' = faults + 1
    /\ UNCHANGED <<disk, opts, pc, run, next, queue, pool, outcome, drifted>>

(***************************************************************************)
(* A run                                                                   *)
(***************************************************************************)
Start(mode) ==
    LET clean == CleanOf(mode, disk, db)
        candidates == {f \in Discovered(disk) : ~disk[f].skip /\ f \notin clean}
    IN  /\ run' = Fresh(mode, clean)
        /\ pool' = IF EffectiveJobs(opts.jobs, Cardinality(candidates)) > 1 THEN "up" ELSE "none"
        /\ pc' = "pass"
        /\ next' = 1
        /\ queue' = << >>
        /\ outcome' = "none"

Build ==
    /\ pc = "idle"
    /\ Start("full")
    /\ UNCHANGED <<tree, db, faults, drifted>>

Update ==
    /\ pc = "idle"
    /\ IF Plan(disk, db, opts) = "up to date"
       THEN /\ outcome' = "up to date"
            /\ UNCHANGED <<pc, run, next, queue, pool>>
       ELSE Start(Plan(disk, db, opts))
    /\ UNCHANGED <<tree, db, faults, drifted>>

End(how) ==
    /\ pc' = "idle"
    /\ run' = Fresh("full", {})
    /\ next' = 1
    /\ queue' = << >>
    /\ pool' = "none"
    /\ outcome' = how

(* One turn of the loop over the discovered files.  f names the next one.  *)
AtFile(f) ==
    /\ pc = "pass"
    /\ \E i \in Waiting : f = Order[i] /\ \A j \in Waiting : i <= j

(* A skipped or already spliced file, and a clean one of the selective     *)
(* way, are done with at once.                                             *)
Pass(f) ==
    /\ AtFile(f)
    /\ \/ Treatment(run, disk, db, f) = "skip"
       \/ Treatment(run, disk, db, f) = "replay" /\ db.unit[f].bad # "events"
    /\ run' = Dispatched(run, disk, db, f)
    /\ next' = Position(f) + 1
    /\ UNCHANGED <<tree, db, pc, queue, pool, bookkeeping>>

(* A unit is queued: with its stored IR, with a parse to be called when    *)
(* its turn comes, or with a parse submitted to the pool.                  *)
Enqueue(f) ==
    /\ AtFile(f)
    /\ \/ Treatment(run, disk, db, f) = "reuse"
       \/ Treatment(run, disk, db, f) = "parse" /\ pool # "broken"
    /\ run' = Dispatched(run, disk, db, f)
    /\ LET reused == Treatment(run, disk, db, f) = "reuse"
           state == IF reused THEN "ready" ELSE IF pool = "none" THEN "thunk" ELSE "running"
       IN  queue' = Append(queue, [unit |-> f, state |-> state,
                                   ir |-> Contribution(run, disk, db, f)])
    /\ pc' = "drain"
    /\ next' = Position(f) + 1
    /\ UNCHANGED <<tree, db, pool, bookkeeping>>

(* Submitting to a pool whose worker has died raises, outside the guard of *)
(* finalize: the run ends here.                                            *)
SubmitFails(f) ==
    /\ AtFile(f)
    /\ Treatment(run, disk, db, f) = "parse"
    /\ pool = "broken"
    /\ End("aborted")
    /\ UNCHANGED <<tree, db, faults, drifted>>

(* A worker returns, or its parse raises.                                  *)
Work(i) ==
    /\ i \in DOMAIN queue
    /\ queue[i].state = "running"
    /\ \/ /\ queue' = [queue EXCEPT ![i].state = "ready"]
          /\ UNCHANGED faults
       \/ /\ faults < MaxFaults
          /\ queue' = [queue EXCEPT ![i].state = "failed"]
          /\ faults' = faults + 1
    /\ UNCHANGED <<tree, db, pc, run, next, pool, outcome, drifted>>

(* A worker process dies: every parse in flight fails with it.             *)
WorkerDies ==
    /\ pool = "up"
    /\ faults < MaxFaults
    /\ \E i \in DOMAIN queue : queue[i].state = "running"
    /\ pool' = "broken"
    /\ queue' = [i \in DOMAIN queue |->
                    IF queue[i].state = "running" THEN [queue[i] EXCEPT !.state = "failed"]
                    ELSE queue[i]]
    /\ faults' = faults + 1
    /\ UNCHANGED <<tree, db, pc, run, next, outcome, drifted>>

Ready == queue # << >> /\ Head(queue).state # "running"

FinalizeAsCompleted ==
    /\ pc \in {"drain", "tail"}
    /\ \E i \in DOMAIN queue :
         /\ queue[i].state # "running"
         /\ run' = IF queue[i].state = "failed" THEN WorkerFailed(run, queue[i].unit)
                   ELSE Finalized(run, queue[i].unit, queue[i].ir)
         /\ queue' = RemoveAt(queue, i)
    /\ UNCHANGED <<tree, db, pc, next, pool, bookkeeping>>

(* The oldest pending unit is finalized.                                   *)
Finalize ==
    /\ pc \in {"drain", "tail"}
    /\ Ready
    /\ LET unit == Head(queue)
       IN  \/ /\ unit.state # "failed"
              /\ run' = Finalized(run, unit.unit, unit.ir)
              /\ UNCHANGED faults
           \/ /\ unit.state = "failed"
              /\ run' = WorkerFailed(run, unit.unit)
              /\ UNCHANGED faults
           \/ /\ unit.state = "thunk" /\ faults < MaxFaults
              /\ run' = WorkerFailed(run, unit.unit)
              /\ faults' = faults + 1
    /\ queue' = Tail(queue)
    /\ UNCHANGED <<tree, db, pc, next, pool, outcome, drifted>>

(* The oldest is not there yet (or there is none): on to the next file.    *)
Continue ==
    /\ pc = "drain"
    /\ ~Ready
    /\ pc' = "pass"
    /\ UNCHANGED <<tree, db, run, next, queue, pool, bookkeeping>>

AllDispatched ==
    /\ pc = "pass"
    /\ Waiting = {}
    /\ pc' = "tail"
    /\ UNCHANGED <<tree, db, run, next, queue, pool, bookkeeping>>

AllFinalized ==
    /\ pc = "tail"
    /\ queue = << >>
    /\ IF run.parsed = 0
       THEN End("nothing parsed")
       ELSE pc' = "link" /\ UNCHANGED <<run, next, queue, pool, outcome>>
    /\ UNCHANGED <<tree, db, faults, drifted>>

RetrySame ==
    /\ run.mode = "selective"
    /\ \/ \E f \in Sources : /\ AtFile(f)
                             /\ Treatment(run, disk, db, f) = "replay"
                             /\ db.unit[f].bad = "events"
       \/ pc = "link" /\ SelectiveUnavailable(run, disk, db)
    /\ Start("selective")
    /\ UNCHANGED <<tree, db, faults, drifted>>

(* The selective way meets a corrupt row, or a link it cannot do.          *)
Retry ==
    /\ run.mode = "selective"
    /\ \/ \E f \in Sources : /\ AtFile(f)
                             /\ Treatment(run, disk, db, f) = "replay"
                             /\ db.unit[f].bad = "events"
       \/ pc = "link" /\ SelectiveUnavailable(run, disk, db)
    /\ Start("legacy")
    /\ UNCHANGED <<tree, db, faults, drifted>>

(***************************************************************************)
(* Link and write (Store has the steps of the write)                       *)
(***************************************************************************)
Scoped == run.mode = "selective" \/ LinkSafe(run, disk, db, opts)

(* The units of this run, and those it leaves their rows, that hold file f, *)
(* the first of which owns it from now on (no unit, if none holds it), and *)
(* the unit that owned it so far.                                          *)
Holding(f) == {u \in run.units : f \in DOMAIN UnitsOf(run)[u].parts} \union
              {u \in run.clean \ run.skipped : f \in DOMAIN db.unit[u].parts}
OwnersNow(f) == {u \in Holding(f) : \A v \in Holding(f) : Position(u) <= Position(v)}
OwnersThen(f) == {db.graph[g].owner : g \in {f} \intersect DOMAIN db.graph}

(* What the scope of a write does not cover: a unit parsed although its    *)
(* own text did not change (its last parse failed, or it stopped being a   *)
(* header), a failed one that became a header, an untouched file whose     *)
(* nodes come from another unit from now on, and a design-wide unit that   *)
(* is none any more.                                                       *)
Beyond ==
    LET touched == Touched(disk, db)
    IN  \/ (run.units \union run.failed) \ (touched \union run.clean) # {}
        \/ db.failed \ touched # {}
        \/ \E f \in Sources \ touched : OwnersNow(f) # OwnersThen(f)
        \/ \E u \in DOMAIN db.unit : Lang[u] \in Wide

(* A clean unit whose header includes a file that was added: only the      *)
(* header counts as an includer of it.                                     *)
Overlooked ==
    \E u \in run.clean : \E g \in DOMAIN db.unit[u].parts :
        db.unit[u].parts[g].inc \intersect Added(disk, db) # {}

Write ==
    /\ pc = "link"
    /\ ~(run.mode = "selective" /\ SelectiveUnavailable(run, disk, db))
    /\ db' = Outcome(run, disk, db, opts)
    /\ drifted' = (run.mode # "full" /\ (drifted \/ Overlooked \/ (Scoped /\ Beyond)))
    /\ End("wrote")
    /\ UNCHANGED <<tree, faults>>

PassOver == \E f \in Sources : Pass(f) \/ Enqueue(f) \/ SubmitFails(f)
Step == PassOver \/ Finalize \/ Continue \/ AllDispatched \/ AllFinalized \/ Retry \/ Write

Next ==
    \/ \E f \in Files : Edit(f)
    \/ Configure
    \/ \E u \in Sources : Corrupt(u)
    \/ Build
    \/ Update
    \/ PassOver
    \/ \E i \in 1 .. Len(Order) : Work(i)
    \/ WorkerDies
    \/ Finalize
    \/ Continue
    \/ AllDispatched
    \/ AllFinalized
    \/ Retry
    \/ Write

(* A started run is carried on, and a parse that was submitted comes back. *)
Fairness ==
    /\ WF_vars(Step)
    /\ \A i \in 1 .. Len(Order) : WF_vars(Work(i))

Spec == Init /\ [][Next]_vars /\ Fairness

(***************************************************************************)
(* Properties                                                              *)
(***************************************************************************)
(* The type invariant.                                                     *)
TypeOK ==
    /\ \A f \in Files : disk[f] \in Text \union {Absent}
    /\ opts \in Options
    /\ pc \in {"idle", "pass", "drain", "tail", "link"}
    /\ run.mode \in {"full", "legacy", "selective"}
    /\ run.clean \subseteq IF db = NoDatabase THEN {} ELSE DOMAIN db.unit
    /\ run.failed \union run.skipped \union run.units \union run.consumed \subseteq Sources
    /\ next \in 1 .. Len(Order) + 1
    /\ \A i \in DOMAIN queue : queue[i].state \in {"ready", "thunk", "running", "failed"}
    /\ pool \in {"none", "up", "broken"}

(* Whatever order the workers answer in, whichever of them fail, a run     *)
(* writes what compiling the files one after the other would have written  *)
(* (pipeline.py: "irs order must match a serial build").                   *)
Serial == INSTANCE SerialRun WITH disk <- disk, opts <- opts, db <- db
MatchesSerialBuild == Serial!Spec

(* The macro events of each preprocessed unit - parsed, reused or replayed *)
(* - reach the shared table once and in compile order.                     *)
MacrosInOrder ==
    LET done == {f \in Discovered(disk) : Position(f) < next}
    IN  pc # "idle" =>
          /\ Range(run.table) = {f \in done : Lang[f] \in Preprocessed /\ f \notin run.skipped}
          /\ \A i, j \in DOMAIN run.table :
                i < j => Position(run.table[i]) < Position(run.table[j])

(* No row is lost silently: a file whose row says it was compiled has a    *)
(* unit made from the text that was hashed, or the row records that its    *)
(* parse failed.                                                           *)
CompiledOrFailed ==
    db # NoDatabase =>
      \A f \in Sources \ (db.skipped \union db.failed) :
        db.hash[f] # Absent =>
          f \in DOMAIN db.unit /\ db.unit[f].parts[f] = db.hash[f]

Healed(base) == [base EXCEPT !.unit = [u \in DOMAIN @ |-> [@[u] EXCEPT !.bad = "none"]]]

(* Unless an update met what it does not cover, its database is the one a  *)
(* full build of the same tree writes, with the same parses failing (the   *)
(* hash of a filelist apart).                                              *)
MatchesFullBuild ==
    outcome = "wrote" /\ ~drifted =>
      LET full == Serial!Serial("full", {}, disk, db, db.failed)
      IN  [Healed(db) EXCEPT !.hash = [f \in Files |-> IF f \in Sources THEN @[f] ELSE disk[f]]]
            = Saved(full, disk, opts)

(* After an update that wrote, the next one finds nothing to do            *)
(* (options_hash: a filelist's membership changes "show up as added or     *)
(* removed files in the ordinary hash diff").                              *)
Settles == outcome = "wrote" => Plan(disk, db, opts) = "up to date"

(* pipeline.py on a dead worker: "record it and continue so the rest of    *)
(* the build still produces a partial graph rather than aborting".         *)
NeverAborts == outcome # "aborted"

(* Every run ends.                                                         *)
RunEnds == pc # "idle" ~> pc = "idle"
=============================================================================
