------------------------------ MODULE SerialRun -----------------------------
(***************************************************************************)
(* What a build or an update promises: the tree is compiled one file after *)
(* the other, in discovery order, and the database is replaced at once.    *)
(* Some units may fail to parse; a run may also write nothing at all.      *)
(* Pipeline is shown to implement this specification.                      *)
(***************************************************************************)
EXTENDS Integers, Sequences

CONSTANTS
    Versions, \* file -> the texts it can have, Absent among them
    Options,  \* the option sets a user runs with
    Files, Sources, Order, Absent, NoDatabase,  \* as in Compile

    (* What a run does with a file, and writes in the end (Compile).       *)
    Fresh(_, _), Treatment(_, _, _, _), Contribution(_, _, _, _), Dispatched(_, _, _, _),
    Finalized(_, _, _), WorkerFailed(_, _), Outcome(_, _, _, _),
    Plan(_, _, _), CleanOf(_, _, _)

VARIABLES
    disk,   \* file -> text
    opts,   \* the options of the next run
    db      \* the database, or NoDatabase

vars == <<disk, opts, db>>

(* The run after file f was compiled, whose parse fails if it is in F.     *)
Compiled(run, d, base, F, f) ==
    LET next == Dispatched(run, d, base, f)
    IN  IF Treatment(run, d, base, f) \in {"skip", "replay"} THEN next
        ELSE IF f \in F THEN WorkerFailed(next, f)
        ELSE Finalized(next, f, Contribution(run, d, base, f))

(* The run after the first n files, and after all of pass 0 and pass 1.    *)
After(mode, clean, d, base, F) ==
    LET after[n \in 0 .. Len(Order)] ==
            IF n = 0 THEN Fresh(mode, clean)
            ELSE IF d[Order[n]] = Absent THEN after[n - 1]
            ELSE Compiled(after[n - 1], d, base, F, Order[n])
    IN  after

Serial(mode, clean, d, base, F) == After(mode, clean, d, base, F)[Len(Order)]

Merged == [root |-> "here", inputs |-> "merged", enrich |-> FALSE,
           hash |-> [f \in Files |-> Absent], skipped |-> {}, failed |-> {},
           unit |-> << >>, graph |-> << >>]

Init ==
    /\ disk \in [Files -> UNION {Versions[f] : f \in Files}]
    /\ \A f \in Files : disk[f] \in Versions[f]
    /\ opts \in Options
    /\ db \in {NoDatabase, Merged}

(* The user saves, creates or deletes a file.                              *)
Edit(f) ==
    /\ \E text \in Versions[f] \ {disk[f]} : disk' = [disk EXCEPT ![f] = text]
    /\ UNCHANGED <<opts, db>>

(* The user changes the options.                                           *)
Configure ==
    /\ opts' \in Options \ {opts}
    /\ UNCHANGED <<disk, db>>

(* A stored row goes bad.                                                  *)
Corrupt(u) ==
    /\ db # NoDatabase
    /\ u \in DOMAIN db.unit
    /\ \E column \in {"ir", "events"} : db' = [db EXCEPT !.unit[u].bad = column]
    /\ UNCHANGED <<disk, opts>>

(* The modes a run may end in: a build is full; an update follows its      *)
(* plan, or retries with every IR decoded.                                 *)
Modes(d, base, o) == {"full"} \union {Plan(d, base, o)} \union
                     (IF Plan(d, base, o) = "selective" THEN {"legacy"} ELSE {})

Run ==
    /\ \E mode \in Modes(disk, db, opts) \ {"up to date"} : \E F \in SUBSET Sources :
         LET run == Serial(mode, CleanOf(mode, disk, db), disk, db, F)
         IN  /\ run.parsed > 0
             /\ db' = Outcome(run, disk, db, opts)
    /\ UNCHANGED <<disk, opts>>

(* A run may find nothing to do, parse nothing, or end early.               *)
RunIdle == UNCHANGED vars

Next ==
    \/ RunIdle
    \/ \E f \in Files : Edit(f)
    \/ Configure
    \/ \E u \in Sources : Corrupt(u)
    \/ Run

Spec == Init /\ [][Next]_vars
=============================================================================
