-------------------------------- MODULE Watch --------------------------------
(***************************************************************************)
(* `hdl-kgraph watch` (watch.py): an update first, then the observer, then *)
(* one update for every burst of file events that is followed by quiet.    *)
(*                                                                         *)
(* Three actors: the editor, the observer's thread that turns events of    *)
(* the operating system into paths on a queue, and the watch loop.  A      *)
(* file's text is one of Versions; the database holds a version per file.  *)
(***************************************************************************)
EXTENDS Naturals, Sequences

CONSTANTS
    Files,     \* build inputs under the root
    Scratch,   \* a path that is no build input: what an editor writes first
    Database,  \* the path of graph.db
    Versions,  \* the texts of a file
    Quiet,     \* ticks without a relevant event before a batch is taken
    MaxEdits,  \* bound: saves by the editor
    MaxFails   \* bound: updates that raise

ASSUME PathsAssumption == Scratch \notin Files /\ Database \notin Files
ASSUME NumbersAssumption == Quiet \in Nat /\ MaxEdits \in Nat /\ MaxFails \in Nat

VARIABLES
    disk,      \* file -> its version
    stored,    \* file -> the version in the database
    snap,      \* file -> the version the running update hashed
    kernel,    \* events under way to the observer; an event is one or two paths
    queue,     \* paths that the observer has put
    pending,   \* the debouncer's batch
    quiet,     \* ticks since the last relevant path was noted, at most Quiet
    pc,        \* the watch loop
    watching,  \* the observer runs
    edits, fails,
    lost       \* history: files that differ from the database, and no event
               \* of theirs is under way to say so

vars == <<disk, stored, snap, kernel, queue, pending, quiet, pc, watching, edits, fails, lost>>

Paths == Files \union {Scratch, Database}
Events == {<<p>> : p \in Paths} \union (Paths \X Paths)

\* A mutant of Relevant: events of the database file count.
RelevantAll(path) == path \in Files \union {Database}

(* is_watch_relevant                                                       *)
Relevant(path) == path \in Files

Stale(version) == {f \in Files : version[f] # stored[f]}

(***************************************************************************)
(* The editor                                                              *)
(***************************************************************************)
(* A save writes the file, or writes another and renames it over the file. *)
Saves(f) == {<<f>>, <<Scratch, f>>}

Emit(event) == kernel' = IF watching THEN Append(kernel, event) ELSE kernel

Edit(f) ==
    /\ edits < MaxEdits
    /\ edits' = edits + 1
    /\ \E v \in Versions \ {disk[f]} : disk' = [disk EXCEPT ![f] = v]
    /\ \E event \in Saves(f) : Emit(event)
    /\ lost' = IF watching \/ pc = "first scan" THEN lost ELSE lost \union {f}
    /\ UNCHANGED <<stored, snap, queue, pending, quiet, pc, watching, fails>>

(***************************************************************************)
(* The observer                                                            *)
(***************************************************************************)
\* A mutant of Put: the source path only.
PutSource(event) == <<event[1]>>

(* on_any_event puts the source path and the destination path.             *)
Put(event) == event

Observe ==
    /\ kernel # <<>>
    /\ queue' = queue \o Put(Head(kernel))
    /\ kernel' = Tail(kernel)
    /\ UNCHANGED <<disk, stored, snap, pending, quiet, pc, watching, edits, fails, lost>>

Tick ==
    /\ quiet < Quiet
    /\ quiet' = quiet + 1
    /\ UNCHANGED <<disk, stored, snap, kernel, queue, pending, pc, watching, edits, fails, lost>>

(***************************************************************************)
(* The watch loop                                                          *)
(***************************************************************************)
(* An update, the first one or one for a batch: it hashes the tree, works, *)
(* and stores, or raises at any point.                                     *)
Scan ==
    /\ pc \in {"first scan", "scan"}
    /\ snap' = disk
    /\ pc' = IF pc = "scan" THEN "store" ELSE "first store"
    /\ lost' = {}
    /\ UNCHANGED <<disk, stored, kernel, queue, pending, quiet, watching, edits, fails>>

\* A mutant of Store: what was queued during an update is taken for its own writes.
StoreAndForget ==
    /\ pc \in {"first store", "store"}
    /\ stored' = snap
    /\ IF snap = stored THEN UNCHANGED kernel ELSE Emit(<<Database>>)
    /\ queue' = <<>>
    /\ pc' = IF pc = "store" THEN "get" ELSE "start"
    /\ UNCHANGED <<disk, snap, pending, quiet, watching, edits, fails, lost>>

Store ==
    /\ pc \in {"first store", "store"}
    /\ stored' = snap
    /\ IF snap = stored THEN UNCHANGED kernel ELSE Emit(<<Database>>)
    /\ pc' = IF pc = "store" THEN "get" ELSE "start"
    /\ UNCHANGED <<disk, snap, queue, pending, quiet, watching, edits, fails, lost>>

(* A failing update is reported and the loop goes on; its batch is gone.   *)
Fail ==
    /\ pc \in {"first scan", "scan", "first store", "store"} /\ fails < MaxFails
    /\ fails' = fails + 1
    /\ lost' = lost \union Stale(IF pc \in {"first scan", "scan"} THEN disk ELSE snap)
    /\ pc' = IF pc \in {"scan", "store"} THEN "get" ELSE "start"
    /\ UNCHANGED <<disk, stored, snap, kernel, queue, pending, quiet, watching, edits>>

StartObserver ==
    /\ pc = "start"
    /\ watching' = TRUE
    /\ pc' = "get"
    /\ UNCHANGED <<disk, stored, snap, kernel, queue, pending, quiet, edits, fails, lost>>

(* events.get with a timeout, and Debouncer.note                           *)
Get ==
    /\ pc = "get"
    /\ IF queue = <<>>
       THEN UNCHANGED <<queue, pending, quiet>>
       ELSE /\ queue' = Tail(queue)
            /\ IF Relevant(Head(queue))
               THEN pending' = pending \union {Head(queue)} /\ quiet' = 0
               ELSE UNCHANGED <<pending, quiet>>
    /\ pc' = "check"
    /\ UNCHANGED <<disk, stored, snap, kernel, watching, edits, fails, lost>>

(* Debouncer.ready                                                         *)
Ready == pending # {} /\ quiet >= Quiet

\* A mutant of Check: the batch is tried and not drained.
CheckOnly ==
    /\ pc = "check"
    /\ pc' = IF Ready THEN "scan" ELSE "get"
    /\ UNCHANGED <<disk, stored, snap, kernel, queue, pending, quiet, watching, edits, fails, lost>>

(* Debouncer.drain, before the update is tried                             *)
Check ==
    /\ pc = "check"
    /\ IF Ready THEN pending' = {} /\ pc' = "scan"
       ELSE UNCHANGED pending /\ pc' = "get"
    /\ UNCHANGED <<disk, stored, snap, kernel, queue, quiet, watching, edits, fails, lost>>

Init ==
    /\ disk \in [Files -> Versions]
    /\ stored \in [Files -> Versions]
    /\ snap = disk
    /\ kernel = <<>> /\ queue = <<>>
    /\ pending = {}
    /\ quiet = 0
    /\ pc = "first scan"
    /\ watching = FALSE
    /\ edits = 0 /\ fails = 0
    /\ lost = {}

Loop == Scan \/ Store \/ StartObserver \/ Get \/ Check

Next ==
    \/ \E f \in Files : Edit(f)
    \/ Observe \/ Tick \/ Fail
    \/ Loop

(* The two threads run and time passes; the editor and failures are free.  *)
Fairness == WF_vars(Loop) /\ WF_vars(Observe) /\ WF_vars(Tick)

Spec == Init /\ [][Next]_vars /\ Fairness

(***************************************************************************)
(* Properties                                                              *)
(***************************************************************************)
\* The type invariant, of every variable.
TypeOK ==
    /\ disk \in [Files -> Versions]
    /\ stored \in [Files -> Versions]
    /\ snap \in [Files -> Versions]
    /\ kernel \in Seq(Events)
    /\ queue \in Seq(Paths)
    /\ pending \subseteq Files
    /\ quiet \in 0..Quiet
    /\ pc \in {"first scan", "first store", "start", "get", "check", "scan", "store"}
    /\ watching \in BOOLEAN
    /\ edits \in 0..MaxEdits
    /\ fails \in 0..MaxFails
    /\ lost \subseteq Files

In(x, s) == \E i \in 1..Len(s) : s[i] = x

(* News of a file is with the operating system, on the queue, or in the    *)
(* batch.                                                                  *)
News(f) ==
    \/ \E i \in 1..Len(kernel) : In(f, kernel[i])
    \/ In(f, queue)
    \/ f \in pending

(* What differs is announced by news, or by a running update, which has    *)
(* yet to hash the file or has hashed it as it is.                         *)
Announced(f) ==
    \/ News(f)
    \/ pc \in {"first scan", "scan"}
    \/ pc \in {"first store", "store"} /\ snap[f] = disk[f]

(* No edit is forgotten on its way from the editor to the database: a file *)
(* that differs from it is announced.  The two exceptions are edits        *)
(* between the first scan and the start of the observer, and what a        *)
(* failed update had to store.                                             *)
NothingForgotten == \A f \in Stale(disk) \ lost : Announced(f)

(* Every edit comes into the database, or is overtaken by a failure.       *)
Converges ==
    \A f \in Files : (f \in Stale(disk) \ lost) ~> (f \notin Stale(disk) \/ f \in lost)

(* The watcher comes to rest when the editor does: its own writes to       *)
(* graph.db do not set off the next update.                                *)
ComesToRest == <>[](pc \in {"get", "check"})
==============================================================================
