---------------------------- MODULE Watch_proofs ----------------------------
(* For any files, texts, quiet period and number of edits and failures:    *)
(* watch mode forgets no edit that its observer could see, unless the      *)
(* update for it fails.                                                    *)
EXTENDS Watch, SequenceTheorems, TLAPS

(* The strengthening: what was saved again after it was hashed is news,    *)
(* also when the save took it back to what the database holds.             *)
Overtaken ==
    pc \in {"first store", "store"} =>
        \A f \in Files \ lost : snap[f] # disk[f] => News(f)

IInv == TypeOK /\ NothingForgotten /\ Overtaken

\* An event is a sequence of paths.
LEMMA EventPaths ==
    ASSUME NEW e \in Events
    PROVE  e \in Seq(Paths)
<1>1. CASE \E p \in Paths : e = <<p>>
  <2>1. PICK p \in Paths : e = <<p>>
    BY <1>1
  <2> QED BY <2>1
<1>2. CASE e \in Paths \X Paths
  <2>1. PICK p \in Paths, q \in Paths : e = <<p, q>>
    BY <1>2
  <2> QED BY <2>1
<1> QED BY <1>1, <1>2 DEF Events

\* What is in a sequence that is put behind another.
LEMMA InConcat ==
    ASSUME NEW S, NEW s \in Seq(S), NEW t \in Seq(S), NEW x, In(x, s) \/ In(x, t)
    PROVE  In(x, s \o t)
<1>1. CASE In(x, s)
  <2>1. PICK i \in 1..Len(s) : s[i] = x
    BY <1>1 DEF In
  <2>2. i \in 1..Len(s \o t) /\ (s \o t)[i] = x
    BY <2>1
  <2> QED BY <2>2 DEF In
<1>2. CASE In(x, t)
  <2>1. PICK i \in 1..Len(t) : t[i] = x
    BY <1>2 DEF In
  <2>2. i + Len(s) \in 1..Len(s \o t) /\ (s \o t)[i + Len(s)] = x
    BY <2>1
  <2> QED BY <2>2 DEF In
<1> QED BY <1>1, <1>2

\* What is in a sequence is its head or in its tail.
LEMMA InTail ==
    ASSUME NEW S, NEW s \in Seq(S), s # <<>>, NEW i \in 1..Len(s)
    PROVE  s[i] = Head(s) \/ \E j \in 1..Len(Tail(s)) : Tail(s)[j] = s[i]
<1>1. CASE i = 1
  BY <1>1
<1>2. CASE i # 1
  <2>1. i - 1 \in 1..Len(Tail(s)) /\ Tail(s)[i - 1] = s[i]
    BY <1>2
  <2> QED BY <2>1
<1> QED BY <1>1, <1>2

(***************************************************************************)
(* How news travels                                                        *)
(***************************************************************************)
\* A save while the observer runs is news, and other news stays.
LEMMA EmitNews ==
    ASSUME TypeOK, NEW event \in Events, Emit(event)
    PROVE  /\ kernel' \in Seq(Events)
           /\ \A f \in Files : (\E i \in 1..Len(kernel) : In(f, kernel[i])) =>
                                (\E i \in 1..Len(kernel') : In(f, kernel'[i]))
           /\ watching => \A f \in Files : In(f, event) =>
                                (\E i \in 1..Len(kernel') : In(f, kernel'[i]))
<1>1. kernel \in Seq(Events)
  BY DEF TypeOK, Events
<1>2. CASE watching
  <2>1. kernel' = Append(kernel, event)
    BY <1>2 DEF Emit
  <2>2. /\ kernel' \in Seq(Events) /\ Len(kernel') = Len(kernel) + 1
        /\ kernel'[Len(kernel')] = event
        /\ \A i \in 1..Len(kernel) : kernel'[i] = kernel[i]
    BY <1>1, <2>1
  <2>3. Len(kernel) \in Nat
    BY <1>1
  <2> QED BY <2>2, <2>3
<1>3. CASE ~watching
  BY <1>1, <1>3 DEF Emit
<1> QED BY <1>2, <1>3

\* Saving a file, directly or by a rename, names it in the event.
LEMMA SaveEvent ==
    ASSUME NEW f \in Files, NEW event \in Saves(f)
    PROVE  event \in Events /\ In(f, event)
<1>1. CASE event = <<f>>
  <2>1. event \in Events
    BY <1>1 DEF Events, Paths
  <2>2. 1 \in 1..Len(event) /\ event[1] = f
    BY <1>1
  <2> QED BY <2>1, <2>2 DEF In
<1>2. CASE event = <<Scratch, f>>
  <2>1. event \in Events
    BY <1>2 DEF Events, Paths
  <2>2. 2 \in 1..Len(event) /\ event[2] = f
    BY <1>2
  <2> QED BY <2>1, <2>2 DEF In
<1> QED BY <1>1, <1>2 DEF Saves

\* The observer's thread moves the paths of an event to the queue and drops
\* none that matters.
LEMMA ObserveNews ==
    ASSUME TypeOK, Observe
    PROVE  /\ kernel' \in Seq(Events) /\ queue' \in Seq(Paths)
           /\ \A f \in Files : News(f) => News(f)'
<1>1. /\ kernel \in Seq(Events) /\ kernel # <<>> /\ queue \in Seq(Paths)
      /\ kernel' = Tail(kernel) /\ queue' = queue \o Head(kernel) /\ pending' = pending
  BY DEF TypeOK, Events, Observe, Put
<1>2. Head(kernel) \in Seq(Paths)
  BY <1>1, EventPaths
<1>3. kernel' \in Seq(Events) /\ queue' \in Seq(Paths)
  BY <1>1, <1>2
<1>4. ASSUME NEW f \in Files, News(f) PROVE News(f)'
  <2>1. CASE In(f, queue)
    <3>1. In(f, queue \o Head(kernel))
      BY <1>1, <1>2, <2>1, InConcat
    <3> QED BY <1>1, <3>1 DEF News, In
  <2>2. CASE \E i \in 1..Len(kernel) : In(f, kernel[i])
    <3>1. PICK i \in 1..Len(kernel) : In(f, kernel[i])
      BY <2>2
    <3>2. CASE kernel[i] = Head(kernel)
      <4>1. In(f, queue \o Head(kernel))
        BY <1>1, <1>2, <3>1, <3>2, InConcat
      <4> QED BY <1>1, <4>1 DEF News, In
    <3>3. CASE \E j \in 1..Len(Tail(kernel)) : Tail(kernel)[j] = kernel[i]
      BY <1>1, <3>1, <3>3 DEF News, In
    <3> QED BY <1>1, <3>2, <3>3, InTail
  <2>3. CASE f \in pending
    BY <1>1, <2>3 DEF News
  <2> QED BY <1>4, <2>1, <2>2, <2>3 DEF News
<1> QED BY <1>3, <1>4

\* The loop moves a path from the queue to the batch; what it ignores is no
\* file's.
LEMMA GetNews ==
    ASSUME TypeOK, Get
    PROVE  /\ queue' \in Seq(Paths) /\ pending' \subseteq Files /\ quiet' \in 0..Quiet
           /\ \A f \in Files : News(f) => News(f)'
<1>1. queue \in Seq(Paths) /\ pending \subseteq Files /\ quiet \in 0..Quiet /\ kernel' = kernel
  BY DEF TypeOK, Get
<1>2. CASE queue = <<>>
  BY <1>1, <1>2 DEF Get, News, In
<1>3. CASE queue # <<>>
  <2>1. /\ queue' = Tail(queue)
        /\ IF Relevant(Head(queue)) THEN pending' = pending \union {Head(queue)} /\ quiet' = 0
           ELSE UNCHANGED <<pending, quiet>>
    BY <1>3 DEF Get
  <2>2. queue' \in Seq(Paths) /\ pending' \subseteq Files /\ quiet' \in 0..Quiet
    BY <1>1, <1>3, <2>1, NumbersAssumption DEF Relevant
  <2>3. ASSUME NEW f \in Files, In(f, queue) PROVE News(f)'
    <3>1. PICK i \in 1..Len(queue) : queue[i] = f
      BY <2>3 DEF In
    <3>2. CASE f = Head(queue)
      BY <2>1, <3>2 DEF Relevant, News
    <3>3. CASE \E j \in 1..Len(Tail(queue)) : Tail(queue)[j] = f
      BY <2>1, <3>3 DEF News, In
    <3> QED BY <1>1, <1>3, <3>1, <3>2, <3>3, InTail
  <2>4. ASSUME NEW f \in Files, News(f), ~In(f, queue) PROVE News(f)'
    BY <1>1, <2>1, <2>4 DEF News, In
  <2> QED BY <2>2, <2>3, <2>4
<1> QED BY <1>2, <1>3

(***************************************************************************)
(* The steps                                                               *)
(***************************************************************************)
\* A step that keeps disk, database, history and place, and all news.
LEMMA Carry ==
    ASSUME IInv, UNCHANGED <<disk, stored, snap, pc, lost>>,
           \A f \in Files : News(f) => News(f)'
    PROVE  NothingForgotten' /\ Overtaken'
<1>1. Stale(disk)' = Stale(disk)
  BY DEF Stale
<1>2. \A f \in Files : Announced(f) => Announced(f)'
  BY DEF Announced
<1>3. NothingForgotten'
  BY <1>1, <1>2 DEF IInv, NothingForgotten, Stale
<1>4. Overtaken'
  BY DEF IInv, Overtaken
<1> QED BY <1>3, <1>4

\* Nothing is stored, and the first update has yet to hash.
LEMMA Initially ==
    ASSUME Init PROVE IInv
<1>1. TypeOK
  <2>1. 0 \in 0..Quiet /\ 0 \in 0..MaxEdits /\ 0 \in 0..MaxFails
    BY NumbersAssumption
  <2>2. kernel \in Seq(Events) /\ queue \in Seq(Paths)
    <3>1. <<>> \in Seq(Events) /\ <<>> \in Seq(Paths)
      OBVIOUS
    <3>2. kernel = <<>> /\ queue = <<>>
      BY DEF Init
    <3> QED BY <3>1, <3>2
  <2> QED BY <2>1, <2>2 DEF Init, TypeOK
<1>2. NothingForgotten /\ Overtaken
  BY DEF Init, NothingForgotten, Announced, Overtaken
<1> QED BY <1>1, <1>2 DEF IInv

\* An edit emits an event, or falls before the observer and is lost by name.
LEMMA EditStep ==
    ASSUME IInv, NEW f \in Files, Edit(f) PROVE IInv'
<1>1. PICK v \in Versions \ {disk[f]} : disk' = [disk EXCEPT ![f] = v]
  BY DEF Edit
<1>2. PICK event \in Saves(f) : Emit(event)
  BY DEF Edit
<1>3. event \in Events /\ In(f, event)
  BY SaveEvent
<1>4. /\ UNCHANGED <<stored, snap, queue, pending, quiet, pc, watching, fails>>
      /\ lost' = IF watching \/ pc = "first scan" THEN lost ELSE lost \union {f}
  BY DEF Edit
<1>5. TypeOK'
  <2>1. disk' \in [Files -> Versions]
    BY <1>1 DEF IInv, TypeOK
  <2>2. kernel' \in Seq(Events)
    BY <1>2, <1>3, EmitNews DEF IInv
  <2>3. edits' \in 0..MaxEdits
    <3>1. edits \in 0..MaxEdits /\ edits < MaxEdits /\ edits' = edits + 1
      BY DEF IInv, TypeOK, Edit
    <3> QED BY <3>1, NumbersAssumption
  <2>4. lost' \subseteq Files
    BY <1>4 DEF IInv, TypeOK
  <2> QED BY <1>4, <2>1, <2>2, <2>3, <2>4 DEF IInv, TypeOK
<1>6. \A g \in Files : News(g) => News(g)'
  BY <1>2, <1>3, <1>4, EmitNews DEF IInv, News, In
<1>7. watching => News(f)'
  BY <1>2, <1>3, <1>4, EmitNews DEF IInv, News
<1>8. ASSUME NEW g \in Files, g # f
      PROVE  disk'[g] = disk[g] /\ (g \in lost' <=> g \in lost)
  BY <1>1, <1>4, <1>8 DEF IInv, TypeOK
<1>9. NothingForgotten'
  <2> SUFFICES ASSUME NEW g \in Files, disk'[g] # stored'[g], g \notin lost' PROVE Announced(g)'
    BY DEF NothingForgotten, Stale
  <2>1. CASE g = f
    BY <1>4, <1>7, <2>1 DEF Announced
  <2>2. CASE g # f
    <3>1. Announced(g)
      BY <1>4, <1>8, <2>2 DEF IInv, NothingForgotten, Stale
    <3> QED BY <1>4, <1>6, <1>8, <2>2, <3>1 DEF Announced
  <2> QED BY <2>1, <2>2
<1>10. Overtaken'
  <2> SUFFICES ASSUME pc' \in {"first store", "store"}, NEW g \in Files, g \notin lost',
                      snap'[g] # disk'[g]
               PROVE  News(g)'
    BY DEF Overtaken
  <2>1. CASE g = f
    BY <1>4, <1>7, <2>1
  <2>2. CASE g # f
    BY <1>4, <1>6, <1>8, <2>2 DEF IInv, Overtaken
  <2> QED BY <2>1, <2>2
<1> QED BY <1>5, <1>9, <1>10 DEF IInv

\* News stays news on its way from the kernel to the queue.
LEMMA ObserveStep ==
    ASSUME IInv, Observe PROVE IInv'
<1>1. TypeOK'
  BY ObserveNews DEF IInv, TypeOK, Observe
<1>2. NothingForgotten' /\ Overtaken'
  BY ObserveNews, Carry DEF IInv, Observe
<1> QED BY <1>1, <1>2 DEF IInv

\* The clock moves no news.
LEMMA TickStep ==
    ASSUME IInv, Tick PROVE IInv'
<1>1. TypeOK'
  <2>1. quiet \in 0..Quiet /\ quiet < Quiet /\ quiet' = quiet + 1
    BY DEF IInv, TypeOK, Tick
  <2>2. quiet' \in 0..Quiet
    BY <2>1, NumbersAssumption
  <2> QED BY <2>2 DEF IInv, TypeOK, Tick
<1>2. NothingForgotten' /\ Overtaken'
  BY Carry DEF Tick, News
<1> QED BY <1>1, <1>2 DEF IInv

\* What is hashed is hashed as it is.
LEMMA ScanStep ==
    ASSUME IInv, Scan PROVE IInv'
<1>1. TypeOK'
  BY DEF IInv, TypeOK, Scan
<1>2. pc' \in {"first store", "store"} /\ snap' = disk /\ disk' = disk
  BY DEF Scan
<1>3. NothingForgotten' /\ Overtaken'
  BY <1>2 DEF NothingForgotten, Announced, Overtaken, Stale
<1> QED BY <1>1, <1>3 DEF IInv

\* What differs after the store was saved again after it was hashed, and is
\* news (Overtaken).
LEMMA StoreStep ==
    ASSUME IInv, Store PROVE IInv'
<1>1. /\ pc \in {"first store", "store"} /\ pc' \in {"get", "start"}
      /\ stored' = snap /\ Len(<<Database>>) = 1
      /\ UNCHANGED <<disk, snap, queue, pending, quiet, watching, edits, fails, lost>>
  BY DEF Store
<1>2. <<Database>> \in Events
  BY DEF Events, Paths
<1>3. /\ kernel' \in Seq(Events)
      /\ \A f \in Files : News(f) => News(f)'
  <2>1. CASE UNCHANGED kernel
    BY <1>1, <2>1 DEF IInv, TypeOK, News, In
  <2>2. CASE Emit(<<Database>>)
    BY <1>1, <1>2, <2>2, EmitNews DEF IInv, News, In
  <2> QED BY <2>1, <2>2 DEF Store
<1>4. TypeOK'
  BY <1>1, <1>3 DEF IInv, TypeOK
<1>5. NothingForgotten'
  BY <1>1, <1>3 DEF IInv, NothingForgotten, Overtaken, Announced, Stale
<1>6. Overtaken'
  BY <1>1 DEF Overtaken
<1> QED BY <1>4, <1>5, <1>6 DEF IInv

\* What a failing update would have stored is lost by name.
LEMMA FailStep ==
    ASSUME IInv, Fail PROVE IInv'
<1>1. /\ pc \in {"first scan", "scan", "first store", "store"} /\ pc' \in {"get", "start"}
      /\ lost' = lost \union Stale(IF pc \in {"first scan", "scan"} THEN disk ELSE snap)
      /\ UNCHANGED <<disk, stored, snap, kernel, queue, pending, quiet, watching, edits>>
  BY DEF Fail
<1>2. TypeOK'
  <2>1. fails \in 0..MaxFails /\ fails < MaxFails /\ fails' = fails + 1
    BY DEF IInv, TypeOK, Fail
  <2>2. fails' \in 0..MaxFails
    BY <2>1, NumbersAssumption
  <2>3. lost' \subseteq Files
    BY <1>1 DEF IInv, TypeOK, Stale
  <2> QED BY <1>1, <2>2, <2>3 DEF IInv, TypeOK
<1>3. \A f \in Files : News(f)' = News(f)
  BY <1>1 DEF News, In
<1>4. NothingForgotten'
  <2> SUFFICES ASSUME NEW f \in Files, disk[f] # stored[f], f \notin lost' PROVE Announced(f)'
    BY <1>1 DEF NothingForgotten, Stale
  <2>1. CASE pc \in {"first scan", "scan"}
    BY <1>1, <2>1 DEF Stale
  <2>2. CASE pc \in {"first store", "store"}
    <3>1. snap[f] = stored[f] /\ f \notin lost
      BY <1>1, <2>2 DEF Stale
    <3> QED BY <1>3, <2>2, <3>1 DEF IInv, Overtaken, Announced
  <2> QED BY <1>1, <2>1, <2>2
<1>5. Overtaken'
  BY <1>1 DEF Overtaken
<1> QED BY <1>2, <1>4, <1>5 DEF IInv

\* Nothing is announced less by an observer that starts.
LEMMA StartObserverStep ==
    ASSUME IInv, StartObserver PROVE IInv'
<1>1. TypeOK'
  BY DEF IInv, TypeOK, StartObserver
<1>2. \A f \in Files : News(f)' = News(f)
  BY DEF StartObserver, News, In
<1>3. NothingForgotten' /\ Overtaken'
  BY <1>2 DEF IInv, NothingForgotten, Announced, Overtaken, Stale, StartObserver
<1> QED BY <1>1, <1>3 DEF IInv

\* News stays news on its way from the queue to the batch.
LEMMA GetStep ==
    ASSUME IInv, Get PROVE IInv'
<1>1. TypeOK'
  BY GetNews DEF IInv, TypeOK, Get
<1>2. NothingForgotten' /\ Overtaken'
  BY GetNews DEF IInv, NothingForgotten, Announced, Overtaken, Stale, Get
<1> QED BY <1>1, <1>2 DEF IInv

\* The batch is drained into an update that has yet to hash.
LEMMA CheckStep ==
    ASSUME IInv, Check PROVE IInv'
<1>1. TypeOK'
  BY DEF IInv, TypeOK, Check
<1>2. CASE Ready
  <2>1. pc' = "scan"
    BY <1>2 DEF Check
  <2> QED BY <1>1, <2>1 DEF IInv, NothingForgotten, Announced, Overtaken
<1>3. CASE ~Ready
  <2>1. pc = "check" /\ pc' = "get" /\ \A f \in Files : News(f)' = News(f)
    BY <1>3 DEF Check, News, In
  <2>2. NothingForgotten' /\ Overtaken'
    BY <2>1 DEF IInv, NothingForgotten, Announced, Overtaken, Stale, Check
  <2> QED BY <1>1, <2>2 DEF IInv
<1> QED BY <1>2, <1>3

\* Every step of the specification keeps the invariant.
LEMMA Inductive ==
    ASSUME IInv, [Next]_vars PROVE IInv'
<1>1. CASE UNCHANGED vars
  <2>1. TypeOK'
    BY <1>1 DEF vars, IInv, TypeOK
  <2>2. \A f \in Files : News(f)' = News(f)
    BY <1>1 DEF vars, News, In
  <2> QED BY <1>1, <2>1, <2>2, Carry DEF vars, IInv
<1> QED BY <1>1, EditStep, ObserveStep, TickStep, FailStep, ScanStep, StoreStep,
           StartObserverStep, GetStep, CheckStep DEF Next, Loop

(***************************************************************************)
(* The theorems                                                            *)
(***************************************************************************)
(* Every variable of watch mode keeps its type.                            *)
THEOREM WatchTypes == Spec => []TypeOK
<1>1. IInv => TypeOK
  BY DEF IInv
<1> QED BY <1>1, Initially, Inductive, PTL DEF Spec

(* However events, edits, updates and failures interleave, a file that     *)
(* differs from the database is announced: in an event under way, on the   *)
(* queue, in the batch or in the running update.                           *)
THEOREM NoEditForgotten == Spec => []NothingForgotten
<1>1. IInv => NothingForgotten
  BY DEF IInv
<1> QED BY <1>1, Initially, Inductive, PTL DEF Spec
==============================================================================
