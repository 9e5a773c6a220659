------------------------------- MODULE Assembly -------------------------------
(***************************************************************************)
(* Databases of blocks are merged into one (merge.py), which is then       *)
(* asked questions (storage/query.py, mcp/server.py) and reported on       *)
(* (storage/summaries.py).                                                 *)
(*                                                                         *)
(* A source is [root, codec, enriched, units, rows, lists]: its units with *)
(* the hash of their text, its files without a unit and their hashes, and  *)
(* the IR of its FILELIST and LIBRARY nodes, which no unit holds.          *)
(***************************************************************************)
EXTENDS Linker, Summaries, Queries

CONSTANTS
    Projects,   \* sets of sources that are merged in any choice and order
    MaxSources, \* the most sources of a merge
    Names,      \* what questions name
    Depths      \* how far they go

VARIABLES
    policy,     \* --on-conflict: "error", "first" or "last"
    given,      \* the sources
    opened,     \* how many of them have been absorbed
    kept,       \* units so far, one per path, in order of their first source
    rows,       \* path -> hash, of the files that some source has no unit of
    lists,      \* adapter nodes and edges so far, and the nodes these end at
    status,     \* "opening", "merged", or why the merge was refused
    db,         \* the merged graph and its files table
    asked       \* the last question and its answer
vars == <<policy, given, opened, kept, rows, lists, status, db, asked>>

None == [none |-> TRUE]
Adapters == {"FILELIST", "LIBRARY"}

IrsOf(units) == [k \in DOMAIN units |-> units[k].ir]
SourceGraph(s) == LinkGraph(Append(IrsOf(s.units), s.lists))
Paths(units) == {units[k].ir.path : k \in DOMAIN units}
At(units, path) == CHOOSE k \in DOMAIN units : units[k].ir.path = path

(***************************************************************************)
(* Opening a source                                                        *)
(***************************************************************************)
(* _gate_source, the root and the elaborated nodes.                        *)
Refusal(s) ==
    CASE s.codec # "current" -> "codec"
      [] s.codec = "current" /\ s.enriched -> "enriched"
      [] s.codec = "current" /\ ~s.enriched /\ s.root # given[1].root -> "root"
      [] OTHER -> ""

Differ(k, u) == \E i \in DOMAIN k : k[i].ir.path = u.ir.path /\ k[i].hash # u.hash

(* Mutant: units are unioned without regard to their paths.                *)
KeepAll(k, u) == Append(k, u)
(* Mutant: keeping the last leaves what is kept already.                   *)
KeepFirst(k, u) == IF u.ir.path \notin Paths(k) THEN Append(k, u) ELSE k

(* _resolve_conflict: equal hashes are one file; the last one takes the    *)
(* place of the first.                                                     *)
Keep(k, u) ==
    IF u.ir.path \notin Paths(k) THEN Append(k, u)
    ELSE IF Differ(k, u) /\ policy = "last" THEN [k EXCEPT ![At(k, u.ir.path)] = u]
    ELSE k

Clash(s) == policy = "error" /\ \E k \in DOMAIN s.units : Differ(kept, s.units[k])
RowsClash(s) == policy = "error" /\ \E p \in DOMAIN s.rows \intersect DOMAIN rows : s.rows[p] # rows[p]
WithRowsOf(s) == IF policy = "last" THEN s.rows @@ rows ELSE rows @@ s.rows

(* _AdapterUnion.absorb                                                    *)
AdapterEdges(g) == {e \in g.edges : g.nodes[e.src].kind \in Adapters}
Absorbed(g) ==
    LET nodes == OfKind(g, Adapters)
        edges == AdapterEdges(g)
        known == {<<e.src, e.dst, e.kind>> : e \in lists.edges}
        targets == {e.dst : e \in edges} \ nodes
    IN  [nodes |-> lists.nodes @@ [i \in nodes |-> g.nodes[i]],
         edges |-> lists.edges \union {e \in edges : <<e.src, e.dst, e.kind>> \notin known},
         targets |-> lists.targets @@ [i \in targets |-> g.nodes[i]]]
ListsClash(g) == \E i \in OfKind(g, Adapters) \intersect DOMAIN lists.nodes : lists.nodes[i] # g.nodes[i]

Refuse(reason) ==
    /\ status' = reason
    /\ UNCHANGED <<policy, given, opened, kept, rows, lists, db, asked>>

Absorb(s, g) ==
    /\ kept' = FoldLeft(Keep, kept, s.units)
    /\ rows' = WithRowsOf(s)
    /\ lists' = Absorbed(g)
    /\ opened' = opened + 1
    /\ UNCHANGED <<policy, given, status, db, asked>>

OpenOn(s, g) ==
    \/ Refusal(s) # "" /\ Refuse(Refusal(s))
    \/ Refusal(s) = "" /\ Clash(s) /\ Refuse("conflict")
    \/ Refusal(s) = "" /\ ~Clash(s) /\ RowsClash(s) /\ Refuse("rows")
    \/ Refusal(s) = "" /\ ~Clash(s) /\ ~RowsClash(s) /\ ListsClash(g) /\ Refuse("adapters")
    \/ Refusal(s) = "" /\ ~Clash(s) /\ ~RowsClash(s) /\ ~ListsClash(g) /\ Absorb(s, g)

Open ==
    /\ status = "opening" /\ opened < Len(given)
    /\ OpenOn(given[opened + 1], SourceGraph(given[opened + 1]))

(***************************************************************************)
(* The link                                                                *)
(***************************************************************************)
(* to_ir: one IR of the adapters; ends that a unit provides are its own.   *)
ToIr(units) ==
    LET parsed == UNION {{n.id : n \in units[k].ir.nodes} : k \in DOMAIN units}
        targets == DOMAIN lists.targets \ (parsed \union DOMAIN lists.nodes)
    IN  [path |-> "lists", nodes |-> Range(lists.nodes) \union {lists.targets[i] : i \in targets},
         edges |-> lists.edges, refs |-> <<>>]

(* Mutant: a row of a file without a unit goes before the unit's.          *)
FilesOutRows(units) == rows @@ [p \in Paths(units) |-> units[At(units, p)].hash]

(* A unit owns the row of its path.                                        *)
FilesOut(units) == [p \in Paths(units) |-> units[At(units, p)].hash] @@ rows

Link ==
    /\ status = "opening" /\ opened = Len(given)
    /\ \/ kept = <<>> /\ status' = "empty" /\ UNCHANGED db
       \/ /\ kept # <<>> /\ status' = "merged"
          /\ db' = [graph |-> LinkGraph(Append(IrsOf(kept), ToIr(kept))), files |-> FilesOut(kept)]
    /\ UNCHANGED <<policy, given, opened, kept, rows, lists, asked>>

(***************************************************************************)
(* Questions                                                               *)
(***************************************************************************)
Questions(g) ==
    LET files == DOMAIN db.files
        kinds == {{"SIGNAL", "PORT", "CLASS"}, {g.nodes[i].kind : i \in DOMAIN g.nodes}}
        tops == ResolveUnit(Loaded1(g), Instantiable, "top") \union TopModules(Loaded1(g))
    IN  [tool : {"who_instantiates", "find_module"}, name : Names]
          \union [tool : {"search_nodes"}, name : Names, kinds : kinds, files : {files, {"top"}}]
          \union [tool : {"port_map"}, name : Names, instance : {"", "u"} \union DOMAIN Qualified]
          \union [tool : {"find_signal_drivers"}, name : Names, module : {"", "Core", "rtl", "top"}, kind : {"DRIVES", "READS"}]
          \union [tool : {"unresolved", "modules", "top_modules"}]
          \union [tool : {"get_hierarchy"}, root : tops, depth : Depths, max : {3}]
          \union [tool : {"impact_of_change"}, name : Names \union files, files : {files}, depth : {0} \union Depths]

Ask ==
    /\ status = "merged" /\ asked = None
    /\ \E q \in Questions(db.graph) :
          asked' = [question |-> q, answer |-> Answer(db.graph, q)]
    /\ UNCHANGED <<policy, given, opened, kept, rows, lists, status, db>>

Init ==
    /\ policy \in {"error", "first", "last"}
    /\ \E p \in DOMAIN Projects : \E n \in 1..MaxSources :
          given \in {s \in [1..n -> Projects[p]] : \A i, j \in 1..n : s[i] = s[j] => i = j}
    /\ opened = 0 /\ kept = <<>> /\ rows = << >>
    /\ lists = [nodes |-> << >>, edges |-> {}, targets |-> << >>]
    /\ status = "opening" /\ db = None /\ asked = None

Next == Open \/ Link \/ Ask

Spec == Init /\ [][Next]_vars

(***************************************************************************)
(* Properties                                                              *)
(***************************************************************************)
TypeOK ==
    /\ policy \in {"error", "first", "last"} /\ opened \in 0..Len(given)
    /\ \A i, j \in DOMAIN kept : kept[i].ir.path = kept[j].ir.path => i = j
    /\ status = "merged" => \A e \in db.graph.edges : {e.src, e.dst} \subseteq DOMAIN db.graph.nodes

(* What the sources have of a path, in order.                              *)
Versions(path) ==
    SelectSeq(FlattenSeq([i \in DOMAIN given |-> given[i].units]), LAMBDA u : u.ir.path = path)
Coherent == \A i \in DOMAIN given, j \in DOMAIN given :
    \A u \in Range(given[i].units), v \in Range(given[j].units) :
        (u.ir.path = v.ir.path /\ u.hash = v.hash) => u.ir = v.ir
Chosen1(path) == IF policy = "last" THEN Last(Versions(path)) ELSE Head(Versions(path))
AllPaths == UNION {Paths(given[i].units) : i \in DOMAIN given}

(* A merge (merge.run_merge) makes the graph that one build over all the   *)
(* files makes, whatever the order of the sources: the versions that the   *)
(* policy picks, in order of their paths, with the adapters of every       *)
(* source as that build would list them.                                   *)
MergedIsMonolith ==
    (status = "merged" /\ Coherent /\ Plain(db.graph)) =>
        LET order == SetToSeq(AllPaths)
        IN  db.graph = LinkGraph([k \in DOMAIN order |-> Chosen1(order[k]).ir]
                                   \o [i \in DOMAIN given |-> given[i].lists])

(* Under --on-conflict error a merge holds one version of each path: its   *)
(* unit is every source's unit (docs/usage/merge-design.md).               *)
ConflictsNoticed ==
    (status = "merged" /\ policy = "error") =>
        \A path \in AllPaths : \A u \in Range(Versions(path)) : u.ir = Chosen1(path).ir

(* The files table of a merge names every file of every source, a parsed   *)
(* one by the text its unit was parsed from: an update of the merged       *)
(* database would otherwise parse it again, or take a stale unit for       *)
(* current.                                                                *)
FilesFaithful ==
    status = "merged" =>
        /\ DOMAIN db.files = AllPaths \union UNION {DOMAIN given[i].rows : i \in DOMAIN given}
        /\ \A path \in AllPaths : db.files[path] = Chosen1(path).hash

(* A pattern of find_module with a dot finds nothing in the database, and  *)
(* an architecture of several entities is loaded with each.                *)
Narrow(q) ==
    \/ q.tool = "find_module" /\ q.name \in DOMAIN Qualified
    \/ q.tool = "get_hierarchy" /\ \E i \in DOMAIN db.graph.nodes : Cardinality(OutOf(db.graph, i, "IMPLEMENTS")) > 1

(* A question put to the database (query.GraphQuery) is answered as by the *)
(* analysis of the whole graph: the rows that are loaded for it are all it *)
(* looks at, each as often as the graph has it, and nothing that is left   *)
(* out changes a depth, a count or a name.                                 *)
BoundedExact ==
    (asked # None /\ ~Narrow(asked.question)) =>
        asked.answer = Analysed(Loaded1(db.graph), asked.question)

(* Of several processes without a domain, none reads what another drives.  *)
Unchained(g) ==
    LET pairs == AliasPairs(g)
    IN  \A p \in Bridges(g), q \in Bridges(g) :
            p # q => Data(g, pairs, p, "DRIVES") \intersect Data(g, pairs, q, "READS") = {}

(* The reports read row by row from the database (storage/summaries.py)    *)
(* are the reports of the graph in memory: the same nets merged through    *)
(* ports and instances, the same domains, resets, collapses, crossings and *)
(* constraints, in whichever order the rows come.                          *)
SummariesExact ==
    (status = "merged" /\ asked = None /\ Unchained(db.graph)) =>
        \A order \in SetToSeqs(Bridges(db.graph)) :
            SqlReport(db.graph, order) = Report(db.graph, SetToSeq(Bridges(db.graph)))
=============================================================================
