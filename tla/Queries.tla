-------------------------------- MODULE Queries --------------------------------
(***************************************************************************)
(* GraphQuery (storage/query.py): a question is answered by the analysis   *)
(* of a part of the graph that is loaded for it, edge rows by their end    *)
(* through the indices.  The part is [ids, copies]: the nodes, and the bag *)
(* of the rows, which may select an edge more than once; a node that is    *)
(* only an end of an edge is looked up in the end (_ensure_endpoints).     *)
(***************************************************************************)
EXTENDS Analysis

Empty == [ids |-> {}, copies |-> EmptyBag]
WithNodes(h, ids) == [h EXCEPT !.ids = @ \union ids]
WithRows(h, rows) ==
    [ids |-> h.ids \union UNION {{e.src, e.dst} : e \in rows}, copies |-> h.copies (+) SetToBag(rows)]

InRows(g, ids, kinds) == {e \in g.edges : e.dst \in ids /\ e.kind \in kinds}
OutRows(g, ids, kinds) == {e \in g.edges : e.src \in ids /\ e.kind \in kinds}
Sources(rows) == {e.src : e \in rows}
Targets(rows) == {e.dst : e \in rows}

Subgraph(g, h) ==
    [nodes |-> [i \in h.ids \intersect DOMAIN g.nodes |-> g.nodes[i]],
     edges |-> BagToSet(h.copies), copies |-> h.copies]

(* The index finds the name and its lower case; the language decides.      *)
IdsByName(g, kinds, name) ==
    {i \in OfKind(g, kinds) :
        /\ g.nodes[i].name \in {name, Lower(name)}
        /\ g.nodes[i].name = IF g.nodes[i].lang = "vhdl" THEN Lower(name) ELSE name}
GlobIds(g, kinds, pattern) == {i \in OfKind(g, kinds) : GlobCalled(g.nodes[i], pattern)}

(***************************************************************************)
(* What is loaded for each question                                        *)
(***************************************************************************)
UnitRows(g, units) == WithRows(WithNodes(Empty, units), OutRows(g, units, {"DECLARES"}))

ForFind(g, q) ==
    LET units == GlobIds(g, Instantiable, q.name)
    IN  WithRows(UnitRows(g, units), InRows(g, units, {"INSTANTIATES"}))

(* The globs narrow the rows, but for a name with a dot.                   *)
ForSearch(g, q) ==
    WithNodes(Empty, {i \in OfKind(g, q.kinds) :
        /\ g.nodes[i].file \in q.files
        /\ q.name \in DOMAIN Qualified \/ GlobCalled(g.nodes[i], q.name)})

ForInstances(g, q) ==
    LET units == IdsByName(g, Instantiable, q.name)
    IN  WithRows(WithNodes(Empty, units), InRows(g, units, {"INSTANTIATES"}))

(* The bindings of the instances that are asked for, of no others.         *)
ForPorts(g, q) ==
    LET units == IdsByName(g, Instantiable, q.name)
        sites == InRows(g, units, {"INSTANTIATES"})
        matching == {i \in Sources(sites) : Matching1(g, i, q.instance)}
    IN  IF q.instance = "" THEN UnitRows(g, units)
        ELSE WithRows(WithRows(UnitRows(g, units), sites), OutRows(g, matching, {"CONNECTS"}))

(* _climb_declares: up to the roots, over to the entity of an architecture.*)
Climbed(g, h, ids) ==
    LET step(c) ==
            LET up == InRows(g, c.front, {"DECLARES"})
                over == OutRows(g, Sources(up), {"IMPLEMENTS"})
                seen == c.seen \union c.front
            IN  [h |-> WithRows(WithRows(c.h, up), over), seen |-> seen,
                 front |-> (Sources(up) \union Targets(over)) \ seen]
    IN  Repeat(step, [h |-> h, front |-> ids, seen |-> {}], Cardinality(DOMAIN g.nodes)).h

(* Only the signals of the module have their drivers loaded.               *)
ForDrivers(g, q) ==
    LET signals == IdsByName(g, {"SIGNAL", "PORT"}, q.name)
        h == Climbed(g, WithNodes(Empty, signals), signals)
        mine == {i \in signals : InModule(Subgraph(g, h), i, q.module)}
    IN  WithRows(h, InRows(g, mine, {q.kind}))

ForStubs(g) ==
    LET stubs == {i \in DOMAIN g.nodes : Unresolved(g, i)}
    IN  WithRows(WithNodes(Empty, stubs), {e \in g.edges : e.dst \in stubs})

ForModules(g) ==
    LET units == OfKind(g, Roots)
    IN  WithRows(WithNodes(Empty, units), InRows(g, units, {"INSTANTIATES"}))

ForTops(g) ==
    WithNodes(Empty, OfKind(g, Roots) \ {e.dst : e \in Edges(g, {"INSTANTIATES"})})

(* Mutant: the level under the deepest one is not looked at.               *)
LevelsExact(depth) == depth
(* One level past the depth, to know whether what is cut off has more.     *)
Levels(depth) == depth + 1

(* _hierarchy_subgraph: units are visited once, their architectures are    *)
(* loaded with every level that meets them.                                *)
ForTree(g, q) ==
    LET step(s) ==
            LET units == s.front \ s.seen
                archs == InRows(g, units, {"IMPLEMENTS"})
                held == OutRows(g, units \union Sources(archs), {"DECLARES"})
                sites == OutRows(g, Targets(held), {"INSTANTIATES"})
            IN  [h |-> WithRows(WithRows(WithRows(s.h, archs), held), sites),
                 seen |-> s.seen \union units, front |-> Targets(sites)]
        start == [h |-> WithNodes(Empty, {q.root}), front |-> {q.root}, seen |-> {}]
    IN  Repeat(step, start, Levels(q.depth)).h

(* _hydrate_impact_neighbors: all that the dependents of the ids need.     *)
ImpactKinds == {"INSTANTIATES", "IMPORTS", "USES_PACKAGE", "BINDS", "EXTENDS", "IMPLEMENTS", "INCLUDES"}
ImpactNeighbours(g, h, ids) ==
    LET into == InRows(g, ids, ImpactKinds)
        units == OutRows(g, ids, {"IMPLEMENTS", "DECLARES"})
        macros == OutRows(g, ids, {"DEFINES_MACRO"})
        users == InRows(g, Targets(macros), {"USES_MACRO"})
    IN  Climbed(g, WithRows(h, into \union units \union macros \union users), Sources(into))

(* _impact_seeds finds files among the stored ones, units by the index.    *)
SeedsOf(g, q) ==
    IF q.name \in q.files THEN {<<q.name, "FILE", <<>>>>} \intersect DOMAIN g.nodes
    ELSE {i \in IdsByName(g, ImpactUnits, q.name) : ~Unresolved(g, i)}

ForImpact(g, q) ==
    LET step(s) ==
            LET h == ImpactNeighbours(g, s.h, s.front)
            IN  [h |-> h, front |-> h.ids \ s.seen, seen |-> s.seen \union h.ids]
        seeds == SeedsOf(g, q)
        start == [h |-> WithNodes(Empty, seeds), front |-> seeds, seen |-> seeds]
    IN  Repeat(step, start, IF q.depth > 0 THEN q.depth ELSE Cardinality(DOMAIN g.nodes)).h

Hydrated1(g, q) ==
    CASE q.tool = "find_module" -> ForFind(g, q)
      [] q.tool = "search_nodes" -> ForSearch(g, q)
      [] q.tool = "who_instantiates" -> ForInstances(g, q)
      [] q.tool = "port_map" -> ForPorts(g, q)
      [] q.tool = "find_signal_drivers" -> ForDrivers(g, q)
      [] q.tool = "unresolved" -> ForStubs(g)
      [] q.tool = "modules" -> ForModules(g)
      [] q.tool = "top_modules" -> ForTops(g)
      [] q.tool = "get_hierarchy" -> ForTree(g, q)
      [] q.tool = "impact_of_change" -> ForImpact(g, q)

(***************************************************************************)
(* Answers                                                                 *)
(***************************************************************************)
(* A tree with the number of its nodes past a limit.                       *)
Pruned(t, max) == [tree |-> t, omitted |-> Omitted(t, max)]

Analysed(r, q) ==
    CASE q.tool = "find_module" -> FindModule(r, q.name)
      [] q.tool = "search_nodes" -> SearchNodes(r, q.name, q.kinds, q.files)
      [] q.tool = "who_instantiates" -> InstancesOf(r, q.name)
      [] q.tool = "port_map" -> PortMap(r, q.name, q.instance)
      [] q.tool = "find_signal_drivers" -> SignalDrivers(r, q.name, q.module, q.kind)
      [] q.tool = "unresolved" -> UnresolvedStubs(r)
      [] q.tool = "modules" -> Modules(r)
      [] q.tool = "top_modules" -> TopModules(r)
      [] q.tool = "get_hierarchy" -> Pruned(HierarchyTree(r, q.root, q.depth), q.max)
      [] q.tool = "impact_of_change" -> ImpactRadius(r, ImpactSeeds(r, q.name, q.files), q.depth)

Answer(g, q) == Analysed(Subgraph(g, Hydrated1(g, q)), q)
=============================================================================
