------------------------------- MODULE Analysis -------------------------------
(***************************************************************************)
(* The structural analyses of a graph (graph/analysis.py) and what the MCP *)
(* server makes of them (mcp/server.py).  They run on a reading of a       *)
(* graph, [nodes, edges, copies]: copies is the bag of the loaded edges,   *)
(* for an edge that is loaded twice is there twice.  Lines, order and      *)
(* paging are left out.                                                    *)
(***************************************************************************)
EXTENDS KGraph, Bags

Roots == {"MODULE", "ENTITY"}
Instantiable == {"MODULE", "INTERFACE", "PROGRAM", "PRIMITIVE", "ENTITY"}
ImpactUnits == {"MODULE", "INTERFACE", "PROGRAM", "PRIMITIVE", "PACKAGE", "CHECKER", "CLASS", "ENTITY",
                "ARCHITECTURE", "VHDL_PACKAGE", "PACKAGE_BODY", "CONFIGURATION"}

(* The whole graph in memory.                                              *)
Loaded1(g) == [nodes |-> g.nodes, edges |-> g.edges, copies |-> SetToBag(g.edges)]

EdgesInto(r, ids, kinds) == {e \in r.edges : e.dst \in ids /\ e.kind \in kinds}
EdgesFrom(r, ids, kinds) == {e \in r.edges : e.src \in ids /\ e.kind \in kinds}

(* One record per loaded edge.                                             *)
Tally(r, edges, record(_)) == BagOfAll(record, [e \in edges |-> r.copies[e]])
Count(r, edges) == BagCardinality([e \in edges |-> r.copies[e]])

(* VHDL names are stored in lower case and match in any.                   *)
Called(n, name) == n.name = IF n.lang = "vhdl" THEN Lower(name) ELSE name
AllCalled(r, kinds, name) == {i \in OfKind(r, kinds) : Called(r.nodes[i], name)}
ResolveUnit(r, kinds, name) == {i \in AllCalled(r, kinds, name) : ~Unresolved(r, i)}

TopModules(r) ==
    {i \in OfKind(r, Roots) : ~Unresolved(r, i) /\ Into(r, i, "INSTANTIATES") = {}}

(***************************************************************************)
(* The hierarchy                                                           *)
(***************************************************************************)
Named1(r, archs, name) == {a \in archs : r.nodes[a].name = name}
Architectures(r, unit, via) ==
    LET archs == Into(r, unit, "IMPLEMENTS")
    IN  IF Named1(r, archs, via) # {} THEN Named1(r, archs, via) ELSE archs

(* Instances that scopes declare, with the targets of each.                *)
Instances(r, holders) == {e \in EdgesFrom(r, holders, {"DECLARES"}) : r.nodes[e.dst].kind = "INSTANCE"}
Sites(r, holders) ==
    {<<d, e>> \in Instances(r, holders) \X r.edges : e.kind = "INSTANTIATES" /\ e.src = d.dst}

(* The tree under a unit: it ends at the depth limit and at a unit that is *)
(* above itself.                                                           *)
RECURSIVE Tree(_, _, _, _, _, _)
Tree(r, unit, site, via, seen, depth) ==
    LET archs == Architectures(r, unit, via)
        stop == depth = 0 \/ unit \in seen
        sites == IF stop THEN {} ELSE Sites(r, {unit} \union archs)
        below == [s \in sites |-> Tree(r, s[2].dst, <<r.nodes[s[1].dst].name, s[2].conf>>,
                                       Attr(s[2], "architecture", ""), seen \union {unit}, depth - 1)]
        copies(s) == r.copies[s[1]] * r.copies[s[2]]
    IN  [unit |-> unit, site |-> site, unresolved |-> Unresolved(r, unit),
         arch |-> IF Cardinality(archs) = 1 THEN NamesOf(r, archs) ELSE {},
         truncated |-> unit \in seen \/ (stop /\ Instances(r, {unit} \union archs) # {}),
         children |-> [t \in Range(below) |->
                          MapThenSumSet(copies, {s \in sites : below[s] = t})]]
HierarchyTree(r, top, depth) == Tree(r, top, <<>>, "", {}, depth)

(* _prune_tree counts what it leaves out.                                  *)
RECURSIVE TreeSize(_)
TreeSize(t) ==
    1 + MapThenSumSet(LAMBDA c : t.children[c] * TreeSize(c), DOMAIN t.children)
Omitted(t, max) == IF TreeSize(t) > max THEN TreeSize(t) - max ELSE 0

(* Every node in the units under a top, the architectures all taken.       *)
SubtreeNodeIds(r, top) ==
    LET scopes(u) == {u} \union Architectures(r, u, "")
        below(u) == {s[2].dst : s \in Sites(r, scopes(u))}
        holders == UNION {scopes(u) : u \in Reach({top}, below, Cardinality(OfKind(r, Instantiable)))}
    IN  holders \union {e.dst : e \in EdgesFrom(r, holders, {"DECLARES"})}

(***************************************************************************)
(* Sites, signals, ports, names                                            *)
(***************************************************************************)
InstancesOf(r, name) ==
    Tally(r, EdgesInto(r, AllCalled(r, Instantiable, name), {"INSTANTIATES"}), LAMBDA e :
        [site |-> r.nodes[e.src], conf |-> e.conf, unresolved |-> Unresolved(r, e.dst)])

(* The unit around a node, up the DECLARES edges (a node has one parent).  *)
EnclosingUnit(r, i) ==
    LET up(X) == UNION {IF r.nodes[x].kind \in ImpactUnits THEN {x} ELSE Into(r, x, "DECLARES") : x \in X}
    IN  Repeat(up, {i}, Cardinality(DOMAIN r.nodes)) \intersect OfKind(r, ImpactUnits)

(* An architecture's signals are its entity's as well.                     *)
SignalUnitNames(r, i) ==
    LET units == EnclosingUnit(r, i)
        archs == units \intersect OfKind(r, {"ARCHITECTURE"})
    IN  NamesOf(r, units \union UNION {OutOf(r, a, "IMPLEMENTS") : a \in archs})

InModule(r, i, module) ==
    module = "" \/ (IF r.nodes[i].lang = "vhdl" THEN Lower(module) ELSE module) \in SignalUnitNames(r, i)

SignalDrivers(r, signal, module, kind) ==
    LET signals == {i \in AllCalled(r, {"SIGNAL", "PORT"}, signal) : InModule(r, i, module)}
    IN  Tally(r, EdgesInto(r, signals, {kind}), LAMBDA e :
            [signal |-> e.dst, unit |-> EnclosingUnit(r, e.dst), site |-> r.nodes[e.src], conf |-> e.conf])

(* The bindings of an instance; the name of a port it binds.               *)
Bindings(r, instance) ==
    Tally(r, EdgesFrom(r, {instance}, {"CONNECTS"}), LAMBDA e :
        [port |-> IF r.nodes[e.dst].kind = "PORT" THEN r.nodes[e.dst].name ELSE Attr(e, "formal", ""),
         actual |-> Attr(e, "expr", <<>>), position |-> Attr(e, "position", 0), conf |-> e.conf])
Matching1(r, i, instance) ==
    instance = r.nodes[i].name \/ (instance \in DOMAIN Qualified /\ r.nodes[i].id[3] \in Qualified[instance])
InstanceBindings(r, unit, instance) ==
    Tally(r, {e \in EdgesInto(r, {unit}, {"INSTANTIATES"}) : Matching1(r, e.src, instance)},
          LAMBDA e : [instance |-> e.src, bindings |-> Bindings(r, e.src)])

Members(r, unit, kind) ==
    Tally(r, {e \in EdgesFrom(r, {unit}, {"DECLARES"}) : r.nodes[e.dst].kind = kind},
          LAMBDA e : r.nodes[e.dst])
PortMap(r, name, instance) ==
    {[unit |-> u, ports |-> Members(r, u, "PORT"), parameters |-> Members(r, u, "PARAMETER"),
      instances |-> IF instance = "" THEN EmptyBag ELSE InstanceBindings(r, u, instance)] :
        u \in ResolveUnit(r, Instantiable, name)}

GlobCalled(n, pattern) == n.name \in Glob(IF n.lang = "vhdl" THEN Lower(pattern) ELSE pattern)
(* A pattern with a dot is matched against the qualified name too.         *)
SearchNodes(r, pattern, kinds, files) ==
    {i \in OfKind(r, kinds) :
        /\ r.nodes[i].file \in files
        /\ \/ GlobCalled(r.nodes[i], pattern)
           \/ pattern \in DOMAIN Qualified /\ r.nodes[i].id[3] \in Qualified[pattern]}

AllFiles(r) == {r.nodes[i].file : i \in DOMAIN r.nodes}
FindModule(r, pattern) ==
    {[unit |-> u, ports |-> BagCardinality(Members(r, u, "PORT")),
      parameters |-> BagCardinality(Members(r, u, "PARAMETER")),
      instances |-> Count(r, EdgesInto(r, {u}, {"INSTANTIATES"}))] :
        u \in SearchNodes(r, pattern, Instantiable, AllFiles(r))}

UnresolvedStubs(r) ==
    {[stub |-> i, referrers |-> {e.src : e \in {x \in r.edges : x.dst = i /\ x.kind # "DECLARES"}}] :
        i \in {x \in DOMAIN r.nodes : Unresolved(r, x)}}

Modules(r) ==
    {[unit |-> i, instances |-> Count(r, EdgesInto(r, {i}, {"INSTANTIATES"}))] :
        i \in {x \in OfKind(r, Roots) : ~Unresolved(r, x)}}

(***************************************************************************)
(* The impact radius                                                       *)
(***************************************************************************)
(* Includers, users of its macros and its units depend on a file.          *)
FileDependents(r, i) ==
    Into(r, i, "INCLUDES")
        \union UNION {Into(r, m, "USES_MACRO") : m \in OutOf(r, i, "DEFINES_MACRO")}
        \union (OutOf(r, i, "DECLARES") \intersect OfKind(r, ImpactUnits))

UnitDependents(r, i) ==
    UNION {EnclosingUnit(r, e.src) : e \in EdgesInto(r, {i}, {"INSTANTIATES", "IMPORTS", "USES_PACKAGE", "BINDS"})}
        \union Into(r, i, "EXTENDS") \union Into(r, i, "IMPLEMENTS")
        \union (IF r.nodes[i].kind = "ARCHITECTURE" THEN OutOf(r, i, "IMPLEMENTS") ELSE {})

Dependents(r, i) == IF r.nodes[i].kind = "FILE" THEN FileDependents(r, i) ELSE UnitDependents(r, i)

(* A file of that path or ending in it, else the units of that name.       *)
ImpactSeeds(r, target, files) ==
    IF target \in files THEN {<<target, "FILE", <<>>>>} \intersect DOMAIN r.nodes
    ELSE ResolveUnit(r, ImpactUnits, target)

(* What a change of the seeds reaches, with its distance; 0: any distance. *)
ImpactRadius(r, seeds, depth) ==
    LET step(s) == LET new == UNION {Dependents(r, i) : i \in s.front} \ s.seen
                   IN  [front |-> new, seen |-> s.seen \union new, depth |-> s.depth + 1,
                        found |-> s.found \union (new \X {s.depth + 1})]
        start == [front |-> seeds, seen |-> seeds, depth |-> 0, found |-> {}]
    IN  Repeat(step, start, IF depth > 0 THEN depth ELSE Cardinality(DOMAIN r.nodes)).found
=============================================================================
