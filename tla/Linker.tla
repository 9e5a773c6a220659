-------------------------------- MODULE Linker --------------------------------
(***************************************************************************)
(* Pass 2 (graph/builder.py, graph/bounded_link.py): the units' nodes and  *)
(* references become one graph, from nothing (LinkGraph) or by re-resolving*)
(* what an edit reaches in the stored one (LinkIncremental, Bounded).      *)
(*                                                                         *)
(* A unit is [path, nodes, edges, refs]; a reference [src, kind, name,     *)
(* conf, at].  An expression is the sequence of its tokens.  Where the     *)
(* code takes the first of equals in source order (an assertable of the    *)
(* same name, formals of the same index) the model takes any.              *)
(***************************************************************************)
EXTENDS Clocks

CONSTANTS
    Operators,  \* tokens of expressions that are no identifiers
    PinLeaf,    \* hierarchical pin -> its leaf name
    Root        \* absolute in-tree path -> relative path

SvUnits == {"MODULE", "INTERFACE", "PROGRAM", "PRIMITIVE"}
ScopedKinds == {"DRIVES", "READS", "CLOCKED_BY", "RESETS", "ASSERTS_ON", "COVERS"}
ScopedUnits == {"MODULE", "INTERFACE", "PROGRAM", "ARCHITECTURE", "ENTITY"}
SignalKinds == {"PORT", "SIGNAL"}
Pass1 == {"DECLARES", "INCLUDES", "DEFINES_MACRO", "USES_MACRO"}

(* The kinds a reference may resolve to in the referrer's language family  *)
(* and, failing that, in the other.                                        *)
TargetKinds ==
    LET of(kinds, sv, other) == [k \in kinds |-> <<sv, other>>]
    IN  of({"INSTANTIATES", "CONNECTS", "PARAMETERIZES"}, SvUnits, {"ENTITY"})
          @@ of({"IMPORTS"}, {"PACKAGE"}, {}) @@ of({"EXTENDS"}, {"CLASS"}, {})
          @@ of({"IMPLEMENTS"}, {"ENTITY"}, {}) @@ of({"USES_PACKAGE"}, {"VHDL_PACKAGE"}, {})
          @@ of({"BINDS"}, {"ENTITY"}, {"MODULE"}) @@ of({"FOREIGN_BINDS"}, {"FUNCTION", "TASK"}, {})

StubKind(kind) ==
    CASE kind \in {"INSTANTIATES", "CONNECTS", "PARAMETERIZES"} -> "MODULE"
      [] kind \in {"IMPLEMENTS", "BINDS"} -> "ENTITY"
      [] kind = "USES_PACKAGE" -> "VHDL_PACKAGE" [] kind = "FOREIGN_BINDS" -> "FUNCTION"
      [] kind = "IMPORTS" -> "PACKAGE" [] OTHER -> "CLASS"

QueryKinds(query) ==
    CASE query = "ports" -> {"PORT"} [] query = "clocks" -> {"CLOCK"}
      [] query = "cells" -> {"INSTANCE"} [] query = "pins" -> SignalKinds
      [] OTHER -> SignalKinds \union {"CLOCK", "INSTANCE"}

Flow(direction) ==
    CASE direction \in {"input", "in"} -> {"READS"}
      [] direction \in {"output", "out", "buffer"} -> {"DRIVES"}
      [] direction = "inout" -> {"READS", "DRIVES"} [] OTHER -> {}

(***************************************************************************)
(* The linker's state                                                      *)
(***************************************************************************)
(* nodes, edges: the graph so far; unit: node id -> the unit that first    *)
(* declared it (node_file); scope: the DECLARES pairs the lazily built     *)
(* name tables see; kids: those that positional and named bindings see;    *)
(* bindings: VHDL configuration bindings, in order.                        *)
FirstUnit(irs) ==
    LET ids(i) == {n.id : n \in irs[i].nodes}
    IN  [x \in UNION {ids(i) : i \in DOMAIN irs} |->
            irs[Min({i \in DOMAIN irs : x \in ids(i)})].path]

FirstNodes(irs) ==
    LET ids(i) == {n.id : n \in irs[i].nodes}
        owner(x) == Min({i \in DOMAIN irs : x \in ids(i)})
    IN  [x \in UNION {ids(i) : i \in DOMAIN irs} |->
            CHOOSE n \in irs[owner(x)].nodes : n.id = x]

Stub(kind, path) == <<Stubs, kind, path>>
StubNode(id, dangling) ==
    [id |-> id, kind |-> id[2], name |-> Last(id[3]), file |-> "", lang |-> "unknown",
     at |-> [unresolved |-> TRUE] @@ (IF dangling THEN [dangling |-> TRUE] ELSE << >>)]

(* _ensure_stub, _ensure_endpoint: ids nobody declared become stubs.       *)
Ensured(L, ids) ==
    LET new == ids \ DOMAIN L.nodes
    IN  [L EXCEPT !.nodes = @ @@ [i \in new |-> StubNode(i, i[1] # Stubs)]]

WithEdges(L, edges) ==
    LET M == Ensured(L, {e.src : e \in edges} \union {e.dst : e \in edges})
    IN  [M EXCEPT !.edges = @ \union edges]

Declared(edges) == {<<e.src, e.dst>> : e \in {x \in edges : x.kind = "DECLARES"}}
Children(pairs, i) == {p[2] : p \in {q \in pairs : q[1] = i}}
Parents(pairs, i) == {p[1] : p \in {q \in pairs : q[2] = i}}

(* definitions and definitions_ci hold parsed nodes only, never stubs.     *)
Defs(L, kinds, name) ==
    {i \in OfKind(L, kinds) : L.nodes[i].name = name /\ ~Unresolved(L, i)}
DefsAnyCase(L, kinds, name) ==
    {i \in OfKind(L, kinds) : Lower(L.nodes[i].name) = Lower(name) /\ ~Unresolved(L, i)}

UnitOf(L, i) == IF i \in DOMAIN L.unit THEN L.unit[i] ELSE ""
LangOf(L, i) == IF i \in DOMAIN L.nodes THEN L.nodes[i].lang ELSE "unknown"

Emit(L, r, targets, conf, extra) ==
    WithEdges(L, {[src |-> r.src, dst |-> t, kind |-> r.kind, conf |-> Least(conf, r.conf),
                   at |-> extra @@ r.at] : t \in targets})

(***************************************************************************)
(* Global names                                                            *)
(***************************************************************************)
Found(targets, conf) == [to |-> targets, conf |-> conf, extra |-> << >>]

(* Mutant: a wrong grade for a candidate of another unit.                  *)
ChosenMisgraded(L, S, here) ==
    Found(S, IF \A c \in S : L.nodes[c].file = here THEN 10 ELSE 9)

(* Same-language rules: a lone candidate, the lone one of the referrer's   *)
(* unit, the lone one no `ifdef arm excludes; else all, as ambiguous.      *)
Chosen(L, S, here) ==
    Found(S, IF \A c \in S : L.nodes[c].file = here THEN 10 ELSE 8)
Live(L, S) == {c \in S : ~Attr(L.nodes[c], "conditional", FALSE)}
Lone(S) == Cardinality(S) = 1

(* Mutant: several candidates are all taken for certain.                   *)
ScoredCertain(L, candidates, local, live, here) ==
    IF Lone(local) THEN Chosen(L, local, here)
    ELSE Found(candidates, 8)

Scored(L, candidates, local, live, here) ==
    IF Lone(candidates) THEN Chosen(L, candidates, here)
    ELSE IF Lone(local) THEN Chosen(L, local, here)
    ELSE IF Lone(live) THEN Chosen(L, live, here)
    ELSE Found(candidates, 6)

ScoredIn(L, candidates, local, here) ==
    Scored(L, candidates, local, Live(L, IF local # {} THEN local ELSE candidates), here)

Score(L, candidates, src) ==
    ScoredIn(L, candidates, {c \in candidates : L.nodes[c].file = UnitOf(L, src)}, UnitOf(L, src))

(* The case-insensitive match in the other language, else a stub.          *)
Crossed(candidates, stub) ==
    IF candidates = {} THEN Found({stub}, 10) ELSE Found(candidates, IF Lone(candidates) THEN 8 ELSE 6)
CrossLanguage(L, kinds, name, stub) == Crossed(DefsAnyCase(L, kinds, name), stub)

ReferrerLibrary(L, src) ==
    LET f == <<UnitOf(L, src), "FILE", <<>>>>
    IN  IF f \in DOMAIN L.nodes THEN Attr(L.nodes[f], "library", "work") ELSE "work"

Or(S, T) == IF S # {} THEN S ELSE T
Of(L, candidates, library) == {c \in candidates : Attr(L.nodes[c], "library", library) = library}

FilterLibrary(L, candidates, library, src) ==
    IF library = "" \/ Cardinality(candidates) <= 1 THEN candidates
    ELSE Or(Of(L, candidates, IF library = "work" THEN ReferrerLibrary(L, src) ELSE library), candidates)

Bodies(L, S) == {c \in S : Attr(L.nodes[c], "is_definition", FALSE)}
InLanguage(L, S, langs) == {c \in S : L.nodes[c].lang \in langs}
BodiesOf(L, foreign) == Or(Bodies(L, foreign), foreign)
FilterForeign(L, candidates, export) ==
    IF export THEN InLanguage(L, candidates, {"systemverilog", "verilog"})
    ELSE BodiesOf(L, InLanguage(L, candidates, {"c", "cpp"}))

(* Candidates of the referrer's own language before anything else.         *)
ScoredOr(L, candidates, src, kinds, name, stub) ==
    IF candidates # {} THEN Score(L, candidates, src) ELSE CrossLanguage(L, kinds, name, stub)

EntityNamed(L, name, r, library) ==
    ScoredOr(L, FilterLibrary(L, Defs(L, {"ENTITY"}, name), library, r.src), r.src,
             SvUnits, name, Stub("ENTITY", <<name>>))

(* The configuration binding of a component instance: a label beats all    *)
(* beats others; the first row wins within a rank.                         *)
Rank(b, inst) == IF inst.name \in b.labels THEN 0 ELSE IF b.scope = "all" THEN 1 ELSE 2
FirstRanked(rows, inst) ==
    {rows[k] : k \in {n \in DOMAIN rows : \A l \in DOMAIN rows :
        10 * Rank(rows[n], inst) + n <= 10 * Rank(rows[l], inst) + l}}
RowsFor(L, inst, arch, block) ==
    SelectSeq(L.bindings, LAMBDA b :
        /\ b.entity = Attr(arch, "of_entity", "") /\ b.block = block
        /\ b.component = Attr(inst, "target", "")
        /\ inst.name \in b.labels \/ b.scope \in {"all", "others"})
BindingsFor(L, inst) ==
    UNION {FirstRanked(RowsFor(L, inst, L.nodes[a], L.nodes[a].name) \o RowsFor(L, inst, L.nodes[a], ""), inst) :
              a \in Parents(L.scope, inst.id) \intersect OfKind(L, {"ARCHITECTURE"})}

(* u : configuration lib.cfg stands for the entity that cfg configures.    *)
Via(found, extra) == [found EXCEPT !.extra = extra]
Configured(L, r, cfg) ==
    IF Attr(cfg, "of_entity", "") = "" THEN Found({cfg.id}, 10)
    ELSE Via(EntityNamed(L, cfg.at.of_entity, r, Attr(cfg, "library", "")), [via_configuration |-> cfg.id])
ConfiguredBy(L, r, configs) ==
    IF configs = {} THEN Found({Stub("CONFIGURATION", <<r.name>>)}, 10)
    ELSE IF Lone(configs) THEN Configured(L, r, L.nodes[CHOOSE c \in configs : TRUE])
    ELSE Found(configs, 6)
ViaConfiguration(L, r, library) ==
    ConfiguredBy(L, r, FilterLibrary(L, Defs(L, {"CONFIGURATION"}, r.name), library, r.src))

(* A component goes where a binding says, else to the entity of its name.  *)
Component(L, r, library, bound) ==
    IF bound = {} THEN EntityNamed(L, r.name, r, library)
    ELSE LET row == CHOOSE b \in bound : TRUE
         IN  Via(EntityNamed(L, row.target, r, row.library), [bound_by |-> row.config])

VhdlInstance(L, r, inst) ==
    IF Attr(inst, "style", "component") = "configuration"
    THEN ViaConfiguration(L, r, Attr(inst, "library", ""))
    ELSE Component(L, r, Attr(inst, "library", ""),
                   IF Attr(inst, "style", "component") = "component" THEN BindingsFor(L, inst) ELSE {})

StubPath(L, r) ==
    IF r.kind # "USES_PACKAGE" THEN <<r.name>>
    ELSE <<IF Attr(r, "library", "") # "" THEN r.at.library ELSE ReferrerLibrary(L, r.src), r.name>>

(* Mutant: a base class must be of the package that is named.              *)
CandidatesQualified(L, r, named) ==
    CASE r.kind = "EXTENDS" -> {c \in named : Head(c[3]) = Attr(r, "package", "") /\ Len(c[3]) > 1}
      [] r.kind = "FOREIGN_BINDS" -> FilterForeign(L, named, Attr(r, "dpi_export", FALSE))
      [] OTHER -> named

(* What a reference names, with which confidence.                          *)
Candidates(L, r, named) ==
    CASE r.kind = "EXTENDS" ->
             Or({c \in named : Head(c[3]) = Attr(r, "package", "") /\ Len(c[3]) > 1}, named)
      [] r.kind \in {"USES_PACKAGE", "BINDS", "IMPLEMENTS"} ->
             FilterLibrary(L, named, Attr(r, "library", ""), r.src)
      [] r.kind = "FOREIGN_BINDS" -> FilterForeign(L, named, Attr(r, "dpi_export", FALSE))
      [] OTHER -> named

TargetAmong(L, r, same, cross) ==
    ScoredOr(L, Candidates(L, r, Defs(L, same, r.name)), r.src, cross, r.name,
             Stub(StubKind(r.kind), StubPath(L, r)))

ResolveTarget(L, r) ==
    IF LangOf(L, r.src) # "vhdl" \/ TargetKinds[r.kind][2] = {}
    THEN TargetAmong(L, r, TargetKinds[r.kind][1], TargetKinds[r.kind][2])
    ELSE IF L.nodes[r.src].kind = "INSTANCE" /\ r.kind # "BINDS"
    THEN VhdlInstance(L, r, L.nodes[r.src])
    ELSE TargetAmong(L, r, {"ENTITY"}, SvUnits)

(***************************************************************************)
(* Names of the enclosing unit                                             *)
(***************************************************************************)
(* The unit that scopes a node: the nearest one up the DECLARES chain.     *)
EnclosingUnits(L, i) ==
    LET up(X) == UNION {IF L.nodes[x].kind \in ScopedUnits THEN {x}
                        ELSE Parents(L.scope, x) \intersect DOMAIN L.nodes : x \in X}
    IN  Repeat(up, {i} \intersect DOMAIN L.nodes, Cardinality(L.scope)) \intersect OfKind(L, ScopedUnits)

(* What a name means inside a unit: its children and the members of its    *)
(* enums; an architecture sees its entity's as well.                       *)
VisibleIn(L, scopes, name) ==
    LET declared(S) == UNION {Children(L.scope, s) : s \in S}
        more(S) == S \union declared(S \intersect OfKind(L, {"ENUM"}))
    IN  {c \in more(declared(scopes)) : L.nodes[c].name = name}
EntitiesOf(L, unit, n) ==
    IF n.kind # "ARCHITECTURE" THEN {}
    ELSE FilterLibrary(L, Defs(L, {"ENTITY"}, Attr(n, "of_entity", "")), Attr(n, "library", ""), unit)
Visible(L, unit, name) == VisibleIn(L, {unit} \union EntitiesOf(L, unit, L.nodes[unit]), name)

(* Signals of that name: those no `ifdef arm excludes; the port of a       *)
(* non-ANSI pair.                                                          *)
PortOf(L, S) == IF Lone(S \intersect OfKind(L, {"PORT"})) THEN S \intersect OfKind(L, {"PORT"}) ELSE S
Selected(L, signals) == PortOf(L, Or(Live(L, signals), signals))

(* An undeclared name is a SIGNAL stub in the unit, a constant is nothing. *)
SignalTarget(S) == Found(S, IF Lone(S) THEN 10 ELSE 6)
TargetOf(L, unit, name, matches, signals) ==
    IF signals # {} THEN SignalTarget(Selected(L, signals))
    ELSE IF matches # {} THEN Found({}, 0)
    ELSE Found({Stub("SIGNAL", <<L.nodes[unit].name, name>>)}, 6)
TargetIn(L, unit, name, matches) ==
    TargetOf(L, unit, name, matches, matches \intersect OfKind(L, SignalKinds))
ScopedTarget(L, unit, name) == TargetIn(L, unit, name, Visible(L, unit, name))

(* _stub_child: the stub, declared by its parent.                          *)
Hosted(L, parent, stubs) ==
    LET edges == {[src |-> parent, dst |-> s, kind |-> "DECLARES", conf |-> 10, at |-> << >>] :
                     s \in {x \in stubs : x[1] = Stubs /\ ~\E e \in L.edges : e.src = parent /\ e.dst = x}}
    IN  [WithEdges(L, edges) EXCEPT !.kids = @ \union Declared(edges)]

(***************************************************************************)
(* References                                                              *)
(***************************************************************************)
EmitScoped(L, r, unit, found) == Emit(Hosted(L, unit, found.to), r, found.to, found.conf, << >>)
ScopedAmong(L, r, unit, matches, checks) ==
    IF r.kind = "ASSERTS_ON" /\ checks # {} THEN Emit(L, r, {CHOOSE c \in checks : TRUE}, 10, << >>)
    ELSE EmitScoped(L, r, unit, TargetIn(L, unit, r.name, matches))
ScopedMatches(L, r, unit, matches) ==
    ScopedAmong(L, r, unit, matches, matches \intersect OfKind(L, {"PROPERTY", "SEQUENCE"}))

(* A name outside any design unit (a covergroup in a class) is dropped.    *)
ResolveScoped(L, r) ==
    FoldSet(LAMBDA unit, N : ScopedMatches(N, r, unit, Visible(N, unit, r.name)),
            L, EnclosingUnits(L, r.src))

ModulesNamed(L, name) ==
    Or(Defs(L, {"MODULE", "ENTITY"}, name), DefsAnyCase(L, {"MODULE", "ENTITY"}, name))

(* cocotb: the device under test is a guess, so a miss makes no stub.      *)
ResolveCocotb(L, r) ==
    LET signals(m) == Selected(L, Visible(L, m, r.name) \intersect OfKind(L, SignalKinds))
    IN  IF r.kind = "TEST_COVERS" THEN Emit(L, r, ModulesNamed(L, r.name), r.conf, << >>)
        ELSE Emit(L, r, UNION {signals(m) : m \in ModulesNamed(L, Attr(r, "dut_module", ""))},
                  r.conf, << >>)

(* SLN: actions of the same unit, or the modules and instances covered.    *)
EmitFound(L, r, found) == Emit(L, r, found.to, found.conf, found.extra)
Covering(L, r, covered) == IF covered = {} THEN L ELSE EmitFound(L, r, Score(L, covered, r.src))
ResolveSln(L, r) ==
    IF r.kind = "INVOKES"
    THEN Emit(L, r, {a \in Defs(L, {"ACTION"}, r.name) : a # r.src /\ UnitOf(L, a) = UnitOf(L, r.src)},
              10, << >>)
    ELSE Covering(L, r, ModulesNamed(L, r.name) \union Defs(L, {"INSTANCE"}, r.name))

(* SDC: objects the design does not hold are skipped.                      *)
Matching(L, r, name, glob) ==
    UNION {Defs(L, QueryKinds(Attr(r, "query", "")), n) : n \in IF glob THEN Globs[name] ELSE {name}}
EmitMatches(L, r, matches, sure) == Emit(L, r, matches, IF Cardinality(matches) > 1 THEN 6 ELSE sure, << >>)
Constrained(L, r, name) ==
    EmitMatches(L, r, Matching(L, r, name, name \in DOMAIN Globs), IF name \in DOMAIN Globs THEN 8 ELSE 10)
ResolveConstrains(L, r) ==
    Constrained(L, r, IF Attr(r, "query", "") = "pins" /\ r.name \in DOMAIN PinLeaf
                      THEN PinLeaf[r.name] ELSE r.name)

(* Scripts: a file of the build, or a stub outside it.                     *)
Inside(path) == IF path \in DOMAIN Root THEN Root[path] ELSE path
FileNode(L, path) == LET real == <<path, "FILE", <<>>>>
                     IN  IF real \in DOMAIN L.nodes THEN real ELSE Stub("FILE", <<path>>)
EmitFile(L, r, file) ==
    IF r.kind # "GENERATED_FROM" THEN Emit(L, r, {file}, 10, << >>)
    ELSE WithEdges(L, {[src |-> file, dst |-> r.src, kind |-> r.kind, conf |-> 10, at |-> r.at]})
ResolveFileRef(L, r) == EmitFile(L, r, FileNode(L, Inside(r.name)))

(* An instance reads what its inputs are bound to and drives what its      *)
(* outputs are; several identifiers, or an inout, make it a guess.         *)
DataflowEdges(r, formal, expr, flows, found, conf) ==
    {[src |-> r.src, dst |-> t, kind |-> k, conf |-> Least(Least(conf, found.conf), r.conf),
      at |-> [via_port |-> formal.name, expr |-> expr]] : t \in found.to, k \in flows}
FlowTo(L, r, formal, expr, flows, unit, found, conf) ==
    WithEdges(Hosted(L, unit, found.to), DataflowEdges(r, formal, expr, flows, found, conf))
Flowing(L, r, formal, expr, flows, names, conf) ==
    FoldSet(LAMBDA p, N : FlowTo(N, r, formal, expr, flows, p[1], ScopedTarget(N, p[1], p[2]), conf),
            L, EnclosingUnits(L, r.src) \X {IF LangOf(L, r.src) = "vhdl" THEN Lower(n) ELSE n : n \in names})
Dataflow(L, r, formal, expr, flows, names, conf) ==
    Flowing(L, r, formal, expr, flows, names, IF Lone(names) /\ Lone(flows) THEN conf ELSE Least(conf, 6))
PortDataflow(L, r, port, conf, expr) ==
    LET flows == Flow(Attr(L.nodes[port], "direction", ""))
    IN  IF flows = {} THEN L ELSE Dataflow(L, r, L.nodes[port], expr, flows, Range(expr) \ Operators, conf)

(* The formals of a target in order of index.                              *)
Formals(L, target, kind) ==
    LET kids == {k \in Children(L.kids, target) :
                    L.nodes[k].kind = kind /\ ~Attr(L.nodes[k], "is_localparam", FALSE)}
    IN  SetToSortSeq(kids, LAMBDA a, b :
            Attr(L.nodes[a], "index", 0) < Attr(L.nodes[b], "index", 0))

(* One CONNECTS or PARAMETERIZES reference against one target.             *)
Bound(L, r, k, conf, expr, extra) ==
    IF r.kind = "CONNECTS" THEN PortDataflow(Emit(L, r, {k}, conf, extra), r, k, conf, expr)
    ELSE Emit(L, r, {k}, conf, extra)

(* A formal is found by its name, without regard to case when either side  *)
(* is VHDL, or by its position.                                            *)
SameName(a, b, fold) == a = b \/ (fold /\ Lower(a) = Lower(b))
ByName(L, formals, name, fold) ==
    SelectSeq(formals, LAMBDA k : L.nodes[k].name = name) \o
    SelectSeq(formals, LAMBDA k : SameName(L.nodes[k].name, name, fold))
Matched(L, r, target, formals) ==
    IF Attr(r, "formal", "") # ""
    THEN ByName(L, formals, r.at.formal, "vhdl" \in {LangOf(L, r.src), L.nodes[target].lang})
    ELSE IF Attr(r, "position", 0) \in DOMAIN formals THEN <<formals[r.at.position]>> ELSE <<>>

(* .* binds every formal of a resolved target; an undefined one gets the   *)
(* named formal as a stub; a mismatch stays an edge to the target.         *)
ToChild(L, r, target, child, conf, extra) ==
    Bound(Hosted(L, target, {child}), r, child, conf, Attr(r, "expr", <<>>), extra)
BindTo(L, r, target, kind, formals, matched, conf, extra) ==
    CASE Attr(r, "wildcard", FALSE) ->
            IF formals = <<>> \/ Unresolved(L, target) THEN Emit(L, r, {target}, conf, extra)
            ELSE FoldLeft(LAMBDA N, k : Bound(N, r, k, conf, <<L.nodes[k].name>>,
                                              extra @@ [formal |-> L.nodes[k].name]), L, formals)
      [] ~Attr(r, "wildcard", FALSE) /\ matched # <<>> ->
            Bound(L, r, Head(matched), conf, Attr(r, "expr", <<>>), extra)
      [] OTHER ->
            IF Unresolved(L, target) /\ Attr(r, "formal", "") # ""
            THEN ToChild(L, r, target, Stub(kind, <<L.nodes[target].name, r.at.formal>>), conf, extra)
            ELSE Emit(L, r, {target}, Least(conf, 6), extra)
BindAmong(L, r, target, kind, formals, conf, extra) ==
    BindTo(L, r, target, kind, formals, Matched(L, r, target, formals), conf, extra)

(* One CONNECTS or PARAMETERIZES reference against one target.             *)
ResolveBinding(L, r, target, kind, conf, extra) ==
    BindAmong(L, r, target, kind, Formals(L, target, kind), conf, extra)

Binding(r) ==
    [entity |-> Attr(r, "of_entity", ""), block |-> Attr(r, "block", ""),
     component |-> Attr(r, "component", ""), labels |-> Attr(r, "labels", {}),
     scope |-> Attr(r, "instances", IF "labels" \in DOMAIN r.at THEN "labels" ELSE "all"),
     target |-> r.name, library |-> Attr(r, "library", ""), config |-> r.src]

(* Whatever else a BINDS reference is, a binding is put on record.         *)
RecordBinding(L, r) ==
    IF r.kind = "BINDS" /\ Attr(r, "role", "") = "binding"
       /\ Binding(r).entity # "" /\ Binding(r).component # ""
    THEN [L EXCEPT !.bindings = Append(@, Binding(r))] ELSE L

Applied(L, r, found) ==
    IF r.kind \in {"CONNECTS", "PARAMETERIZES"}
    THEN FoldSet(LAMBDA t, N : ResolveBinding(N, r, t, IF r.kind = "CONNECTS" THEN "PORT" ELSE "PARAMETER",
                                              found.conf, found.extra),
                 Ensured(L, found.to), found.to)
    ELSE EmitFound(L, r, found)
ResolveGlobal(L, r) == Applied(L, r, ResolveTarget(L, r))

Resolve(L, r) ==
    IF Attr(r, "cocotb", FALSE) THEN ResolveCocotb(L, r)
    ELSE IF Attr(r, "sln", FALSE) THEN ResolveSln(L, r)
    ELSE IF r.kind = "CONSTRAINS" THEN ResolveConstrains(L, r)
    ELSE IF Attr(r, "file_ref", FALSE) THEN ResolveFileRef(L, r)
    ELSE IF r.kind \in ScopedKinds THEN ResolveScoped(L, r)
    ELSE ResolveGlobal(RecordBinding(L, r), r)

Refs(irs) == FlattenSeq([i \in DOMAIN irs |-> irs[i].refs])

(***************************************************************************)
(* The full link                                                           *)
(***************************************************************************)
(* _Linker(irs): first occurrence owns a node; endpoints of local edges    *)
(* that nobody declares are stubs.                                         *)
Loaded(irs) ==
    LET edges == UNION {irs[i].edges : i \in DOMAIN irs}
        bare == [nodes |-> FirstNodes(irs), edges |-> {}, unit |-> FirstUnit(irs), bindings |-> <<>>,
                 scope |-> Declared(edges), kids |-> Declared(edges)]
    IN  WithEdges(bare, edges)

(* Mutant: configuration bindings are met in source order.                 *)
LinkedInOrder(L, refs) == FoldLeft(Resolve, L, refs)

(* link: BINDS references first.                                           *)
Linked(L, refs) ==
    FoldLeft(Resolve, L, SelectSeq(refs, LAMBDA r : r.kind = "BINDS")
                            \o SelectSeq(refs, LAMBDA r : r.kind # "BINDS"))

Graph(L) == [nodes |-> L.nodes, edges |-> L.edges]
Covered(g) == [g EXCEPT !.edges = @ \union TestCovers(g)]

LinkGraph(irs) == WithSdcEvidence(Covered(Graph(Linked(Loaded(irs), Refs(irs)))))

(***************************************************************************)
(* The incremental link                                                    *)
(***************************************************************************)
DefinitionKinds == UNION {TargetKinds[k][1] \union TargetKinds[k][2] : k \in DOMAIN TargetKinds}

(* Definitions of the dirty files, before and after.                       *)
ChangedNames(g, irs, dirty) ==
    LET new == UNION {irs[i].nodes : i \in DOMAIN irs}
        old == {g.nodes[i] : i \in DOMAIN g.nodes}
    IN  {<<n.kind, n.name>> : n \in {x \in old \union new : x.kind \in DefinitionKinds /\ x.file \in dirty}}

(* Sources of the stored references that a changed definition may move.    *)
AffectedSrcs(index, changed) ==
    {x.ref.src : x \in {y \in index : y.ref.kind \in DOMAIN TargetKinds /\
        \E k \in TargetKinds[y.ref.kind][1] \union TargetKinds[y.ref.kind][2] :
            <<k, y.ref.name>> \in changed}}

(* ref_index: every reference with its unit.                               *)
RefIndex(irs) ==
    {[unit |-> irs[i].path, ref |-> r] :
        <<i, r>> \in UNION {{i} \X Range(irs[i].refs) : i \in DOMAIN irs}}

(* Mutant: stubs stay when nothing refers to them any more.                *)
WithoutOrphansKept(g) == g

(* Stubs that no reference holds any more, directly or as the host or the  *)
(* child of one that is held, are dropped.                                 *)
WithoutOrphans(g) ==
    LET stubs == {i \in DOMAIN g.nodes : Unresolved(g, i)}
        ends(k) == UNION {{e.src, e.dst} : e \in {x \in g.edges : (x.kind = "DECLARES") = k}}
        near(i) == stubs \intersect UNION {{e.src, e.dst} :
                       e \in {x \in g.edges : x.kind = "DECLARES" /\ i \in {x.src, x.dst}}}
        kept == Reach(stubs \intersect ends(FALSE), near, Cardinality(stubs))
        stay == DOMAIN g.nodes \ (stubs \ kept)
    IN  [nodes |-> [i \in stay |-> g.nodes[i]], edges |-> {e \in g.edges : {e.src, e.dst} \subseteq stay}]

(* What an update keeps of the stored graph: nodes of clean files, edges   *)
(* between them but the affected sources' resolved ones.                   *)
Surviving(g, dirty, affected) ==
    LET stay == {i \in DOMAIN g.nodes : g.nodes[i].file \notin dirty}
    IN  [nodes |-> [i \in stay |-> g.nodes[i]],
         edges |-> {e \in g.edges : /\ {e.src, e.dst} \subseteq stay /\ e.kind # "TEST_COVERS"
                                    /\ e.kind \in Pass1 \/ e.src \notin affected}]

(* Fresh nodes and edges of the dirty units over a base.                   *)
Spliced(base, irs, dirty) ==
    LET fresh == SelectSeq(irs, LAMBDA ir : ir.path \in dirty)
        nodes == base.nodes @@ FirstNodes(fresh)
        pairs(edges) == {<<e.src, e.dst, e.kind>> : e \in {x \in edges : x.kind \in Pass1}}
        edges == {e \in UNION {fresh[i].edges : i \in DOMAIN fresh} :
                    <<e.src, e.dst, e.kind>> \notin pairs(base.edges)}
        L == [nodes |-> nodes, edges |-> base.edges, unit |-> FirstUnit(irs), bindings |-> <<>>,
              scope |-> Declared(base.edges \union edges), kids |-> Declared(base.edges \union edges)]
    IN  WithEdges(L, edges)

(* Live references: of a dirty unit, or of an affected source.             *)
LiveRefs(irs, dirty, affected) ==
    FlattenSeq([i \in DOMAIN irs |->
        SelectSeq(irs[i].refs, LAMBDA r : irs[i].path \in dirty \/ r.src \in affected)])

LinkIncremental(irs, g, dirty, affected) ==
    LET L == Spliced(Surviving(g, dirty, affected), irs, dirty)
    IN  Covered(WithoutOrphans(Graph(FoldLeft(Resolve, L, LiveRefs(irs, dirty, affected)))))

(***************************************************************************)
(* The bounded link and the scoped write                                   *)
(***************************************************************************)
(* Of the stored edges: the first-pass ones of the affected sources, and   *)
(* what surrounds the stubs, by which the collection knows which to keep.  *)
AffectedPass1(db, affected) == {e \in db.edges : e.src \in affected /\ e.kind \in Pass1}
StubNeighbourhood(base, stubs) == {e \in base.edges : {e.src, e.dst} \intersect stubs # {}}

(* Nodes that are only ends of edges so far are looked up.                 *)
Hydrated(L, db, ids, edges) ==
    LET known == L.nodes @@ db.nodes
        all == ids \union UNION {{e.src, e.dst} : e \in edges}
    IN  [nodes |-> [i \in all \intersect DOMAIN known |-> known[i]], edges |-> edges]

(* link_incremental_bounded: stored nodes are looked up as needed; what is *)
(* assembled is the fresh part and those stored edges.                     *)
LinkBounded(irs, db, dirty, affected) ==
    LET base == Surviving(db, dirty, affected)
        start == [Spliced(base, irs, dirty) EXCEPT !.edges = @ \ base.edges]
        L == FoldLeft(Resolve, start, LiveRefs(irs, dirty, affected))
        stubs == {i \in DOMAIN base.nodes : Unresolved(base, i)}
    IN  WithoutOrphans(Hydrated(L, db, (DOMAIN L.nodes \ DOMAIN base.nodes) \union stubs,
            L.edges \union AffectedPass1(db, affected) \union StubNeighbourhood(base, stubs)))

(* _apply_delta_scoped on the node and edge tables.                        *)
ScopedWrite(db, g, touched, affected) ==
    LET scoped(h) == {i \in DOMAIN h.nodes : h.nodes[i].file \in touched \union {""}}
        srcs == scoped(db) \union scoped(g) \union affected
        stay == DOMAIN db.nodes \ scoped(db)
    IN  [nodes |-> [i \in stay \union scoped(g) |-> IF i \in scoped(g) THEN g.nodes[i] ELSE db.nodes[i]],
         edges |-> {e \in db.edges : e.src \notin srcs} \union {e \in g.edges : e.src \in srcs}]

(* test_covers_sql reads this part of the stored graph, and replaces the   *)
(* stored set by what it derives.                                          *)
Structural(g) ==
    LET edges == Edges(g, {"DECLARES", "INSTANTIATES", "EXTENDS"})
        nodes == OfKind(g, {"MODULE", "ENTITY", "INSTANCE", "CLASS"})
                    \union UNION {{e.src, e.dst} : e \in edges}
    IN  [nodes |-> [i \in nodes \intersect DOMAIN g.nodes |-> g.nodes[i]], edges |-> edges]

Recovered(g) ==
    [g EXCEPT !.edges = (@ \ Edges(g, {"TEST_COVERS"})) \union TestCovers(Structural(g))]

(* What depends on the order of the references and on what was linked      *)
(* before: nets nobody declares, which exist as stubs of the unit, and     *)
(* positional bindings against the formals that named ones gave an         *)
(* undefined module.                                                       *)
Plain(g) ==
    \A i \in DOMAIN g.nodes : Unresolved(g, i) =>
        /\ g.nodes[i].kind # "SIGNAL"
        /\ \A e \in g.edges : e.dst = i /\ e.kind \in {"CONNECTS", "PARAMETERIZES"} =>
                Attr(e, "formal", "") # "" \/ Attr(e, "wildcard", FALSE)
=============================================================================
