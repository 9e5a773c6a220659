-------------------------------- MODULE KGraph --------------------------------
(***************************************************************************)
(* The knowledge graph as a value: a function from ids to nodes and a set  *)
(* of edges.  An id is the triple of file, kind and scope path (ids.py);   *)
(* the file of a stub's id is Stubs.  The optional attributes of nodes and *)
(* edges are the fields of their record at.  Confidences are tenths.       *)
(***************************************************************************)
EXTENDS Integers, SequencesExt, FiniteSetsExt

CONSTANTS
    Fold,       \* name -> lower-case name, for the names that are not
    Roles,      \* base class named uvm_* -> role
    TbNames,    \* the names _TB_NAME_RE matches
    Globs,      \* glob pattern -> the names it matches
    Qualified   \* pattern with a dot -> the scope paths (qualified names) it matches

Stubs == "unresolved"
Lower(name) == IF name \in DOMAIN Fold THEN Fold[name] ELSE name
Least(a, b) == IF a <= b THEN a ELSE b

Glob(pattern) == IF pattern \in DOMAIN Globs THEN Globs[pattern] ELSE {pattern}

(* attrs.get(a, default), of a node, an edge or a reference.               *)
Attr(x, a, default) == IF a \in DOMAIN x.at THEN x.at[a] ELSE default

Unresolved(g, i) == Attr(g.nodes[i], "unresolved", FALSE)
OfKind(g, kinds) == {i \in DOMAIN g.nodes : g.nodes[i].kind \in kinds}
Edges(g, kinds) == {e \in g.edges : e.kind \in kinds}
OutOf(g, i, kind) == {e.dst : e \in {x \in g.edges : x.src = i /\ x.kind = kind}}
Into(g, i, kind) == {e.src : e \in {x \in g.edges : x.dst = i /\ x.kind = kind}}

(* The names by which an element is found again, for sets of them.         *)
NamesOf(g, S) == {g.nodes[i].name : i \in S}

(* n rounds of a step from x (each value is computed before the next: TLC  *)
(* would otherwise nest the steps).                                        *)
Repeat(step(_), x, n) ==
    FoldSet(LAMBDA k, y : CHOOSE z \in {step(w) : w \in {y}} : TRUE, x, 1..n)

(* Everything reachable from S in at most n steps of the relation.         *)
Reach(S, next(_), n) ==
    LET step(X) == X \union UNION {next(x) : x \in X} IN Repeat(step, S, n)
=============================================================================
