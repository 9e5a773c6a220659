-------------------------------- MODULE Relink --------------------------------
(***************************************************************************)
(* A stored graph under edits: a unit's IR is replaced, added or removed,  *)
(* and a run links again, in full or one of the two ways an update does.   *)
(***************************************************************************)
EXTENDS Linker

CONSTANTS
    Designs,    \* the designs: each a sequence of units, a unit the sequence of
                \* the IRs it may have; a unit that has none is not there
    MaxEdits    \* how many units may differ from what is stored

VARIABLES
    design,     \* the design
    texts,      \* unit -> number of its IR now; 0: not there
    built,      \* unit -> number of its IR when the graph was stored
    db          \* the stored graph

vars == <<design, texts, built, db>>

Units == design

(* The IRs of the units that are there.                                    *)
Present(t) ==
    LET there == SelectSeq([i \in DOMAIN Units |-> i], LAMBDA i : t[i] # 0)
    IN  [k \in DOMAIN there |-> Units[there[k]][t[there[k]]]]
Languages(t) == UNION {{n.lang : n \in Present(t)[i].nodes} : i \in DOMAIN Present(t)}

(* Designs that an update links in full: run_update's and                  *)
(* incremental_link_safe's exclusions.                                     *)
Wide(t) == \/ Languages(t) \intersect {"vhdl", "python", "tcl", "perl", "sln"} # {}
           \/ \E x \in RefIndex(Present(t)) : x.ref.kind = "BINDS"

(* The files whose nodes an edit of the units that changed may replace.    *)
Dirty == {Units[i][1].path : i \in {k \in DOMAIN Units : texts[k] # built[k]}}

Affected ==
    LET fresh == SelectSeq(Present(texts), LAMBDA ir : ir.path \in Dirty)
    IN  AffectedSrcs(RefIndex(Present(built)), ChangedNames(db, fresh, Dirty))

Init ==
    /\ design \in Range(Designs)
    /\ built = [i \in DOMAIN Units |-> 0]
    /\ texts = built
    /\ db = LinkGraph(<<>>)

Edit(i, k) ==
    /\ texts[i] # built[i] \/ Cardinality({j \in DOMAIN Units : texts[j] # built[j]}) < MaxEdits
    /\ k # texts[i]
    /\ texts' = [texts EXCEPT ![i] = k]
    /\ UNCHANGED <<design, built, db>>

Stored(g) == /\ db' = g /\ built' = texts /\ UNCHANGED <<design, texts>>

(* A run that finds no unit writes nothing.                                *)
Changed == texts # built /\ Present(texts) # <<>>
LinkAll == /\ Changed
           /\ Stored(LinkGraph(Present(texts)))

(* A stored edge to a node that is gone stops the load of the whole graph. *)
Whole(g) == \A e \in g.edges : {e.src, e.dst} \subseteq DOMAIN g.nodes

(* Without stored units an update is a build.                              *)
LinkLoaded ==
    /\ Changed
    /\ Present(built) # <<>>
    /\ ~Wide(texts) /\ ~Wide(built) /\ Whole(db)
    /\ LET g == LinkIncremental(Present(texts), db, Dirty, Affected)
       IN  Stored(Recovered(ScopedWrite(db, g, Dirty, Affected)))

LinkSelected ==
    /\ Changed
    /\ Present(built) # <<>>
    /\ ~Wide(texts) /\ ~Wide(built)
    /\ LET needed == {x.unit : x \in {y \in RefIndex(Present(built)) : y.ref.src \in Affected}}
           irs == SelectSeq(Present(texts), LAMBDA ir : ir.path \in Dirty \union needed)
       IN  Stored(Recovered(ScopedWrite(db, LinkBounded(irs, db, Dirty, Affected), Dirty, Affected)))

Next ==
    \/ \E i \in DOMAIN Units : \E k \in 0..Len(Units[i]) : Edit(i, k)
    \/ LinkAll
    \/ LinkLoaded
    \/ LinkSelected

Spec == Init /\ [][Next]_vars

(***************************************************************************)
(* Properties                                                              *)
(***************************************************************************)
(* Nodes are stored under their own id and edges at a defined confidence.  *)
TypeOK ==
    /\ \A i \in DOMAIN db.nodes : db.nodes[i].id = i
    /\ \A e \in db.edges : e.conf \in {4, 6, 8, 10}
    /\ \A i \in DOMAIN Units : {texts[i], built[i]} \subseteq 0..Len(Units[i])

(* The sources whose first-pass rows a bounded link reads back although    *)
(* their file changed or is gone: references to what changed with it.      *)
Revived == {e.src : e \in {x \in AffectedPass1(db, Affected) : db.nodes[x.src].file \in Dirty}}

(* An update's link (builder.link_incremental, bounded_link) turns the     *)
(* graph of the old units into the graph a build makes of the new ones,    *)
(* row for row, whichever way it goes, but for the rows Plain excludes,    *)
(* and for those that a bounded link revives.                              *)
RelinkExact ==
    [][(db' # db /\ db = LinkGraph(Present(built)) /\ Plain(db) /\ Plain(LinkGraph(Present(texts))))
           => \/ db' = LinkGraph(Present(texts))
              \/ Revived # {} /\ LinkSelected]_vars

(* builder.link_incremental: "The result is byte-identical to link_graph". *)
RelinkAlwaysExact == [][db' # db => db' = LinkGraph(Present(texts))]_vars

(* Whatever order the units come in, a full link makes the same graph of   *)
(* them (link_incremental relies on it), Plain graphs given.               *)
OrderFree ==
    texts = built =>
        LET irs == Present(built)
        IN  Plain(LinkGraph(irs)) => LinkGraph(Reverse(irs)) = LinkGraph(irs)

(* A reference with an edge above 0.6 was not a choice: the edge is its    *)
(* only one (the confidence contract of builder._score and schema.py).     *)
CertaintyUnique ==
    \A e \in db.edges : \A o \in db.edges :
        (e.conf > 6 /\ e.kind \in DOMAIN TargetKinds \union ScopedKinds /\ e.kind # "TEST_COVERS"
           /\ "site" \in DOMAIN e.at /\ o.src = e.src /\ o.kind = e.kind /\ o.at = e.at) => o = e

(* A stub stands for a missing definition only: no reference to a module,  *)
(* class or package of the design ends at a stub of its name.              *)
StubsMissing ==
    (texts = built /\ db = LinkGraph(Present(built))) =>
        \A x \in RefIndex(Present(built)) : \A i \in DOMAIN db.nodes :
            (Unresolved(db, i) /\ db.nodes[i].kind \in {"MODULE", "PACKAGE", "CLASS"}
               /\ x.ref.name = db.nodes[i].name) => Defs(db, {db.nodes[i].kind}, x.ref.name) = {}
=============================================================================
