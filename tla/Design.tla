------------------------------- MODULE Design -------------------------------
(***************************************************************************)
(* What hdl-kgraph computes from a tree of SystemVerilog sources: pass 0   *)
(* (preprocessing in compile order, one macro table for the whole run),    *)
(* pass 1 (one IR per compilation unit) and pass 2 (the linker).  No state *)
(* is kept here: the operators below are the functions that a full build   *)
(* and an incremental update share, and FullBuild is the database that     *)
(* `hdl-kgraph build` writes.                                              *)
(*                                                                         *)
(* A file's text is abstracted to a record (Content) whose directives come *)
(* in one order: includes, `ifdef blocks, `define / `undef, instances.     *)
(***************************************************************************)
EXTENDS Integers, SequencesExt

CONSTANTS
    Order,      \* the discoverable files, in discovery (compile) order
    Hidden,     \* files discovery skips (suffix, excluded, too large) that
                \* an `include can still reach
    PathOrder,  \* the texts an `include can name
    Search,     \* the files an include text can denote, in search order
    Names,      \* module names
    Macros,     \* macro names
    Absent,     \* no such file / unresolved
    Silent,     \* no directive about a macro
    Undef,      \* the macro is not defined
    Stub        \* the file field of an unresolved stub node

Discoverable == Range(Order)
Files == Discoverable \union Hidden
Paths == Range(PathOrder)

(* A file's text.  cond holds the definitions guarded by an `ifdef; use    *)
(* the macros it expands, each to an instance of the module the macro's    *)
(* body names; mac the file's own `define or `undef of each macro.         *)
Content == [inc  : SUBSET Paths,
            defs : SUBSET Names,
            cond : SUBSET (Macros \X Names),
            refs : SUBSET Names,
            use  : SUBSET Macros,
            mac  : [Macros -> Names \union {Undef, Silent}]]

(* A file defines a name once (a node id is made of the file and the name).*)
DefinesOnce(c) ==
    /\ \A x, y \in c.cond : x[2] = y[2] => x = y
    /\ \A x \in c.cond : x[2] \notin c.defs

Tree == [Files -> Content \union {Absent}]

ASSUME OrderAssumption ==
    /\ Order \in Seq(Discoverable)
    /\ \A i, j \in DOMAIN Order : Order[i] = Order[j] => i = j
ASSUME PathOrderAssumption == PathOrder \in Seq(Paths)
ASSUME SearchAssumption == Search \in [Paths -> Seq(Files)]
ASSUME DistinctAssumption ==
    /\ Absent \notin Content
    /\ Absent \notin Files
    /\ Stub \notin Files
    /\ {Undef, Silent} \intersect (Names \union Files \X Names) = {}
    /\ Undef # Silent

Precedes(f, g) ==
    \E i, j \in DOMAIN Order : i < j /\ Order[i] = f /\ Order[j] = g

Present(d) == {f \in Discoverable : d[f] # Absent}

(* What the files table says of a tree: contents stand for their hashes.   *)
Hashes(d) == [f \in Discoverable |-> d[f]]

(***************************************************************************)
(* Pass 0: includes and macros                                             *)
(***************************************************************************)
(* The first existing candidate.                                           *)
Resolve(d, p) ==
    LET hits == {i \in DOMAIN Search[p] : d[Search[p][i]] # Absent}
    IN  IF hits = {} THEN Absent
        ELSE Search[p][CHOOSE i \in hits : \A j \in hits : i <= j]

IncludeRel(d) ==
    UNION {{<<f, g>> : g \in {Resolve(d, p) : p \in d[f].inc} \intersect Files} :
              f \in {x \in Files : d[x] # Absent}}

(* The least set that contains S and is closed under R.                    *)
Closure(R, S) ==
    {f \in Files : \A T \in SUBSET Files :
        (S \subseteq T /\ \A e \in R : e[1] \in T => e[2] \in T) => f \in T}

(* The files a unit's expanded text is made of.                            *)
Spliced(d, u) == Closure(IncludeRel(d), {u})

(* The texts of a unit in the order they are spliced: a header's text      *)
(* comes before the text of the file that includes it, once per include    *)
(* directive; a file that is still open is not entered again.  visit gives *)
(* what the first k include texts of file f splice while open are open.    *)
Expansion(d, u) ==
    LET N == Len(PathOrder)
        visit[at \in (0..N) \X Files \X SUBSET Files] ==
            LET k == at[1]  f == at[2]  open == at[3]
                header == Resolve(d, PathOrder[k])
            IN  IF k = 0 THEN << >>
                ELSE visit[<<k - 1, f, open>>] \o
                     (IF \/ PathOrder[k] \notin d[f].inc
                         \/ header = Absent \/ header \in open
                      THEN << >>
                      ELSE Append(visit[<<N, header, open \union {header}>>], header))
    IN  Append(visit[<<N, u, {u}>>], u)

(* What a file's own directive does to macro m: nothing, `undef, or a      *)
(* definition, kept with its file.                                         *)
Directive(d, f, m) ==
    IF d[f].mac[m] \in {Undef, Silent} THEN d[f].mac[m] ELSE <<f, d[f].mac[m]>>

(* What the texts seq[1..n] together do to macro m.                        *)
Effect(d, seq, n, m) ==
    LET at == {i \in 1..n : d[seq[i]].mac[m] # Silent}
    IN  IF at = {} THEN Silent
        ELSE Directive(d, seq[CHOOSE i \in at : \A j \in at : j <= i], m)

Over(effect, binding) == IF effect = Silent THEN binding ELSE effect

(* The text's IR depends on the binding of m it meets.                     *)
Sensitive(c, m) ==
    \/ m \in c.use /\ c.mac[m] = Silent
    \/ \E x \in c.cond : x[1] = m

(***************************************************************************)
(* Pass 1: the IR of a unit, as stored in file_irs.  text holds the        *)
(* contents it was made from, res how its includes resolved, first and     *)
(* seen the macro bindings each text met (when first spliced, and in any   *)
(* of its splices), events the unit's mutations of the macro table.        *)
(***************************************************************************)
Parse(d, u, table) ==
    LET seq   == Expansion(d, u)
        inu   == Spliced(d, u)
        at(f) == {i \in DOMAIN seq : seq[i] = f}
        met(f, i) == [m \in Macros |->
                        IF Sensitive(d[f], m)
                        THEN Over(Effect(d, seq, i - 1, m), table[m])
                        ELSE Silent]
    IN  [text   |-> [f \in Files |-> IF f \in inu THEN d[f] ELSE Absent],
         res    |-> [p \in Paths |-> IF \E f \in inu : p \in d[f].inc
                                     THEN Resolve(d, p) ELSE Absent],
         first  |-> [f \in inu |->
                        met(f, CHOOSE i \in at(f) : \A j \in at(f) : i <= j)],
         seen   |-> [f \in inu |-> {met(f, i) : i \in at(f)}],
         events |-> [m \in Macros |-> Effect(d, seq, Len(seq), m)]]

Included(ir, u) == {f \in Files \ {u} : ir.text[f] # Absent}

(* The nodes, references and dependencies a unit's IR holds for file f.    *)
(* Both arms of an `ifdef on an undefined macro are kept, the one not      *)
(* selected marked conditional.                                            *)
DefsBinding(ir, f) ==
    IF ir.text[f] = Absent THEN {}
    ELSE {[file |-> f, name |-> n, conditional |-> FALSE] : n \in ir.text[f].defs}
         \union
         {[file |-> f, name |-> c[2], conditional |-> ir.first[f][c[1]]] : c \in ir.text[f].cond}

Defs(ir, f) ==
    IF ir.text[f] = Absent THEN {}
    ELSE {[file |-> f, name |-> n, conditional |-> FALSE] : n \in ir.text[f].defs}
         \union
         {[file |-> f, name |-> c[2], conditional |-> ir.first[f][c[1]] = Undef] :
            c \in ir.text[f].cond}

Uses(ir, f) ==
    IF ir.text[f] = Absent THEN {}
    ELSE {<<m, Over(Directive(ir.text, f, m), b[m])>> :
            m \in ir.text[f].use, b \in ir.seen[f]}

Refs(ir, f) ==
    IF ir.text[f] = Absent THEN {}
    ELSE ir.text[f].refs \union {x[2][2] : x \in {y \in Uses(ir, f) : y[2] # Undef}}

NoDep == [inc |-> {}, def |-> {}, use |-> {}]

Dep(ir, f) ==
    IF ir.text[f] = Absent THEN NoDep
    ELSE [inc |-> {<<p, ir.res[p]>> : p \in ir.text[f].inc},
          def |-> {<<m, ir.text[f].mac[m]>> :
                     m \in {x \in Macros : ir.text[f].mac[x] \notin {Undef, Silent}}},
          use |-> {<<x[1], IF x[2] = Undef THEN Absent ELSE x[2][1]>> : x \in Uses(ir, f)}]

(***************************************************************************)
(* The run over the discovered files in order.  A file that an earlier     *)
(* unit spliced is skipped; a clean unit contributes its stored IR and     *)
(* macro events, any other is preprocessed and parsed from disk.  The      *)
(* result maps every unit of the run to its IR.                            *)
(***************************************************************************)
Splices(d, clean, stored, f) ==
    IF f \in clean THEN Included(stored[f], f) ELSE Spliced(d, f) \ {f}

Compiled(present, spliced) ==
    CHOOSE U \in SUBSET present :
        \A f \in present : f \in U <=> \A u \in U : Precedes(u, f) => f \notin spliced[u]

Units(present, d, clean, stored) ==
    Compiled(present, [f \in present |-> Splices(d, clean, stored, f)])

Events(d, clean, stored, f, m) ==
    IF f \in clean THEN stored[f].events[m]
    ELSE LET seq == Expansion(d, f) IN Effect(d, seq, Len(seq), m)

(* The macro table that unit f starts with.                                *)
Table(units, d, clean, stored, f) ==
    LET told(m) == {u \in units : Precedes(u, f) /\ Events(d, clean, stored, u, m) # Silent}
        last(m) == CHOOSE u \in told(m) : \A v \in told(m) \ {u} : Precedes(v, u)
    IN  [m \in Macros |->
            IF told(m) = {} THEN Undef ELSE Events(d, clean, stored, last(m), m)]

Pass1(present, d, clean, stored) ==
    LET units == Units(present, d, clean, stored)
    IN  [f \in units |-> IF f \in clean THEN stored[f]
                         ELSE Parse(d, f, Table(units, d, clean, stored, f))]

(***************************************************************************)
(* Pass 2: the linker                                                      *)
(***************************************************************************)
(* The linker's list of units: those of head first, each part in compile   *)
(* order.                                                                  *)
Before(head, u, v) ==
    IF u \in head <=> v \in head THEN Precedes(u, v) ELSE u \in head

(* The compilation unit a file's nodes are taken from: the first in the    *)
(* list whose IR holds the file.                                           *)
Owner(units, head, irs, f) ==
    LET at == {u \in units : irs[u].text[f] # Absent}
    IN  IF at = {} THEN Absent
        ELSE CHOOSE u \in at : \A v \in at \ {u} : Before(head, u, v)

(* The edges one reference to name n from file f resolves to, among the    *)
(* definitions defs, for a source node owned by unit own.                  *)
Score(defs, own, f, n) ==
    LET cands == {x \in defs : x.name = n}
        local == {x \in cands : x.file = own}
        selected == {x \in (IF local # {} THEN local ELSE cands) : ~x.conditional}
        best(S) == {<<f, n, x.file, IF x.file = own THEN "resolved" ELSE "unique">> : x \in S}
    IN  IF cands = {} THEN {<<f, n, Stub, "resolved">>}
        ELSE IF Cardinality(cands) = 1 THEN best(cands)
        ELSE IF Cardinality(local) = 1 THEN best(local)
        ELSE IF Cardinality(selected) = 1 THEN best(selected)
        ELSE {<<f, n, x.file, "ambiguous">> : x \in cands}

(* Every reference of an IR, with the file its source node is in.          *)
RefsOf(ir) == {r \in Files \X Names : r[2] \in Refs(ir, r[1])}

StubsModules(dep, edges) == {<<"module", e[2]>> : e \in {x \in edges : x[3] = Stub}}

(* The stub nodes that dependency and reference edges end in.              *)
Stubs(dep, edges) ==
    {<<"module", e[2]>> : e \in {x \in edges : x[3] = Stub}}
    \union
    UNION {{<<"include", x[1]>> : x \in {y \in dep[f].inc : y[2] = Absent}}
           \union
           {<<"macro", x[1]>> : x \in {y \in dep[f].use : y[2] = Absent}} : f \in Files}

(* The dependency edges a set of IRs gives each file: pass-1 edges are     *)
(* deduplicated across IRs, never dropped.                                 *)
DepOf(irset) ==
    [f \in Files |-> [inc |-> UNION {Dep(ir, f).inc : ir \in irset},
                      def |-> UNION {Dep(ir, f).def : ir \in irset},
                      use |-> UNION {Dep(ir, f).use : ir \in irset}]]

IRs(irs, units) == {irs[u] : u \in units}

(***************************************************************************)
(* The database a full build writes: the files table (hash, and which      *)
(* files were skipped as included), file_irs, the FILE nodes, the          *)
(* dependency edges, the definition nodes, ref_index by owning unit, the   *)
(* resolved references and the stub nodes.                                 *)
(***************************************************************************)
Database(hash, irs) ==
    LET units == DOMAIN irs
        own(f) == Owner(units, {}, irs, f)
        owned == {f \in Files : own(f) # Absent}
        nodes == UNION {Defs(irs[own(f)], f) : f \in owned}
        dep   == DepOf(IRs(irs, units))
        inst  == UNION {Score(nodes, own(r[1]), r[1], r[2]) :
                          r \in UNION {RefsOf(irs[u]) : u \in units}}
    IN  [hash  |-> hash,
         skip  |-> {f \in Discoverable : hash[f] # Absent} \ units,
         ir    |-> irs,
         fnode |-> owned,
         dep   |-> dep,
         nodes |-> nodes,
         refs  |-> [u \in Discoverable |-> IF u \in units THEN RefsOf(irs[u]) ELSE {}],
         inst  |-> inst,
         stubs |-> Stubs(dep, inst)]

FullBuild(d) == Database(Hashes(d), Pass1(Present(d), d, {}, << >>))
=============================================================================
