--------------------------- MODULE Freshness_proofs ---------------------------
(***************************************************************************)
(* Updates keep every stored parse result current, for every tree in which *)
(* an included file includes nothing itself and files keep still while an  *)
(* update runs; and where files are edited while it runs, but not created  *)
(* or changed back, what is not current is what the next update will see.  *)
(* (Without these conditions TLC finds counterexamples.)  Where files keep *)
(* still, the macro bodies a unit's own text expanded are current as well. *)
(***************************************************************************)
EXTENDS Update_proofs

IsHeader(f) == \E p \in Paths : f \in Range(Search[p])

FlatIncludes ==
    \A f \in Files : \A c \in Versions[f] : IsHeader(f) /\ c # Absent => c.inc = {}

Legal(d) == d \in Tree /\ \A f \in Files : d[f] \in Versions[f]

(* A stored IR: its texts are texts the files can have, its includes reach *)
(* texts it holds, and it holds no others.                                 *)
WellParsed(ir, u) ==
    /\ \A f \in Files : ir.text[f] \in Versions[f] \union {Absent}
    /\ ir.text[u] # Absent
    /\ \A p \in ir.text[u].inc :
         ir.res[p] # Absent => ir.res[p] \in Range(Search[p]) /\ ir.text[ir.res[p]] # Absent
    /\ \A f \in Files \ {u} : ir.text[f] # Absent => \E p \in ir.text[u].inc : ir.res[p] = f

(* The files a stored IR was made from are files the files table has, with *)
(* whatever hash.                                                          *)
Known(ir, u, hash) ==
    /\ hash[u] # Absent
    /\ \A p \in ir.text[u].inc : ir.res[p] \in Discoverable => hash[ir.res[p]] # Absent

(* What the tables hold besides: a file without an IR is a header, and no  *)
(* header has an include row.                                              *)
Sound(base) ==
    /\ \A u \in DOMAIN base.ir : WellParsed(base.ir[u], u) /\ Known(base.ir[u], u, base.hash)
    /\ \A f \in Discoverable : base.hash[f] # Absent /\ f \notin DOMAIN base.ir => IsHeader(f)
    /\ \A f \in Files : IsHeader(f) => base.dep[f].inc = {}
    /\ Recorded(base)

(* The inductive invariant: what the next scope is computed from is there, *)
(* and no file appears while an update runs.                               *)
Inv ==
    /\ TypeOK
    /\ Legal(disk)
    /\ pc = "idle" => snap = disk
    /\ \A f \in Files : snap[f] = Absent => disk[f] = Absent
    /\ Sound(db)

(***************************************************************************)
(* Parsing one unit                                                        *)
(***************************************************************************)
(* A unit's text is its own and those its own includes resolve to.         *)
LEMMA SplicedFlat ==
    ASSUME FlatIncludes, NEW d, Legal(d), NEW u \in Files, d[u] # Absent, NEW f
    PROVE  f \in Spliced(d, u) <=>
             f = u \/ (f \in Files /\ \E p \in d[u].inc : Resolve(d, p) = f)
<1> DEFINE T == {u} \union {g \in Files : \E p \in d[u].inc : Resolve(d, p) = g}
<1> DEFINE R == IncludeRel(d)
<1>1. u \in Closure(R, {u})
  <2>1. {u} \in SUBSET Files
    OBVIOUS
  <2> QED
    BY <2>1, ClosureContains, Zenon
<1>2. ASSUME NEW g \in T PROVE g \in Closure(R, {u})
  <2>1. CASE g = u
    BY <1>1, <2>1
  <2>2. CASE g # u
    <3>1. g \in Files /\ <<u, g>> \in R
      BY <2>2 DEF IncludeRel
    <3> HIDE DEF R
    <3> QED
      BY <1>1, <3>1, ClosureClosed
  <2> QED
    BY <2>1, <2>2
<1>3. Closure(R, {u}) \subseteq T
  <2>1. ASSUME NEW e \in R, e[1] \in T PROVE e[2] \in T
    <3>1. e \in Files \X Files /\ d[e[1]] # Absent /\ \E p \in d[e[1]].inc : Resolve(d, p) = e[2]
      BY <2>1 DEF IncludeRel
    <3>2. CASE e[1] = u
      BY <3>1, <3>2
    <3>3. CASE e[1] # u
      <4>1. PICK p \in d[u].inc : Resolve(d, p) = e[1]
        BY <2>1, <3>3
      <4>2. p \in Paths
        BY PathsOfText DEF Legal
      <4>3. e[1] # Absent
        BY <3>1, DistinctAssumption
      <4>4. IsHeader(e[1])
        BY <4>1, <4>2, <4>3, ResolveProperty DEF IsHeader
      <4>5. d[e[1]].inc = {}
        BY <3>1, <4>4 DEF FlatIncludes, Legal
      <4> QED
        BY <3>1, <4>5
    <3> QED
      BY <3>2, <3>3
  <2>2. T \in SUBSET Files /\ {u} \subseteq T
    OBVIOUS
  <2> HIDE DEF T, R
  <2> QED
    BY <2>1, <2>2, ClosureLeast
<1>4. f \in Closure(R, {u}) <=> f \in T
  <2> HIDE DEF T, R
  <2> QED BY <1>2, <1>3
<1> QED
  BY <1>4 DEF Spliced

(* What pass 1 makes of a unit that is on disk.                            *)
LEMMA ParseFlat ==
    ASSUME FlatIncludes, NEW d, Legal(d), NEW u \in Files, d[u] # Absent, NEW table
    PROVE  LET ir == Parse(d, u, table)
           IN  /\ WellParsed(ir, u)
               /\ ir.text[u] = d[u]
               /\ \A f \in Files : ir.text[f] # Absent => ir.text[f] = d[f]
               /\ \A f \in Spliced(d, u) : f \in Files => ir.text[f] = d[f]
               /\ \A p \in d[u].inc : p \in Paths /\ ir.res[p] = Resolve(d, p)
<1> DEFINE ir == Parse(d, u, table)
<1>1. \A f \in Files : ir.text[f] = IF f \in Spliced(d, u) THEN d[f] ELSE Absent
  BY DEF Parse
<1>2. \A p \in Paths : ir.res[p] = IF \E f \in Spliced(d, u) : p \in d[f].inc
                                   THEN Resolve(d, p) ELSE Absent
  BY DEF Parse
<1> HIDE DEF ir
<1>3. u \in Spliced(d, u)
  BY SplicedFlat
<1>4. ir.text[u] = d[u]
  BY <1>1, <1>3
<1>5. ASSUME NEW p \in d[u].inc PROVE p \in Paths /\ ir.res[p] = Resolve(d, p)
  <2>1. p \in Paths
    BY PathsOfText DEF Legal
  <2> QED
    BY <1>2, <1>3, <2>1
<1>6. ASSUME NEW p \in d[u].inc, ir.res[p] # Absent
      PROVE  ir.res[p] \in Range(Search[p]) /\ ir.text[ir.res[p]] # Absent
  <2> DEFINE r == Resolve(d, p)
  <2>1. r \in Range(Search[p]) /\ d[r] # Absent
    BY <1>5, <1>6, ResolveProperty
  <2>2. r \in Files
    BY <1>5, <2>1, SearchAssumption DEF Range
  <2>3. r \in Spliced(d, u)
    BY <2>2, SplicedFlat
  <2> QED
    BY <1>1, <1>5, <2>1, <2>2, <2>3
<1>7. ASSUME NEW f \in Files \ {u}, ir.text[f] # Absent
      PROVE  \E p \in d[u].inc : ir.res[p] = f
  <2>1. f \in Spliced(d, u)
    BY <1>1, <1>7
  <2>2. PICK p \in d[u].inc : Resolve(d, p) = f
    BY <2>1, SplicedFlat
  <2> QED
    BY <1>5, <2>2
<1>8. \A f \in Files : ir.text[f] \in Versions[f] \union {Absent}
  BY <1>1 DEF Legal
<1>9. WellParsed(ir, u)
  BY <1>4, <1>6, <1>7, <1>8 DEF WellParsed
<1>10. \A f \in Files : ir.text[f] # Absent => ir.text[f] = d[f]
  BY <1>1
<1>11. \A f \in Spliced(d, u) : f \in Files => ir.text[f] = d[f]
  BY <1>1
<1> QED
  BY <1>4, <1>5, <1>9, <1>10, <1>11 DEF ir

(* The include edges of a well-parsed IR: none for a header.               *)
LEMMA DepFlat ==
    ASSUME FlatIncludes, NEW ir, NEW u \in Files, WellParsed(ir, u), NEW f \in Files, IsHeader(f)
    PROVE  Dep(ir, f).inc = {}
  BY DEF WellParsed, FlatIncludes, Dep, NoDep

(* A unit parsed from the tree d is fresh with respect to d's hashes.      *)
LEMMA ParsedIsFresh ==
    ASSUME FlatIncludes, NEW d, Legal(d), NEW u \in Discoverable, d[u] # Absent, NEW table
    PROVE  UnitFresh(Parse(d, u, table), u, Hashes(d))
<1> DEFINE ir == Parse(d, u, table)
<1>1. u \in Files
  BY DEF Files
<1>2. /\ WellParsed(ir, u)
      /\ ir.text[u] = d[u]
      /\ \A f \in Files : ir.text[f] # Absent => ir.text[f] = d[f]
      /\ \A p \in d[u].inc : p \in Paths /\ ir.res[p] = Resolve(d, p)
  BY <1>1, ParseFlat
<1> HIDE DEF ir
<1>3. \A f \in Discoverable : Hashes(d)[f] = d[f] /\ f \in Files /\ f # Absent
  BY DistinctAssumption DEF Hashes, Files
<1>4. ASSUME NEW p \in ir.text[u].inc, ir.res[p] \in Discoverable
      PROVE  ir.text[ir.res[p]] = Hashes(d)[ir.res[p]]
  BY <1>2, <1>3, <1>4 DEF WellParsed
<1>5. ASSUME NEW p \in ir.text[u].inc, ir.res[p] = Absent,
             NEW f \in Range(Search[p]) \intersect Discoverable
      PROVE  Hashes(d)[f] = Absent
  BY <1>2, <1>3, <1>5, ResolveProperty
<1>6. UnitFresh(ir, u, Hashes(d))
  BY <1>2, <1>3, <1>4, <1>5 DEF UnitFresh
<1> QED
  BY <1>6 DEF ir

(***************************************************************************)
(* A full build is sound                                                   *)
(***************************************************************************)
AllFresh(base) == \A u \in DOMAIN base.ir : UnitFresh(base.ir[u], u, base.hash)

(* A fresh unit's files are in the files table.                            *)
LEMMA FreshIsKnown ==
    ASSUME NEW ir, NEW u \in Discoverable, NEW hash, WellParsed(ir, u), UnitFresh(ir, u, hash)
    PROVE  Known(ir, u, hash)
<1>1. \A p \in ir.text[u].inc : ir.res[p] \in Discoverable => ir.res[p] # Absent
  BY DistinctAssumption DEF Files
<1> QED
  BY <1>1 DEF WellParsed, UnitFresh, Known

(* Every IR a full build stores is fresh, and every row the next scope     *)
(* depends on is there.                                                    *)
LEMMA FullBuildSound ==
    ASSUME FlatIncludes, NEW d, Legal(d)
    PROVE  Sound(FullBuild(d)) /\ AllFresh(FullBuild(d))
<1> DEFINE irs == Pass1(Present(d), d, {}, << >>)
           own(f) == Owner(DOMAIN irs, {}, irs, f)
           dep == DepOf(IRs(irs, DOMAIN irs))
           base == FullBuild(d)
<1>1. /\ base.hash = Hashes(d)
      /\ base.ir = irs
      /\ base.fnode = {f \in Files : own(f) # Absent}
      /\ base.dep = dep
      /\ \A f \in Files : \A x \in dep[f].inc :
           x[2] = Absent => <<"include", x[1]>> \in base.stubs
  <2>1. \E inst : base = [hash  |-> Hashes(d),
                         skip  |-> base.skip,
                         ir    |-> irs,
                         fnode |-> {f \in Files : own(f) # Absent},
                         dep   |-> dep,
                         nodes |-> base.nodes,
                         refs  |-> base.refs,
                         inst  |-> inst,
                         stubs |-> Stubs(dep, inst)]
    BY DEF FullBuild, Database
  <2> HIDE DEF base, dep
  <2> QED
    BY <2>1 DEF Stubs
<1>2. \A f \in Files : dep[f].inc = UNION {Dep(irs[u], f).inc : u \in DOMAIN irs}
  BY DEF DepOf, IRs
<1>3. DOMAIN irs = Units(Present(d), d, {}, << >>)
  BY Pass1Property, Zenon
<1>4. ASSUME NEW u \in DOMAIN irs PROVE \E table : irs[u] = Parse(d, u, table)
  BY Pass1Property
<1> HIDE DEF irs, base, dep
<1>5. DOMAIN irs \in SUBSET Present(d)
  <2>1. Present(d) \in SUBSET Discoverable
    BY DEF Present
  <2> QED
    BY <1>3, <2>1, UnitsProperty
<1>6. \A u \in DOMAIN irs : u \in Discoverable /\ u \in Files /\ d[u] # Absent
  BY <1>5 DEF Present, Files
<1>7. ASSUME NEW u \in DOMAIN irs
      PROVE  /\ WellParsed(irs[u], u)
             /\ UnitFresh(irs[u], u, Hashes(d))
             /\ \A f \in Spliced(d, u) : f \in Files => irs[u].text[f] = d[f]
             /\ irs[u].text[u] = d[u]
  <2>1. PICK table : irs[u] = Parse(d, u, table)
    BY <1>4
  <2> QED
    BY <1>6, <2>1, ParseFlat, ParsedIsFresh
<1>8. ASSUME NEW f \in Discoverable, d[f] # Absent, f \notin DOMAIN irs
      PROVE  \E u \in DOMAIN irs : f \in Spliced(d, u) \ {u}
  <2>1. Present(d) \in SUBSET Discoverable /\ f \in Present(d)
    BY <1>8 DEF Present
  <2>2. PICK u \in DOMAIN irs : f \in Splices(d, {}, << >>, u)
    BY <1>3, <1>8, <2>1, UnitsProperty
  <2> QED
    BY <2>2 DEF Splices
<1>9. ASSUME NEW f \in Discoverable, d[f] # Absent, f \notin DOMAIN irs PROVE IsHeader(f)
  <2>1. PICK u \in DOMAIN irs : f \in Spliced(d, u) \ {u}
    BY <1>8, <1>9
  <2>2. PICK p \in d[u].inc : Resolve(d, p) = f
    BY <1>6, <2>1, SplicedFlat
  <2>3. p \in Paths /\ f # Absent
    BY <1>6, PathsOfText, DistinctAssumption DEF Legal, Files
  <2> QED
    BY <2>2, <2>3, ResolveProperty DEF IsHeader
<1>10. ASSUME NEW f \in Discoverable, d[f] # Absent PROVE own(f) # Absent
  <2>1. PICK u \in DOMAIN irs : irs[u].text[f] # Absent
    <3>1. CASE f \in DOMAIN irs
      BY <1>7, <1>10, <3>1
    <3>2. CASE f \notin DOMAIN irs
      BY <1>7, <1>8, <1>10, <3>2 DEF Files
    <3> QED
      BY <3>1, <3>2
  <2> QED
    BY <1>6, <2>1, OwnerProperty
<1> HIDE DEF own
<1>11. ASSUME NEW f \in Files, IsHeader(f) PROVE base.dep[f].inc = {}
  <2>1. \A u \in DOMAIN irs : Dep(irs[u], f).inc = {}
    BY <1>6, <1>7, <1>11, DepFlat
  <2> QED
    BY <1>1, <1>2, <2>1
<1>12. ASSUME NEW u \in DOMAIN irs, NEW p \in irs[u].text[u].inc
       PROVE  <<p, irs[u].res[p]>> \in base.dep[u].inc
  <2>1. <<p, irs[u].res[p]>> \in Dep(irs[u], u).inc
    BY <1>7 DEF Dep, WellParsed
  <2> QED
    BY <1>1, <1>2, <1>6, <2>1
<1>13. \A f \in Discoverable : base.hash[f] = d[f]
  BY <1>1 DEF Hashes
<1>14. Recorded(base)
  BY <1>1, <1>10, <1>12, <1>13 DEF Recorded, Files
<1>15. \A u \in DOMAIN irs : Known(irs[u], u, Hashes(d))
  BY <1>6, <1>7, FreshIsKnown
<1>16. Sound(base) /\ AllFresh(base)
  BY <1>1, <1>7, <1>9, <1>11, <1>13, <1>14, <1>15 DEF Sound, AllFresh
<1> QED
  BY <1>16 DEF base

(***************************************************************************)
(* An update is sound                                                      *)
(***************************************************************************)
(* The linker's dependency edges are those of the re-parsed units in scope.*)
LEMMA RelinkRows ==
    ASSUME TypeOK, NEW bounded \in BOOLEAN
    PROVE  LET link == Relink(bounded)
               irs  == Pass1(Present(snap), disk, Clean, db.ir)
               rows == Touched \intersect DOMAIN irs
           IN  /\ link.irs = irs
               /\ link.fnode = {f \in Touched : \E u \in rows : irs[u].text[f] # Absent}
               /\ link.dep = DepOf(IRs(irs, rows))
               /\ \A f \in Files : link.dep[f].inc = UNION {Dep(irs[u], f).inc : u \in rows}
<1> DEFINE irs == Pass1(Present(snap), disk, Clean, db.ir)
           fresh == DOMAIN irs \ Clean
           aff   == Affected(ChangedNames(Touched, irs, IF bounded THEN fresh ELSE DOMAIN irs))
           extra == {a[1] : a \in aff} \intersect Clean
           units == IF bounded THEN fresh \union extra ELSE DOMAIN irs
           ir    == [u \in units |-> IF bounded /\ u \in extra THEN db.ir[u] ELSE irs[u]]
           dirty == units \intersect Touched
           rows  == Touched \intersect DOMAIN irs
           link  == Relink(bounded)
<1>1. /\ link.irs = irs
      /\ link.fnode = {f \in Touched : \E u \in dirty : ir[u].text[f] # Absent}
      /\ link.dep = DepOf(IRs(ir, dirty))
  BY DEF Relink, LinkRun, Run
<1> HIDE DEF link, irs
<1>2. Touched \intersect Clean = {}
  <2>1. Changed \union Removed \in SUBSET Files
    BY DEF Changed, Removed, Present, Files
  <2>2. Removed \subseteq Dirty
    BY <2>1, ClosureContains DEF Dirty
  <2> QED
    BY <2>2 DEF Touched, Reparsed, Clean
<1>3. dirty = rows /\ \A u \in rows : ir[u] = irs[u]
  <2> HIDE DEF aff
  <2> QED BY <1>2
<1> HIDE DEF ir, units, extra, aff
<1>4. IRs(ir, dirty) = IRs(irs, rows)
  BY <1>3 DEF IRs
<1>5. link.dep = DepOf(IRs(irs, rows))
  BY <1>1, <1>4
<1>6. \A f \in Files : link.dep[f].inc = UNION {Dep(irs[u], f).inc : u \in rows}
  BY <1>5 DEF DepOf, IRs
<1> HIDE DEF dirty
<1> QED
  BY <1>1, <1>3, <1>5, <1>6 DEF irs, link

(* The include rows an update leaves: those of the re-parsed units for the *)
(* files in scope, the stored ones for all others.                         *)
LEMMA DeltaRows ==
    ASSUME TypeOK, NEW bounded \in BOOLEAN
    PROVE  LET irs  == Pass1(Present(snap), disk, Clean, db.ir)
               rows == Touched \intersect DOMAIN irs
               base == Delta(bounded)
           IN  /\ base.ir = [u \in (DOMAIN db.ir \ Touched) \union rows |->
                               IF u \in rows THEN irs[u] ELSE db.ir[u]]
               /\ base.fnode = (db.fnode \ Touched)
                               \union {f \in Touched : \E u \in rows : irs[u].text[f] # Absent}
               /\ \A f \in Files :
                    base.dep[f].inc = IF f \in Touched
                                      THEN UNION {Dep(irs[u], f).inc : u \in rows}
                                      ELSE db.dep[f].inc
               /\ \A f \in Files : \A x \in base.dep[f].inc :
                    /\ x[2] = Absent
                    /\ f \in Touched \/ <<"include", x[1]>> \in db.stubs
                    => <<"include", x[1]>> \in base.stubs
<1> DEFINE irs  == Pass1(Present(snap), disk, Clean, db.ir)
           rows == Touched \intersect DOMAIN irs
           link == Relink(bounded)
           redo(e) == e[1] \in Touched \/ <<e[1], e[2]>> \in link.srcs
           dep  == [f \in Files |-> IF f \in Touched THEN link.dep[f] ELSE db.dep[f]]
           inst == {e \in db.inst : ~redo(e)} \union {e \in link.edges : redo(e)}
           base == Delta(bounded)
<1>1. /\ link.irs = irs
      /\ link.fnode = {f \in Touched : \E u \in rows : irs[u].text[f] # Absent}
      /\ \A f \in Files : link.dep[f].inc = UNION {Dep(irs[u], f).inc : u \in rows}
  BY RelinkRows
<1>2. /\ base.ir = [u \in (DOMAIN db.ir \ Touched) \union (Touched \intersect DOMAIN link.irs) |->
                      IF u \in Touched \intersect DOMAIN link.irs THEN link.irs[u] ELSE db.ir[u]]
      /\ base.fnode = (db.fnode \ Touched) \union link.fnode
      /\ base.dep = dep
      /\ base.stubs = Stubs(link.dep, link.edges) \union (db.stubs \intersect Stubs(dep, inst))
  BY DEF Delta, Write
<1> HIDE DEF base, irs, link, inst
<1>3. ASSUME NEW f \in Files, NEW x \in base.dep[f].inc, x[2] = Absent,
             f \in Touched \/ <<"include", x[1]>> \in db.stubs
      PROVE  <<"include", x[1]>> \in base.stubs
  <2>1. CASE f \in Touched
    <3>1. x \in link.dep[f].inc
      BY <1>2, <2>1, <1>3
    <3> QED
      BY <1>2, <1>3, <3>1 DEF Stubs
  <2>2. CASE <<"include", x[1]>> \in db.stubs
    <3>1. x \in dep[f].inc
      BY <1>2
    <3> HIDE DEF dep
    <3> QED
      BY <1>2, <1>3, <2>2, <3>1 DEF Stubs
  <2> QED
    BY <1>3, <2>1, <2>2
<1>4. \A f \in Files : base.dep[f].inc = IF f \in Touched
                                          THEN UNION {Dep(irs[u], f).inc : u \in rows}
                                          ELSE db.dep[f].inc
  <2> SUFFICES ASSUME NEW f \in Files
               PROVE  base.dep[f].inc = IF f \in Touched
                                         THEN UNION {Dep(irs[u], f).inc : u \in rows}
                                         ELSE db.dep[f].inc
    OBVIOUS
  <2>1. link.dep[f].inc = UNION {Dep(irs[u], f).inc : u \in rows}
    BY <1>1
  <2> HIDE DEF rows
  <2>2. base.dep[f] = IF f \in Touched THEN link.dep[f] ELSE db.dep[f]
    BY <1>2
  <2> HIDE DEF dep
  <2>3. CASE f \in Touched
    <3>1. base.dep[f] = link.dep[f]
      BY <2>2, <2>3
    <3> QED
      BY <2>1, <2>3, <3>1
  <2>4. CASE f \notin Touched
    BY <2>2, <2>4
  <2> QED
    BY <2>3, <2>4
<1>5. /\ base.ir = [u \in (DOMAIN db.ir \ Touched) \union rows |->
                      IF u \in rows THEN irs[u] ELSE db.ir[u]]
      /\ base.fnode = (db.fnode \ Touched)
                      \union {f \in Touched : \E u \in rows : irs[u].text[f] # Absent}
  BY <1>1, <1>2
<1> QED
  BY <1>3, <1>4, <1>5 DEF base, irs

(* So are the other dependency rows.                                       *)
LEMMA DeltaDeps ==
    ASSUME TypeOK, NEW bounded \in BOOLEAN, NEW f \in Files
    PROVE  LET irs  == Pass1(Present(snap), disk, Clean, db.ir)
               rows == Touched \intersect DOMAIN irs
           IN  Delta(bounded).dep[f] = IF f \in Touched THEN DepOf(IRs(irs, rows))[f] ELSE db.dep[f]
<1> DEFINE irs  == Pass1(Present(snap), disk, Clean, db.ir)
           rows == Touched \intersect DOMAIN irs
           link == Relink(bounded)
<1>1. link.dep = DepOf(IRs(irs, rows))
  BY RelinkRows
<1> HIDE DEF irs, link
<1>2. Delta(bounded).dep = [g \in Files |-> IF g \in Touched THEN link.dep[g] ELSE db.dep[g]]
  BY DEF Delta, Write, link
<1>3. Delta(bounded).dep[f] = IF f \in Touched THEN link.dep[f] ELSE db.dep[f]
  BY <1>2
<1> QED
  BY <1>1, <1>3 DEF irs

(* The files that a stored unit outside the scope was made from have the   *)
(* hashes they had: a changed or removed header would have made it dirty.  *)
LEMMA KeptIsKnown ==
    ASSUME FlatIncludes, Inv, NEW u \in DOMAIN db.ir \ Touched
    PROVE  /\ u \notin Dirty
           /\ Hashes(snap)[u] = db.hash[u]
           /\ \A p \in db.ir[u].text[u].inc : db.ir[u].res[p] \in Discoverable =>
                Hashes(snap)[db.ir[u].res[p]] = db.hash[db.ir[u].res[p]]
<1>1. u \in Discoverable /\ u \in Files
  BY DEF Inv, TypeOK, TablesOK, Files
<1>2. WellParsed(db.ir[u], u) /\ Known(db.ir[u], u, db.hash)
  BY DEF Inv, Sound
<1>3. db.hash[u] # Absent
  BY <1>2 DEF Known
<1>4. u \notin Dirty
  BY <1>1, <1>3 DEF Touched, Reparsed, Removed, Present, Stored
<1>5. u \in db.fnode
  BY <1>1, <1>3 DEF Inv, Sound, Recorded
<1>6. \A f \in Discoverable : Hashes(snap)[f] = snap[f]
  BY DEF Hashes
<1>7. Hashes(snap)[u] = db.hash[u]
  BY <1>1, <1>6, OutsideScope DEF Inv
<1>8. ASSUME NEW p \in db.ir[u].text[u].inc, db.ir[u].res[p] \in Discoverable
      PROVE  Hashes(snap)[db.ir[u].res[p]] = db.hash[db.ir[u].res[p]]
  <2> DEFINE r == db.ir[u].res[p]
  <2>1. r # Absent /\ r \in Files
    BY <1>8, DistinctAssumption DEF Files
  <2>2. db.hash[r] # Absent
    BY <1>2, <1>8 DEF Known
  <2>3. <<p, r>> \in db.dep[u].inc /\ r \in db.fnode
    BY <1>8, <2>2 DEF Inv, Sound, Recorded
  <2>4. <<r, u>> \in DepRel(db)
    BY <1>5, <2>3 DEF DepRel
  <2>5. r \notin Changed \union Removed
    <3> SUFFICES ASSUME r \in Changed \union Removed PROVE FALSE
      OBVIOUS
    <3> DEFINE C == Closure(DepRel(db), Changed \union Removed)
    <3>1. Changed \union Removed \in SUBSET Files
      BY DEF Changed, Removed, Present, Files
    <3>2. r \in C
      BY <3>1, ClosureContains
    <3>3. u \in C
      <4> HIDE DEF r
      <4> QED BY <1>1, <2>4, <3>2, ClosureClosed
    <3> QED
      BY <1>4, <3>3 DEF Dirty
  <2>6. snap[r] = db.hash[r]
    BY <1>8, <2>2, <2>5 DEF Changed, Removed, Present, Stored
  <2> QED
    BY <1>6, <1>8, <2>6
<1> QED
  BY <1>4, <1>7, <1>8

(* It stays fresh if it was: an added candidate of an unresolved include   *)
(* would have made it dirty.                                               *)
LEMMA KeptIsFresh ==
    ASSUME FlatIncludes, Inv, NEW u \in DOMAIN db.ir \ Touched, UnitFresh(db.ir[u], u, db.hash)
    PROVE  UnitFresh(db.ir[u], u, Hashes(snap))
<1>1. /\ u \notin Dirty
      /\ Hashes(snap)[u] = db.hash[u]
      /\ \A p \in db.ir[u].text[u].inc : db.ir[u].res[p] \in Discoverable =>
           Hashes(snap)[db.ir[u].res[p]] = db.hash[db.ir[u].res[p]]
  BY KeptIsKnown
<1>2. u \in Discoverable /\ u \in Files /\ db.hash[u] # Absent
  BY DEF Inv, TypeOK, TablesOK, Files, Sound, Known
<1>3. u \in db.fnode
  BY <1>2 DEF Inv, Sound, Recorded
<1>4. ASSUME NEW p \in db.ir[u].text[u].inc, db.ir[u].res[p] = Absent,
             NEW f \in Range(Search[p]) \intersect Discoverable
      PROVE  Hashes(snap)[f] = Absent
  <2>1. db.hash[f] = Absent
    BY <1>4 DEF UnitFresh
  <2>2. <<p, Absent>> \in db.dep[u].inc
    BY <1>4 DEF Inv, Sound, Recorded
  <2>3. <<"include", p>> \in db.stubs
    BY <1>2, <2>2 DEF Inv, Sound, Recorded
  <2>4. f \notin Added
    BY <1>1, <1>3, <2>2, <2>3 DEF Dirty, NewlyResolvable
  <2>5. Hashes(snap)[f] = snap[f]
    BY DEF Hashes
  <2> QED
    BY <2>1, <2>4, <2>5 DEF Added, Present, Stored
<1> QED
  BY <1>1, <1>4 DEF UnitFresh

(* A clean unit includes no file in scope.                                 *)
LEMMA CleanIncludesUntouched ==
    ASSUME FlatIncludes, Inv, NEW u \in Clean,
           NEW f \in Discoverable \ {u}, db.ir[u].text[f] # Absent
    PROVE  IsHeader(f) /\ f \notin Touched
<1>1. u \in DOMAIN db.ir /\ u \notin Dirty
  BY DEF Clean
<1>2. u \in Discoverable /\ u \in Files /\ f \in Files
  BY <1>1 DEF Inv, TypeOK, TablesOK, Files
<1>3. WellParsed(db.ir[u], u) /\ Known(db.ir[u], u, db.hash)
  BY <1>1 DEF Inv, Sound
<1>4. PICK p \in db.ir[u].text[u].inc : db.ir[u].res[p] = f
  BY <1>2, <1>3 DEF WellParsed
<1>5. f # Absent
  BY <1>2, DistinctAssumption
<1>6. p \in Paths
  <2>1. db.ir[u].text \in Tree /\ db.ir[u].text[u] # Absent
    BY <1>1, <1>3 DEF Inv, TypeOK, TablesOK, WellParsed
  <2> QED
    BY <1>2, <1>4, <2>1, PathsOfText
<1>7. IsHeader(f)
  BY <1>3, <1>4, <1>5, <1>6 DEF WellParsed, IsHeader
<1>8. db.hash[f] # Absent /\ db.hash[u] # Absent
  BY <1>2, <1>3, <1>4 DEF Known
<1>9. <<f, u>> \in DepRel(db)
  <2>1. f \in db.fnode /\ u \in db.fnode
    BY <1>2, <1>8 DEF Inv, Sound, Recorded
  <2>2. <<p, f>> \in db.dep[u].inc
    BY <1>1, <1>4 DEF Inv, Sound, Recorded
  <2> QED
    BY <2>1, <2>2 DEF DepRel
<1>10. f \notin Closure(DepRel(db), Changed \union Removed)
  <2> SUFFICES ASSUME f \in Closure(DepRel(db), Changed \union Removed) PROVE FALSE
    OBVIOUS
  <2>1. u \in Closure(DepRel(db), Changed \union Removed)
    BY <1>2, <1>9, ClosureClosed
  <2> QED
    BY <1>1, <2>1 DEF Dirty
<1>11. f \notin NewlyResolvable
  BY <1>2, <1>7 DEF Inv, Sound, NewlyResolvable
<1>12. f \notin Added
  BY <1>8 DEF Added, Stored
<1>13. f \notin Removed
  <2>1. Changed \union Removed \in SUBSET Files
    BY DEF Changed, Removed, Present, Files
  <2> QED
    BY <1>10, <2>1, ClosureContains
<1> QED
  BY <1>7, <1>10, <1>11, <1>12, <1>13 DEF Touched, Reparsed, Dirty

(* The IRs an update leaves: those of the scope are parsed from the tree,  *)
(* the others are the stored ones.                                         *)
LEMMA DeltaIRs ==
    ASSUME FlatIncludes, Inv, ~Vanished, NEW bounded \in BOOLEAN, NEW u \in DOMAIN Delta(bounded).ir
    PROVE  LET ir == Delta(bounded).ir[u]
           IN  \/ /\ u \in Present(snap) /\ disk[u] # Absent
                  /\ \E table : ir = Parse(disk, u, table)
               \/ u \in DOMAIN db.ir \ Touched /\ ir = db.ir[u]
<1> DEFINE irs  == Pass1(Present(snap), disk, Clean, db.ir)
           rows == Touched \intersect DOMAIN irs
           base == Delta(bounded)
<1>1. base.ir = [v \in (DOMAIN db.ir \ Touched) \union rows |->
                   IF v \in rows THEN irs[v] ELSE db.ir[v]]
  BY DeltaRows DEF Inv
<1>2. DOMAIN irs = RunUnits
  BY DEF Pass1, RunUnits
<1>3. ASSUME NEW v \in DOMAIN irs, v \notin Clean PROVE \E table : irs[v] = Parse(disk, v, table)
  BY <1>3, Pass1Property
<1>4. DOMAIN irs \in SUBSET Present(snap)
  <2>1. Present(snap) \in SUBSET Discoverable
    BY DEF Present
  <2> QED
    BY <1>2, <2>1, UnitsProperty DEF RunUnits
<1> HIDE DEF irs
<1>5. Touched \intersect Clean = {}
  <2>1. Changed \union Removed \in SUBSET Files
    BY DEF Changed, Removed, Present, Files
  <2>2. Removed \subseteq Dirty
    BY <2>1, ClosureContains DEF Dirty
  <2> QED
    BY <2>2 DEF Touched, Reparsed, Clean
<1>6. CASE u \in rows
  <2>1. u \in DOMAIN irs /\ u \notin Clean /\ base.ir[u] = irs[u]
    BY <1>1, <1>5, <1>6
  <2>2. disk[u] # Absent
    BY <1>2, <2>1 DEF Vanished
  <2> QED
    BY <1>3, <1>4, <2>1, <2>2
<1>7. CASE u \notin rows
  BY <1>1, <1>7
<1> QED
  BY <1>6, <1>7

(* A scoped write keeps the database sound: rows in scope are parsed from  *)
(* files the scan has seen, the others were known and stay so.             *)
LEMMA DeltaSound ==
    ASSUME FlatIncludes, Inv, ~Vanished, NEW bounded \in BOOLEAN
    PROVE  Sound(Delta(bounded))
<1> DEFINE irs  == Pass1(Present(snap), disk, Clean, db.ir)
           rows == Touched \intersect DOMAIN irs
           base == Delta(bounded)
<1>1. /\ base.ir = [u \in (DOMAIN db.ir \ Touched) \union rows |->
                      IF u \in rows THEN irs[u] ELSE db.ir[u]]
      /\ base.fnode = (db.fnode \ Touched)
                      \union {f \in Touched : \E u \in rows : irs[u].text[f] # Absent}
      /\ \A f \in Files :
           base.dep[f].inc = IF f \in Touched
                             THEN UNION {Dep(irs[u], f).inc : u \in rows}
                             ELSE db.dep[f].inc
      /\ \A f \in Files : \A x \in base.dep[f].inc :
           /\ x[2] = Absent
           /\ f \in Touched \/ <<"include", x[1]>> \in db.stubs
           => <<"include", x[1]>> \in base.stubs
  BY DeltaRows DEF Inv
<1>2. base.hash = Hashes(snap) /\ \A f \in Discoverable : base.hash[f] = snap[f]
  BY DeltaHash DEF Inv, Hashes
<1>3. DOMAIN irs = Units(Present(snap), disk, Clean, db.ir)
  BY DEF Pass1
<1>4. ASSUME NEW u \in DOMAIN irs, u \notin Clean PROVE \E table : irs[u] = Parse(disk, u, table)
  BY <1>4, Pass1Property
<1>5. DOMAIN irs \in SUBSET Present(snap)
  <2>1. Present(snap) \in SUBSET Discoverable
    BY DEF Present
  <2> QED
    BY <1>3, <2>1, UnitsProperty
<1> HIDE DEF irs, base
<1>6. \A u \in DOMAIN irs :
         /\ u \in Discoverable /\ u \in Files /\ snap[u] # Absent
         /\ u \notin Clean => disk[u] # Absent
  BY <1>3, <1>5 DEF Present, Files, Vanished, RunUnits
<1>7. Legal(disk) /\ \A f \in Files : snap[f] = Absent => disk[f] = Absent
  BY DEF Inv
<1>8. \A f \in Discoverable : f \notin Touched => db.hash[f] = snap[f]
  BY OutsideScope DEF Inv
<1>9. ASSUME NEW u \in DOMAIN irs, u \notin Clean
      PROVE  /\ WellParsed(irs[u], u)
             /\ Known(irs[u], u, Hashes(snap))
             /\ \A f \in Spliced(disk, u) : f \in Files => irs[u].text[f] = disk[f]
             /\ irs[u].text[u] # Absent
  <2>1. PICK table : irs[u] = Parse(disk, u, table)
    BY <1>4, <1>9
  <2>2. /\ WellParsed(irs[u], u)
        /\ irs[u].text[u] = disk[u]
        /\ \A f \in Files : irs[u].text[f] # Absent => irs[u].text[f] = disk[f]
        /\ \A f \in Spliced(disk, u) : f \in Files => irs[u].text[f] = disk[f]
    BY <1>6, <1>7, <1>9, <2>1, ParseFlat
  <2>3. \A f \in Discoverable : Hashes(snap)[f] = snap[f] /\ f \in Files /\ f # Absent
    BY DistinctAssumption DEF Hashes, Files
  <2>4. ASSUME NEW p \in irs[u].text[u].inc, irs[u].res[p] \in Discoverable
        PROVE  Hashes(snap)[irs[u].res[p]] # Absent
    BY <1>7, <2>2, <2>3, <2>4 DEF WellParsed
  <2>5. Known(irs[u], u, Hashes(snap))
    BY <1>6, <2>3, <2>4 DEF Known
  <2> QED
    BY <1>6, <1>9, <2>2, <2>5
<1>10. \A u \in rows : u \notin Clean
  <2>1. Removed \subseteq Dirty
    <3>1. Changed \union Removed \in SUBSET Files
      BY DEF Changed, Removed, Present, Files
    <3> QED
      BY <3>1, ClosureContains DEF Dirty
  <2> QED
    BY <2>1 DEF Touched, Reparsed, Clean
<1>11. ASSUME NEW u \in DOMAIN base.ir
       PROVE  WellParsed(base.ir[u], u) /\ Known(base.ir[u], u, base.hash)
  <2>1. CASE u \in rows
    BY <1>1, <1>2, <1>9, <1>10, <2>1
  <2>2. CASE u \in DOMAIN db.ir \ Touched
    <3>1. base.ir[u] = db.ir[u] /\ WellParsed(db.ir[u], u) /\ Known(db.ir[u], u, db.hash)
      BY <1>1, <2>2 DEF Inv, Sound
    <3> QED
      BY <1>2, <2>2, <3>1, KeptIsKnown DEF Known
  <2> QED
    BY <1>1, <2>1, <2>2
<1>12. ASSUME NEW f \in Discoverable, snap[f] # Absent, f \notin DOMAIN irs
       PROVE  \E u \in DOMAIN irs :
                 \/ u \in Clean /\ f # u /\ db.ir[u].text[f] # Absent
                 \/ u \notin Clean /\ f \in Spliced(disk, u) \ {u}
  <2>1. Present(snap) \in SUBSET Discoverable /\ f \in Present(snap)
    BY <1>7, <1>12 DEF Present
  <2>2. PICK u \in DOMAIN irs : f \in Splices(disk, Clean, db.ir, u)
    BY <1>3, <1>12, <2>1, UnitsProperty
  <2> QED
    BY <2>2 DEF Splices, Included
<1>13. ASSUME NEW f \in Discoverable, snap[f] # Absent, f \notin DOMAIN base.ir
       PROVE  IsHeader(f)
  <2>1. CASE f \notin Touched
    <3>1. db.hash[f] # Absent /\ f \notin DOMAIN db.ir
      BY <1>1, <1>7, <1>8, <1>13, <2>1
    <3> QED
      BY <3>1 DEF Inv, Sound
  <2>2. CASE f \in Touched
    <3>1. f \notin DOMAIN irs
      BY <1>1, <1>13, <2>2
    <3>2. PICK u \in DOMAIN irs :
             \/ u \in Clean /\ f # u /\ db.ir[u].text[f] # Absent
             \/ u \notin Clean /\ f \in Spliced(disk, u) \ {u}
      BY <1>12, <1>13, <3>1
    <3>3. CASE u \in Clean
      BY <3>2, <3>3, CleanIncludesUntouched
    <3>4. CASE u \notin Clean
      <4>1. PICK p \in disk[u].inc : Resolve(disk, p) = f
        BY <1>6, <1>7, <3>2, <3>4, SplicedFlat
      <4>2. p \in Paths /\ f # Absent
        BY <1>6, <1>7, <3>4, PathsOfText, DistinctAssumption DEF Legal, Files
      <4> QED
        BY <4>1, <4>2, ResolveProperty DEF IsHeader
    <3> QED
      BY <3>3, <3>4
  <2> QED
    BY <2>1, <2>2
<1>14. ASSUME NEW f \in Files, IsHeader(f) PROVE base.dep[f].inc = {}
  <2>1. \A u \in rows : Dep(irs[u], f).inc = {}
    BY <1>6, <1>9, <1>10, <1>14, DepFlat
  <2>2. db.dep[f].inc = {}
    BY <1>14 DEF Inv, Sound
  <2>3. base.dep[f].inc = IF f \in Touched THEN UNION {Dep(irs[u], f).inc : u \in rows}
                          ELSE db.dep[f].inc
    BY <1>1
  <2> QED
    BY <2>1, <2>2, <2>3
<1>15. ASSUME NEW f \in Discoverable, snap[f] # Absent PROVE f \in base.fnode
  <2>1. CASE f \notin Touched
    <3>1. db.hash[f] # Absent
      BY <1>7, <1>8, <1>15, <2>1
    <3>2. f \in db.fnode
      BY <3>1 DEF Inv, Sound, Recorded
    <3> QED
      BY <1>1, <2>1, <3>2
  <2>2. CASE f \in Touched /\ f \in DOMAIN irs
    BY <1>1, <1>9, <1>10, <2>2
  <2>3. CASE f \in Touched /\ f \notin DOMAIN irs
    <3>1. PICK u \in DOMAIN irs :
             \/ u \in Clean /\ f # u /\ db.ir[u].text[f] # Absent
             \/ u \notin Clean /\ f \in Spliced(disk, u) \ {u}
      BY <1>12, <1>15, <2>3
    <3>2. u \notin Clean
      BY <2>3, <3>1, CleanIncludesUntouched
    <3>3. irs[u].text[f] # Absent
      <4>1. PICK p \in disk[u].inc : Resolve(disk, p) = f
        BY <1>6, <1>7, <3>1, <3>2, SplicedFlat
      <4>2. p \in Paths /\ f # Absent /\ f \in Files
        BY <1>6, <1>7, <3>2, PathsOfText, DistinctAssumption DEF Legal, Files
      <4>3. disk[f] # Absent
        BY <4>1, <4>2, ResolveProperty
      <4> QED
        BY <1>9, <3>1, <3>2, <4>2, <4>3
    <3>4. CASE u \in Dirty
      <4>1. u \in rows
        BY <1>5, <3>4 DEF Touched, Reparsed
      <4> QED
        BY <1>1, <2>3, <3>3, <4>1
    <3>5. CASE u \notin Dirty
      <4>1. u \notin DOMAIN db.ir
        BY <3>2, <3>5 DEF Clean
      <4>2. u \notin Touched
        BY <1>5, <3>5 DEF Touched, Reparsed, Removed
      <4>3. db.hash[u] # Absent
        BY <1>6, <1>7, <1>8, <4>2
      <4>4. IsHeader(u)
        BY <1>6, <4>1, <4>3 DEF Inv, Sound
      <4>5. disk[u].inc = {}
        BY <1>6, <1>7, <3>2, <4>4 DEF FlatIncludes, Legal
      <4> QED
        BY <1>6, <1>7, <3>1, <3>2, <4>5, SplicedFlat
    <3> QED
      BY <3>4, <3>5
  <2> QED
    BY <2>1, <2>2, <2>3
<1>16. ASSUME NEW u \in DOMAIN base.ir, NEW p \in base.ir[u].text[u].inc
       PROVE  <<p, base.ir[u].res[p]>> \in base.dep[u].inc
  <2>1. CASE u \in rows
    <3>1. base.ir[u] = irs[u] /\ irs[u].text[u] # Absent
      BY <1>1, <1>9, <1>10, <2>1
    <3>2. <<p, irs[u].res[p]>> \in Dep(irs[u], u).inc
      BY <3>1 DEF Dep
    <3>3. base.dep[u].inc = UNION {Dep(irs[v], u).inc : v \in rows}
      BY <1>1, <1>6, <2>1
    <3> QED
      BY <2>1, <3>1, <3>2, <3>3
  <2>2. CASE u \in DOMAIN db.ir \ Touched
    <3>1. base.ir[u] = db.ir[u] /\ u \in Files
      BY <1>1, <2>2 DEF Inv, TypeOK, TablesOK, Files
    <3>2. <<p, db.ir[u].res[p]>> \in db.dep[u].inc
      BY <2>2, <3>1 DEF Inv, Sound, Recorded
    <3> QED
      BY <1>1, <2>2, <3>1, <3>2
  <2> QED
    BY <1>1, <2>1, <2>2
<1>17. ASSUME NEW f \in Files, NEW x \in base.dep[f].inc, x[2] = Absent
       PROVE  <<"include", x[1]>> \in base.stubs
  <2>1. CASE f \in Touched
    BY <1>1, <1>17, <2>1
  <2>2. CASE f \notin Touched
    <3>1. <<"include", x[1]>> \in db.stubs
      BY <1>1, <1>17, <2>2 DEF Inv, Sound, Recorded
    <3> QED
      BY <1>1, <1>17, <3>1
  <2> QED
    BY <2>1, <2>2
<1>18. Recorded(base)
  BY <1>2, <1>7, <1>15, <1>16, <1>17 DEF Recorded
<1>19. Sound(base)
  BY <1>2, <1>7, <1>11, <1>13, <1>14, <1>18 DEF Sound
<1> QED
  BY <1>19 DEF base

(* Where files keep still, what an update parses is what it hashed.        *)
LEMMA DeltaFresh ==
    ASSUME FlatIncludes, Inv, snap = disk, AllFresh(db), ~Vanished, NEW bounded \in BOOLEAN
    PROVE  AllFresh(Delta(bounded))
<1> SUFFICES ASSUME NEW u \in DOMAIN Delta(bounded).ir
             PROVE  UnitFresh(Delta(bounded).ir[u], u, Delta(bounded).hash)
  BY DEF AllFresh
<1>1. Delta(bounded).hash = Hashes(snap)
  BY DeltaHash DEF Inv
<1> DEFINE ir == Delta(bounded).ir[u]
<1>2. \/ /\ u \in Present(snap) /\ disk[u] # Absent
         /\ \E table : ir = Parse(disk, u, table)
      \/ u \in DOMAIN db.ir \ Touched /\ ir = db.ir[u]
  BY DeltaIRs
<1> HIDE DEF ir
<1>3. ASSUME u \in Present(snap), disk[u] # Absent, \E table : ir = Parse(disk, u, table)
      PROVE  UnitFresh(ir, u, Hashes(snap))
  <2>1. PICK table : ir = Parse(disk, u, table)
    BY <1>3
  <2> QED
    BY <1>3, <2>1, ParsedIsFresh DEF Inv, Present
<1>4. ASSUME u \in DOMAIN db.ir \ Touched PROVE UnitFresh(db.ir[u], u, Hashes(snap))
  <2>1. UnitFresh(db.ir[u], u, db.hash)
    BY <1>4 DEF AllFresh
  <2> QED
    BY <1>4, <2>1, KeptIsFresh
<1>5. UnitFresh(ir, u, Hashes(snap))
  BY <1>2, <1>3, <1>4
<1> QED
  BY <1>1, <1>5 DEF ir

(* A stored text is the one the files table records, or else the file on   *)
(* disk is not.                                                            *)
Awaited(ir, hash, d, g) == ir.text[g] = hash[g] \/ d[g] # hash[g]
UnitAwaited(ir, u, hash, d) ==
    /\ Awaited(ir, hash, d, u)
    /\ \A p \in ir.text[u].inc : ir.res[p] \in Discoverable => Awaited(ir, hash, d, ir.res[p])
AllAwaited(base, d) == \A u \in DOMAIN base.ir : UnitAwaited(base.ir[u], u, base.hash, d)

(* Where they do not, a text read after it was hashed is the one on disk.  *)
LEMMA DeltaAwaited ==
    ASSUME FlatIncludes, Inv, AllAwaited(db, disk), ~Vanished, NEW bounded \in BOOLEAN
    PROVE  AllAwaited(Delta(bounded), disk)
<1> SUFFICES ASSUME NEW u \in DOMAIN Delta(bounded).ir
             PROVE  UnitAwaited(Delta(bounded).ir[u], u, Delta(bounded).hash, disk)
  BY DEF AllAwaited
<1>1. Delta(bounded).hash = Hashes(snap)
  BY DeltaHash DEF Inv
<1> DEFINE ir == Delta(bounded).ir[u]
<1>2. \/ /\ u \in Present(snap) /\ disk[u] # Absent
         /\ \E table : ir = Parse(disk, u, table)
      \/ u \in DOMAIN db.ir \ Touched /\ ir = db.ir[u]
  BY DeltaIRs
<1> HIDE DEF ir
<1>3. ASSUME u \in Present(snap), disk[u] # Absent, \E table : ir = Parse(disk, u, table)
      PROVE  UnitAwaited(ir, u, Hashes(snap), disk)
  <2>1. u \in Files /\ Legal(disk)
    BY <1>3 DEF Present, Files, Inv
  <2>2. /\ WellParsed(ir, u)
        /\ ir.text[u] = disk[u]
        /\ \A f \in Files : ir.text[f] # Absent => ir.text[f] = disk[f]
    <3>1. PICK table : ir = Parse(disk, u, table)
      BY <1>3
    <3> QED
      BY <1>3, <2>1, <3>1, ParseFlat
  <2>3. \A f \in Discoverable : f \in Files /\ f # Absent
    BY DistinctAssumption DEF Files
  <2>4. ASSUME NEW p \in ir.text[u].inc, ir.res[p] \in Discoverable
        PROVE  ir.text[ir.res[p]] = disk[ir.res[p]]
    BY <2>2, <2>3, <2>4 DEF WellParsed
  <2> QED
    BY <2>2, <2>4 DEF UnitAwaited, Awaited
<1>4. ASSUME u \in DOMAIN db.ir \ Touched PROVE UnitAwaited(db.ir[u], u, Hashes(snap), disk)
  <2>1. UnitAwaited(db.ir[u], u, db.hash, disk)
    BY <1>4 DEF AllAwaited
  <2>2. /\ Hashes(snap)[u] = db.hash[u]
        /\ \A p \in db.ir[u].text[u].inc : db.ir[u].res[p] \in Discoverable =>
             Hashes(snap)[db.ir[u].res[p]] = db.hash[db.ir[u].res[p]]
    BY <1>4, KeptIsKnown
  <2> QED
    BY <2>1, <2>2 DEF UnitAwaited, Awaited
<1>5. UnitAwaited(ir, u, Hashes(snap), disk)
  BY <1>2, <1>3, <1>4
<1> QED
  BY <1>1, <1>5 DEF ir

(***************************************************************************)
(* What a unit's text does to the macros                                   *)
(***************************************************************************)
(* Expansion taken apart: its visit, and what that is at one place.        *)
Depth == Len(PathOrder)
Visits == (0 .. Depth) \X Files \X SUBSET Files

Skips(d, k, f, open) ==
    LET header == Resolve(d, PathOrder[k])
    IN  PathOrder[k] \notin d[f].inc \/ header = Absent \/ header \in open

Splicing(d, visit, k, f, open) ==
    LET header == Resolve(d, PathOrder[k])
    IN  IF k = 0 THEN << >>
        ELSE visit[<<k - 1, f, open>>] \o
             (IF Skips(d, k, f, open) THEN << >>
              ELSE Append(visit[<<Depth, header, open \union {header}>>], header))

Whole(d, visit) == [at \in Visits |-> Splicing(d, visit, at[1], at[2], at[3])]
Visit(d) == CHOOSE visit : visit = Whole(d, visit)

(* A unit's text: a visit of all its own include texts, then its own.      *)
LEMMA ExpansionIs ==
    ASSUME NEW d, NEW u
    PROVE  Expansion(d, u) = Append(Visit(d)[<<Depth, u, {u}>>], u)
  BY DEF Expansion, Visit, Whole, Splicing, Skips, Depth, Visits

(* What a visit is at one place.                                           *)
LEMMA WholeAt ==
    ASSUME NEW d, NEW v, v = Whole(d, v),
           NEW k \in 0 .. Depth, NEW f \in Files, NEW open \in SUBSET Files
    PROVE  v[<<k, f, open>>] = Splicing(d, v, k, f, open)
<1>1. <<k, f, open>> \in Visits
  BY DEF Visits
<1> HIDE DEF Visits
<1> QED
  BY <1>1 DEF Whole

(* A visit starts with nothing.                                            *)
LEMMA WholeStart ==
    ASSUME NEW d, NEW v, v = Whole(d, v), NEW f \in Files, NEW open \in SUBSET Files
    PROVE  v[<<0, f, open>>] = << >>
<1>1. 0 \in 0 .. Depth
  BY PathOrderAssumption DEF Depth
<1>2. v[<<0, f, open>>] = Splicing(d, v, 0, f, open)
  BY <1>1, WholeAt
<1> QED
  BY <1>2 DEF Splicing

(* A function that is right at every place is a visit.                     *)
LEMMA WholeIf ==
    ASSUME NEW d, NEW v, v = [at \in Visits |-> v[at]],
           \A k \in 0 .. Depth, f \in Files, open \in SUBSET Files :
              v[<<k, f, open>>] = Splicing(d, v, k, f, open)
    PROVE  v = Whole(d, v)
<1>1. ASSUME NEW at \in Visits
      PROVE  v[at] = Splicing(d, v, at[1], at[2], at[3])
  <2>1. at = <<at[1], at[2], at[3]>> /\ at[1] \in 0 .. Depth /\ at[2] \in Files /\ at[3] \in SUBSET Files
    BY DEF Visits
  <2> QED
    BY <2>1
<1> HIDE DEF Visits
<1> QED
  BY <1>1 DEF Whole

(* The include texts and their number.                                     *)
LEMMA PathPlaces ==
    /\ Depth \in Nat
    /\ \A k \in 1 .. Depth : PathOrder[k] \in Paths
  BY PathOrderAssumption DEF Depth, Paths, Range

(* A header that is not skipped is a file the include text resolves to.    *)
LEMMA SplicedHeader ==
    ASSUME NEW d, Legal(d), NEW k \in 1 .. Depth, NEW f, NEW open, ~Skips(d, k, f, open)
    PROVE  LET header == Resolve(d, PathOrder[k])
           IN  /\ header \in Files /\ d[header] # Absent /\ IsHeader(header)
               /\ PathOrder[k] \in d[f].inc
<1> DEFINE header == Resolve(d, PathOrder[k])
<1>1. PathOrder[k] \in d[f].inc /\ header # Absent
  BY DEF Skips
<1>2. PathOrder[k] \in Paths
  BY PathPlaces
<1>3. header \in Range(Search[PathOrder[k]]) /\ d[header] # Absent
  BY <1>1, <1>2, ResolveProperty
<1> HIDE DEF header
<1>4. header \in Files
  BY <1>2, <1>3, SearchAssumption DEF Range
<1> QED
  BY <1>1, <1>2, <1>3, <1>4 DEF IsHeader, header

(* A header skips every include text.                                      *)
LEMMA HeaderSkips ==
    ASSUME FlatIncludes, NEW d, Legal(d), NEW h \in Files, d[h] # Absent, IsHeader(h),
           NEW k, NEW open
    PROVE  Skips(d, k, h, open)
  BY DEF FlatIncludes, Legal, Skips

(* A header splices nothing.                                               *)
LEMMA HeaderVisit ==
    ASSUME FlatIncludes, NEW d, Legal(d), NEW v, v = Whole(d, v),
           NEW h \in Files, d[h] # Absent, IsHeader(h), NEW open \in SUBSET Files
    PROVE  v[<<Depth, h, open>>] = << >>
<1> DEFINE T == {n \in Nat : n <= Depth => v[<<n, h, open>>] = << >>}
<1>1. 0 \in T
  BY WholeStart
<1>2. \A n \in T : n + 1 \in T
  <2> SUFFICES ASSUME NEW n \in T, n + 1 <= Depth PROVE v[<<n + 1, h, open>>] = << >>
    OBVIOUS
  <2>1. n + 1 \in 0 .. Depth /\ n + 1 # 0 /\ (n + 1) - 1 = n /\ n <= Depth
    BY PathPlaces
  <2>2. v[<<n, h, open>>] = << >>
    BY <2>1
  <2>3. Skips(d, n + 1, h, open)
    BY HeaderSkips
  <2>4. v[<<n + 1, h, open>>] = Splicing(d, v, n + 1, h, open)
    BY <2>1, WholeAt
  <2>5. v[<<n + 1, h, open>>] = << >> \o << >>
    BY <2>1, <2>2, <2>3, <2>4 DEF Splicing
  <2> QED
    BY <2>5
<1>3. T \in SUBSET Nat
  OBVIOUS
<1> HIDE DEF T
<1>4. Depth \in T
  BY <1>1, <1>2, <1>3, SetInduction, PathPlaces
<1> QED
  BY <1>4, PathPlaces DEF T

(* What f splices, its headers splicing nothing.                           *)
Step(d, f, open) ==
    [x \in (1 .. Depth) \X Seq(Files) |->
        x[2] \o (IF Skips(d, x[1], f, open) THEN << >> ELSE <<Resolve(d, PathOrder[x[1]])>>)]
Flat(d, f, open) == CHOOSE g : g \in Recursive(Depth, Seq(Files), << >>, Step(d, f, open))

(* Flat is that recursion: Numbers!Recursion gives the function.           *)
LEMMA FlatIs ==
    ASSUME NEW d, Legal(d), NEW f, NEW open
    PROVE  /\ Flat(d, f, open) \in [0 .. Depth -> Seq(Files)]
           /\ Flat(d, f, open)[0] = << >>
           /\ \A k \in 1 .. Depth :
                Flat(d, f, open)[k] = Flat(d, f, open)[k - 1] \o
                   (IF Skips(d, k, f, open) THEN << >> ELSE <<Resolve(d, PathOrder[k])>>)
<1> DEFINE more(k) == IF Skips(d, k, f, open) THEN << >> ELSE <<Resolve(d, PathOrder[k])>>
           step == Step(d, f, open)
           g == Flat(d, f, open)
<1>1. \A k \in 1 .. Depth : more(k) \in Seq(Files)
  BY SplicedHeader
<1>2. step = [x \in (1 .. Depth) \X Seq(Files) |-> x[2] \o more(x[1])]
  BY DEF Step
<1> HIDE DEF more, step, g
<1>3. step \in [(1 .. Depth) \X Seq(Files) -> Seq(Files)]
  <2>1. \A x \in (1 .. Depth) \X Seq(Files) : x[2] \o more(x[1]) \in Seq(Files)
    BY <1>1
  <2> QED
    BY <1>2, <2>1
<1>4. << >> \in Seq(Files) /\ Depth \in Nat
  BY PathPlaces
<1>5. \E h : h \in Recursive(Depth, Seq(Files), << >>, step)
  BY <1>3, <1>4, Recursion
<1>6. g \in Recursive(Depth, Seq(Files), << >>, step)
  BY <1>5 DEF g, Flat, step
<1>7. /\ g \in [0 .. Depth -> Seq(Files)] /\ g[0] = << >>
      /\ \A k \in 1 .. Depth : g[k] = step[<<k, g[k - 1]>>]
  BY <1>6 DEF Recursive
<1>8. ASSUME NEW k \in 1 .. Depth PROVE g[k] = g[k - 1] \o more(k)
  <2>1. k - 1 \in 0 .. Depth
    BY <1>4
  <2>2. <<k, g[k - 1]>> \in (1 .. Depth) \X Seq(Files)
    BY <1>7, <2>1
  <2> QED
    BY <1>2, <1>7, <2>2
<1> QED
  BY <1>7, <1>8 DEF g, more

(* There is a function that visits as Expansion says.                      *)
LEMMA VisitIs ==
    ASSUME FlatIncludes, NEW d, Legal(d)
    PROVE  Visit(d) = Whole(d, Visit(d))
<1> DEFINE w == [at \in Visits |-> Flat(d, at[2], at[3])[at[1]]]
<1>1. \A k \in 0 .. Depth, f \in Files, open \in SUBSET Files :
         w[<<k, f, open>>] = Flat(d, f, open)[k]
  BY DEF Visits
<1>2. w = [at \in Visits |-> w[at]]
  OBVIOUS
<1> HIDE DEF w
<1>3. ASSUME NEW h \in Files, d[h] # Absent, IsHeader(h), NEW open \in SUBSET Files
      PROVE  w[<<Depth, h, open>>] = << >>
  <2> DEFINE g == Flat(d, h, open)
  <2>1. /\ g \in [0 .. Depth -> Seq(Files)] /\ g[0] = << >>
        /\ \A k \in 1 .. Depth :
             g[k] = g[k - 1] \o (IF Skips(d, k, h, open) THEN << >> ELSE <<Resolve(d, PathOrder[k])>>)
    BY FlatIs
  <2> HIDE DEF g
  <2>2. ASSUME NEW k \in 0 + 1 .. Depth PROVE g[k] = g[k - 1]
    <3>1. k \in 1 .. Depth /\ k - 1 \in 0 .. Depth
      BY PathPlaces
    <3>2. Skips(d, k, h, open)
      BY <1>3, HeaderSkips
    <3>3. g[k] = g[k - 1] \o << >> /\ g[k - 1] \in Seq(Files)
      BY <2>1, <3>1, <3>2
    <3> QED
      BY <3>3
  <2>3. g[Depth] = g[0]
    BY <2>2, Constant, PathPlaces
  <2>4. Depth \in 0 .. Depth
    BY PathPlaces
  <2> QED
    BY <1>1, <2>1, <2>3, <2>4 DEF g
<1>4. ASSUME NEW k \in 0 .. Depth, NEW f \in Files, NEW open \in SUBSET Files
      PROVE  w[<<k, f, open>>] = Splicing(d, w, k, f, open)
  <2>1. CASE k = 0
    <3>1. Flat(d, f, open)[0] = << >>
      BY FlatIs
    <3>2. w[<<k, f, open>>] = << >>
      BY <1>1, <2>1, <3>1
    <3> QED
      BY <2>1, <3>2 DEF Splicing
  <2>2. CASE k # 0
    <3> DEFINE header == Resolve(d, PathOrder[k])
    <3>1. k \in 1 .. Depth /\ k - 1 \in 0 .. Depth
      BY <2>2, PathPlaces
    <3>2. w[<<k, f, open>>] = w[<<k - 1, f, open>>] \o
                                (IF Skips(d, k, f, open) THEN << >> ELSE <<header>>)
      <4>1. Flat(d, f, open)[k] = Flat(d, f, open)[k - 1] \o
                                    (IF Skips(d, k, f, open) THEN << >> ELSE <<header>>)
        BY <3>1, FlatIs
      <4>2. w[<<k, f, open>>] = Flat(d, f, open)[k] /\ w[<<k - 1, f, open>>] = Flat(d, f, open)[k - 1]
        BY <1>1, <3>1
      <4> HIDE DEF header
      <4> QED
        BY <4>1, <4>2
    <3>3. ASSUME ~Skips(d, k, f, open)
          PROVE  Append(w[<<Depth, header, open \union {header}>>], header) = <<header>>
      <4>1. header \in Files /\ d[header] # Absent /\ IsHeader(header)
        BY <3>1, <3>3, SplicedHeader
      <4> HIDE DEF header
      <4>2. w[<<Depth, header, open \union {header}>>] = << >>
        BY <1>3, <4>1
      <4> QED
        BY <4>2
    <3> QED
      BY <2>2, <3>2, <3>3 DEF Splicing
  <2> QED
    BY <2>1, <2>2
<1>5. w = Whole(d, w)
  BY <1>2, <1>4, WholeIf
<1> QED
  BY <1>5 DEF Visit

(* A unit's expanded text is made of the texts it splices, its own last.   *)
LEMMA ExpansionFlat ==
    ASSUME FlatIncludes, NEW d, Legal(d), NEW u \in Files, d[u] # Absent
    PROVE  Expansion(d, u) \in Seq(Spliced(d, u))
<1> DEFINE v == Visit(d)
           T == {n \in Nat : n <= Depth => v[<<n, u, {u}>>] \in Seq(Spliced(d, u))}
<1>1. v = Whole(d, v)
  BY VisitIs
<1> HIDE DEF v
<1>2. u \in Spliced(d, u)
  BY SplicedFlat
<1>3. 0 \in T
  <2>1. v[<<0, u, {u}>>] = << >>
    BY <1>1, WholeStart
  <2>2. v[<<0, u, {u}>>] \in Seq(Spliced(d, u))
    <3> HIDE DEF T
    <3> QED BY <2>1
  <2> QED
    BY <2>2
<1>4. \A n \in T : n + 1 \in T
  <2> SUFFICES ASSUME NEW n \in T, n + 1 <= Depth
               PROVE  v[<<n + 1, u, {u}>>] \in Seq(Spliced(d, u))
    OBVIOUS
  <2> DEFINE k == n + 1
             header == Resolve(d, PathOrder[k])
  <2>1. k \in 0 .. Depth /\ k \in 1 .. Depth /\ k # 0 /\ k - 1 = n /\ n <= Depth
    BY PathPlaces
  <2>2. v[<<n, u, {u}>>] \in Seq(Spliced(d, u))
    BY <2>1
  <2> HIDE DEF k
  <2>3. v[<<k, u, {u}>>] = Splicing(d, v, k, u, {u})
    BY <1>1, <2>1, WholeAt
  <2>4. CASE Skips(d, k, u, {u})
    <3>1. v[<<k, u, {u}>>] = v[<<n, u, {u}>>] \o << >>
      BY <2>1, <2>3, <2>4 DEF Splicing
    <3> QED
      BY <2>2, <3>1 DEF k
  <2>5. CASE ~Skips(d, k, u, {u})
    <3>1. header \in Files /\ d[header] # Absent /\ IsHeader(header) /\ PathOrder[k] \in d[u].inc
      BY <2>1, <2>5, SplicedHeader
    <3>2. header \in Spliced(d, u)
      BY <3>1, SplicedFlat
    <3> HIDE DEF header
    <3>3. v[<<Depth, header, {u} \union {header}>>] = << >>
      BY <1>1, <3>1, HeaderVisit
    <3>4. v[<<k, u, {u}>>] = v[<<n, u, {u}>>] \o Append(<< >>, header)
      BY <2>1, <2>3, <2>5, <3>3 DEF Splicing, header
    <3>5. Append(<< >>, header) \in Seq(Spliced(d, u))
      BY <3>2
    <3> QED
      BY <2>2, <3>4, <3>5 DEF k
  <2> QED
    BY <2>4, <2>5
<1>5. T \in SUBSET Nat
  OBVIOUS
<1> HIDE DEF T
<1>6. Depth \in T
  BY <1>3, <1>4, <1>5, SetInduction, PathPlaces
<1>7. v[<<Depth, u, {u}>>] \in Seq(Spliced(d, u))
  BY <1>6, PathPlaces DEF T
<1>8. Expansion(d, u) = Append(v[<<Depth, u, {u}>>], u)
  BY ExpansionIs DEF v
<1> QED
  BY <1>2, <1>7, <1>8

(* Any set of discovered files has one that is compiled last.              *)
LEMMA LastInOrder ==
    ASSUME NEW S \in SUBSET Discoverable, S # {}
    PROVE  \E u \in S : \A v \in S \ {u} : Precedes(v, u)
<1> DEFINE I == {i \in DOMAIN Order : Order[i] \in S}
<1>1. I \in SUBSET Nat /\ I # {} /\ \A i \in I : i <= Len(Order)
  BY OrderDomain
<1>2. PICK i \in I : \A j \in I : j <= i
  <2> HIDE DEF I
  <2> QED BY <1>1, GreatestNumber, OrderDomain
<1>3. \A v \in S \ {Order[i]} : Precedes(v, Order[i])
  <2> SUFFICES ASSUME NEW v \in S \ {Order[i]} PROVE Precedes(v, Order[i])
    OBVIOUS
  <2>1. PICK j \in DOMAIN Order : Order[j] = v
    BY OrderDomain
  <2>2. j <= i /\ i # j
    BY <1>2, <2>1
  <2> QED
    BY <2>1, <2>2, OrderDomain DEF Precedes
<1> QED
  BY <1>3

(* A definition of macro m, and the file whose text holds it.              *)
Defining(text, g, m) == text[g] # Absent /\ text[g].mac[m] \notin {Undef, Silent}
Makes(text, e, m) ==
    e \in {Silent, Undef} \/ \E g \in Files : Defining(text, g, m) /\ e = <<g, text[g].mac[m]>>

(* What texts together do to a macro, one of them does.                    *)
LEMMA EffectMade ==
    ASSUME NEW d, NEW S, \A f \in S : d[f] # Absent, NEW seq \in Seq(S),
           NEW n \in Nat, n <= Len(seq), NEW m
    PROVE  LET e == Effect(d, seq, n, m)
           IN  e \in {Silent, Undef} \/ \E g \in S : Defining(d, g, m) /\ e = <<g, d[g].mac[m]>>
<1> DEFINE at == {i \in 1 .. n : d[seq[i]].mac[m] # Silent}
           last == CHOOSE i \in at : \A j \in at : j <= i
<1>1. CASE at = {}
  BY <1>1 DEF Effect
<1>2. CASE at # {}
  <2>1. at \in SUBSET Nat /\ \A i \in at : i <= n
    OBVIOUS
  <2>2. \E i \in at : \A j \in at : j <= i
    <3> HIDE DEF at
    <3> QED BY <1>2, <2>1, GreatestNumber
  <2>3. last \in at
    <3> HIDE DEF at
    <3> QED BY <2>2
  <2>4. Effect(d, seq, n, m) = Directive(d, seq[last], m)
    BY <1>2 DEF Effect
  <2> HIDE DEF last
  <2>5. seq[last] \in S
    BY <2>3
  <2> HIDE DEF at
  <2> QED
    BY <2>4, <2>5 DEF Directive, Defining
<1> QED
  BY <1>1, <1>2

(* A binding that is of the text the files table records.                  *)
Bound(b, m, hash) ==
    \/ b = Undef
    \/ \E g \in Files : \E n : /\ n \notin {Undef, Silent} /\ b = <<g, n>>
                               /\ g \in Discoverable => hash[g] # Absent /\ hash[g].mac[m] = n

(* An event of texts that are current is a current binding.                *)
LEMMA MadeIsBound ==
    ASSUME NEW text, NEW e, NEW m, Makes(text, e, m), NEW hash,
           \A g \in Discoverable : text[g] # Absent => hash[g] = text[g]
    PROVE  e = Silent \/ Bound(e, m, hash)
  BY DEF Makes, Bound, Defining

(* So is every entry of the macro table, if every unit's events are.       *)
LEMMA TableBound ==
    ASSUME NEW units \in SUBSET Discoverable, NEW d, NEW clean, NEW stored, NEW f,
           NEW m \in Macros, NEW hash,
           \A v \in units : LET e == Events(d, clean, stored, v, m)
                            IN  e = Silent \/ Bound(e, m, hash)
    PROVE  Bound(Table(units, d, clean, stored, f)[m], m, hash)
<1> DEFINE S == Told(units, d, clean, stored, f, m)
           table == Table(units, d, clean, stored, f)
<1>1. table[m] = IF S = {} THEN Undef ELSE Events(d, clean, stored, Latest(S), m)
  BY TableIs
<1>2. S \in SUBSET units /\ \A v \in S : Events(d, clean, stored, v, m) # Silent
  BY DEF Told
<1> HIDE DEF S, table
<1>3. CASE S = {}
  BY <1>1, <1>3 DEF Bound, table
<1>4. CASE S # {}
  <2>1. Latest(S) \in S
    BY <1>2, <1>4, LastInOrder DEF Latest
  <2>2. Bound(Events(d, clean, stored, Latest(S), m), m, hash)
    BY <1>2, <2>1
  <2> QED
    BY <1>1, <1>4, <2>2 DEF table
<1> QED
  BY <1>3, <1>4

(* What pass 1 makes of the macros of a unit that is on disk.              *)
LEMMA ParsedMakes ==
    ASSUME FlatIncludes, NEW d, Legal(d), NEW u \in Files, d[u] # Absent, NEW table, NEW m \in Macros
    PROVE  /\ Makes(Parse(d, u, table).text, Parse(d, u, table).events[m], m)
           /\ Parse(d, u, table).events[m] = Events(d, {}, << >>, u, m)
<1> DEFINE ir == Parse(d, u, table)
           seq == Expansion(d, u)
<1>1. \A f \in Files : ir.text[f] = IF f \in Spliced(d, u) THEN d[f] ELSE Absent
  BY DEF Parse
<1>2. ir.events[m] = Effect(d, seq, Len(seq), m)
  BY DEF Parse
<1>3. seq \in Seq(Spliced(d, u))
  BY ExpansionFlat
<1>4. \A f \in Spliced(d, u) : f \in Files /\ d[f] # Absent
  BY SplicedPresent DEF Legal
<1>5. Events(d, {}, << >>, u, m) = Effect(d, seq, Len(seq), m)
  BY DEF Events
<1> HIDE DEF ir, seq
<1>6. Len(seq) \in Nat
  BY <1>3
<1> DEFINE e == Effect(d, seq, Len(seq), m)
<1>7. e \in {Silent, Undef} \/ \E g \in Spliced(d, u) : Defining(d, g, m) /\ e = <<g, d[g].mac[m]>>
  BY <1>3, <1>4, <1>6, EffectMade
<1> HIDE DEF e
<1>8. Makes(ir.text, e, m)
  BY <1>1, <1>4, <1>7 DEF Makes, Defining
<1> QED
  BY <1>2, <1>5, <1>8 DEF e, ir

(* What a unit expands is current if the macro table it starts with is.    *)
LEMMA ParsedUses ==
    ASSUME FlatIncludes, NEW d, Legal(d), NEW u \in Discoverable, d[u] # Absent, NEW table,
           \A m \in Macros : Bound(table[m], m, Hashes(d)),
           NEW x \in Uses(Parse(d, u, table), u)
    PROVE  x[1] \in Macros /\ Bound(x[2], x[1], Hashes(d))
<1> DEFINE ir == Parse(d, u, table)
           seq == Expansion(d, u)
           hash == Hashes(d)
<1>1. u \in Files /\ hash[u] = d[u]
  BY DEF Files, Hashes
<1>2. seq \in Seq(Spliced(d, u)) /\ ir.text[u] = d[u] /\ u \in Spliced(d, u)
  BY <1>1, ExpansionFlat, ParseFlat, SplicedFlat
<1>3. \A f \in Spliced(d, u) : f \in Files /\ d[f] # Absent
  BY <1>1, SplicedPresent DEF Legal
<1>4. d[u] \in Content
  BY <1>1 DEF Legal, Tree
<1>5. ASSUME NEW i \in DOMAIN seq, NEW m \in Macros
      PROVE  Bound(Over(Effect(d, seq, i - 1, m), table[m]), m, hash)
  <2> DEFINE e == Effect(d, seq, i - 1, m)
  <2>1. i - 1 \in Nat /\ i - 1 <= Len(seq)
    BY <1>2
  <2>2. e \in {Silent, Undef} \/ \E g \in Spliced(d, u) : Defining(d, g, m) /\ e = <<g, d[g].mac[m]>>
    BY <1>2, <1>3, <2>1, EffectMade
  <2> HIDE DEF e
  <2>3. \A g \in Discoverable : hash[g] = d[g]
    BY DEF Hashes
  <2>4. e = Silent \/ Bound(e, m, hash)
    BY <1>3, <2>2, <2>3 DEF Bound, Defining
  <2> QED
    BY <2>4 DEF Over, e
<1>6. ir.seen[u] = {[m \in Macros |-> IF Sensitive(d[u], m)
                                      THEN Over(Effect(d, seq, i - 1, m), table[m])
                                      ELSE Silent] : i \in {j \in DOMAIN seq : seq[j] = u}}
  BY <1>2 DEF Parse
<1>7. x \in {<<m, Over(Directive(ir.text, u, m), b[m])>> : m \in ir.text[u].use, b \in ir.seen[u]}
  BY <1>2 DEF Uses
<1> HIDE DEF ir, seq, hash
<1>8. PICK m \in d[u].use, b \in ir.seen[u] : x = <<m, Over(Directive(ir.text, u, m), b[m])>>
  BY <1>2, <1>7
<1>9. m \in Macros
  BY <1>4 DEF Content
<1>10. PICK i \in DOMAIN seq : b = [k \in Macros |-> IF Sensitive(d[u], k)
                                      THEN Over(Effect(d, seq, i - 1, k), table[k])
                                      ELSE Silent]
  BY <1>6
<1>11. Directive(ir.text, u, m) = IF d[u].mac[m] \in {Undef, Silent} THEN d[u].mac[m]
                                  ELSE <<u, d[u].mac[m]>>
  BY <1>2 DEF Directive
<1>12. CASE d[u].mac[m] = Silent
  <2>1. Sensitive(d[u], m)
    BY <1>12 DEF Sensitive
  <2>2. b[m] = Over(Effect(d, seq, i - 1, m), table[m])
    BY <1>9, <1>10, <2>1
  <2>3. Over(Directive(ir.text, u, m), b[m]) = b[m]
    BY <1>11, <1>12 DEF Over
  <2>4. x[1] = m /\ x[2] = b[m]
    BY <1>8, <2>3
  <2>5. Bound(Over(Effect(d, seq, i - 1, m), table[m]), m, hash)
    BY <1>5, <1>9
  <2>6. Bound(b[m], m, hash)
    BY <2>2, <2>5
  <2> QED
    BY <1>9, <2>4, <2>6 DEF hash
<1>13. CASE d[u].mac[m] = Undef
  <2>1. Over(Directive(ir.text, u, m), b[m]) = Undef
    BY <1>11, <1>13, DistinctAssumption DEF Over
  <2> QED
    BY <1>8, <1>9, <2>1 DEF Bound
<1>14. CASE d[u].mac[m] \notin {Undef, Silent}
  <2>1. Bound(<<u, d[u].mac[m]>>, m, hash)
    BY <1>1, <1>14 DEF Bound
  <2>2. Directive(ir.text, u, m) = <<u, d[u].mac[m]>>
    BY <1>11, <1>14
  <2>3. d[u].mac[m] \in Names
    BY <1>4, <1>9, <1>14 DEF Content
  <2>4. <<u, d[u].mac[m]>> # Silent
    BY <1>1, <2>3, DistinctAssumption
  <2>5. Over(Directive(ir.text, u, m), b[m]) = <<u, d[u].mac[m]>>
    BY <2>2, <2>4 DEF Over
  <2>6. x[1] = m /\ x[2] = <<u, d[u].mac[m]>>
    BY <1>8, <2>5
  <2> QED
    BY <1>9, <2>1, <2>6 DEF hash
<1> QED
  BY <1>12, <1>13, <1>14

(***************************************************************************)
(* The macro rows of the database                                          *)
(***************************************************************************)
(* Every event a unit's IR keeps is of a text it was made from.            *)
EventsMade(irs) ==
    \A u \in DOMAIN irs : \A m \in Macros : Makes(irs[u].text, irs[u].events[m], m)

(* Every macro a unit's own text expanded has the body the defining file   *)
(* has, and the row that says whose it is.                                 *)
UseKept(base, u, x) ==
    /\ x[1] \in Macros
    /\ Bound(x[2], x[1], base.hash)
    /\ x[2] # Undef => <<x[1], x[2][1]>> \in base.dep[u].use
UsesBound(base) == \A u \in DOMAIN base.ir : \A x \in Uses(base.ir[u], u) : UseKept(base, u, x)

(* Every definition the files table knows of has its row.                  *)
Defined(hash, g, m) == hash[g] # Absent /\ hash[g].mac[m] \notin {Undef, Silent}
DefinitionsRecorded(base) ==
    \A g \in Discoverable : \A m \in Macros :
        Defined(base.hash, g, m) => <<m, base.hash[g].mac[m]>> \in base.dep[g].def

MacroSound(base) == EventsMade(base.ir) /\ UsesBound(base) /\ DefinitionsRecorded(base)

(* The rows an IR gives a file it holds.                                   *)
LEMMA MacroRows ==
    ASSUME NEW ir, NEW f, ir.text[f] # Absent
    PROVE  /\ \A x \in Uses(ir, f) : x[2] # Undef => <<x[1], x[2][1]>> \in Dep(ir, f).use
           /\ \A m \in Macros : ir.text[f].mac[m] \notin {Undef, Silent} =>
                <<m, ir.text[f].mac[m]>> \in Dep(ir, f).def
<1>1. /\ Dep(ir, f).def = {<<m, ir.text[f].mac[m]>> :
                             m \in {x \in Macros : ir.text[f].mac[x] \notin {Undef, Silent}}}
      /\ Dep(ir, f).use = {<<x[1], IF x[2] = Undef THEN Absent ELSE x[2][1]>> : x \in Uses(ir, f)}
  BY DEF Dep
<1>2. ASSUME NEW x \in Uses(ir, f), x[2] # Undef PROVE <<x[1], x[2][1]>> \in Dep(ir, f).use
  BY <1>1, <1>2
<1>3. ASSUME NEW m \in Macros, ir.text[f].mac[m] \notin {Undef, Silent}
      PROVE  <<m, ir.text[f].mac[m]>> \in Dep(ir, f).def
  BY <1>1, <1>3
<1> QED
  BY <1>2, <1>3

(* So do the dependency rows made of several IRs.                          *)
LEMMA DepOfRows ==
    ASSUME NEW irs, NEW units, NEW u \in units, NEW f \in Files, irs[u].text[f] # Absent
    PROVE  LET row == DepOf(IRs(irs, units))[f]
           IN  /\ \A x \in Uses(irs[u], f) : x[2] # Undef => <<x[1], x[2][1]>> \in row.use
               /\ \A m \in Macros : irs[u].text[f].mac[m] \notin {Undef, Silent} =>
                    <<m, irs[u].text[f].mac[m]>> \in row.def
<1> DEFINE row == DepOf(IRs(irs, units))[f]
<1>1. /\ row.def = UNION {Dep(ir, f).def : ir \in IRs(irs, units)}
      /\ row.use = UNION {Dep(ir, f).use : ir \in IRs(irs, units)}
  BY DEF DepOf
<1>2. irs[u] \in IRs(irs, units)
  BY DEF IRs
<1> HIDE DEF row
<1>3. Dep(irs[u], f).def \subseteq row.def /\ Dep(irs[u], f).use \subseteq row.use
  BY <1>1, <1>2
<1>4. /\ \A x \in Uses(irs[u], f) : x[2] # Undef => <<x[1], x[2][1]>> \in Dep(irs[u], f).use
      /\ \A m \in Macros : irs[u].text[f].mac[m] \notin {Undef, Silent} =>
                    <<m, irs[u].text[f].mac[m]>> \in Dep(irs[u], f).def
  BY MacroRows
<1>5. /\ \A x \in Uses(irs[u], f) : x[2] # Undef => <<x[1], x[2][1]>> \in row.use
      /\ \A m \in Macros : irs[u].text[f].mac[m] \notin {Undef, Silent} =>
                    <<m, irs[u].text[f].mac[m]>> \in row.def
  BY <1>3, <1>4
<1> QED
  BY <1>5 DEF row

(* The discoverable texts a fresh unit was made from are current.          *)
LEMMA FreshTexts ==
    ASSUME NEW ir, NEW u \in Discoverable, NEW hash, WellParsed(ir, u), UnitFresh(ir, u, hash),
           NEW g \in Discoverable, ir.text[g] # Absent
    PROVE  hash[g] = ir.text[g]
<1>1. CASE g = u
  BY <1>1 DEF UnitFresh
<1>2. CASE g # u
  <2>1. PICK p \in ir.text[u].inc : ir.res[p] = g
    BY <1>2 DEF WellParsed, Files
  <2> QED
    BY <2>1 DEF UnitFresh
<1> QED
  BY <1>1, <1>2

(* The run of pass 1 over units whose events are all current.              *)
EventsBound(units, d, clean, stored, hash) ==
    \A v \in units : \A m \in Macros :
        LET e == Events(d, clean, stored, v, m) IN e = Silent \/ Bound(e, m, hash)

(* The events of a unit that is parsed are current.                        *)
LEMMA ParsedEvents ==
    ASSUME FlatIncludes, NEW d, Legal(d), NEW u \in Discoverable, d[u] # Absent,
           NEW clean, NEW stored, u \notin clean, NEW m \in Macros
    PROVE  LET e == Events(d, clean, stored, u, m) IN e = Silent \/ Bound(e, m, Hashes(d))
<1> DEFINE ir == Parse(d, u, [k \in Macros |-> Undef])
           e == Events(d, clean, stored, u, m)
<1>1. u \in Files
  BY DEF Files
<1>2. Makes(ir.text, ir.events[m], m) /\ ir.events[m] = Events(d, {}, << >>, u, m)
  BY <1>1, ParsedMakes
<1>3. e = Events(d, {}, << >>, u, m)
  BY DEF Events
<1>4. \A f \in Files : ir.text[f] # Absent => ir.text[f] = d[f]
  BY <1>1, ParseFlat
<1> HIDE DEF ir, e
<1>5. \A g \in Discoverable : ir.text[g] # Absent => Hashes(d)[g] = ir.text[g]
  BY <1>4 DEF Hashes, Files
<1>6. e = Silent \/ Bound(e, m, Hashes(d))
  BY <1>2, <1>3, <1>5, MadeIsBound
<1> QED
  BY <1>6 DEF e

(* What holds of an IR by itself: its events are of its own texts, and the *)
(* bodies it expanded are current.                                         *)
MacrosOf(ir, u, hash) ==
    /\ \A m \in Macros : Makes(ir.text, ir.events[m], m)
    /\ \A x \in Uses(ir, u) : x[1] \in Macros /\ Bound(x[2], x[1], hash)

(* So a run makes every unit it parses, if all events are current.         *)
LEMMA RunMacros ==
    ASSUME FlatIncludes, NEW d, Legal(d), NEW present \in SUBSET Discoverable, NEW clean, NEW stored,
           EventsBound(Units(present, d, clean, stored), d, clean, stored, Hashes(d)),
           NEW u \in Units(present, d, clean, stored), u \notin clean, d[u] # Absent
    PROVE  MacrosOf(Pass1(present, d, clean, stored)[u], u, Hashes(d))
<1> DEFINE units == Units(present, d, clean, stored)
           table == Table(units, d, clean, stored, u)
           ir == Parse(d, u, table)
<1>1. units \in SUBSET Discoverable /\ u \in Discoverable /\ u \in Files
  BY UnitsProperty DEF Files
<1>2. Pass1(present, d, clean, stored)[u] = ir
  BY DEF Pass1
<1>3. ASSUME NEW m \in Macros PROVE Bound(table[m], m, Hashes(d))
  <2>1. \A v \in units : LET e == Events(d, clean, stored, v, m)
                         IN  e = Silent \/ Bound(e, m, Hashes(d))
    BY DEF EventsBound
  <2> HIDE DEF units
  <2> QED
    BY <1>1, <2>1, TableBound
<1> HIDE DEF units, table
<1>4. \A m \in Macros : Makes(ir.text, ir.events[m], m)
  BY <1>1, ParsedMakes
<1>5. \A x \in Uses(ir, u) : x[1] \in Macros /\ Bound(x[2], x[1], Hashes(d))
  BY <1>1, <1>3, ParsedUses
<1> QED
  BY <1>2, <1>4, <1>5 DEF MacrosOf

(* A full build records every macro it expands and defines.                *)
LEMMA FullBuildMacros ==
    ASSUME FlatIncludes, NEW d, Legal(d)
    PROVE  MacroSound(FullBuild(d))
<1> DEFINE irs == Parsed(d)
           base == FullBuild(d)
           hash == Hashes(d)
<1>1. /\ base.hash = hash /\ base.ir = irs
      /\ base.fnode = {f \in Files : OwnedBy(irs, f) # Absent}
      /\ base.dep = AllDep(irs)
  BY FullBuildTables DEF Tables
<1>2. Recorded(base)
  BY FullBuildSound DEF Sound
<1>3. Present(d) \in SUBSET Discoverable
  BY DEF Present
<1>4. DOMAIN irs = Units(Present(d), d, {}, << >>) /\ DOMAIN irs \in SUBSET Present(d)
  <2>1. DOMAIN irs = Units(Present(d), d, {}, << >>)
    BY Pass1Property, Zenon DEF Parsed
  <2> HIDE DEF irs
  <2> QED
    BY <1>3, <2>1, UnitsProperty
<1>5. \A u \in DOMAIN irs : u \in Discoverable /\ u \in Files /\ d[u] # Absent
  BY <1>4 DEF Present, Files
<1>6. EventsBound(Units(Present(d), d, {}, << >>), d, {}, << >>, hash)
  <2> SUFFICES ASSUME NEW v \in DOMAIN irs, NEW m \in Macros
               PROVE  LET e == Events(d, {}, << >>, v, m) IN e = Silent \/ Bound(e, m, hash)
    BY <1>4 DEF EventsBound
  <2> HIDE DEF irs
  <2> QED
    BY <1>5, ParsedEvents
<1>7. ASSUME NEW u \in DOMAIN irs
      PROVE  /\ MacrosOf(irs[u], u, hash)
             /\ irs[u].text[u] # Absent
             /\ \A f \in Files : irs[u].text[f] # Absent => irs[u].text[f] = d[f]
  <2>1. MacrosOf(irs[u], u, hash)
    BY <1>3, <1>4, <1>5, <1>6, RunMacros DEF Parsed
  <2>2. PICK table : irs[u] = Parse(d, u, table)
    BY <1>4, Pass1Property DEF Parsed
  <2> HIDE DEF irs
  <2> QED
    BY <1>5, <2>1, <2>2, ParseFlat
<1> HIDE DEF irs, base, hash
<1>8. AllDep(irs) = DepOf(IRs(irs, DOMAIN irs))
  BY DEF AllDep
<1>9. EventsMade(irs)
  BY <1>7 DEF EventsMade, MacrosOf
<1>10. UsesBound(base)
  <2> SUFFICES ASSUME NEW u \in DOMAIN irs, NEW x \in Uses(irs[u], u) PROVE UseKept(base, u, x)
    BY <1>1 DEF UsesBound
  <2>1. x[1] \in Macros /\ Bound(x[2], x[1], hash)
    BY <1>7 DEF MacrosOf
  <2>2. x[2] # Undef => <<x[1], x[2][1]>> \in AllDep(irs)[u].use
    <3>1. \A y \in Uses(irs[u], u) :
             y[2] # Undef => <<y[1], y[2][1]>> \in DepOf(IRs(irs, DOMAIN irs))[u].use
      BY <1>5, <1>7, DepOfRows
    <3> QED
      BY <1>8, <3>1
  <2> QED
    BY <1>1, <2>1, <2>2 DEF UseKept
<1>11. DefinitionsRecorded(base)
  <2> SUFFICES ASSUME NEW g \in Discoverable, NEW m \in Macros, Defined(hash, g, m)
               PROVE  <<m, hash[g].mac[m]>> \in base.dep[g].def
    BY <1>1 DEF DefinitionsRecorded
  <2>1. g \in Files /\ hash[g] = d[g] /\ hash[g] # Absent
    BY DEF Files, Hashes, hash, Defined
  <2>2. OwnedBy(irs, g) # Absent
    BY <1>1, <1>2, <2>1 DEF Recorded
  <2>3. DOMAIN irs \in SUBSET Discoverable
    BY <1>5
  <2>4. PICK u \in DOMAIN irs : irs[u].text[g] # Absent
    <3> DEFINE own == OwnedBy(irs, g)
    <3>1. own = Owner(DOMAIN irs, {}, irs, g)
      BY DEF OwnedBy
    <3> HIDE DEF own
    <3>2. own # Absent => own \in DOMAIN irs /\ irs[own].text[g] # Absent
      BY <2>3, <3>1, OwnerProperty
    <3> QED
      BY <2>2, <3>2 DEF own
  <2>5. irs[u].text[g] = hash[g]
    BY <1>7, <2>1, <2>4
  <2>6. <<m, irs[u].text[g].mac[m]>> \in AllDep(irs)[g].def
    BY <1>8, <2>1, <2>4, <2>5, DepOfRows DEF Defined
  <2> QED
    BY <1>1, <2>5, <2>6
<1>12. MacroSound(base)
  BY <1>1, <1>9, <1>10, <1>11 DEF MacroSound
<1> QED
  BY <1>12 DEF base

(***************************************************************************)
(* So does an update                                                       *)
(***************************************************************************)
(* The clean units' stored events are of texts that are still current.     *)
LEMMA RunEvents ==
    ASSUME FlatIncludes, Inv, snap = disk, AllFresh(db), EventsMade(db.ir), ~Vanished
    PROVE  EventsBound(RunUnits, disk, Clean, db.ir, Hashes(disk))
<1> SUFFICES ASSUME NEW v \in RunUnits, NEW m \in Macros
             PROVE  LET e == Events(disk, Clean, db.ir, v, m)
                    IN  e = Silent \/ Bound(e, m, Hashes(disk))
  BY DEF EventsBound
<1> DEFINE e == Events(disk, Clean, db.ir, v, m)
           hash == Hashes(disk)
<1>1. v \in Discoverable
  <2>1. Present(snap) \in SUBSET Discoverable
    BY DEF Present
  <2> QED
    BY <2>1, UnitsProperty DEF RunUnits
<1>2. ASSUME v \in Clean PROVE e = Silent \/ Bound(e, m, hash)
  <2> DEFINE ir == db.ir[v]
  <2>1. v \in DOMAIN db.ir \ Touched
    <3>1. Changed \union Removed \in SUBSET Files
      BY DEF Changed, Removed, Present, Files
    <3>2. Removed \subseteq Dirty
      BY <3>1, ClosureContains DEF Dirty
    <3> QED
      BY <1>2, <3>2 DEF Touched, Reparsed, Clean
  <2>2. UnitFresh(ir, v, hash)
    BY <2>1, KeptIsFresh DEF AllFresh
  <2>3. WellParsed(ir, v)
    BY <2>1 DEF Inv, Sound
  <2>4. e = ir.events[m]
    BY <1>2 DEF Events
  <2>5. Makes(ir.text, ir.events[m], m)
    BY <2>1 DEF EventsMade
  <2> HIDE DEF ir, e, hash
  <2>6. \A g \in Discoverable : ir.text[g] # Absent => hash[g] = ir.text[g]
    BY <1>1, <2>2, <2>3, FreshTexts
  <2> QED
    BY <2>4, <2>5, <2>6, MadeIsBound
<1>3. ASSUME v \notin Clean PROVE e = Silent \/ Bound(e, m, hash)
  <2>1. disk[v] # Absent /\ Legal(disk)
    BY <1>3 DEF Vanished, Inv
  <2> QED
    BY <1>1, <1>3, <2>1, ParsedEvents
<1> QED
  BY <1>2, <1>3

(* A stored unit outside the scope expanded no macro whose definition has  *)
(* changed: its use row and the definition row would have made it dirty.   *)
LEMMA KeptUses ==
    ASSUME FlatIncludes, Inv, MacroSound(db), NEW u \in DOMAIN db.ir \ Touched, NEW x \in Uses(db.ir[u], u)
    PROVE  Bound(x[2], x[1], Hashes(snap))
<1>1. UseKept(db, u, x)
  BY DEF MacroSound, UsesBound
<1> DEFINE m == x[1]  b == x[2]
<1> HIDE DEF m, b
<1>2. m \in Macros /\ Bound(b, m, db.hash) /\ (b # Undef => <<m, b[1]>> \in db.dep[u].use)
  BY <1>1 DEF UseKept, m, b
<1>3. CASE b = Undef
  BY <1>3 DEF Bound, b
<1>4. CASE b # Undef
  <2>1. PICK g \in Files : \E n : /\ n \notin {Undef, Silent} /\ b = <<g, n>>
                                  /\ g \in Discoverable => db.hash[g] # Absent /\ db.hash[g].mac[m] = n
    BY <1>2, <1>4 DEF Bound
  <2>2. PICK n : /\ n \notin {Undef, Silent} /\ b = <<g, n>>
                 /\ g \in Discoverable => db.hash[g] # Absent /\ db.hash[g].mac[m] = n
    BY <2>1
  <2>3. ASSUME g \in Discoverable PROVE Hashes(snap)[g] = db.hash[g]
    <3> DEFINE C == Closure(DepRel(db), Changed \union Removed)
    <3>1. u \in Discoverable /\ u \in Files
      BY DEF Inv, TypeOK, TablesOK, Files
    <3>2. db.hash[u] # Absent /\ db.hash[g] # Absent
      BY <2>2, <2>3 DEF Inv, Sound, Known
    <3>3. u \in db.fnode /\ g \in db.fnode
      BY <2>3, <3>1, <3>2 DEF Inv, Sound, Recorded
    <3>4. <<m, n>> \in db.dep[g].def
      BY <1>2, <2>2, <2>3, <3>2 DEF MacroSound, DefinitionsRecorded, Defined
    <3>5. <<m, g>> \in db.dep[u].use
      BY <1>2, <1>4, <2>2
    <3>6. <<g, u>> \in DepRel(db)
      BY <3>3, <3>4, <3>5 DEF DepRel
    <3>7. u \notin Dirty
      BY KeptIsKnown
    <3>8. g \notin C
      BY <3>1, <3>6, <3>7, ClosureClosed DEF Dirty
    <3>9. g \notin Changed \union Removed
      <4>1. Changed \union Removed \in SUBSET Files
        BY DEF Changed, Removed, Present, Files
      <4> QED
        BY <3>8, <4>1, ClosureContains
    <3> QED
      BY <2>3, <3>2, <3>9 DEF Changed, Removed, Present, Stored, Hashes
  <2>4. g \in Discoverable => Hashes(snap)[g] # Absent /\ Hashes(snap)[g].mac[m] = n
    BY <2>2, <2>3
  <2>5. Bound(b, m, Hashes(snap))
    BY <2>2, <2>4 DEF Bound
  <2> QED
    BY <2>5 DEF b, m
<1> QED
  BY <1>3, <1>4

(* After the update every macro row is there, and every body is current.   *)
LEMMA DeltaMacros ==
    ASSUME FlatIncludes, Inv, snap = disk, AllFresh(db), MacroSound(db), ~Vanished, NEW bounded \in BOOLEAN
    PROVE  MacroSound(Delta(bounded))
<1> DEFINE irs  == Pass1(Present(snap), disk, Clean, db.ir)
           rows == Touched \intersect DOMAIN irs
           base == Delta(bounded)
           hash == Hashes(snap)
<1>1. /\ base.ir = [u \in (DOMAIN db.ir \ Touched) \union rows |->
                      IF u \in rows THEN irs[u] ELSE db.ir[u]]
      /\ base.fnode = (db.fnode \ Touched)
                      \union {f \in Touched : \E u \in rows : irs[u].text[f] # Absent}
  BY DeltaRows DEF Inv
<1>2. base.hash = hash
  BY DeltaHash DEF Inv
<1>3. \A f \in Files : base.dep[f] = IF f \in Touched THEN DepOf(IRs(irs, rows))[f] ELSE db.dep[f]
  BY DeltaDeps DEF Inv
<1>4. Recorded(base)
  BY DeltaSound DEF Sound
<1>5. Present(snap) \in SUBSET Discoverable /\ Legal(disk)
  BY DEF Present, Inv
<1>6. DOMAIN irs = RunUnits /\ DOMAIN irs \in SUBSET Present(snap)
  <2>1. DOMAIN irs = RunUnits
    BY DEF Pass1, RunUnits
  <2> HIDE DEF irs
  <2> QED
    BY <1>5, <2>1, UnitsProperty DEF RunUnits
<1>7. ASSUME NEW u \in rows
      PROVE  /\ u \in Discoverable /\ u \in Files
             /\ MacrosOf(irs[u], u, hash)
             /\ irs[u].text[u] # Absent
             /\ \A f \in Files : irs[u].text[f] # Absent => irs[u].text[f] = disk[f]
  <2>1. u \in Discoverable /\ u \in Files /\ u \in RunUnits
    BY <1>5, <1>6 DEF Files
  <2>2. u \notin Clean
    <3>1. Changed \union Removed \in SUBSET Files
      BY DEF Changed, Removed, Present, Files
    <3>2. Removed \subseteq Dirty
      BY <3>1, ClosureContains DEF Dirty
    <3> QED
      BY <3>2 DEF Touched, Reparsed, Clean
  <2>3. disk[u] # Absent
    BY <2>1, <2>2 DEF Vanished
  <2>4. MacrosOf(irs[u], u, hash)
    <3>1. EventsBound(RunUnits, disk, Clean, db.ir, hash)
      BY RunEvents DEF MacroSound
    <3> QED
      BY <1>5, <2>1, <2>2, <2>3, <3>1, RunMacros DEF RunUnits
  <2>5. PICK table : irs[u] = Parse(disk, u, table)
    BY <2>2, Pass1Property
  <2> HIDE DEF irs
  <2> QED
    BY <1>5, <2>1, <2>3, <2>4, <2>5, ParseFlat
<1> HIDE DEF irs, base, hash
<1>8. EventsMade(base.ir)
  <2> SUFFICES ASSUME NEW u \in DOMAIN base.ir, NEW m \in Macros
               PROVE  Makes(base.ir[u].text, base.ir[u].events[m], m)
    BY DEF EventsMade
  <2>1. CASE u \in rows
    BY <1>1, <1>7, <2>1 DEF MacrosOf
  <2>2. CASE u \notin rows
    BY <1>1, <2>2 DEF MacroSound, EventsMade
  <2> QED
    BY <2>1, <2>2
<1>9. UsesBound(base)
  <2> SUFFICES ASSUME NEW u \in DOMAIN base.ir, NEW x \in Uses(base.ir[u], u) PROVE UseKept(base, u, x)
    BY DEF UsesBound
  <2>1. CASE u \in rows
    <3>1. base.ir[u] = irs[u]
      BY <1>1, <2>1
    <3>2. x[1] \in Macros /\ Bound(x[2], x[1], hash)
      BY <1>7, <2>1, <3>1 DEF MacrosOf
    <3>3. \A y \in Uses(irs[u], u) :
             y[2] # Undef => <<y[1], y[2][1]>> \in DepOf(IRs(irs, rows))[u].use
      BY <1>7, <2>1, DepOfRows
    <3>4. base.dep[u] = DepOf(IRs(irs, rows))[u]
      BY <1>3, <1>7, <2>1
    <3> QED
      BY <1>2, <3>1, <3>2, <3>3, <3>4 DEF UseKept
  <2>2. CASE u \notin rows
    <3>1. u \in DOMAIN db.ir \ Touched /\ base.ir[u] = db.ir[u]
      BY <1>1, <2>2
    <3>2. UseKept(db, u, x)
      BY <3>1 DEF MacroSound, UsesBound
    <3>3. u \in Files
      BY <3>1 DEF Inv, TypeOK, TablesOK, Files
    <3>4. base.dep[u] = db.dep[u]
      BY <1>3, <3>1, <3>3
    <3>5. Bound(x[2], x[1], hash)
      BY <3>1, KeptUses DEF hash
    <3> QED
      BY <1>2, <3>2, <3>4, <3>5 DEF UseKept
  <2> QED
    BY <2>1, <2>2
<1>10. DefinitionsRecorded(base)
  <2> SUFFICES ASSUME NEW g \in Discoverable, NEW m \in Macros, Defined(hash, g, m)
               PROVE  <<m, hash[g].mac[m]>> \in base.dep[g].def
    BY <1>2 DEF DefinitionsRecorded
  <2>1. g \in Files /\ hash[g] = snap[g] /\ hash[g] # Absent
    BY DEF Files, Hashes, hash, Defined
  <2>2. CASE g \in Touched
    <3>1. g \in base.fnode
      BY <1>2, <1>4, <2>1 DEF Recorded
    <3>2. PICK u \in rows : irs[u].text[g] # Absent
      BY <1>1, <2>2, <3>1
    <3>3. irs[u].text[g] = hash[g]
      BY <1>7, <2>1, <3>2
    <3>4. \A k \in Macros : irs[u].text[g].mac[k] \notin {Undef, Silent} =>
             <<k, irs[u].text[g].mac[k]>> \in DepOf(IRs(irs, rows))[g].def
      BY <2>1, <3>2, DepOfRows
    <3>5. base.dep[g] = DepOf(IRs(irs, rows))[g]
      BY <1>3, <2>1, <2>2
    <3> QED
      BY <3>3, <3>4, <3>5 DEF Defined
  <2>3. CASE g \notin Touched
    <3>1. db.hash[g] = hash[g] /\ base.dep[g] = db.dep[g]
      BY <1>3, <2>1, <2>3, OutsideScope DEF Inv
    <3> QED
      BY <3>1 DEF MacroSound, DefinitionsRecorded, Defined
  <2> QED
    BY <2>2, <2>3
<1>11. MacroSound(base)
  BY <1>8, <1>9, <1>10 DEF MacroSound
<1> QED
  BY <1>11 DEF base

(***************************************************************************)
(* The theorems                                                            *)
(***************************************************************************)
(* The first build establishes the invariant, with every IR fresh.         *)
LEMMA InvInit == ASSUME FlatIncludes, Init PROVE Inv /\ AllFresh(db) /\ snap = disk
<1>1. Legal(disk)
  BY VersionsAssumption DEF Init, Tree, Legal
<1>2. TypeOK
  BY <1>1, FullBuildType DEF Init, TypeOK, Legal
<1> QED
  BY <1>1, <1>2, FullBuildSound DEF Init, Inv

(* Every step keeps the invariant.                                         *)
LEMMA InvNext ==
    ASSUME FlatIncludes, Racing # "any", Inv, TypeOK', [Next]_vars
    PROVE  Inv'
<1>1. ASSUME db' = db, Sound(db) PROVE Sound(db)'
  BY <1>1 DEF Sound, Recorded
<1>2. ASSUME Rewrite PROVE Sound(db')
  <2>1. Sound(FullBuild(disk))
    BY FullBuildSound DEF Inv
  <2> QED
    BY <1>2, <2>1 DEF Rewrite, Inv
<1>3. ASSUME NEW f \in Files, Edit(f) PROVE Inv'
  <2>1. Legal(disk')
    BY <1>3, VersionsAssumption DEF Edit, Legal, Tree, Inv
  <2>2. \A g \in Files : snap'[g] = Absent => disk'[g] = Absent
    BY <1>3 DEF Edit, Inv, TypeOK, Tree
  <2>3. pc' = "idle" => snap' = disk'
    BY <1>3 DEF Edit
  <2> QED
    BY <1>3, <2>1, <2>2, <2>3 DEF Edit, Inv
<1>4. CASE Scan
  BY <1>4 DEF Scan, Inv
<1>5. ASSUME NEW bounded \in BOOLEAN, Commit(bounded) PROVE Inv'
  BY <1>5, DeltaSound DEF Commit, Done, Inv
<1>6. CASE Abort
  BY <1>6 DEF Abort, Done, Inv
<1>7. CASE NothingParsed
  BY <1>7 DEF NothingParsed, Done, Inv
<1>8. CASE Fallback
  BY <1>2, <1>8 DEF Fallback, Done, Inv
<1>9. CASE Build
  BY <1>2, <1>9 DEF Build, Inv
<1>10. CASE UNCHANGED vars
  BY <1>10 DEF vars, Inv
<1> QED
  BY <1>3, <1>4, <1>5, <1>6, <1>7, <1>8, <1>9, <1>10 DEF Next

(* Where no header includes a file and no file is created while an update  *)
(* runs, every row that the next update computes its scope from is there,  *)
(* after any sequence of edits, updates and rebuilds.                      *)
THEOREM IncludesKept ==
    ASSUME FlatIncludes, Racing # "any"
    PROVE  Spec => []IncludesRecorded
<1>1. Init => Inv
  BY InvInit
<1>2. TypeOK' /\ Inv /\ [Next]_vars => Inv'
  BY InvNext
<1>3. Inv => IncludesRecorded
  BY DEF Inv, Sound, IncludesRecorded
<1> QED
  BY <1>1, <1>2, <1>3, Types, PTL DEF Spec

(* Where files keep still while an update runs, every IR stays fresh.      *)
LEMMA FreshNext ==
    ASSUME FlatIncludes, Racing = "none", Inv, snap = disk, AllFresh(db), [Next]_vars
    PROVE  AllFresh(db)' /\ snap' = disk'
<1>1. ASSUME db' = db PROVE AllFresh(db)'
  BY <1>1 DEF AllFresh
<1>2. ASSUME Rewrite PROVE AllFresh(db')
  <2>1. AllFresh(FullBuild(disk))
    BY FullBuildSound DEF Inv
  <2> QED
    BY <1>2, <2>1 DEF Rewrite
<1>3. ASSUME NEW bounded \in BOOLEAN, Commit(bounded) PROVE AllFresh(db') /\ snap' = disk'
  BY <1>3, DeltaFresh DEF Commit, Done
<1>4. CASE Fallback \/ Build
  BY <1>2, <1>4 DEF Fallback, Build, Done
<1>5. CASE UNCHANGED vars \/ Scan \/ Abort \/ NothingParsed \/ \E f \in Files : Edit(f)
  BY <1>1, <1>5 DEF vars, Scan, Abort, NothingParsed, Edit, Done
<1> QED
  BY <1>3, <1>4, <1>5 DEF Next

(* Where no header includes a file and no edit races an update, every      *)
(* stored parse result is current, after any sequence of edits, updates    *)
(* and rebuilds.                                                           *)
THEOREM Freshness ==
    ASSUME FlatIncludes, Racing = "none"
    PROVE  Spec => []DirectlyFresh
<1> DEFINE I == Inv /\ AllFresh(db) /\ snap = disk
<1>1. Init => I
  BY InvInit
<1>2. TypeOK' /\ I /\ [Next]_vars => I'
  BY InvNext, FreshNext
<1>3. I => DirectlyFresh
  BY DEF AllFresh, DirectlyFresh
<1> QED
  BY <1>1, <1>2, <1>3, Types, PTL DEF Spec

(* Every step keeps the macro rows, where files keep still.                *)
LEMMA MacroNext ==
    ASSUME FlatIncludes, Racing = "none", Inv, snap = disk, AllFresh(db), MacroSound(db), [Next]_vars
    PROVE  MacroSound(db)'
<1>1. ASSUME db' = db PROVE MacroSound(db')
  BY <1>1
<1>2. ASSUME Rewrite PROVE MacroSound(db')
  <2>1. MacroSound(FullBuild(disk))
    BY FullBuildMacros DEF Inv
  <2> QED
    BY <1>2, <2>1 DEF Rewrite
<1>3. ASSUME NEW bounded \in BOOLEAN, Commit(bounded) PROVE MacroSound(db')
  BY <1>3, DeltaMacros DEF Commit, Done
<1>4. CASE Fallback \/ Build
  BY <1>2, <1>4 DEF Fallback, Build, Done
<1>5. CASE UNCHANGED vars \/ Scan \/ Abort \/ NothingParsed \/ \E f \in Files : Edit(f)
  BY <1>1, <1>5 DEF vars, Scan, Abort, NothingParsed, Edit, Done
<1> QED
  BY <1>3, <1>4, <1>5 DEF Next

(* Where no header includes a file and no edit races an update, every      *)
(* macro body that a unit's own text was expanded with is the one its      *)
(* defining file has now, after any sequence of edits, updates and         *)
(* rebuilds.                                                               *)
THEOREM MacrosCurrent ==
    ASSUME FlatIncludes, Racing = "none"
    PROVE  Spec => []MacrosFresh
<1> DEFINE I == Inv /\ AllFresh(db) /\ snap = disk /\ MacroSound(db)
<1>1. Init => I
  <2> SUFFICES ASSUME Init PROVE I
    OBVIOUS
  <2>1. Inv /\ AllFresh(db) /\ snap = disk
    BY InvInit
  <2>2. Legal(disk) /\ db = FullBuild(disk)
    BY <2>1 DEF Inv, Init
  <2> QED
    BY <2>1, <2>2, FullBuildMacros
<1>2. TypeOK' /\ I /\ [Next]_vars => I'
  BY InvNext, FreshNext, MacroNext
<1>3. I => MacrosFresh
  <2> SUFFICES ASSUME I, NEW u \in DOMAIN db.ir, NEW x \in Uses(db.ir[u], u) PROVE Current(x)
    BY DEF MacrosFresh
  <2>1. UseKept(db, u, x)
    BY DEF MacroSound, UsesBound
  <2> QED
    BY <2>1 DEF UseKept, Bound, Current
<1> QED
  BY <1>1, <1>2, <1>3, Types, PTL DEF Spec

(* Where files are rewritten while an update runs, and not back to a text  *)
(* that was hashed, a stale IR is one whose file differs from its hash.    *)
LEMMA AwaitedNext ==
    ASSUME FlatIncludes, Racing = "rewrites", Inv, AllAwaited(db, disk), [Next]_vars
    PROVE  AllAwaited(db, disk)'
<1>1. ASSUME UNCHANGED <<db, disk>> PROVE AllAwaited(db, disk)'
  BY <1>1 DEF AllAwaited
<1>2. ASSUME Rewrite, disk' = disk PROVE AllAwaited(db', disk')
  <2>1. AllFresh(FullBuild(disk))
    BY FullBuildSound DEF Inv
  <2>2. AllAwaited(FullBuild(disk), disk)
    BY <2>1 DEF AllFresh, UnitFresh, AllAwaited, UnitAwaited, Awaited
  <2> QED
    BY <1>2, <2>2 DEF Rewrite
<1>3. ASSUME NEW bounded \in BOOLEAN, Commit(bounded) PROVE AllAwaited(db', disk')
  BY <1>3, DeltaAwaited DEF Commit, Done
<1>4. CASE Fallback \/ Build
  BY <1>2, <1>4 DEF Fallback, Build, Done
<1>5. CASE UNCHANGED vars \/ Scan \/ Abort \/ NothingParsed
  BY <1>1, <1>5 DEF vars, Scan, Abort, NothingParsed, Done
<1>6. ASSUME NEW f \in Files, Edit(f) PROVE AllAwaited(db, disk')
  <2>1. \A g \in Discoverable : disk[g] # db.hash[g] => disk'[g] # db.hash[g]
    BY <1>6 DEF Edit, Inv, TypeOK, Tree, Files
  <2>2. DOMAIN db.ir \subseteq Discoverable
    BY DEF Inv, TypeOK, TablesOK
  <2> QED
    BY <2>1, <2>2 DEF AllAwaited, UnitAwaited, Awaited
<1>7. ASSUME NEW f \in Files, Edit(f) PROVE db' = db
  BY <1>7 DEF Edit
<1> QED
  BY <1>3, <1>4, <1>5, <1>6, <1>7 DEF Next

(* Where no header includes a file and no file is created, or changed back *)
(* to what was hashed, while an update runs: a stored parse result that is *)
(* not of the text its files row says is one the next scan will find, after*)
(* any sequence of edits, updates and rebuilds.                            *)
THEOREM StaleIsPending ==
    ASSUME FlatIncludes, Racing # "any"
    PROVE  Spec => []FreshOrPending
<1>1. ASSUME Racing = "none" PROVE Spec => []FreshOrPending
  <2>1. DirectlyFresh => FreshOrPending
    BY DEF DirectlyFresh, UnitFresh, FreshOrPending, Pending
  <2>2. Spec => []DirectlyFresh
    BY <1>1, Freshness
  <2> QED
    BY <2>1, <2>2, PTL
<1>2. ASSUME Racing = "rewrites" PROVE Spec => []FreshOrPending
  <2> DEFINE I == Inv /\ AllAwaited(db, disk)
  <2>1. Init => I
    <3> SUFFICES ASSUME Init PROVE I
      OBVIOUS
    <3> QED
      BY InvInit DEF AllFresh, UnitFresh, AllAwaited, UnitAwaited, Awaited
  <2>2. TypeOK' /\ I /\ [Next]_vars => I'
    BY <1>2, InvNext, AwaitedNext
  <2>3. I => FreshOrPending
    BY DEF AllAwaited, UnitAwaited, Awaited, FreshOrPending, Pending
  <2> QED
    BY <2>1, <2>2, <2>3, Types, PTL DEF Spec
<1>3. Racing \in {"none", "rewrites"}
  BY RacingAssumption
<1> QED
  BY <1>1, <1>2, <1>3

=============================================================================
