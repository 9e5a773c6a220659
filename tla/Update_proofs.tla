---------------------------- MODULE Update_proofs ----------------------------
(***************************************************************************)
(* Theorems about Update, for every tree, every set of texts and every     *)
(* racing editor the constants allow.                                      *)
(***************************************************************************)
EXTENDS Update, Numbers, TLAPS

(***************************************************************************)
(* The dirty closure (incremental.dirty_closure)                           *)
(***************************************************************************)
(* The closure holds what it starts from: a changed file is dirty.         *)
LEMMA ClosureContains ==
    ASSUME NEW R, NEW S \in SUBSET Files
    PROVE  S \subseteq Closure(R, S)
  BY DEF Closure

(* The closure follows every edge: a file that includes a dirty file, or   *)
(* expands a macro of one, is dirty.                                       *)
LEMMA ClosureClosed ==
    ASSUME NEW R, NEW S, NEW f \in Closure(R, S), NEW g \in Files, <<f, g>> \in R
    PROVE  g \in Closure(R, S)
<1>1. SUFFICES ASSUME NEW T \in SUBSET Files,
                      S \subseteq T, \A e \in R : e[1] \in T => e[2] \in T
               PROVE  g \in T
  BY DEF Closure
<1>2. f \in T
  BY <1>1 DEF Closure
<1> QED
  BY <1>1, <1>2

(* The closure is the least such set: nothing else is dirty.               *)
LEMMA ClosureLeast ==
    ASSUME NEW R, NEW S, NEW T \in SUBSET Files,
           S \subseteq T, \A e \in R : e[1] \in T => e[2] \in T
    PROVE  Closure(R, S) \subseteq T
  BY DEF Closure

(* The dirty files are files.                                              *)
LEMMA ClosureType ==
    ASSUME NEW R, NEW S
    PROVE  Closure(R, S) \in SUBSET Files
  BY DEF Closure

(***************************************************************************)
(* Compile order                                                           *)
(***************************************************************************)
(* A discovered file has a place in compile order.                         *)
LEMMA OrderDomain ==
    /\ Len(Order) \in Nat
    /\ DOMAIN Order = 1..Len(Order)
    /\ \A i \in DOMAIN Order : Order[i] \in Discoverable
    /\ \A f \in Discoverable : \E i \in DOMAIN Order : Order[i] = f
  BY OrderAssumption DEF Discoverable, Range

(* Any set of discovered files has one that is compiled first.             *)
LEMMA FirstInOrder ==
    ASSUME NEW S \in SUBSET Discoverable, S # {}
    PROVE  \E u \in S : \A v \in S \ {u} : Precedes(u, v)
<1> DEFINE I == {i \in DOMAIN Order : Order[i] \in S}
<1>1. I \in SUBSET Nat /\ I # {}
  BY OrderDomain
<1>2. PICK i \in I : \A j \in I : i <= j
  <2> HIDE DEF I
  <2> QED BY <1>1, LeastNumber
<1>3. \A v \in S \ {Order[i]} : Precedes(Order[i], v)
  <2> SUFFICES ASSUME NEW v \in S \ {Order[i]} PROVE Precedes(Order[i], v)
    OBVIOUS
  <2>1. PICK j \in DOMAIN Order : Order[j] = v
    BY OrderDomain
  <2>2. i <= j /\ i # j
    BY <1>2, <2>1
  <2> QED
    BY <2>1, <2>2, OrderDomain DEF Precedes
<1> QED
  BY <1>3

(***************************************************************************)
(* The units of a run (pipeline._execute, the discovery-order loop)        *)
(***************************************************************************)
(* Skipping what an earlier unit consumed has a solution whatever the      *)
(* units consume, also when they consume each other: deciding the files in *)
(* order gives one.                                                        *)
LEMMA InOrder ==
    ASSUME NEW present \in SUBSET Discoverable, NEW R
    PROVE  \E U \in SUBSET present : \A f \in present :
              f \in U <=> \A u \in U : Precedes(u, f) => <<u, f>> \notin R
<1> DEFINE Free(U, f) == \A u \in U : Precedes(u, f) => <<u, f>> \notin R
<1> DEFINE Upto(n) == {f \in present : \E i \in DOMAIN Order : i <= n /\ Order[i] = f}
<1> DEFINE T == {n \in Nat : \E U \in SUBSET Upto(n) :
                                \A f \in Upto(n) : f \in U <=> Free(U, f)}
<1>1. 0 \in T
  <2>1. Upto(0) = {}
    BY OrderDomain
  <2> QED
    BY <2>1
<1>2. ASSUME NEW n \in T PROVE n + 1 \in T
  <2>1. PICK U \in SUBSET Upto(n) : \A f \in Upto(n) : f \in U <=> Free(U, f)
    OBVIOUS
  <2>2. CASE Upto(n + 1) = Upto(n)
    BY <2>1, <2>2
  <2>3. CASE Upto(n + 1) # Upto(n)
    <3>1. n + 1 \in DOMAIN Order /\ Order[n + 1] \in present
      BY <2>3, OrderDomain
    <3> DEFINE g == Order[n + 1]
    <3>2. Upto(n + 1) = Upto(n) \union {g} /\ g \notin Upto(n)
      BY <3>1, OrderDomain, OrderAssumption
    <3>3. \A u \in Upto(n) : Precedes(u, g) /\ ~Precedes(g, u)
      BY <3>1, OrderDomain, OrderAssumption DEF Precedes
    <3>4. ~Precedes(g, g)
      BY <3>1, OrderDomain, OrderAssumption DEF Precedes
    <3> DEFINE V == IF Free(U, g) THEN U \union {g} ELSE U
    <3>5. V \in SUBSET Upto(n + 1)
      BY <3>2
    <3>6. \A f \in Upto(n) : f \in V <=> Free(V, f)
      <4> SUFFICES ASSUME NEW f \in Upto(n) PROVE f \in V <=> Free(V, f)
        OBVIOUS
      <4>1. ~Precedes(g, f) /\ f # g
        BY <3>2, <3>3
      <4>2. Free(V, f) <=> Free(U, f)
        BY <4>1
      <4> QED
        BY <2>1, <4>1, <4>2
    <3>7. g \in V <=> Free(V, g)
      BY <3>2, <3>4, <2>1
    <3> QED
      BY <3>2, <3>5, <3>6, <3>7
  <2> QED
    BY <2>2, <2>3
<1>3. Len(Order) \in T
  <2> HIDE DEF T
  <2>1. T \in SUBSET Nat
    BY DEF T
  <2> QED
    BY <1>1, <1>2, <2>1, OrderDomain, SetInduction
<1>4. Upto(Len(Order)) = present
  BY OrderDomain
<1> QED
  BY <1>3, <1>4

(* A file of a run is a unit exactly when no unit before it consumed it.   *)
LEMMA UnitsProperty ==
    ASSUME NEW present \in SUBSET Discoverable, NEW d, NEW clean, NEW stored
    PROVE  LET U == Units(present, d, clean, stored)
           IN  /\ U \in SUBSET present
               /\ \A f \in present :
                    f \in U <=> \A u \in U : Precedes(u, f) => f \notin Splices(d, clean, stored, u)
<1> DEFINE spliced == [f \in present |-> Splices(d, clean, stored, f)]
           R == {e \in present \X present : e[2] \in spliced[e[1]]}
<1> HIDE DEF spliced
<1>1. PICK V \in SUBSET present : \A f \in present :
         f \in V <=> \A u \in V : Precedes(u, f) => <<u, f>> \notin R
  <2> HIDE DEF R
  <2> QED BY InOrder
<1>2. \A f \in present :
         f \in V <=> \A u \in V : Precedes(u, f) => f \notin spliced[u]
  BY <1>1
<1>3. /\ Compiled(present, spliced) \in SUBSET present
      /\ \A f \in present :
           f \in Compiled(present, spliced) <=>
             \A u \in Compiled(present, spliced) : Precedes(u, f) => f \notin spliced[u]
  BY <1>2 DEF Compiled
<1>4. \A u \in present : spliced[u] = Splices(d, clean, stored, u)
  BY DEF spliced
<1>5. Units(present, d, clean, stored) = Compiled(present, spliced)
  BY DEF Units, spliced
<1> QED
  BY <1>3, <1>4, <1>5

(***************************************************************************)
(* The owner of a file (pipeline._merge_irs, first unit wins)              *)
(***************************************************************************)
(* Some unit that holds a file comes first in the linker's list.           *)
LEMMA FirstInList ==
    ASSUME NEW at \in SUBSET Discoverable, at # {}, NEW head
    PROVE  \E u \in at : \A v \in at \ {u} : Before(head, u, v)
<1>1. CASE at \intersect head = {}
  <2>1. PICK u \in at : \A v \in at \ {u} : Precedes(u, v)
    BY FirstInOrder
  <2> QED
    BY <1>1, <2>1 DEF Before
<1>2. CASE at \intersect head # {}
  <2>1. PICK u \in at \intersect head : \A v \in (at \intersect head) \ {u} : Precedes(u, v)
    BY <1>2, FirstInOrder
  <2> QED
    BY <2>1 DEF Before
<1> QED
  BY <1>1, <1>2

(* A file some unit holds is owned by such a unit, the first of them, and  *)
(* only a file no unit holds has no owner.                                 *)
LEMMA OwnerProperty ==
    ASSUME NEW units \in SUBSET Discoverable, NEW head, NEW irs, NEW f,
           NEW own, own = Owner(units, head, irs, f)
    PROVE  /\ own # Absent => /\ own \in units /\ irs[own].text[f] # Absent
                              /\ \A v \in units \ {own} :
                                   irs[v].text[f] # Absent => Before(head, own, v)
           /\ own = Absent => \A u \in units : irs[u].text[f] = Absent
<1> DEFINE at == {u \in units : irs[u].text[f] # Absent}
<1>1. CASE at = {}
  BY <1>1 DEF Owner
<1>2. CASE at # {}
  <2>1. \E u \in at : \A v \in at \ {u} : Before(head, u, v)
    <3>1. at \in SUBSET Discoverable
      OBVIOUS
    <3> HIDE DEF at
    <3> QED
      BY <1>2, <3>1, FirstInList
  <2>2. own = CHOOSE u \in at : \A v \in at \ {u} : Before(head, u, v)
    BY <1>2 DEF Owner
  <2>3. own \in at /\ \A v \in at \ {own} : Before(head, own, v)
    BY <2>1, <2>2
  <2>4. own # Absent
    BY <2>3, DistinctAssumption DEF Files
  <2> QED
    BY <2>3, <2>4
<1> QED
  BY <1>1, <1>2

(***************************************************************************)
(* Include resolution (preprocessor._resolve_include)                      *)
(***************************************************************************)
(* An include resolves to a file that exists, among its candidates, and is *)
(* unresolved only if none of them exists.                                 *)
LEMMA ResolveProperty ==
    ASSUME NEW d, NEW p \in Paths
    PROVE  /\ Resolve(d, p) # Absent =>
                Resolve(d, p) \in Range(Search[p]) /\ d[Resolve(d, p)] # Absent
           /\ Resolve(d, p) = Absent => \A f \in Range(Search[p]) : d[f] = Absent
<1> DEFINE hits == {i \in DOMAIN Search[p] : d[Search[p][i]] # Absent}
<1>1. Search[p] \in Seq(Files)
  BY SearchAssumption
<1>2. CASE hits = {}
  BY <1>2 DEF Resolve, Range
<1>3. CASE hits # {}
  <2>1. hits \in SUBSET Nat
    BY <1>1
  <2>2. \E i \in hits : \A j \in hits : i <= j
    <3> HIDE DEF hits
    <3> QED BY <1>3, <2>1, LeastNumber
  <2>3. PICK i \in hits : Resolve(d, p) = Search[p][i]
    BY <1>3, <2>2 DEF Resolve
  <2>4. Search[p][i] \in Files
    BY <1>1
  <2> QED
    BY <2>3, <2>4, DistinctAssumption DEF Range
<1> QED
  BY <1>2, <1>3

(***************************************************************************)
(* Types                                                                   *)
(***************************************************************************)
DefRecords == [file : Files, name : Names, conditional : BOOLEAN]
Edges == Files \X Names \X (Files \union {Stub}) \X {"resolved", "unique", "ambiguous"}

(***************************************************************************)
(* What the operators of Design return                                     *)
(***************************************************************************)
(* A run keeps the clean units' stored IRs and parses the other units.     *)
LEMMA Pass1Property ==
    ASSUME NEW present, NEW d, NEW clean, NEW stored
    PROVE  LET irs == Pass1(present, d, clean, stored)
           IN  /\ DOMAIN irs = Units(present, d, clean, stored)
               /\ \A u \in DOMAIN irs :
                    /\ u \in clean => irs[u] = stored[u]
                    /\ u \notin clean => \E table : irs[u] = Parse(d, u, table)
  BY DEF Pass1

(* The IR of a unit holds texts of the tree it was parsed from.            *)
LEMMA Pass1Type ==
    ASSUME NEW present \in SUBSET Discoverable, NEW d \in Tree, NEW clean, NEW stored,
           \A u \in clean : stored[u].text \in Tree
    PROVE  LET irs == Pass1(present, d, clean, stored)
           IN  /\ DOMAIN irs \in SUBSET present
               /\ \A u \in DOMAIN irs : irs[u].text \in Tree
<1> DEFINE irs == Pass1(present, d, clean, stored)
<1>1. DOMAIN irs \in SUBSET present
  <2>1. DOMAIN irs = Units(present, d, clean, stored)
    BY Pass1Property, Zenon
  <2>2. Units(present, d, clean, stored) \in SUBSET present
    BY UnitsProperty, Zenon
  <2> QED
    BY <2>1, <2>2
<1>2. ASSUME NEW u \in DOMAIN irs, u \notin clean PROVE irs[u].text \in Tree
  <2>1. PICK table : irs[u] = Parse(d, u, table)
    BY <1>2, Pass1Property
  <2>2. Parse(d, u, table).text \in Tree
    BY DEF Parse, Tree
  <2> QED
    BY <2>1, <2>2
<1>3. ASSUME NEW u \in DOMAIN irs, u \in clean PROVE irs[u].text \in Tree
  BY <1>3, Pass1Property
<1> QED
  BY <1>1, <1>2, <1>3

(* An IR's definitions are nodes of their file.                            *)
LEMMA DefsType ==
    ASSUME NEW ir, ir.text \in Tree, NEW f \in Files
    PROVE  /\ Defs(ir, f) \in SUBSET DefRecords
           /\ \A x \in Defs(ir, f) : x.file = f
<1>1. CASE ir.text[f] = Absent
  BY <1>1 DEF Defs
<1>2. CASE ir.text[f] # Absent
  <2>1. ir.text[f] \in Content
    BY <1>2 DEF Tree
  <2>2. ir.text[f].defs \subseteq Names /\ ir.text[f].cond \subseteq Macros \X Names
    BY <2>1 DEF Content
  <2> DEFINE free == {[file |-> f, name |-> n, conditional |-> FALSE] : n \in ir.text[f].defs}
  <2> DEFINE cond == {[file |-> f, name |-> c[2], conditional |-> ir.first[f][c[1]] = Undef] :
                        c \in ir.text[f].cond}
  <2>3. Defs(ir, f) = free \union cond
    BY <1>2, Zenon DEF Defs
  <2>4. ASSUME NEW x \in free PROVE x \in DefRecords /\ x.file = f
    <3>1. PICK n \in ir.text[f].defs : x = [file |-> f, name |-> n, conditional |-> FALSE]
      OBVIOUS
    <3> QED
      BY <3>1, <2>2 DEF DefRecords
  <2>5. ASSUME NEW x \in cond PROVE x \in DefRecords /\ x.file = f
    <3>1. PICK c \in ir.text[f].cond :
            x = [file |-> f, name |-> c[2], conditional |-> ir.first[f][c[1]] = Undef]
      OBVIOUS
    <3>2. c[2] \in Names /\ (ir.first[f][c[1]] = Undef) \in BOOLEAN
      BY <2>2
    <3> QED
      BY <3>1, <3>2 DEF DefRecords
  <2> QED
    BY <2>3, <2>4, <2>5
<1> QED
  BY <1>1, <1>2

(* A reference resolves to edges from its source to files that define its  *)
(* name, or to the stub.                                                   *)
LEMMA ScoreType ==
    ASSUME NEW defs \in SUBSET DefRecords, NEW own, NEW f \in Files, NEW n \in Names
    PROVE  Score(defs, own, f, n) \in SUBSET Edges
<1> DEFINE E == {<<f, n, g, c>> : g \in Files \union {Stub},
                                  c \in {"resolved", "unique", "ambiguous"}}
<1>1. Score(defs, own, f, n) \in SUBSET E
  BY DEF Score, DefRecords
<1>2. E \in SUBSET Edges
  BY DEF Edges
<1> QED
  BY <1>1, <1>2

(* An IR's references name the file that makes them.                       *)
LEMMA RefsOfType ==
    ASSUME NEW ir
    PROVE  RefsOf(ir) \in SUBSET (Files \X Names)
  BY DEF RefsOf

(* What the linker makes of typed IRs is typed.                            *)
LEMMA DatabaseType ==
    ASSUME NEW hash \in [Discoverable -> Content \union {Absent}], NEW irs,
           DOMAIN irs \in SUBSET Discoverable,
           \A u \in DOMAIN irs : irs[u].text \in Tree
    PROVE  TablesOK(Database(hash, irs))
<1> DEFINE own(f) == Owner(DOMAIN irs, {}, irs, f)
<1> DEFINE owned == {f \in Files : own(f) # Absent}
<1> DEFINE nodes == UNION {Defs(irs[own(f)], f) : f \in owned}
<1> DEFINE refs == UNION {RefsOf(irs[u]) : u \in DOMAIN irs}
<1> DEFINE inst == UNION {Score(nodes, own(r[1]), r[1], r[2]) : r \in refs}
<1>1. \A f \in owned : Defs(irs[own(f)], f) \in SUBSET DefRecords
  <2> SUFFICES ASSUME NEW f \in owned PROVE Defs(irs[own(f)], f) \in SUBSET DefRecords
    OBVIOUS
  <2>1. own(f) \in DOMAIN irs
    BY OwnerProperty
  <2>2. irs[own(f)].text \in Tree
    BY <2>1
  <2> HIDE DEF own
  <2> QED
    BY <2>2, DefsType
<1>2. nodes \in SUBSET DefRecords
  <2> HIDE DEF own
  <2> QED BY <1>1
<1>3. refs \in SUBSET (Files \X Names)
  BY RefsOfType
<1>4. inst \in SUBSET Edges
  <2> HIDE DEF nodes, refs, own
  <2>1. \A r \in refs : Score(nodes, own(r[1]), r[1], r[2]) \in SUBSET Edges
    BY <1>2, <1>3, ScoreType
  <2> QED
    BY <2>1
<1> DEFINE base == Database(hash, irs)
<1>5. /\ base.hash = hash
      /\ base.skip = {f \in Discoverable : hash[f] # Absent} \ DOMAIN irs
      /\ base.ir = irs
      /\ base.fnode = owned
      /\ base.nodes = nodes
      /\ base.refs = [u \in Discoverable |-> IF u \in DOMAIN irs THEN RefsOf(irs[u]) ELSE {}]
      /\ base.inst = inst
  BY DEF Database
<1>6. base.refs \in [Discoverable -> SUBSET (Files \X Names)]
  BY <1>5, RefsOfType
<1> HIDE DEF base, inst, nodes, refs, own
<1>7. owned \subseteq Files
  OBVIOUS
<1>8. {f \in Discoverable : hash[f] # Absent} \ DOMAIN irs \subseteq Discoverable
  OBVIOUS
<1> HIDE DEF owned
<1>9. TablesOK(base)
  BY <1>2, <1>4, <1>5, <1>6, <1>7, <1>8 DEF TablesOK, DefRecords, Edges
<1> QED
  BY <1>9 DEF base

(* The database of a full build is typed.                                  *)
LEMMA FullBuildType ==
    ASSUME NEW d \in Tree
    PROVE  TablesOK(FullBuild(d))
<1>1. Hashes(d) \in [Discoverable -> Content \union {Absent}]
  BY DEF Hashes, Tree, Files
<1>2. Present(d) \in SUBSET Discoverable
  BY DEF Present
<1> DEFINE irs == Pass1(Present(d), d, {}, << >>)
<1>3. DOMAIN irs \in SUBSET Discoverable /\ \A u \in DOMAIN irs : irs[u].text \in Tree
  <2> HIDE DEF irs
  <2> QED
    BY <1>2, Pass1Type DEF irs
<1> HIDE DEF irs
<1> QED
  BY <1>1, <1>3, DatabaseType DEF FullBuild, irs

(***************************************************************************)
(* Types                                                                   *)
(***************************************************************************)
(* An update touches and re-parses discovered files only.                  *)
LEMMA ScopeType ==
    /\ Reparsed \in SUBSET Discoverable
    /\ Removed \in SUBSET Discoverable
    /\ Touched \in SUBSET Discoverable
    /\ Clean \in SUBSET DOMAIN db.ir
  BY DEF Reparsed, Removed, Touched, Present, Clean

(* The IRs of an update's run: typed, and of files present in its scan.    *)
LEMMA RunType ==
    ASSUME TypeOK
    PROVE  LET irs == Pass1(Present(snap), disk, Clean, db.ir)
           IN  /\ DOMAIN irs \in SUBSET Present(snap)
               /\ \A u \in DOMAIN irs : irs[u].text \in Tree
<1>1. Present(snap) \in SUBSET Discoverable
  BY DEF Present
<1>2. \A u \in Clean : db.ir[u].text \in Tree
  BY ScopeType DEF TypeOK, TablesOK
<1>3. disk \in Tree
  BY DEF TypeOK
<1> QED
  BY <1>1, <1>2, <1>3, Pass1Type

(* The linker hands over typed nodes and edges, whether every stored IR is *)
(* decoded or only the affected ones.                                      *)
LEMMA RelinkType ==
    ASSUME TypeOK, NEW bounded \in BOOLEAN
    PROVE  LET link == Relink(bounded)
           IN  /\ link.irs = Pass1(Present(snap), disk, Clean, db.ir)
               /\ link.fnode \in SUBSET Touched
               /\ link.kept \in SUBSET DefRecords
               /\ link.added \in SUBSET DefRecords
               /\ link.edges \in SUBSET Edges
<1> DEFINE irs == Pass1(Present(snap), disk, Clean, db.ir)
           fresh == DOMAIN irs \ Clean
           aff   == Affected(ChangedNames(Touched, irs, IF bounded THEN fresh ELSE DOMAIN irs))
           srcs  == {a[2] : a \in aff}
           extra == {a[1] : a \in aff} \intersect Clean
           units == IF bounded THEN fresh \union extra ELSE DOMAIN irs
           head  == ListedFirst(bounded, Touched, fresh, extra)
           ir    == [u \in units |-> IF bounded /\ u \in extra THEN db.ir[u] ELSE irs[u]]
           dirty == units \intersect Touched
           own(f) == Owner(dirty, head, ir, f)
           kept  == {x \in db.nodes : x.file \notin Touched}
           spliced == UNION {Defs(ir[own(f)], f) : f \in {g \in Files : own(g) # Absent}}
           added == {x \in spliced : \A y \in kept : <<y.file, y.name>> # <<x.file, x.name>>}
           live  == {r \in UNION {RefsOf(ir[u]) : u \in units} :
                       \/ r \in srcs
                       \/ \E u \in dirty : r \in RefsOf(ir[u])}
           edges == UNION {Score(kept \union added, Owner(units, head, ir, r[1]), r[1], r[2]) : r \in live}
           link  == Relink(bounded)
<1>1. /\ link.irs = irs
      /\ link.fnode = {f \in Touched : \E u \in dirty : ir[u].text[f] # Absent}
      /\ link.kept = kept
      /\ link.added = added
      /\ link.edges = edges
  BY DEF Relink, LinkRun, Run
<1> HIDE DEF link
<1>2. /\ DOMAIN irs \in SUBSET Discoverable
      /\ \A u \in DOMAIN irs : irs[u].text \in Tree
  BY RunType DEF Present
<1> HIDE DEF irs
<1>3. extra \in SUBSET DOMAIN db.ir /\ DOMAIN db.ir \in SUBSET Discoverable
  BY ScopeType DEF TypeOK, TablesOK
<1> HIDE DEF aff, srcs
<1>4. units \in SUBSET Discoverable
  BY <1>2, <1>3
<1>5. \A u \in units : ir[u].text \in Tree
  BY <1>2, <1>3 DEF TypeOK, TablesOK
<1> HIDE DEF extra, units, ir, head
<1>6. spliced \in SUBSET DefRecords
  <2> SUFFICES ASSUME NEW f \in Files, own(f) # Absent PROVE Defs(ir[own(f)], f) \in SUBSET DefRecords
    OBVIOUS
  <2>1. own(f) \in units
    BY <1>4, OwnerProperty
  <2> HIDE DEF own
  <2> QED
    BY <1>5, <2>1, DefsType
<1>7. kept \in SUBSET DefRecords
  BY DEF TypeOK, TablesOK, DefRecords
<1> HIDE DEF spliced, kept
<1>8. added \in SUBSET DefRecords
  BY <1>6
<1>9. live \in SUBSET (Files \X Names)
  BY RefsOfType
<1> HIDE DEF added, live, dirty
<1>10. edges \in SUBSET Edges
  <2>1. \A r \in live : Score(kept \union added, Owner(units, head, ir, r[1]), r[1], r[2]) \in SUBSET Edges
    BY <1>7, <1>8, <1>9, ScoreType
  <2> QED
    BY <2>1
<1> HIDE DEF edges
<1> QED
  BY <1>1, <1>7, <1>8, <1>10 DEF irs, link

(* The scoped write keeps the tables typed.                                *)
LEMMA DeltaType ==
    ASSUME TypeOK, NEW bounded \in BOOLEAN
    PROVE  TablesOK(Delta(bounded))
<1> DEFINE link == Relink(bounded)
           rows == Touched \intersect DOMAIN link.irs
           redo(e) == e[1] \in Touched \/ <<e[1], e[2]>> \in link.srcs
           base == Delta(bounded)
<1>1. /\ base.hash = [f \in Discoverable |->
                        IF f \in Touched THEN (IF f \in Reparsed THEN snap[f] ELSE Absent)
                        ELSE db.hash[f]]
      /\ base.skip = (db.skip \ Touched) \union (Reparsed \ DOMAIN link.irs)
      /\ base.ir = [u \in (DOMAIN db.ir \ Touched) \union rows |->
                      IF u \in rows THEN link.irs[u] ELSE db.ir[u]]
      /\ base.fnode = (db.fnode \ Touched) \union link.fnode
      /\ base.nodes = link.kept \union {x \in link.added : x.file \in Touched}
      /\ base.refs = [u \in Discoverable |->
                        IF u \in rows THEN RefsOf(link.irs[u])
                        ELSE IF u \in Touched THEN {} ELSE db.refs[u]]
      /\ base.inst = {e \in db.inst : ~redo(e)} \union {e \in link.edges : redo(e)}
  BY DEF Delta, Write
<1> HIDE DEF base
<1>2. /\ DOMAIN link.irs \in SUBSET Discoverable
      /\ \A u \in DOMAIN link.irs : link.irs[u].text \in Tree
  BY RelinkType, RunType DEF Present
<1>3. /\ link.fnode \in SUBSET Touched
      /\ link.kept \in SUBSET DefRecords
      /\ link.added \in SUBSET DefRecords
      /\ link.edges \in SUBSET Edges
  BY RelinkType
<1> HIDE DEF link
<1>4. base.hash \in [Discoverable -> Content \union {Absent}]
  BY <1>1 DEF TypeOK, TablesOK, Tree, Files
<1>5. base.skip \subseteq Discoverable
  BY <1>1, ScopeType DEF TypeOK, TablesOK
<1>6. /\ DOMAIN base.ir \subseteq Discoverable
      /\ \A u \in DOMAIN base.ir : base.ir[u].text \in Tree
  BY <1>1, <1>2 DEF TypeOK, TablesOK
<1>7. base.fnode \subseteq Files
  BY <1>1, <1>3, ScopeType DEF TypeOK, TablesOK, Files
<1>8. base.nodes \subseteq DefRecords
  BY <1>1, <1>3
<1>9. base.refs \in [Discoverable -> SUBSET (Files \X Names)]
  BY <1>1, RefsOfType DEF TypeOK, TablesOK
<1>10. base.inst \subseteq Edges
  BY <1>1, <1>3 DEF TypeOK, TablesOK, Edges
<1>11. TablesOK(base)
  BY <1>4, <1>5, <1>6, <1>7, <1>8, <1>9, <1>10 DEF TablesOK, DefRecords, Edges
<1> QED
  BY <1>11 DEF base

(* The type invariant holds in every behaviour.                            *)
THEOREM Types == Spec => []TypeOK
<1>1. Init => TypeOK
  <2> SUFFICES ASSUME Init PROVE TypeOK
    OBVIOUS
  <2>1. disk \in Tree
    BY VersionsAssumption DEF Init, Tree
  <2> QED
    BY <2>1, FullBuildType DEF Init, TypeOK
<1>2. TypeOK /\ [Next]_vars => TypeOK'
  <2> SUFFICES ASSUME TypeOK, [Next]_vars PROVE TypeOK'
    OBVIOUS
  <2>1. ASSUME NEW f \in Files, Edit(f) PROVE TypeOK'
    <3>1. disk' \in Tree
      BY <2>1, VersionsAssumption DEF Edit, Tree, TypeOK
    <3> QED
      BY <2>1, <3>1 DEF Edit, TypeOK, TablesOK
  <2>2. CASE Scan
    BY <2>2 DEF Scan, TypeOK, TablesOK
  <2>3. ASSUME NEW bounded \in BOOLEAN, Commit(bounded) PROVE TypeOK'
    <3>1. TablesOK(db)'
      BY <2>3, DeltaType DEF Commit, TablesOK
    <3>2. (exact /\ Undisturbed(built, disk) /\ (bounded => FirstListed)) \in BOOLEAN
      BY Zenon DEF TypeOK
    <3> QED
      BY <2>3, <3>1, <3>2 DEF Commit, Done, TypeOK
  <2>4. CASE Abort
    BY <2>4 DEF Abort, Done, TypeOK, TablesOK
  <2>5. CASE NothingParsed
    BY <2>5 DEF NothingParsed, Done, TypeOK, TablesOK
  <2>6. ASSUME Rewrite, disk' = disk PROVE TablesOK(db)' /\ built' \in Tree /\ exact' \in BOOLEAN
    <3>1. TablesOK(FullBuild(disk))
      BY FullBuildType DEF TypeOK
    <3>2. CASE Present(disk) = {}
      BY <2>6, <3>2 DEF Rewrite, TypeOK, TablesOK
    <3>3. CASE Present(disk) # {}
      BY <2>6, <3>1, <3>3 DEF Rewrite, TypeOK, TablesOK
    <3> QED
      BY <3>2, <3>3
  <2>7. CASE Fallback
    BY <2>6, <2>7 DEF Fallback, Done, TypeOK
  <2>8. CASE Build
    BY <2>6, <2>8 DEF Build, TypeOK
  <2>9. CASE UNCHANGED vars
    BY <2>9 DEF vars, TypeOK, TablesOK
  <2> QED
    BY <2>1, <2>2, <2>3, <2>4, <2>5, <2>7, <2>8, <2>9 DEF Next
<1> QED
  BY <1>1, <1>2, PTL DEF Spec

(***************************************************************************)
(* An update records the hashes it scanned                                 *)
(***************************************************************************)
(* A file outside the scope is one the scan found as the files table has   *)
(* it.                                                                     *)
LEMMA OutsideScope ==
    ASSUME TypeOK, NEW f \in Discoverable, f \notin Touched
    PROVE  db.hash[f] = snap[f]
<1>1. Changed \union Removed \subseteq Dirty
  <2>1. Changed \union Removed \in SUBSET Files
    BY DEF Changed, Removed, Present, Files
  <2> QED
    BY <2>1, ClosureContains DEF Dirty
<1>2. Added \subseteq Dirty
  BY DEF Dirty
<1>3. CASE f \in Present(snap)
  BY <1>1, <1>2, <1>3 DEF Touched, Reparsed, Changed, Added
<1>4. CASE f \notin Present(snap)
  BY <1>4 DEF Touched, Removed, Present, Stored
<1> QED
  BY <1>3, <1>4

(* A write leaves the files table equal to the update's scan: in scope it  *)
(* copies the scan, and outside it nothing changed.                        *)
LEMMA DeltaHash ==
    ASSUME TypeOK, NEW bounded
    PROVE  Delta(bounded).hash = Hashes(snap)
<1>1. Delta(bounded).hash = [f \in Discoverable |->
                               IF f \in Touched THEN (IF f \in Reparsed THEN snap[f] ELSE Absent)
                               ELSE db.hash[f]]
  BY DEF Delta, Write
<1>2. ASSUME NEW f \in Discoverable
      PROVE  (IF f \in Touched THEN (IF f \in Reparsed THEN snap[f] ELSE Absent)
              ELSE db.hash[f]) = snap[f]
  <2>1. CASE f \in Touched
    BY <2>1 DEF Touched, Removed, Present
  <2>2. CASE f \notin Touched
    BY <2>2, OutsideScope
  <2> QED
    BY <2>1, <2>2
<1> QED
  BY <1>1, <1>2 DEF Hashes

(* Whatever happens on disk while it runs, an update that writes leaves    *)
(* the files table equal to its own scan.                                  *)
THEOREM Settling == Spec => UpdateSettles
<1>1. TypeOK /\ [Next]_vars => [Settled]_vars
  <2> SUFFICES ASSUME TypeOK, Next, pc = "scanned", DOMAIN db.ir # {}, db' # db
               PROVE  db'.hash = Hashes(snap)
    BY DEF Settled
  <2>1. PICK bounded \in BOOLEAN : Commit(bounded)
    BY DEF Next, Edit, Scan, Abort, NothingParsed, Fallback, Build
  <2> QED
    BY <2>1, DeltaHash DEF Commit
<1> QED
  BY <1>1, Types, PTL DEF Spec, UpdateSettles

(***************************************************************************)
(* Who owns a file                                                         *)
(***************************************************************************)
(* Compile order is strict.                                                *)
LEMMA PrecedesStrict ==
    ASSUME NEW u, NEW v, Precedes(u, v)
    PROVE  ~Precedes(v, u)
  BY OrderDomain, OrderAssumption DEF Precedes

(* The linker's list is strict.                                            *)
LEMMA BeforeStrict ==
    ASSUME NEW head, NEW u, NEW v, Before(head, u, v)
    PROVE  ~Before(head, v, u)
  BY PrecedesStrict DEF Before

(* The owner is before every other unit that holds the file.               *)
LEMMA OwnerFirst ==
    ASSUME NEW units \in SUBSET Discoverable, NEW head, NEW irs, NEW f,
           NEW own, own = Owner(units, head, irs, f),
           NEW v \in units, irs[v].text[f] # Absent
    PROVE  v = own \/ Before(head, own, v)
<1> DEFINE at == {u \in units : irs[u].text[f] # Absent}
<1>1. v \in at /\ at \in SUBSET Discoverable
  OBVIOUS
<1>2. own = CHOOSE u \in at : \A w \in at \ {u} : Before(head, u, w)
  BY <1>1 DEF Owner
<1>3. \E u \in at : \A w \in at \ {u} : Before(head, u, w)
  <2> HIDE DEF at
  <2> QED
    BY <1>1, FirstInList
<1>4. own \in at /\ \A w \in at \ {own} : Before(head, own, w)
  BY <1>2, <1>3
<1> QED
  BY <1>1, <1>4

IsFirst(units, head, irs, f, u) ==
    /\ u \in units /\ irs[u].text[f] # Absent
    /\ \A v \in units \ {u} : irs[v].text[f] # Absent => Before(head, u, v)

(* The first unit that holds a file is its owner.                          *)
LEMMA OwnerUnique ==
    ASSUME NEW units \in SUBSET Discoverable, NEW head, NEW irs, NEW f, NEW u,
           IsFirst(units, head, irs, f, u)
    PROVE  Owner(units, head, irs, f) = u
<1> USE DEF IsFirst
<1> DEFINE own == Owner(units, head, irs, f)
<1>1. own # Absent
  BY OwnerProperty
<1>2. own \in units /\ irs[own].text[f] # Absent
  BY <1>1, OwnerProperty
<1>3. u = own \/ Before(head, own, u)
  BY OwnerFirst
<1> HIDE DEF own
<1>4. own = u
  BY <1>2, <1>3, BeforeStrict
<1> QED
  BY <1>4 DEF own

(* Nobody owns a file that no unit holds.                                  *)
LEMMA OwnerNone ==
    ASSUME NEW units \in SUBSET Discoverable, NEW head, NEW irs, NEW f,
           \A v \in units : irs[v].text[f] = Absent
    PROVE  Owner(units, head, irs, f) = Absent
  BY OwnerProperty

(* Lists that agree on who holds a file, and in which order, agree on its  *)
(* owner.                                                                  *)
LEMMA OwnerSame ==
    ASSUME NEW U \in SUBSET Discoverable, NEW V \in SUBSET Discoverable,
           NEW g, NEW h, NEW irs, NEW jrs, NEW f,
           \A u : (u \in U /\ irs[u].text[f] # Absent) <=> (u \in V /\ jrs[u].text[f] # Absent),
           \A u, v \in U : Before(g, u, v) <=> Before(h, u, v)
    PROVE  Owner(U, g, irs, f) = Owner(V, h, jrs, f)
<1> DEFINE own == Owner(U, g, irs, f)
<1>1. CASE own = Absent
  <2>1. \A u \in U : irs[u].text[f] = Absent
    BY <1>1, OwnerProperty
  <2>2. \A v \in V : jrs[v].text[f] = Absent
    BY <2>1
  <2> QED
    BY <1>1, <2>2, OwnerNone
<1>2. CASE own # Absent
  <2>1. own \in U /\ irs[own].text[f] # Absent
    BY <1>2, OwnerProperty
  <2>2. ASSUME NEW v \in V \ {own}, jrs[v].text[f] # Absent PROVE Before(h, own, v)
    <3>1. v \in U /\ irs[v].text[f] # Absent
      BY <2>2
    <3>2. Before(g, own, v)
      BY <2>2, <3>1, OwnerFirst
    <3> QED
      BY <2>1, <3>1, <3>2
  <2>3. own \in V /\ jrs[own].text[f] # Absent
    BY <2>1
  <2> HIDE DEF own
  <2>4. IsFirst(V, h, jrs, f, own)
    BY <2>2, <2>3 DEF IsFirst
  <2>5. Owner(V, h, jrs, f) = own
    BY <2>4, OwnerUnique
  <2> QED
    BY <2>5 DEF own
<1> QED
  BY <1>1, <1>2

(* A shorter list has the same owner where it lists it.                    *)
LEMMA OwnerListed ==
    ASSUME NEW U \in SUBSET Discoverable, NEW V \in SUBSET U, NEW head, NEW irs, NEW f,
           Owner(U, head, irs, f) \in V \union {Absent}
    PROVE  Owner(V, head, irs, f) = Owner(U, head, irs, f)
<1> DEFINE own == Owner(U, head, irs, f)
<1>1. CASE own = Absent
  <2>1. \A u \in U : irs[u].text[f] = Absent
    BY <1>1, OwnerProperty
  <2> QED
    BY <1>1, <2>1, OwnerNone
<1>2. CASE own # Absent
  <2>1. own \in V /\ irs[own].text[f] # Absent
    BY <1>2, OwnerProperty
  <2>2. ASSUME NEW v \in V \ {own}, irs[v].text[f] # Absent PROVE Before(head, own, v)
    BY <2>2, OwnerFirst
  <2>3. V \in SUBSET Discoverable
    OBVIOUS
  <2> HIDE DEF own
  <2>4. IsFirst(V, head, irs, f, own)
    BY <2>1, <2>2 DEF IsFirst
  <2>5. Owner(V, head, irs, f) = own
    BY <2>3, <2>4, OwnerUnique
  <2> QED
    BY <2>5 DEF own
<1> QED
  BY <1>1, <1>2

(***************************************************************************)
(* Pass 1 of a whole tree                                                  *)
(***************************************************************************)
Parsed(d) == Pass1(Present(d), d, {}, << >>)

(* What a unit leaves a macro as. *)
FinalEffect(d, u, m) == LET seq == Expansion(d, u) IN Effect(d, seq, Len(seq), m)

(* An include text of a present file names candidates among the files.     *)
LEMMA PathsOfText ==
    ASSUME NEW d \in Tree, NEW f \in Files, d[f] # Absent
    PROVE  d[f].inc \in SUBSET Paths
<1>1. d[f] \in Content
  BY DEF Tree
<1> QED
  BY <1>1 DEF Content

(* A unit's expanded text is made of files that exist.                     *)
LEMMA SplicedPresent ==
    ASSUME NEW d \in Tree, NEW u \in Files, d[u] # Absent
    PROVE  /\ u \in Spliced(d, u)
           /\ \A f \in Spliced(d, u) : f \in Files /\ d[f] # Absent
<1> DEFINE T == {f \in Files : d[f] # Absent}
           R == IncludeRel(d)
<1>1. ASSUME NEW e \in R, e[1] \in T PROVE e[2] \in T
  <2>1. PICK f \in {x \in Files : d[x] # Absent} :
          e \in {<<f, g>> : g \in {Resolve(d, p) : p \in d[f].inc} \intersect Files}
    BY <1>1 DEF IncludeRel
  <2>2. e[2] \in Files /\ \E p \in d[f].inc : e[2] = Resolve(d, p)
    BY <2>1
  <2>3. PICK p \in d[f].inc : e[2] = Resolve(d, p)
    BY <2>2
  <2>4. d[e[2]] # Absent
    <3>1. e[2] # Absent
      BY <2>2, DistinctAssumption
    <3>2. p \in Paths
      BY PathsOfText
    <3> QED
      BY <2>3, <3>1, <3>2, ResolveProperty
  <2> QED
    BY <2>2, <2>4
<1>2. {u} \in SUBSET Files /\ T \in SUBSET Files /\ {u} \subseteq T
  OBVIOUS
<1> HIDE DEF R, T
<1>3. Closure(R, {u}) \subseteq T
  BY <1>1, <1>2, ClosureLeast
<1>4. {u} \subseteq Closure(R, {u})
  BY <1>2, ClosureContains
<1> QED
  BY <1>3, <1>4 DEF Spliced, R, T

(* What pass 1 makes of a unit.                                            *)
LEMMA ParseProperty ==
    ASSUME NEW d, NEW u, NEW table
    PROVE  LET ir == Parse(d, u, table)
           IN  /\ \A f \in Files : ir.text[f] = IF f \in Spliced(d, u) THEN d[f] ELSE Absent
               /\ \A p \in Paths : ir.res[p] = IF \E f \in Spliced(d, u) : p \in d[f].inc
                                               THEN Resolve(d, p) ELSE Absent
               /\ \A m \in Macros : ir.events[m] = FinalEffect(d, u, m)
  BY DEF Parse, FinalEffect

ParsedFrom(d, ir, u) ==
    /\ \A f \in Files : ir.text[f] = IF f \in Spliced(d, u) THEN d[f] ELSE Absent
    /\ \A f \in Spliced(d, u) : f \in Files /\ d[f] # Absent
    /\ \A f \in Spliced(d, u), p \in Paths : p \in d[f].inc => ir.res[p] = Resolve(d, p)
    /\ \A m \in Macros : ir.events[m] = FinalEffect(d, u, m)

(* A full build parses every unit from the tree.                           *)
LEMMA ParsedProperty ==
    ASSUME NEW d \in Tree
    PROVE  /\ DOMAIN Parsed(d) = Units(Present(d), d, {}, << >>)
           /\ DOMAIN Parsed(d) \in SUBSET Present(d)
           /\ \A u \in DOMAIN Parsed(d) :
                /\ u \in Discoverable /\ u \in Files /\ d[u] # Absent
                /\ u \in Spliced(d, u)
                /\ ParsedFrom(d, Parsed(d)[u], u)
<1>1. DOMAIN Parsed(d) = Units(Present(d), d, {}, << >>)
  BY Pass1Property, Zenon DEF Parsed
<1>2. Present(d) \in SUBSET Discoverable
  BY DEF Present
<1>3. DOMAIN Parsed(d) \in SUBSET Present(d)
  BY <1>1, <1>2, UnitsProperty
<1>4. ASSUME NEW u \in DOMAIN Parsed(d)
      PROVE  /\ u \in Discoverable /\ u \in Files /\ d[u] # Absent
             /\ u \in Spliced(d, u)
             /\ ParsedFrom(d, Parsed(d)[u], u)
  <2>1. u \in Discoverable /\ u \in Files /\ d[u] # Absent
    BY <1>3 DEF Present, Files
  <2>2. PICK table : Parsed(d)[u] = Parse(d, u, table)
    BY Pass1Property DEF Parsed
  <2>3. /\ u \in Spliced(d, u)
        /\ \A f \in Spliced(d, u) : f \in Files /\ d[f] # Absent
    BY <2>1, SplicedPresent
  <2> DEFINE ir == Parse(d, u, table)
  <2>4. /\ \A f \in Files : ir.text[f] = IF f \in Spliced(d, u) THEN d[f] ELSE Absent
        /\ \A p \in Paths : ir.res[p] = IF \E f \in Spliced(d, u) : p \in d[f].inc
                                        THEN Resolve(d, p) ELSE Absent
        /\ \A m \in Macros : ir.events[m] = FinalEffect(d, u, m)
    BY ParseProperty
  <2> HIDE DEF ir
  <2>5. ParsedFrom(d, ir, u)
    BY <2>3, <2>4 DEF ParsedFrom
  <2> QED
    BY <2>1, <2>2, <2>3, <2>5 DEF ir
<1> QED
  BY <1>1, <1>3, <1>4

(***************************************************************************)
(* The database of a full build                                            *)
(***************************************************************************)
OwnedBy(irs, f) == Owner(DOMAIN irs, {}, irs, f)

NodesOf(irs) == UNION {Defs(irs[OwnedBy(irs, f)], f) : f \in {g \in Files : OwnedBy(irs, g) # Absent}}

AllRefs(irs) == UNION {RefsOf(irs[u]) : u \in DOMAIN irs}

InstOf(irs) == UNION {Score(NodesOf(irs), OwnedBy(irs, r[1]), r[1], r[2]) : r \in AllRefs(irs)}

AllDep(irs) == DepOf(IRs(irs, DOMAIN irs))

Tables(hash, irs) ==
    [hash  |-> hash,
     skip  |-> {f \in Discoverable : hash[f] # Absent} \ DOMAIN irs,
     ir    |-> irs,
     fnode |-> {f \in Files : OwnedBy(irs, f) # Absent},
     dep   |-> AllDep(irs),
     nodes |-> NodesOf(irs),
     refs  |-> [u \in Discoverable |-> IF u \in DOMAIN irs THEN RefsOf(irs[u]) ELSE {}],
     inst  |-> InstOf(irs),
     stubs |-> Stubs(AllDep(irs), InstOf(irs))]

(* A full build's tables, one by one.                                      *)
LEMMA FullBuildTables ==
    ASSUME NEW d
    PROVE  FullBuild(d) = Tables(Hashes(d), Parsed(d))
  BY DEF FullBuild, Database, Tables, OwnedBy, NodesOf, AllRefs, InstOf, AllDep, Parsed

(* Where nothing happened between the last write and this update's reading *)
(* but the edits it is for.                                                *)
Still == TypeOK /\ snap = disk /\ db = FullBuild(built)

Old == Parsed(built)
New == Parsed(disk)

(* The tables an update finds.                                             *)
LEMMA Found ==
    ASSUME Still
    PROVE  /\ db.hash = Hashes(built)
           /\ db.skip = {f \in Discoverable : Hashes(built)[f] # Absent} \ DOMAIN Old
           /\ db.ir = Old
           /\ db.fnode = {f \in Files : OwnedBy(Old, f) # Absent}
           /\ db.dep = AllDep(Old)
           /\ db.nodes = NodesOf(Old)
           /\ db.refs = [u \in Discoverable |-> IF u \in DOMAIN Old THEN RefsOf(Old[u]) ELSE {}]
           /\ db.inst = InstOf(Old)
           /\ db.stubs = Stubs(AllDep(Old), InstOf(Old))
<1>1. db = Tables(Hashes(built), Old)
  BY FullBuildTables DEF Still, Old
<1> HIDE DEF Old
<1> QED
  BY <1>1 DEF Tables

(* The clean units are out of scope.                                       *)
LEMMA CleanUntouched ==
    /\ Touched \intersect Clean = {}
    /\ \A u \in Present(snap) \ Touched : u \in DOMAIN db.ir => u \in Clean
<1>1. Changed \union Removed \in SUBSET Files
  BY DEF Changed, Removed, Present, Files
<1>2. Removed \subseteq Dirty
  BY <1>1, ClosureContains DEF Dirty
<1> QED
  BY <1>2 DEF Touched, Reparsed, Clean

NothingDisturbed == Undisturbed(built, disk)

(* Outside the scope, the units and their IRs are those of the new tree.   *)
LEMMA OutsideUnits ==
    ASSUME Still, NothingDisturbed
    PROVE  /\ \A u \in (DOMAIN Old \union DOMAIN New) \ Touched :
                 /\ u \in DOMAIN Old /\ u \in DOMAIN New
                 /\ Old[u] = New[u]
           /\ \A f \in Files \ Touched : Face(Old, f) = Face(New, f)
<1>1. SameOutside(Touched, Old, New)
  BY DEF NothingDisturbed, Undisturbed, Old, New, Parsed
<1> QED
  BY <1>1 DEF SameOutside

(* The clean units are the units of the new tree outside the scope.        *)
LEMMA CleanUnits ==
    ASSUME Still, NothingDisturbed
    PROVE  Clean = DOMAIN New \ Touched
<1>1. Clean \subseteq DOMAIN Old
  BY Found DEF Clean
<1>2. Clean \subseteq DOMAIN New
  BY <1>1, CleanUntouched, OutsideUnits
<1>3. DOMAIN New \subseteq Present(snap)
  BY ParsedProperty DEF New, Still, TypeOK
<1>4. \A u \in DOMAIN New \ Touched : u \in DOMAIN db.ir
  BY OutsideUnits, Found
<1> QED
  BY <1>2, <1>3, <1>4, CleanUntouched

(***************************************************************************)
(* An undisturbed update's run is pass 1 of the new tree                   *)
(***************************************************************************)
(* A clean unit's stored IR is what parsing it again would give.           *)
LEMMA CleanIRs ==
    ASSUME Still, NothingDisturbed, NEW u \in Clean
    PROVE  u \in DOMAIN New /\ db.ir[u] = New[u] /\ ParsedFrom(disk, New[u], u)
<1>1. u \in DOMAIN New /\ u \notin Touched
  BY CleanUnits
<1>2. db.ir[u] = New[u]
  BY <1>1, OutsideUnits, Found
<1>3. disk \in Tree
  BY DEF Still, TypeOK
<1> QED
  BY <1>1, <1>2, <1>3, ParsedProperty DEF New

(* It consumed what parsing it would consume.                              *)
LEMMA SameSplices ==
    ASSUME Still, NothingDisturbed, NEW f
    PROVE  Splices(disk, Clean, db.ir, f) = Splices(disk, {}, << >>, f)
<1>1. CASE f \notin Clean
  BY <1>1 DEF Splices
<1>2. CASE f \in Clean
  <2>1. db.ir[f] = New[f] /\ ParsedFrom(disk, New[f], f)
    BY <1>2, CleanIRs
  <2>2. \A g \in Files : New[f].text[g] # Absent <=> g \in Spliced(disk, f)
    BY <2>1 DEF ParsedFrom
  <2>3. Spliced(disk, f) \subseteq Files
    BY <2>1 DEF ParsedFrom
  <2>4. Included(New[f], f) = Spliced(disk, f) \ {f}
    BY <2>2, <2>3 DEF Included
  <2>5. Splices(disk, Clean, db.ir, f) = Included(New[f], f)
    BY <1>2, <2>1 DEF Splices
  <2>6. Splices(disk, {}, << >>, f) = Spliced(disk, f) \ {f}
    BY DEF Splices
  <2> QED
    BY <2>4, <2>5, <2>6
<1> QED
  BY <1>1, <1>2

(* It did to the macro table what parsing it would do.                     *)
LEMMA SameEvents ==
    ASSUME Still, NothingDisturbed, NEW f, NEW m \in Macros
    PROVE  Events(disk, Clean, db.ir, f, m) = Events(disk, {}, << >>, f, m)
<1>1. CASE f \notin Clean
  BY <1>1 DEF Events
<1>2. CASE f \in Clean
  <2>1. db.ir[f] = New[f] /\ ParsedFrom(disk, New[f], f)
    BY <1>2, CleanIRs
  <2>2. New[f].events[m] = FinalEffect(disk, f, m)
    BY <2>1 DEF ParsedFrom
  <2>3. Events(disk, Clean, db.ir, f, m) = New[f].events[m]
    BY <1>2, <2>1 DEF Events
  <2>4. Events(disk, {}, << >>, f, m) = FinalEffect(disk, f, m)
    BY DEF Events, FinalEffect
  <2> QED
    BY <2>2, <2>3, <2>4
<1> QED
  BY <1>1, <1>2

Told(units, d, clean, stored, f, m) ==
    {u \in units : Precedes(u, f) /\ Events(d, clean, stored, u, m) # Silent}
Latest(S) == CHOOSE u \in S : \A v \in S \ {u} : Precedes(v, u)

(* The macro table a unit starts with, in these terms.                     *)
LEMMA TableIs ==
    ASSUME NEW units, NEW d, NEW clean, NEW stored, NEW f
    PROVE  Table(units, d, clean, stored, f) =
             [m \in Macros |->
                IF Told(units, d, clean, stored, f, m) = {} THEN Undef
                ELSE Events(d, clean, stored, Latest(Told(units, d, clean, stored, f, m)), m)]
  BY DEF Table, Told, Latest

(* Every unit starts with the same macro table.                            *)
LEMMA SameTable ==
    ASSUME Still, NothingDisturbed, NEW units, NEW f
    PROVE  Table(units, disk, Clean, db.ir, f) = Table(units, disk, {}, << >>, f)
<1>1. ASSUME NEW m \in Macros
      PROVE  Told(units, disk, Clean, db.ir, f, m) = Told(units, disk, {}, << >>, f, m)
  BY SameEvents DEF Told
<1> DEFINE T(m) == Told(units, disk, {}, << >>, f, m)
<1>2. ASSUME NEW m \in Macros
      PROVE  (IF Told(units, disk, Clean, db.ir, f, m) = {} THEN Undef
              ELSE Events(disk, Clean, db.ir, Latest(Told(units, disk, Clean, db.ir, f, m)), m))
             = (IF T(m) = {} THEN Undef ELSE Events(disk, {}, << >>, Latest(T(m)), m))
  <2>1. Told(units, disk, Clean, db.ir, f, m) = T(m)
    BY <1>1
  <2>2. Events(disk, Clean, db.ir, Latest(T(m)), m) = Events(disk, {}, << >>, Latest(T(m)), m)
    BY SameEvents
  <2> QED
    BY <2>1, <2>2
<1> QED
  BY <1>2, TableIs

(* The run is the full build's.                                            *)
LEMMA RunIsNew ==
    ASSUME Still, NothingDisturbed
    PROVE  Run = New
<1>1. Present(snap) = Present(disk)
  BY DEF Still
<1>2. Units(Present(disk), disk, Clean, db.ir) = Units(Present(disk), disk, {}, << >>)
  <2>1. [f \in Present(disk) |-> Splices(disk, Clean, db.ir, f)]
          = [f \in Present(disk) |-> Splices(disk, {}, << >>, f)]
    BY SameSplices
  <2> QED
    BY <2>1 DEF Units
<1> DEFINE U == Units(Present(disk), disk, {}, << >>)
<1>3. Run = [f \in U |-> IF f \in Clean THEN db.ir[f]
                         ELSE Parse(disk, f, Table(U, disk, Clean, db.ir, f))]
  BY <1>1, <1>2 DEF Run, Pass1
<1>4. New = [f \in U |-> Parse(disk, f, Table(U, disk, {}, << >>, f))]
  BY DEF New, Parsed, Pass1
<1> HIDE DEF U
<1>5. ASSUME NEW f \in U
      PROVE  (IF f \in Clean THEN db.ir[f] ELSE Parse(disk, f, Table(U, disk, Clean, db.ir, f)))
             = Parse(disk, f, Table(U, disk, {}, << >>, f))
  <2>1. CASE f \in Clean
    BY <1>4, <2>1, CleanIRs
  <2>2. CASE f \notin Clean
    BY <2>2, SameTable
  <2> QED
    BY <2>1, <2>2
<1> QED
  BY <1>3, <1>4, <1>5

(* No file changed its kind out of scope.                                  *)
LEMMA UndisturbedIsSteady ==
    ASSUME Still, NothingDisturbed
    PROVE  Steady
  BY RunIsNew, CleanUnits DEF Steady

(***************************************************************************)
(* A file in scope is held by units in scope                               *)
(***************************************************************************)
(* The include edges of a file are those of every unit that holds it.      *)
LEMMA AllDepIs ==
    ASSUME NEW irs, NEW f \in Files
    PROVE  /\ AllDep(irs)[f].inc = UNION {Dep(irs[u], f).inc : u \in DOMAIN irs}
           /\ AllDep(irs)[f].def = UNION {Dep(irs[u], f).def : u \in DOMAIN irs}
           /\ AllDep(irs)[f].use = UNION {Dep(irs[u], f).use : u \in DOMAIN irs}
  BY DEF AllDep, DepOf, IRs

(* A unit that includes a dirty file is dirty, at whatever depth.          *)
LEMMA DirtyIncluder ==
    ASSUME Still, NEW u \in DOMAIN Old, NEW f \in Spliced(built, u),
           f \in Closure(DepRel(db), Changed \union Removed)
    PROVE  u \in Dirty
<1> DEFINE C == Closure(DepRel(db), Changed \union Removed)
           T == {g \in Spliced(built, u) : g \notin C}
           R == IncludeRel(built)
<1>1. /\ u \in Discoverable /\ u \in Files
      /\ u \in Spliced(built, u)
      /\ ParsedFrom(built, Old[u], u)
  BY ParsedProperty DEF Old, Still, TypeOK
<1>2. SUFFICES ASSUME u \notin C PROVE FALSE
  BY DEF Dirty
<1>3. C \subseteq Files
  BY ClosureType
<1>4. ASSUME NEW g \in Spliced(built, u) PROVE g \in db.fnode
  <2>1. g \in Files /\ Old[u].text[g] # Absent
    BY <1>1 DEF ParsedFrom
  <2>2. DOMAIN Old \in SUBSET Discoverable
    BY ParsedProperty DEF Old, Still, TypeOK, Present
  <2>3. OwnedBy(Old, g) # Absent
    BY <2>1, <2>2, OwnerProperty DEF OwnedBy
  <2> QED
    BY <2>1, <2>3, Found
<1>5. ASSUME NEW e \in R, e[1] \in T PROVE e[2] \in T
  <2>1. PICK g \in {x \in Files : built[x] # Absent} :
          e \in {<<g, x>> : x \in {Resolve(built, p) : p \in built[g].inc} \intersect Files}
    BY <1>5 DEF IncludeRel
  <2>2. e = <<e[1], e[2]>> /\ e[1] = g /\ e[2] \in Files /\ \E p \in built[g].inc : e[2] = Resolve(built, p)
    BY <2>1
  <2>3. PICK p \in built[g].inc : e[2] = Resolve(built, p)
    BY <2>2
  <2>4. p \in Paths
    BY <2>1, PathsOfText DEF Still, TypeOK
  <2>5. g \in Spliced(built, u) /\ g \notin C
    BY <1>5, <2>2
  <2>6. e[2] \in Spliced(built, u)
    <3>1. <<g, e[2]>> \in IncludeRel(built)
      BY <2>2
    <3> QED
      BY <2>2, <2>5, <3>1, ClosureClosed DEF Spliced
  <2>7. <<p, e[2]>> \in db.dep[g].inc
    <3>1. Old[u].text[g] = built[g] /\ Old[u].res[p] = Resolve(built, p)
      BY <1>1, <2>1, <2>4, <2>5 DEF ParsedFrom
    <3>2. <<p, e[2]>> \in Dep(Old[u], g).inc
      BY <2>1, <2>3, <3>1 DEF Dep
    <3> QED
      BY <2>1, <3>2, AllDepIs, Found
  <2>8. <<e[2], g>> \in DepRel(db)
    BY <1>4, <2>5, <2>6, <2>7 DEF DepRel
  <2>9. e[2] \notin C
    <3> SUFFICES ASSUME e[2] \in C PROVE FALSE
      OBVIOUS
    <3>1. g \in C
      BY <2>1, <2>8, ClosureClosed
    <3> QED
      BY <2>5, <3>1
  <2> QED
    BY <2>6, <2>9
<1>6. T \in SUBSET Files /\ {u} \subseteq T /\ {u} \in SUBSET Files
  BY <1>1, <1>2 DEF ParsedFrom
<1>7. Closure(R, {u}) \subseteq T
  <2> HIDE DEF R, T
  <2> QED BY <1>5, <1>6, ClosureLeast
<1> QED
  BY <1>7 DEF Spliced

(* An include that a unit out of scope makes is not newly resolvable.      *)
LEMMA NotResolvable ==
    ASSUME Still, NEW u \in DOMAIN Old, u \in DOMAIN New, Old[u] = New[u],
           NEW f \in Spliced(built, u)
    PROVE  f \notin NewlyResolvable
<1> SUFFICES ASSUME f \in NewlyResolvable PROVE FALSE
  OBVIOUS
<1>1. ParsedFrom(built, Old[u], u) /\ ParsedFrom(disk, New[u], u)
  BY ParsedProperty DEF Old, New, Still, TypeOK
<1>2. f \in Files /\ built[f] # Absent
  BY <1>1 DEF ParsedFrom
<1>3. f \in Spliced(disk, u) /\ disk[f] = built[f]
  BY <1>1, <1>2 DEF ParsedFrom
<1>4. PICK x \in db.dep[f].inc :
         x[2] = Absent /\ Added \intersect Range(Search[x[1]]) # {}
  BY DEF NewlyResolvable
<1>5. PICK v \in DOMAIN Old : x \in Dep(Old[v], f).inc
  BY <1>2, <1>4, AllDepIs, Found
<1>6. ParsedFrom(built, Old[v], v)
  BY <1>5, ParsedProperty DEF Old, Still, TypeOK
<1>7. Old[v].text[f] # Absent
  BY <1>5 DEF Dep, NoDep
<1>8. f \in Spliced(built, v) /\ Old[v].text[f] = built[f]
  BY <1>2, <1>6, <1>7 DEF ParsedFrom
<1>9. PICK p \in built[f].inc : x = <<p, Old[v].res[p]>>
  BY <1>5, <1>7, <1>8 DEF Dep
<1>10. p \in Paths
  BY <1>2, PathsOfText DEF Still, TypeOK
<1>11. Old[v].res[p] = Resolve(built, p)
  BY <1>6, <1>8, <1>10 DEF ParsedFrom
<1>12. Resolve(built, p) = Absent
  BY <1>4, <1>9, <1>11
<1>13. Old[u].res[p] = Resolve(built, p) /\ New[u].res[p] = Resolve(disk, p)
  BY <1>1, <1>3, <1>10 DEF ParsedFrom
<1>14. Resolve(disk, p) = Absent
  BY <1>12, <1>13
<1>15. \A g \in Range(Search[p]) : disk[g] = Absent
  BY <1>10, <1>14, ResolveProperty
<1>16. \A g \in Added : disk[g] # Absent
  BY DEF Added, Present, Still
<1> QED
  BY <1>4, <1>9, <1>15, <1>16

Held(irs, u, f) == u \in DOMAIN irs /\ irs[u].text[f] # Absent

(* Only units in scope hold a file in scope.                               *)
LEMMA HeldInScope ==
    ASSUME Still, NothingDisturbed, NEW f \in Touched, NEW u, Held(New, u, f)
    PROVE  u \in Touched
<1> SUFFICES ASSUME u \notin Touched PROVE FALSE
  OBVIOUS
<1>1. u \in DOMAIN New /\ New[u].text[f] # Absent
  BY DEF Held
<1>2. u \in DOMAIN Old /\ Old[u] = New[u] /\ u \notin Dirty
  BY <1>1, OutsideUnits, CleanUnits DEF Clean
<1>3. ParsedFrom(built, Old[u], u) /\ ParsedFrom(disk, New[u], u)
  BY <1>1, <1>2, ParsedProperty DEF Old, New, Still, TypeOK
<1>4. f \in Discoverable /\ f \in Files
  BY ScopeType DEF Files
<1>5. f \in Spliced(built, u) /\ built[f] # Absent /\ disk[f] # Absent
  BY <1>1, <1>2, <1>3, <1>4 DEF ParsedFrom
<1>6. f \in Dirty /\ f \notin Added
  <2>1. f \notin Removed
    BY <1>5 DEF Removed, Present, Still
  <2>2. f \notin Added
    BY <1>4, <1>5, Found DEF Added, Stored, Hashes
  <2> QED
    BY <2>1, <2>2 DEF Touched, Reparsed
<1>7. f \notin Closure(DepRel(db), Changed \union Removed)
  BY <1>2, <1>5, DirtyIncluder
<1>8. f \notin NewlyResolvable
  BY <1>1, <1>2, <1>5, NotResolvable
<1> QED
  BY <1>6, <1>7, <1>8 DEF Dirty

(***************************************************************************)
(* The incremental link where no clean unit became a header, no header a   *)
(* unit: what it hands to the store, in either mode                        *)
(***************************************************************************)
Fresh == DOMAIN Run \ Clean

Srcs == {a[2] : a \in Affected(ChangedNames(Touched, Run, Fresh))}

Extra == {a[1] : a \in Affected(ChangedNames(Touched, Run, Fresh))} \intersect Clean

Kept == {x \in db.nodes : x.file \notin Touched}

FreshNodes ==
    UNION {Defs(Run[Owner(Fresh, {}, Run, f)], f) :
             f \in {g \in Files : Owner(Fresh, {}, Run, g) # Absent}}

AddedNodes == {x \in FreshNodes : \A y \in Kept : <<y.file, y.name>> # <<x.file, x.name>>}

Live == {r \in AllRefs(Run) : r \in Srcs \/ \E u \in Fresh : r \in RefsOf(Run[u])}

EdgesFrom(units) ==
    UNION {Score(Kept \union AddedNodes, Owner(units, {}, Run, r[1]), r[1], r[2]) : r \in Live}

Linked(units) ==
    [irs   |-> Run,
     srcs  |-> Srcs,
     fnode |-> {f \in Touched : \E u \in Fresh : Run[u].text[f] # Absent},
     dep   |-> DepOf(IRs(Run, Fresh)),
     kept  |-> Kept,
     added |-> AddedNodes,
     edges |-> EdgesFrom(units)]

Listed(bounded) == IF bounded THEN Fresh \union Extra ELSE DOMAIN Run

(* The units of the run: clean ones with their stored IRs, and fresh ones, *)
(* all in scope.                                                           *)
LEMMA SteadyUnits ==
    ASSUME Still, Steady
    PROVE  /\ Clean \subseteq DOMAIN Run
           /\ Fresh = DOMAIN Run \intersect Touched
           /\ DOMAIN Run \in SUBSET Discoverable
           /\ \A u \in Clean : Run[u] = db.ir[u] /\ u \in DOMAIN Old /\ Run[u] = Old[u]
<1>1. Clean = DOMAIN Run \ Touched
  BY DEF Steady
<1>2. \A u \in DOMAIN Run : u \in Clean => Run[u] = db.ir[u]
  BY Pass1Property DEF Run
<1>3. DOMAIN Run \in SUBSET Discoverable
  <2>1. DOMAIN Run = Units(Present(snap), disk, Clean, db.ir)
    BY DEF Run, Pass1
  <2>2. Present(snap) \in SUBSET Discoverable
    BY DEF Present
  <2>3. Units(Present(snap), disk, Clean, db.ir) \in SUBSET Present(snap)
    BY <2>2, UnitsProperty, Zenon
  <2> QED
    BY <2>1, <2>2, <2>3
<1>4. db.ir = Old /\ Clean \subseteq DOMAIN Old
  BY Found, ScopeType
<1> QED
  BY <1>1, <1>2, <1>3, <1>4 DEF Fresh

(* Two IRs of one text define the same names.                              *)
LEMMA SameNames ==
    ASSUME NEW ir, NEW jr, NEW f, ir.text[f] = jr.text[f], NEW x \in Defs(ir, f)
    PROVE  \E y \in Defs(jr, f) : y.file = x.file /\ y.name = x.name
<1>1. ir.text[f] # Absent
  BY DEF Defs
<1>2. CASE x \in {[file |-> f, name |-> n, conditional |-> FALSE] : n \in ir.text[f].defs}
  BY <1>1, <1>2 DEF Defs
<1>3. CASE x \in {[file |-> f, name |-> c[2], conditional |-> ir.first[f][c[1]] = Undef] :
                    c \in ir.text[f].cond}
  <2>1. PICK c \in ir.text[f].cond :
          x = [file |-> f, name |-> c[2], conditional |-> ir.first[f][c[1]] = Undef]
    BY <1>3
  <2>2. [file |-> f, name |-> c[2], conditional |-> jr.first[f][c[1]] = Undef] \in Defs(jr, f)
    BY <1>1 DEF Defs
  <2> QED
    BY <2>1, <2>2
<1> QED
  BY <1>1, <1>2, <1>3 DEF Defs

(* A definition names the file it is of.                                   *)
LEMMA DefsFile ==
    ASSUME NEW ir, NEW f, NEW x \in Defs(ir, f)
    PROVE  x.file = f /\ ir.text[f] # Absent
  BY DEF Defs

(* A node of the graph is a definition of its file by the file's owner.    *)
LEMMA NodesOfIs ==
    ASSUME NEW irs, NEW x
    PROVE  x \in NodesOf(irs) <=>
             \E f \in Files : /\ OwnedBy(irs, f) # Absent
                              /\ x \in Defs(irs[OwnedBy(irs, f)], f)
  BY DEF NodesOf

(* Every name a stored unit defines in a file is the name of a node.       *)
LEMMA StoredNames ==
    ASSUME Still, NEW u \in DOMAIN Old, NEW f \in Files, NEW x \in Defs(Old[u], f)
    PROVE  \E y \in db.nodes : y.file = f /\ y.name = x.name
<1> DEFINE own == OwnedBy(Old, f)
<1>1. DOMAIN Old \in SUBSET Discoverable
  BY ParsedProperty DEF Old, Still, TypeOK, Present
<1>2. Old[u].text[f] # Absent /\ x.file = f
  BY DefsFile
<1>3. own # Absent /\ own \in DOMAIN Old /\ Old[own].text[f] # Absent
  BY <1>1, <1>2, OwnerProperty DEF OwnedBy
<1>4. Old[own].text[f] = built[f] /\ Old[u].text[f] = built[f]
  BY <1>2, <1>3, ParsedProperty DEF Old, Still, TypeOK, ParsedFrom
<1> HIDE DEF own
<1>5. PICK y \in Defs(Old[own], f) : y.file = x.file /\ y.name = x.name
  BY <1>4, SameNames
<1>6. y \in NodesOf(Old)
  BY <1>3, <1>5, NodesOfIs DEF own
<1> QED
  BY <1>2, <1>5, <1>6, Found

(* The names that changed are the same whether every stored IR is decoded  *)
(* or only what was parsed again.                                          *)
LEMMA SameChanged ==
    ASSUME Still, Steady, NEW decoded, Fresh \subseteq decoded, decoded \subseteq DOMAIN Run
    PROVE  ChangedNames(Touched, Run, decoded) = ChangedNames(Touched, Run, Fresh)
<1>1. ASSUME NEW u \in decoded, u \notin Fresh, NEW f \in Touched, NEW x \in Defs(Run[u], f)
      PROVE  x.name \in {y.name : y \in {z \in db.nodes : z.file \in Touched}}
  <2>1. u \in Clean
    BY <1>1 DEF Fresh
  <2>2. u \in DOMAIN Old /\ Run[u] = Old[u]
    BY <2>1, SteadyUnits
  <2>3. f \in Files
    BY ScopeType DEF Files
  <2>4. x \in Defs(Old[u], f)
    BY <1>1, <2>2
  <2>5. PICK y \in db.nodes : y.file = f /\ y.name = x.name
    BY <2>2, <2>3, <2>4, StoredNames
  <2> QED
    BY <2>5
<1> DEFINE B == {y.name : y \in {z \in db.nodes : z.file \in Touched}}
           N(D) == {x.name : x \in UNION {Defs(Run[u], f) : u \in D, f \in Touched}}
<1>2. ChangedNames(Touched, Run, decoded) = B \union N(decoded)
  BY DEF ChangedNames
<1>3. ChangedNames(Touched, Run, Fresh) = B \union N(Fresh)
  BY DEF ChangedNames
<1>4. N(decoded) \subseteq B \union N(Fresh)
  <2> SUFFICES ASSUME NEW n \in N(decoded), n \notin N(Fresh) PROVE n \in B
    OBVIOUS
  <2>1. PICK u \in decoded, f \in Touched : \E x \in Defs(Run[u], f) : n = x.name
    OBVIOUS
  <2>2. u \notin Fresh
    BY <2>1
  <2> HIDE DEF B, N
  <2> QED
    BY <1>1, <2>1, <2>2 DEF B
<1>5. N(Fresh) \subseteq N(decoded)
  OBVIOUS
<1> QED
  BY <1>2, <1>3, <1>4, <1>5

(* The references linked again are the same too: a clean unit that makes   *)
(* one of them is decoded.                                                 *)
LEMMA SameLive ==
    ASSUME Still, Steady, NEW bounded \in BOOLEAN
    PROVE  {r \in UNION {RefsOf(Run[u]) : u \in Listed(bounded)} :
              r \in Srcs \/ \E u \in Fresh : r \in RefsOf(Run[u])} = Live
<1> DEFINE A == Affected(ChangedNames(Touched, Run, Fresh))
           L == {r \in UNION {RefsOf(Run[u]) : u \in Listed(bounded)} :
                   r \in Srcs \/ \E u \in Fresh : r \in RefsOf(Run[u])}
<1>1. Fresh \subseteq Listed(bounded) /\ Listed(bounded) \subseteq DOMAIN Run
  BY SteadyUnits DEF Listed, Fresh, Extra
<1>2. L \subseteq Live
  BY <1>1 DEF Live, AllRefs
<1>3. ASSUME NEW r \in Live PROVE r \in L
  <2>1. PICK u \in DOMAIN Run : r \in RefsOf(Run[u])
    BY DEF Live, AllRefs
  <2>2. r \in Srcs \/ \E v \in Fresh : r \in RefsOf(Run[v])
    BY DEF Live
  <2>3. CASE \E v \in Fresh : r \in RefsOf(Run[v])
    BY <1>1, <2>3
  <2>4. CASE u \in Listed(bounded)
    BY <2>1, <2>2, <2>4
  <2>5. CASE r \in Srcs /\ u \notin Listed(bounded)
    <3>1. bounded /\ u \in Clean
      BY <2>5, <1>1 DEF Listed, Fresh
    <3>2. u \in Discoverable /\ db.refs[u] = RefsOf(Run[u])
      BY <3>1, SteadyUnits, Found
    <3>3. PICK a \in A : r = a[2]
      BY <2>5 DEF Srcs
    <3>4. r \in Files \X Names /\ r[2] \in ChangedNames(Touched, Run, Fresh)
      BY <3>3 DEF Affected
    <3>5. <<u, r>> \in A
      BY <2>1, <3>2, <3>4 DEF Affected
    <3>6. u \in Extra
      BY <3>1, <3>5 DEF Extra
    <3> QED
      BY <2>5, <3>1, <3>6 DEF Listed
  <2> QED
    BY <2>2, <2>3, <2>4, <2>5
<1> QED
  BY <1>2, <1>3

(* What the linker hands to the store, without the detours of the code: no *)
(* list but the units in compile order, no IR but the run's.               *)
LEMMA RelinkIs ==
    ASSUME Still, Steady, NEW bounded \in BOOLEAN
    PROVE  Relink(bounded) = Linked(Listed(bounded))
<1> DEFINE aff   == Affected(ChangedNames(Touched, Run, IF bounded THEN Fresh ELSE DOMAIN Run))
           srcs  == {a[2] : a \in aff}
           extra == {a[1] : a \in aff} \intersect Clean
           units == IF bounded THEN Fresh \union extra ELSE DOMAIN Run
           head  == ListedFirst(bounded, Touched, Fresh, extra)
           ir    == [u \in units |-> IF bounded /\ u \in extra THEN db.ir[u] ELSE Run[u]]
           dirty == units \intersect Touched
           own(f) == Owner(dirty, head, ir, f)
           spliced == UNION {Defs(ir[own(f)], f) : f \in {g \in Files : own(g) # Absent}}
           added == {x \in spliced : \A y \in Kept : <<y.file, y.name>> # <<x.file, x.name>>}
           live  == {r \in UNION {RefsOf(ir[u]) : u \in units} :
                       \/ r \in srcs
                       \/ \E u \in dirty : r \in RefsOf(ir[u])}
           edges == UNION {Score(Kept \union added, Owner(units, head, ir, r[1]), r[1], r[2]) : r \in live}
<1>1. Relink(bounded) =
        [irs   |-> Run,
         srcs  |-> srcs,
         fnode |-> {f \in Touched : \E u \in dirty : ir[u].text[f] # Absent},
         dep   |-> DepOf(IRs(ir, dirty)),
         kept  |-> Kept,
         added |-> added,
         edges |-> edges]
  BY DEF Relink, LinkRun, Kept, Fresh
<1>2. aff = Affected(ChangedNames(Touched, Run, Fresh))
  <2>1. ChangedNames(Touched, Run, IF bounded THEN Fresh ELSE DOMAIN Run) = ChangedNames(Touched, Run, Fresh)
    BY SameChanged DEF Fresh
  <2> QED
    BY <2>1
<1> HIDE DEF aff
<1>3. srcs = Srcs /\ extra = Extra
  BY <1>2 DEF Srcs, Extra
<1> HIDE DEF srcs, extra
<1>4. units = Listed(bounded)
  BY <1>3 DEF Listed
<1>5. /\ units \in SUBSET Discoverable /\ Fresh \subseteq units /\ units \subseteq DOMAIN Run
      /\ Fresh \in SUBSET Discoverable
  BY <1>3, SteadyUnits DEF Fresh, Extra
<1>6. dirty = Fresh
  BY <1>5, SteadyUnits
<1>7. \A u \in units : ir[u] = Run[u]
  BY <1>3, SteadyUnits DEF Extra
<1>8. \A u, v \in units : Before(head, u, v) <=> Before({}, u, v)
  BY <1>3, SteadyUnits DEF ListedFirst, Before
<1> HIDE DEF units, ir, head, dirty
<1>9. ASSUME NEW f PROVE Owner(dirty, head, ir, f) = Owner(Fresh, {}, Run, f)
  <2>1. \A u : (u \in dirty /\ ir[u].text[f] # Absent) <=> (u \in Fresh /\ Run[u].text[f] # Absent)
    BY <1>5, <1>6, <1>7
  <2>2. \A u, v \in dirty : Before(head, u, v) <=> Before({}, u, v)
    BY <1>5, <1>6, <1>8
  <2> QED
    BY <1>5, <1>6, <2>1, <2>2, OwnerSame
<1>10. ASSUME NEW f PROVE Owner(units, head, ir, f) = Owner(Listed(bounded), {}, Run, f)
  <2>1. \A u : (u \in units /\ ir[u].text[f] # Absent)
                 <=> (u \in Listed(bounded) /\ Run[u].text[f] # Absent)
    BY <1>4, <1>7
  <2> QED
    BY <1>4, <1>5, <1>8, <2>1, OwnerSame
<1>11. ASSUME NEW f, own(f) # Absent PROVE Defs(ir[own(f)], f) = Defs(Run[own(f)], f)
  <2>1. own(f) \in dirty
    BY <1>5, <1>6, <1>11, OwnerProperty
  <2> QED
    BY <1>5, <1>6, <1>7, <2>1
<1>12. spliced = FreshNodes
  BY <1>9, <1>11 DEF FreshNodes
<1> HIDE DEF spliced
<1>13. added = AddedNodes
  BY <1>12 DEF AddedNodes
<1> HIDE DEF added
<1>14. live = Live
  <2>1. live = {r \in UNION {RefsOf(Run[u]) : u \in Listed(bounded)} :
                  r \in Srcs \/ \E u \in Fresh : r \in RefsOf(Run[u])}
    BY <1>3, <1>4, <1>5, <1>6, <1>7
  <2> QED
    BY <2>1, SameLive
<1> HIDE DEF live
<1>15. edges = EdgesFrom(Listed(bounded))
  BY <1>10, <1>13, <1>14 DEF EdgesFrom
<1> HIDE DEF edges
<1>16. IRs(ir, dirty) = IRs(Run, Fresh)
  BY <1>5, <1>6, <1>7 DEF IRs
<1>17. {f \in Touched : \E u \in dirty : ir[u].text[f] # Absent}
         = {f \in Touched : \E u \in Fresh : Run[u].text[f] # Absent}
  BY <1>5, <1>6, <1>7
<1> QED
  BY <1>1, <1>3, <1>13, <1>15, <1>16, <1>17 DEF Linked

(***************************************************************************)
(* The two modes write the same                                            *)
(***************************************************************************)
Redo(e) == e[1] \in Touched \/ <<e[1], e[2]>> \in Srcs

Rewritten(inst, dep, units) ==
    [hash  |-> [f \in Discoverable |->
                  IF f \in Touched THEN (IF f \in Reparsed THEN snap[f] ELSE Absent)
                  ELSE db.hash[f]],
     skip  |-> (db.skip \ Touched) \union (Reparsed \ DOMAIN Run),
     ir    |-> [u \in (DOMAIN db.ir \ Touched) \union (Touched \intersect DOMAIN Run) |->
                  IF u \in Touched \intersect DOMAIN Run THEN Run[u] ELSE db.ir[u]],
     fnode |-> (db.fnode \ Touched) \union {f \in Touched : \E u \in Fresh : Run[u].text[f] # Absent},
     dep   |-> dep,
     nodes |-> Kept \union {x \in AddedNodes : x.file \in Touched},
     refs  |-> [u \in Discoverable |->
                  IF u \in Touched \intersect DOMAIN Run THEN RefsOf(Run[u])
                  ELSE IF u \in Touched THEN {} ELSE db.refs[u]],
     inst  |-> inst,
     stubs |-> Stubs(DepOf(IRs(Run, Fresh)), EdgesFrom(units)) \union (db.stubs \intersect Stubs(dep, inst))]

DepAfter == [f \in Files |-> IF f \in Touched THEN DepOf(IRs(Run, Fresh))[f] ELSE db.dep[f]]

InstAfter(units) == {e \in db.inst : ~Redo(e)} \union {e \in EdgesFrom(units) : Redo(e)}

(* The tables after the write.                                             *)
LEMMA WriteIs ==
    ASSUME NEW units
    PROVE  Write(Touched, Linked(units)) = Rewritten(InstAfter(units), DepAfter, units)
  BY DEF Write, Linked, Rewritten, InstAfter, DepAfter, Redo

(* The tables where every unit is listed.                                  *)
After == Rewritten(InstAfter(DOMAIN Run), DepAfter, DOMAIN Run)

(* A reference's edges start at it, and whether it is unresolved does not  *)
(* depend on who owns its source.                                          *)
LEMMA ScoreShape ==
    ASSUME NEW defs \in SUBSET DefRecords, NEW own, NEW f, NEW n, NEW e \in Score(defs, own, f, n)
    PROVE  /\ e[1] = f /\ e[2] = n
           /\ e[3] = Stub => \A other : e \in Score(defs, other, f, n)
<1>1. e[1] = f /\ e[2] = n
  BY DEF Score
<1>2. \A x \in defs : x.file # Stub
  BY DistinctAssumption DEF DefRecords
<1>3. ASSUME e[3] = Stub, {x \in defs : x.name = n} # {} PROVE FALSE
  <2>1. \E x \in defs : e[3] = x.file
    BY <1>3 DEF Score
  <2> QED
    BY <1>2, <1>3, <2>1
<1>4. ASSUME e[3] = Stub, NEW other PROVE e \in Score(defs, other, f, n)
  <2>1. {x \in defs : x.name = n} = {}
    BY <1>3, <1>4
  <2>2. Score(defs, own, f, n) = {<<f, n, Stub, "resolved">>}
    BY <2>1 DEF Score
  <2>3. Score(defs, other, f, n) = {<<f, n, Stub, "resolved">>}
    BY <2>1 DEF Score
  <2> QED
    BY <2>2, <2>3
<1> QED
  BY <1>1, <1>4

(* The nodes of the write's graph are definitions of files.                *)
LEMMA NodesTyped ==
    ASSUME Still, Steady
    PROVE  Kept \union AddedNodes \in SUBSET DefRecords
<1>1. Kept \in SUBSET DefRecords
  BY DEF Kept, Still, TypeOK, TablesOK, DefRecords
<1>2. \A u \in DOMAIN Run : Run[u].text \in Tree
  BY RunType DEF Run, Still
<1>3. ASSUME NEW f \in Files, Owner(Fresh, {}, Run, f) # Absent
      PROVE  Defs(Run[Owner(Fresh, {}, Run, f)], f) \in SUBSET DefRecords
  <2> DEFINE own == Owner(Fresh, {}, Run, f)
  <2>1. Fresh \in SUBSET Discoverable /\ Fresh \subseteq DOMAIN Run
    BY SteadyUnits DEF Fresh
  <2>2. own \in Fresh
    BY <1>3, <2>1, OwnerProperty
  <2>3. Run[own].text \in Tree
    BY <1>2, <2>1, <2>2
  <2> HIDE DEF own
  <2>4. Defs(Run[own], f) \in SUBSET DefRecords
    BY <2>3, DefsType
  <2> QED
    BY <2>4 DEF own
<1>4. FreshNodes \in SUBSET DefRecords
  BY <1>3 DEF FreshNodes
<1> QED
  BY <1>1, <1>4 DEF AddedNodes

EdgesOf(units, r) == Score(Kept \union AddedNodes, Owner(units, {}, Run, r[1]), r[1], r[2])

(* The edges, reference by reference.                                      *)
LEMMA EdgesFromIs ==
    ASSUME NEW units, NEW e
    PROVE  e \in EdgesFrom(units) <=> \E r \in Live : e \in EdgesOf(units, r)
  BY DEF EdgesFrom, EdgesOf

(* The owner of a reference linked again is a unit that is listed.         *)
LEMMA OwnersListed ==
    ASSUME Still, Steady, NEW bounded \in BOOLEAN, bounded => FirstListed,
           NEW r \in Live, r[1] \in Touched \/ r \in Srcs
    PROVE  EdgesOf(Listed(bounded), r) = EdgesOf(DOMAIN Run, r)
<1>1. CASE ~bounded
  BY <1>1 DEF Listed
<1>2. CASE bounded
  <2> DEFINE A == Affected(ChangedNames(Touched, Run, Fresh))
             own == Owner(DOMAIN Run, {}, Run, r[1])
  <2>1. r[1] \in Touched \union {a[2][1] : a \in A}
    BY DEF Srcs
  <2>2. own \in Fresh \union {a[1] : a \in A} \union {Absent}
    BY <1>2, <2>1 DEF FirstListed, Fresh
  <2>3. own # Absent => own \in DOMAIN Run
    BY SteadyUnits, OwnerProperty
  <2>4. own \in Listed(bounded) \union {Absent}
    BY <1>2, <2>2, <2>3 DEF Listed, Extra, Fresh
  <2>5. Listed(bounded) \subseteq DOMAIN Run
    BY SteadyUnits DEF Listed, Fresh, Extra
  <2>6. Owner(Listed(bounded), {}, Run, r[1]) = own
    BY <2>4, <2>5, SteadyUnits, OwnerListed
  <2> QED
    BY <2>6 DEF EdgesOf
<1> QED
  BY <1>1, <1>2

(* In either mode an update writes the same tables.                        *)
LEMMA DeltaIs ==
    ASSUME Still, Steady, NEW bounded \in BOOLEAN, bounded => FirstListed
    PROVE  Delta(bounded) = After
<1> DEFINE L == Listed(bounded)
<1>1. Delta(bounded) = Rewritten(InstAfter(L), DepAfter, L)
  BY RelinkIs, WriteIs DEF Delta
<1>2. ASSUME NEW r \in Live, NEW units, NEW e \in EdgesOf(units, r)
      PROVE  /\ r = <<e[1], e[2]>>
             /\ e[3] = Stub => \A other : e \in EdgesOf(other, r)
  <2>1. r = <<r[1], r[2]>>
    BY RefsOfType DEF Live, AllRefs
  <2>2. /\ e[1] = r[1] /\ e[2] = r[2]
        /\ e[3] = Stub => \A own : e \in Score(Kept \union AddedNodes, own, r[1], r[2])
    BY NodesTyped, ScoreShape DEF EdgesOf
  <2> QED
    BY <2>1, <2>2 DEF EdgesOf
<1>3. ASSUME NEW e, Redo(e) PROVE e \in EdgesFrom(L) <=> e \in EdgesFrom(DOMAIN Run)
  <2>1. ASSUME NEW r \in Live, e \in EdgesOf(L, r) \/ e \in EdgesOf(DOMAIN Run, r)
        PROVE  EdgesOf(L, r) = EdgesOf(DOMAIN Run, r)
    <3>1. r = <<e[1], e[2]>>
      BY <1>2, <2>1
    <3>2. r[1] \in Touched \/ r \in Srcs
      BY <1>3, <3>1 DEF Redo
    <3> QED
      BY <3>2, OwnersListed
  <2> HIDE DEF L
  <2> QED
    BY <2>1, EdgesFromIs
<1>4. ASSUME NEW e, e[3] = Stub PROVE e \in EdgesFrom(L) <=> e \in EdgesFrom(DOMAIN Run)
  BY <1>2, <1>4, EdgesFromIs
<1> HIDE DEF L
<1>5. InstAfter(L) = InstAfter(DOMAIN Run)
  BY <1>3 DEF InstAfter
<1>6. Stubs(DepOf(IRs(Run, Fresh)), EdgesFrom(L)) = Stubs(DepOf(IRs(Run, Fresh)), EdgesFrom(DOMAIN Run))
  <2>1. {x \in EdgesFrom(L) : x[3] = Stub} = {x \in EdgesFrom(DOMAIN Run) : x[3] = Stub}
    BY <1>4
  <2> QED
    BY <2>1 DEF Stubs
<1> QED
  BY <1>1, <1>5, <1>6 DEF Rewritten, After

(***************************************************************************)
(* An undisturbed update writes what a full build would                    *)
(***************************************************************************)
(* What the two runs share.                                                *)
LEMMA Shared ==
    ASSUME Still, NothingDisturbed
    PROVE  /\ Steady
           /\ Run = New
           /\ Fresh = DOMAIN New \intersect Touched
           /\ DOMAIN New \in SUBSET Discoverable
           /\ DOMAIN Old \in SUBSET Discoverable
           /\ Fresh \in SUBSET Discoverable
           /\ \A f \in Touched : \A u : Held(New, u, f) => u \in Fresh
<1>1. Steady /\ Run = New
  BY UndisturbedIsSteady, RunIsNew
<1>2. Fresh = DOMAIN New \intersect Touched /\ DOMAIN New \in SUBSET Discoverable
  BY <1>1, SteadyUnits
<1>3. DOMAIN Old \in SUBSET Discoverable
  BY ParsedProperty DEF Old, Still, TypeOK, Present
<1> QED
  BY <1>1, <1>2, <1>3, HeldInScope DEF Held

(* The face of a file, one by one.                                         *)
LEMMA FaceIs ==
    ASSUME Still, NothingDisturbed, NEW f \in Files, f \notin Touched
    PROVE  /\ OwnedBy(Old, f) = OwnedBy(New, f)
           /\ OwnedBy(New, f) # Absent =>
                Defs(Old[OwnedBy(New, f)], f) = Defs(New[OwnedBy(New, f)], f)
           /\ UNION {Refs(Old[u], f) : u \in DOMAIN Old} = UNION {Refs(New[u], f) : u \in DOMAIN New}
           /\ AllDep(Old)[f] = AllDep(New)[f]
<1>1. Face(Old, f) = Face(New, f)
  BY OutsideUnits
<1> HIDE DEF Old, New
<1>2. /\ Face(Old, f).owner = OwnedBy(Old, f)
      /\ Face(Old, f).defs = IF OwnedBy(Old, f) = Absent THEN {} ELSE Defs(Old[OwnedBy(Old, f)], f)
      /\ Face(Old, f).refs = UNION {Refs(Old[u], f) : u \in DOMAIN Old}
      /\ Face(Old, f).dep = AllDep(Old)[f]
  BY DEF Face, OwnedBy, AllDep
<1>3. /\ Face(New, f).owner = OwnedBy(New, f)
      /\ Face(New, f).defs = IF OwnedBy(New, f) = Absent THEN {} ELSE Defs(New[OwnedBy(New, f)], f)
      /\ Face(New, f).refs = UNION {Refs(New[u], f) : u \in DOMAIN New}
      /\ Face(New, f).dep = AllDep(New)[f]
  BY DEF Face, OwnedBy, AllDep
<1> QED
  BY <1>1, <1>2, <1>3

(* Of a file in scope, the units in scope say everything.                  *)
LEMMA InScope ==
    ASSUME Still, NothingDisturbed, NEW f \in Touched
    PROVE  /\ Owner(Fresh, {}, Run, f) = OwnedBy(New, f)
           /\ DepOf(IRs(Run, Fresh))[f] = AllDep(New)[f]
<1>1. Owner(Fresh, {}, Run, f) = OwnedBy(New, f)
  <2>1. \A u : (u \in Fresh /\ Run[u].text[f] # Absent) <=> (u \in DOMAIN New /\ New[u].text[f] # Absent)
    BY Shared DEF Held
  <2> HIDE DEF New
  <2> QED
    BY <2>1, Shared, OwnerSame DEF OwnedBy
<1>2. DepOf(IRs(Run, Fresh))[f] = AllDep(New)[f]
  <2>1. f \in Files
    BY ScopeType DEF Files
  <2>2. \A u \in DOMAIN New : u \notin Fresh => Dep(New[u], f) = NoDep
    BY Shared DEF Held, Dep
  <2>3. \A u \in Fresh : u \in DOMAIN New
    BY Shared
  <2>4. DepOf(IRs(New, Fresh))[f] =
          [inc |-> UNION {Dep(New[u], f).inc : u \in Fresh},
           def |-> UNION {Dep(New[u], f).def : u \in Fresh},
           use |-> UNION {Dep(New[u], f).use : u \in Fresh}]
    BY <2>1 DEF DepOf, IRs
  <2>5. AllDep(New)[f] =
          [inc |-> UNION {Dep(New[u], f).inc : u \in DOMAIN New},
           def |-> UNION {Dep(New[u], f).def : u \in DOMAIN New},
           use |-> UNION {Dep(New[u], f).use : u \in DOMAIN New}]
    BY <2>1 DEF AllDep, DepOf, IRs
  <2>6. /\ UNION {Dep(New[u], f).inc : u \in Fresh} = UNION {Dep(New[u], f).inc : u \in DOMAIN New}
        /\ UNION {Dep(New[u], f).def : u \in Fresh} = UNION {Dep(New[u], f).def : u \in DOMAIN New}
        /\ UNION {Dep(New[u], f).use : u \in Fresh} = UNION {Dep(New[u], f).use : u \in DOMAIN New}
    <3> NoDep.inc = {} /\ NoDep.def = {} /\ NoDep.use = {}
      BY DEF NoDep
    <3> HIDE DEF New
    <3> QED
      BY <2>2, <2>3
  <2> QED
    BY <2>4, <2>5, <2>6, Shared
<1> QED
  BY <1>1, <1>2

(* The nodes of files out of scope are unchanged.                          *)
LEMMA KeptIs ==
    ASSUME Still, NothingDisturbed
    PROVE  Kept = {x \in NodesOf(New) : x.file \notin Touched}
<1>1. \A x : x \in NodesOf(Old) => \E f \in Files : x \in Defs(Old[OwnedBy(Old, f)], f) /\ OwnedBy(Old, f) # Absent
  BY NodesOfIs
<1>2. ASSUME NEW f \in Files, f \notin Touched, NEW x
      PROVE  (OwnedBy(Old, f) # Absent /\ x \in Defs(Old[OwnedBy(Old, f)], f))
               <=> (OwnedBy(New, f) # Absent /\ x \in Defs(New[OwnedBy(New, f)], f))
  BY <1>2, FaceIs
<1>3. ASSUME NEW x, x.file \notin Touched PROVE x \in NodesOf(Old) <=> x \in NodesOf(New)
  <2>1. ASSUME x \in NodesOf(Old) PROVE x \in NodesOf(New)
    <3>1. PICK f \in Files : OwnedBy(Old, f) # Absent /\ x \in Defs(Old[OwnedBy(Old, f)], f)
      BY <2>1, NodesOfIs
    <3>2. f \notin Touched
      BY <1>3, <3>1, DefsFile
    <3> QED
      BY <1>2, <3>1, <3>2, NodesOfIs
  <2>2. ASSUME x \in NodesOf(New) PROVE x \in NodesOf(Old)
    <3>1. PICK f \in Files : OwnedBy(New, f) # Absent /\ x \in Defs(New[OwnedBy(New, f)], f)
      BY <2>2, NodesOfIs
    <3>2. f \notin Touched
      BY <1>3, <3>1, DefsFile
    <3> QED
      BY <1>2, <3>1, <3>2, NodesOfIs
  <2> QED
    BY <2>1, <2>2
<1> QED
  BY <1>3, Found DEF Kept

(* Of a file out of scope, a unit in scope that holds it adds no node.     *)
LEMMA NothingAdded ==
    ASSUME Still, NothingDisturbed, NEW x \in AddedNodes
    PROVE  x.file \in Touched
<1> SUFFICES ASSUME x.file \notin Touched PROVE FALSE
  OBVIOUS
<1>1. PICK f \in Files : /\ Owner(Fresh, {}, Run, f) # Absent
                         /\ x \in Defs(Run[Owner(Fresh, {}, Run, f)], f)
  BY DEF AddedNodes, FreshNodes
<1> DEFINE u == Owner(Fresh, {}, Run, f)
           own == OwnedBy(New, f)
<1>2. x.file = f /\ Run[u].text[f] # Absent
  BY <1>1, DefsFile
<1>3. u \in Fresh
  BY <1>1, Shared, OwnerProperty
<1> HIDE DEF u
<1>4. u \in DOMAIN New /\ Run[u] = New[u] /\ New[u].text[f] # Absent
  BY <1>2, <1>3, Shared
<1>5. own # Absent
  BY <1>4, Shared, OwnerProperty DEF OwnedBy
<1>6. own \in DOMAIN New /\ New[own].text[f] # Absent
  <2>1. DOMAIN New \in SUBSET Discoverable
    BY Shared
  <2> QED
    BY <1>5, <2>1, OwnerProperty DEF OwnedBy
<1>7. New[u].text[f] = disk[f] /\ New[own].text[f] = disk[f]
  BY <1>4, <1>6, ParsedProperty DEF New, Still, TypeOK, ParsedFrom
<1>8. x \in Defs(New[u], f)
  BY <1>1, <1>4 DEF u
<1> HIDE DEF own
<1>9. PICK y \in Defs(New[own], f) : y.file = x.file /\ y.name = x.name
  BY <1>7, <1>8, SameNames
<1>10. y \in Kept
  BY <1>5, <1>9, NodesOfIs, KeptIs DEF own
<1> QED
  BY <1>9, <1>10 DEF AddedNodes

(* The nodes the references are resolved against, and the nodes stored,    *)
(* are those of the new tree.                                              *)
LEMMA NodesAfter ==
    ASSUME Still, NothingDisturbed
    PROVE  /\ Kept \union AddedNodes = NodesOf(New)
           /\ Kept \union {x \in AddedNodes : x.file \in Touched} = NodesOf(New)
<1>1. ASSUME NEW x, x.file \in Touched PROVE x \in AddedNodes <=> x \in NodesOf(New)
  <2>1. x \in AddedNodes <=> x \in FreshNodes
    BY <1>1 DEF AddedNodes, Kept
  <2>2. ASSUME NEW f \in Touched
        PROVE  /\ Owner(Fresh, {}, Run, f) = OwnedBy(New, f)
               /\ OwnedBy(New, f) # Absent => Run[OwnedBy(New, f)] = New[OwnedBy(New, f)]
    BY InScope, Shared
  <2>3. ASSUME x \in FreshNodes PROVE x \in NodesOf(New)
    <3>1. PICK f \in Files : /\ Owner(Fresh, {}, Run, f) # Absent
                             /\ x \in Defs(Run[Owner(Fresh, {}, Run, f)], f)
      BY <2>3 DEF FreshNodes
    <3>2. f \in Touched
      BY <1>1, <3>1, DefsFile
    <3> QED
      BY <2>2, <3>1, <3>2, NodesOfIs
  <2>4. ASSUME x \in NodesOf(New) PROVE x \in FreshNodes
    <3>1. PICK f \in Files : OwnedBy(New, f) # Absent /\ x \in Defs(New[OwnedBy(New, f)], f)
      BY <2>4, NodesOfIs
    <3>2. f \in Touched
      BY <1>1, <3>1, DefsFile
    <3>3. /\ Owner(Fresh, {}, Run, f) # Absent
          /\ x \in Defs(Run[Owner(Fresh, {}, Run, f)], f)
      BY <2>2, <3>1, <3>2
    <3> QED
      BY <3>3 DEF FreshNodes
  <2> QED
    BY <2>1, <2>3, <2>4
<1>2. \A x \in AddedNodes : x.file \in Touched
  BY NothingAdded
<1> QED
  BY <1>1, <1>2, KeptIs

EdgesAt(irs, r) == Score(NodesOf(irs), OwnedBy(irs, r[1]), r[1], r[2])

(* The edges of a graph, reference by reference.                           *)
LEMMA InstOfIs ==
    ASSUME NEW irs, NEW e
    PROVE  e \in InstOf(irs) <=> \E r \in AllRefs(irs) : e \in EdgesAt(irs, r)
  BY DEF InstOf, EdgesAt

(* The references of a set of IRs, file by file.                           *)
LEMMA AllRefsIs ==
    ASSUME NEW irs, NEW r
    PROVE  r \in AllRefs(irs) <=>
             r \in Files \X Names /\ r[2] \in UNION {Refs(irs[u], r[1]) : u \in DOMAIN irs}
  BY DEF AllRefs, RefsOf

(* Only the definitions of its name decide where a reference goes.         *)
LEMMA ScoreSame ==
    ASSUME NEW D, NEW E, NEW own, NEW f, NEW n,
           \A x : (x \in D /\ x.name = n) <=> (x \in E /\ x.name = n)
    PROVE  Score(D, own, f, n) = Score(E, own, f, n)
<1>1. {x \in D : x.name = n} = {x \in E : x.name = n}
  OBVIOUS
<1> QED
  BY <1>1 DEF Score

(* The references that are linked again are references of the new tree,    *)
(* and among them are all those whose edges are written again.             *)
LEMMA LiveIs ==
    ASSUME Still, NothingDisturbed
    PROVE  /\ \A r \in Live : r \in AllRefs(New) /\ EdgesOf(DOMAIN Run, r) = EdgesAt(New, r)
           /\ \A r \in AllRefs(New) : r[1] \in Touched \/ r \in Srcs => r \in Live
<1>1. \A r \in Live : r \in AllRefs(New) /\ EdgesOf(DOMAIN Run, r) = EdgesAt(New, r)
  <2> SUFFICES ASSUME NEW r \in Live
               PROVE  r \in AllRefs(New) /\ EdgesOf(DOMAIN Run, r) = EdgesAt(New, r)
    OBVIOUS
  <2>1. r \in AllRefs(New)
    BY Shared DEF Live
  <2>2. Owner(DOMAIN Run, {}, Run, r[1]) = OwnedBy(New, r[1])
    BY Shared DEF OwnedBy
  <2> QED
    BY <2>1, <2>2, NodesAfter DEF EdgesOf, EdgesAt
<1>2. ASSUME NEW r \in AllRefs(New), r[1] \in Touched \/ r \in Srcs PROVE r \in Live
  <2>1. r \in AllRefs(Run)
    BY Shared
  <2>2. ASSUME r[1] \in Touched PROVE \E u \in Fresh : r \in RefsOf(Run[u])
    <3>1. PICK u \in DOMAIN New : r \in RefsOf(New[u])
      BY DEF AllRefs
    <3>2. New[u].text[r[1]] # Absent
      BY <3>1 DEF RefsOf, Refs
    <3>3. u \in Fresh /\ Run[u] = New[u]
      BY <2>2, <3>1, <3>2, Shared DEF Held
    <3> QED
      BY <3>1, <3>3
  <2> QED
    BY <1>2, <2>1, <2>2 DEF Live
<1> QED
  BY <1>1, <1>2

(* A reference whose edges stay is one of both trees, to the same edges.   *)
LEMMA StayingEdges ==
    ASSUME Still, NothingDisturbed, NEW r, r[1] \notin Touched, r \notin Srcs,
           r \in AllRefs(Old) \/ r \in AllRefs(New)
    PROVE  /\ r \in AllRefs(Old) /\ r \in AllRefs(New)
           /\ EdgesAt(Old, r) = EdgesAt(New, r)
<1> DEFINE N == ChangedNames(Touched, Run, Fresh)
<1>1. r \in Files \X Names
  BY AllRefsIs
<1>2. r[1] \in Files
  BY <1>1
<1>3. r \in AllRefs(Old) /\ r \in AllRefs(New)
  <2>1. UNION {Refs(Old[u], r[1]) : u \in DOMAIN Old} = UNION {Refs(New[u], r[1]) : u \in DOMAIN New}
    BY <1>2, FaceIs
  <2> QED
    BY <2>1, AllRefsIs
<1>4. r[2] \notin N
  <2> SUFFICES ASSUME r[2] \in N PROVE FALSE
    OBVIOUS
  <2>1. PICK u \in DOMAIN Old : r \in RefsOf(Old[u])
    BY <1>3 DEF AllRefs
  <2>2. u \in Discoverable /\ db.refs[u] = RefsOf(Old[u])
    BY Found, Shared
  <2>3. <<u, r>> \in Affected(N)
    BY <1>1, <2>1, <2>2 DEF Affected
  <2> QED
    BY <2>3 DEF Srcs
<1>5. ASSUME NEW x, x.name = r[2] PROVE x \in NodesOf(Old) <=> x \in NodesOf(New)
  <2>1. ASSUME x \in NodesOf(Old) PROVE x \in NodesOf(New)
    <3>1. x \in db.nodes
      BY <2>1, Found
    <3>2. x.file \notin Touched
      BY <1>4, <1>5, <3>1 DEF ChangedNames
    <3> QED
      BY <3>1, <3>2, NodesAfter DEF Kept
  <2>2. ASSUME x \in NodesOf(New), x \notin Kept PROVE FALSE
    <3>1. PICK f \in Files : OwnedBy(New, f) # Absent /\ x \in Defs(New[OwnedBy(New, f)], f)
      BY <2>2, NodesOfIs
    <3> DEFINE own == OwnedBy(New, f)
    <3>2. f \in Touched
      BY <2>2, <3>1, DefsFile, KeptIs
    <3>3. own \in Fresh
      <4>1. Owner(Fresh, {}, Run, f) = own
        BY <3>2, InScope
      <4> QED
        BY <3>1, <4>1, Shared, OwnerProperty
    <3>4. Run[own] = New[own]
      BY Shared
    <3> HIDE DEF own
    <3>5. x \in Defs(Run[own], f)
      BY <3>1, <3>4 DEF own
    <3>6. x.name \in N
      BY <3>2, <3>3, <3>5 DEF ChangedNames
    <3> QED
      BY <1>4, <1>5, <3>6
  <2>3. Kept \subseteq NodesOf(Old)
    BY Found DEF Kept
  <2> QED
    BY <2>1, <2>2, <2>3
<1>6. OwnedBy(Old, r[1]) = OwnedBy(New, r[1])
  BY <1>2, FaceIs
<1>7. Score(NodesOf(Old), OwnedBy(New, r[1]), r[1], r[2]) = Score(NodesOf(New), OwnedBy(New, r[1]), r[1], r[2])
  BY <1>5, ScoreSame
<1> QED
  BY <1>3, <1>6, <1>7 DEF EdgesAt

(* A graph's edges start at the references that make them.                 *)
LEMMA EdgesStart ==
    ASSUME NEW irs, NEW r \in AllRefs(irs), NEW e \in EdgesAt(irs, r)
    PROVE  r = <<e[1], e[2]>>
<1>1. r = <<r[1], r[2]>>
  BY AllRefsIs
<1>2. e[1] = r[1] /\ e[2] = r[2]
  BY DEF EdgesAt, Score
<1> QED
  BY <1>1, <1>2

(* The reference edges after the write.                                    *)
LEMMA InstAfterIs ==
    ASSUME Still, NothingDisturbed
    PROVE  /\ InstAfter(DOMAIN Run) = InstOf(New)
           /\ EdgesFrom(DOMAIN Run) \subseteq InstOf(New)
           /\ \A e \in InstOf(New) : Redo(e) => e \in EdgesFrom(DOMAIN Run)
           /\ \A e \in InstOf(New) : ~Redo(e) => e \in db.inst
<1>1. EdgesFrom(DOMAIN Run) \subseteq InstOf(New)
  BY EdgesFromIs, InstOfIs, LiveIs
<1>2. ASSUME NEW e \in InstOf(New), Redo(e) PROVE e \in EdgesFrom(DOMAIN Run)
  <2>1. PICK r \in AllRefs(New) : e \in EdgesAt(New, r)
    BY InstOfIs
  <2>2. r[1] \in Touched \/ r \in Srcs
    BY <1>2, <2>1, EdgesStart DEF Redo
  <2> QED
    BY <2>1, <2>2, LiveIs, EdgesFromIs
<1>3. ASSUME NEW e, ~Redo(e) PROVE e \in InstOf(Old) <=> e \in InstOf(New)
  <2>1. ASSUME e \in InstOf(Old) PROVE e \in InstOf(New)
    <3>1. PICK r \in AllRefs(Old) : e \in EdgesAt(Old, r)
      BY <2>1, InstOfIs
    <3>2. r[1] \notin Touched /\ r \notin Srcs
      BY <1>3, <3>1, EdgesStart DEF Redo
    <3> QED
      BY <3>1, <3>2, StayingEdges, InstOfIs
  <2>2. ASSUME e \in InstOf(New) PROVE e \in InstOf(Old)
    <3>1. PICK r \in AllRefs(New) : e \in EdgesAt(New, r)
      BY <2>2, InstOfIs
    <3>2. r[1] \notin Touched /\ r \notin Srcs
      BY <1>3, <3>1, EdgesStart DEF Redo
    <3> QED
      BY <3>1, <3>2, StayingEdges, InstOfIs
  <2> QED
    BY <2>1, <2>2
<1>4. db.inst = InstOf(Old)
  BY Found
<1> QED
  BY <1>1, <1>2, <1>3, <1>4 DEF InstAfter

(* The dependency edges after the write.                                   *)
LEMMA DepAfterIs ==
    ASSUME Still, NothingDisturbed
    PROVE  DepAfter = AllDep(New)
<1>1. ASSUME NEW f \in Files
      PROVE  (IF f \in Touched THEN DepOf(IRs(Run, Fresh))[f] ELSE db.dep[f]) = AllDep(New)[f]
  BY InScope, FaceIs, Found
<1>2. \A irs : AllDep(irs) = [f \in Files |-> AllDep(irs)[f]]
  BY DEF AllDep, DepOf
<1> QED
  BY <1>1, <1>2 DEF DepAfter

(* The stub nodes dependency and reference edges end in, one by one.       *)
LEMMA StubsIs ==
    ASSUME NEW dep, NEW edges, NEW x
    PROVE  x \in Stubs(dep, edges) <=>
             \/ \E e \in edges : e[3] = Stub /\ x = <<"module", e[2]>>
             \/ \E f \in Files : \E y \in dep[f].inc : y[2] = Absent /\ x = <<"include", y[1]>>
             \/ \E f \in Files : \E y \in dep[f].use : y[2] = Absent /\ x = <<"macro", y[1]>>
  BY DEF Stubs

(* The stub nodes after the write.                                         *)
LEMMA StubsAfter ==
    ASSUME Still, NothingDisturbed
    PROVE  Stubs(DepOf(IRs(Run, Fresh)), EdgesFrom(DOMAIN Run))
             \union (db.stubs \intersect Stubs(AllDep(New), InstOf(New)))
           = Stubs(AllDep(New), InstOf(New))
<1> DEFINE dep == DepOf(IRs(Run, Fresh))
           edges == EdgesFrom(DOMAIN Run)
<1>1. ASSUME NEW f \in Files
      PROVE  dep[f].inc \subseteq AllDep(New)[f].inc /\ dep[f].use \subseteq AllDep(New)[f].use
  <2>1. IRs(New, Fresh) \subseteq IRs(New, DOMAIN New)
    BY Shared DEF IRs
  <2>2. dep = DepOf(IRs(New, Fresh))
    BY Shared
  <2> HIDE DEF dep
  <2> QED
    BY <2>1, <2>2 DEF AllDep, DepOf
<1>2. edges \subseteq InstOf(New)
  BY InstAfterIs
<1>3. ASSUME NEW f \in Files
      PROVE  \/ f \in Touched /\ dep[f] = AllDep(New)[f]
             \/ db.dep[f] = AllDep(New)[f]
  BY InScope, FaceIs, Found
<1>4. db.stubs = Stubs(db.dep, db.inst)
  BY Found
<1>5. \A e \in InstOf(New) : e \in edges \/ e \in db.inst
  BY InstAfterIs
<1> HIDE DEF dep, edges
<1>6. ASSUME NEW x \in Stubs(dep, edges) PROVE x \in Stubs(AllDep(New), InstOf(New))
  BY <1>1, <1>2, StubsIs
<1>7. ASSUME NEW x \in Stubs(AllDep(New), InstOf(New)) PROVE x \in Stubs(dep, edges) \/ x \in db.stubs
  BY <1>3, <1>4, <1>5, StubsIs
<1> QED
  BY <1>6, <1>7 DEF dep, edges

(* An update that disturbs nothing out of its scope writes the database of *)
(* a full build.                                                           *)
LEMMA AfterIsFullBuild ==
    ASSUME Still, NothingDisturbed
    PROVE  After = FullBuild(disk)
<1>1. ASSUME NEW f \in Discoverable, f \notin Touched PROVE Hashes(built)[f] = disk[f]
  BY <1>1, OutsideScope, Found DEF Still
<1>2. \A f \in Touched : f \in Reparsed <=> disk[f] # Absent
  BY ScopeType DEF Touched, Reparsed, Removed, Present, Still
<1>3. After.hash = Hashes(disk)
  <2>1. \A f \in Discoverable :
          (IF f \in Touched THEN (IF f \in Reparsed THEN snap[f] ELSE Absent) ELSE db.hash[f]) = disk[f]
    BY <1>1, <1>2, Found DEF Still
  <2> QED
    BY <2>1 DEF After, Rewritten, Hashes
<1>4. After.skip = {f \in Discoverable : Hashes(disk)[f] # Absent} \ DOMAIN New
  <2>1. After.skip = (db.skip \ Touched) \union (Reparsed \ DOMAIN New)
    BY Shared DEF After, Rewritten
  <2>2. db.skip = {f \in Discoverable : Hashes(built)[f] # Absent} \ DOMAIN Old
    BY Found
  <2>3. \A f \in Discoverable : Hashes(disk)[f] = disk[f]
    BY DEF Hashes
  <2>4. \A f \in Discoverable \ Touched : f \in DOMAIN Old <=> f \in DOMAIN New
    BY OutsideUnits
  <2>5. Reparsed \subseteq Touched /\ Touched \subseteq Discoverable
    BY ScopeType DEF Touched
  <2> QED
    BY <1>1, <1>2, <2>1, <2>2, <2>3, <2>4, <2>5
<1>5. After.ir = New
  <2> DEFINE rows == Touched \intersect DOMAIN New
  <2>1. After.ir = [u \in (DOMAIN Old \ Touched) \union rows |-> IF u \in rows THEN New[u] ELSE Old[u]]
    BY Shared, Found DEF After, Rewritten
  <2>2. (DOMAIN Old \ Touched) \union rows = DOMAIN New
    BY OutsideUnits
  <2>3. \A u \in DOMAIN New : u \notin rows => Old[u] = New[u]
    BY OutsideUnits
  <2>4. New = [u \in DOMAIN New |-> New[u]]
    BY DEF New, Parsed, Pass1
  <2> HIDE DEF New, Old
  <2> QED
    BY <2>1, <2>2, <2>3, <2>4
<1>6. After.fnode = {f \in Files : OwnedBy(New, f) # Absent}
  <2>1. After.fnode = (db.fnode \ Touched) \union {f \in Touched : \E u \in Fresh : Run[u].text[f] # Absent}
    BY DEF After, Rewritten
  <2>2. ASSUME NEW f \in Touched PROVE (\E u \in Fresh : Run[u].text[f] # Absent) <=> OwnedBy(New, f) # Absent
    <3> DEFINE own == Owner(Fresh, {}, Run, f)
    <3>1. Fresh \in SUBSET Discoverable
      BY Shared
    <3>2. own = OwnedBy(New, f)
      BY InScope
    <3>3. /\ own # Absent => own \in Fresh /\ Run[own].text[f] # Absent
          /\ own = Absent => \A u \in Fresh : Run[u].text[f] = Absent
      BY <3>1, OwnerProperty
    <3> HIDE DEF own
    <3> QED
      BY <3>2, <3>3
  <2>3. ASSUME NEW f \in Files, f \notin Touched PROVE f \in db.fnode <=> OwnedBy(New, f) # Absent
    BY <2>3, FaceIs, Found
  <2>4. db.fnode \subseteq Files /\ Touched \subseteq Files
    BY ScopeType, Found DEF Files
  <2> QED
    BY <2>1, <2>2, <2>3, <2>4
<1>7. After.dep = AllDep(New)
  BY DepAfterIs DEF After, Rewritten
<1>8. After.nodes = NodesOf(New)
  BY NodesAfter DEF After, Rewritten
<1>9. After.refs = [u \in Discoverable |-> IF u \in DOMAIN New THEN RefsOf(New[u]) ELSE {}]
  <2>1. ASSUME NEW u \in Discoverable
        PROVE  (IF u \in Touched \intersect DOMAIN New THEN RefsOf(New[u])
                ELSE IF u \in Touched THEN {} ELSE db.refs[u])
               = IF u \in DOMAIN New THEN RefsOf(New[u]) ELSE {}
    <3>1. db.refs[u] = IF u \in DOMAIN Old THEN RefsOf(Old[u]) ELSE {}
      BY Found
    <3>2. u \notin Touched => (u \in DOMAIN Old <=> u \in DOMAIN New) /\ (u \in DOMAIN New => Old[u] = New[u])
      BY OutsideUnits
    <3> QED
      BY <3>1, <3>2
  <2> QED
    BY <2>1, Shared DEF After, Rewritten
<1>10. After.inst = InstOf(New)
  BY InstAfterIs DEF After, Rewritten
<1>11. After.stubs = Stubs(AllDep(New), InstOf(New))
  BY StubsAfter, DepAfterIs, InstAfterIs DEF After, Rewritten
<1>12. After = [hash |-> After.hash, skip |-> After.skip, ir |-> After.ir, fnode |-> After.fnode,
                dep |-> After.dep, nodes |-> After.nodes, refs |-> After.refs, inst |-> After.inst,
                stubs |-> After.stubs]
  BY DEF After, Rewritten
<1>13. FullBuild(disk) = Tables(Hashes(disk), New)
  BY FullBuildTables DEF New
<1> HIDE DEF After, New
<1> QED
  BY <1>3, <1>4, <1>5, <1>6, <1>7, <1>8, <1>9, <1>10, <1>11, <1>12, <1>13 DEF Tables

(***************************************************************************)
(* The theorems                                                            *)
(***************************************************************************)
(* The inductive invariant where files keep still while an update runs.    *)
Exactness == TypeOK /\ snap = disk /\ LinkExact

(* A build establishes it.                                                 *)
LEMMA ExactnessInit == ASSUME TypeOK, Init PROVE Exactness
  BY DEF Init, Exactness, LinkExact, ByteIdentical

(* Every step keeps it: an update that disturbs nothing out of its scope,  *)
(* and lists the first unit of every file it takes an owner of, writes the *)
(* tables of a full build, and any other gives up the claim.               *)
LEMMA ExactnessNext ==
    ASSUME Racing = "none", Exactness, TypeOK', [Next]_vars
    PROVE  Exactness'
<1>1. ASSUME UNCHANGED <<db, built, exact>> PROVE LinkExact'
  BY <1>1 DEF Exactness, LinkExact, ByteIdentical
<1>2. ASSUME Rewrite PROVE LinkExact'
  BY <1>2 DEF Rewrite, Exactness, LinkExact, ByteIdentical
<1>3. ASSUME NEW bounded \in BOOLEAN, Commit(bounded) PROVE LinkExact'
  <2> SUFFICES ASSUME exact' PROVE db' = FullBuild(built')
    BY DEF LinkExact, ByteIdentical
  <2>1. /\ exact /\ Undisturbed(built, disk) /\ (bounded => FirstListed)
        /\ db' = Delta(bounded) /\ built' = disk
    BY <1>3 DEF Commit
  <2>2. Still /\ NothingDisturbed
    BY <2>1 DEF Still, NothingDisturbed, Exactness, LinkExact, ByteIdentical
  <2>3. Delta(bounded) = After
    BY <2>1, <2>2, UndisturbedIsSteady, DeltaIs
  <2> QED
    BY <2>1, <2>2, <2>3, AfterIsFullBuild
<1>4. snap' = disk'
  BY DEF Next, Edit, Scan, Commit, Abort, NothingParsed, Fallback, Build, Done, vars, Exactness
<1>5. LinkExact'
  BY <1>1, <1>2, <1>3 DEF Next, Edit, Scan, Abort, NothingParsed, Fallback, Build, vars
<1> QED
  BY <1>4, <1>5 DEF Exactness

(* Where no edit races an update: after any sequence of edits, updates and *)
(* rebuilds, as long as what the updates left alone is what pass 1 would   *)
(* make again, the database is the one a full build of the tree writes.    *)
THEOREM UpdateExact ==
    ASSUME Racing = "none"
    PROVE  Spec => []LinkExact
<1>1. TypeOK /\ Init => Exactness
  BY ExactnessInit
<1>2. TypeOK' /\ Exactness /\ [Next]_vars => Exactness'
  BY ExactnessNext
<1>3. Exactness => LinkExact
  BY DEF Exactness
<1> QED
  BY <1>1, <1>2, <1>3, Types, PTL DEF Spec

(* Where no edit races an update: the write is the same whether every      *)
(* stored IR is decoded or only the affected ones.                         *)
THEOREM ModesAgree ==
    ASSUME Racing = "none"
    PROVE  Spec => []LinkModesAgree
<1>1. Exactness => LinkModesAgree
  <2> SUFFICES ASSUME Exactness, exact, Steady, FirstListed PROVE Delta(TRUE) = Delta(FALSE)
    BY DEF LinkModesAgree
  <2>1. Still
    BY DEF Still, Exactness, LinkExact, ByteIdentical
  <2>2. ASSUME NEW bounded \in BOOLEAN PROVE Delta(bounded) = After
    BY <2>1, DeltaIs
  <2> QED
    BY <2>2
<1>2. TypeOK /\ Init => Exactness
  BY ExactnessInit
<1>3. TypeOK' /\ Exactness /\ [Next]_vars => Exactness'
  BY ExactnessNext
<1> QED
  BY <1>1, <1>2, <1>3, Types, PTL DEF Spec
=============================================================================
