------------------------------- MODULE Summaries -------------------------------
(***************************************************************************)
(* The whole-design reports read row by row out of the database            *)
(* (storage/summaries.py), where no summary is stored; the reports in      *)
(* memory (graph/summary.py) they have to equal.  Clocks has what they     *)
(* mean; here is how the rows are folded up.                               *)
(***************************************************************************)
EXTENDS Clocks

(***************************************************************************)
(* Nets                                                                    *)
(***************************************************************************)
(* _alias_pairs: bindings to one identifier joined with the formal ports.  *)
BoundNets(g) ==
    {e \in Edges(g, {"READS", "DRIVES"}) :
        /\ "via_port" \in DOMAIN e.at /\ Len(Attr(e, "expr", <<>>)) = 1
        /\ g.nodes[e.dst].name \in {e.at.expr[1], Lower(e.at.expr[1])}}
FormalRows(g, e) ==
    {<<i, d>> \in Edges(g, {"INSTANTIATES"}) \X Edges(g, {"DECLARES"}) :
        /\ i.src = e.src /\ d.src = i.dst
        /\ g.nodes[d.dst].kind = "PORT" /\ g.nodes[d.dst].name = e.at.via_port}
PairRows(g) == UNION {{<<row[2].dst, e.dst>> : row \in FormalRows(g, e)} : e \in BoundNets(g)}

(* _UnionFind over the pairs, one after the other; the class stands for    *)
(* its root.                                                               *)
Find(nets, x) == IF \E n \in nets : x \in n THEN CHOOSE n \in nets : x \in n ELSE {x}
Joined(nets, p) ==
    (nets \ {Find(nets, p[1]), Find(nets, p[2])}) \union {Find(nets, p[1]) \union Find(nets, p[2])}
NetsOf(pairs) == FoldSet(LAMBDA p, nets : Joined(nets, p), {}, pairs)

(***************************************************************************)
(* Domains and reset groups                                                *)
(***************************************************************************)
NewGroup == [names |-> {}, procs |-> {}, async |-> FALSE, conf |-> 10]
GroupOf(held, root) == IF root \in DOMAIN held THEN held[root] ELSE NewGroup
WithRow(g, old, e) ==
    [names |-> old.names \union {g.nodes[e.dst].name}, procs |-> old.procs \union {e.src},
     async |-> old.async \/ Attr(e, "is_async", FALSE), conf |-> Least(old.conf, e.conf)]
GroupRows(g, nets, kind) ==
    FoldSet(LAMBDA e, held : (Find(nets, e.dst) :> WithRow(g, GroupOf(held, Find(nets, e.dst)), e)) @@ held,
            << >>, Edges(g, {kind}))

CollapsesAt(collapses, root) == {c \in collapses : c.net = root}

(* _clock_domain_objs: signals are counted for PROCESS sources only.       *)
ProcessRows(g, kind) == {e \in Edges(g, {kind}) : g.nodes[e.src].kind = "PROCESS"}
SqlClockDomains(g, nets, pairs) ==
    LET groups == GroupRows(g, nets, "CLOCKED_BY")
        collapses == AliasCollapses(pairs, DOMAIN groups)
        driven(procs) == {Find(nets, e.dst) : e \in {x \in ProcessRows(g, "DRIVES") : x.src \in procs}}
    IN  {[net |-> r, names |-> groups[r].names, procs |-> groups[r].procs, conf |-> groups[r].conf,
          sites |-> CollapsesAt(collapses, r), signals |-> driven(groups[r].procs)] : r \in DOMAIN groups}

SqlResetTree(g, nets, pairs) ==
    LET groups == GroupRows(g, nets, "RESETS")
        collapses == AliasCollapses(pairs, DOMAIN groups)
    IN  {[net |-> r, names |-> groups[r].names, procs |-> groups[r].procs, async |-> groups[r].async,
          conf |-> groups[r].conf, sites |-> CollapsesAt(collapses, r)] : r \in DOMAIN groups}

(***************************************************************************)
(* Crossings                                                               *)
(***************************************************************************)
Ambiguous == {}

(* Mutant: the last clock of a process wins.                               *)
HeldLast(held, proc, root) == (proc :> root) @@ held

(* A process on a second clock net is on none.                             *)
Held(held, proc, root) ==
    IF proc \notin DOMAIN held THEN (proc :> root) @@ held
    ELSE IF held[proc] = root THEN held ELSE [held EXCEPT ![proc] = Ambiguous]
ProcDomain(g, nets) ==
    LET held == FoldSet(LAMBDA e, h : Held(h, e.src, Find(nets, e.dst)), << >>, ProcessRows(g, "CLOCKED_BY"))
    IN  [p \in {x \in DOMAIN held : held[x] # Ambiguous} |-> held[p]]

(* The nets of the process rows of a kind.                                 *)
ProcNets(g, nets, kind) ==
    [p \in {e.src : e \in ProcessRows(g, kind)} |-> {Find(nets, e.dst) : e \in {x \in ProcessRows(g, kind) : x.src = p}}]

(* net -> clocks it is launched from: by the processes of a domain, then   *)
(* handed on by those of none, in one sweep.                               *)
Hold(held, net, clocks) ==
    (net :> (clocks \union (IF net \in DOMAIN held THEN held[net] ELSE {}))) @@ held
HoldAll(held, nets, clocks) == FoldSet(LAMBDA n, h : Hold(h, n, clocks), held, nets)
Of1(f, x) == IF x \in DOMAIN f THEN f[x] ELSE {}
LaunchedRows(domain, drives) ==
    FoldSet(LAMBDA p, h : HoldAll(h, Of1(drives, p), {domain[p]}), << >>, DOMAIN domain)
Swept(held, reads, drives, order) ==
    FoldLeft(LAMBDA h, p : HoldAll(h, Of1(drives, p), UNION {Of1(h, n) : n \in Of1(reads, p)}), held, order)

(* _declared_safe_crossings                                                *)
ClockRows(g, nets) ==
    LET rows == {e \in Edges(g, {"CONSTRAINS"}) :
                    g.nodes[e.src].kind = "CLOCK" /\ g.nodes[e.dst].kind \in {"PORT", "SIGNAL"}}
    IN  FoldSet(LAMBDA e, h : Hold(h, e.src, {Find(nets, e.dst)}), << >>, rows)
Groups(g, t, clocks) ==
    LET named(names) == UNION {clocks[c] : c \in {x \in DOMAIN clocks : g.nodes[x].name \in names}}
        given == Attr(g.nodes[t], "groups", <<>>)
    IN  IF given # <<>> THEN [k \in DOMAIN given |-> named(given[k])]
        ELSE SetToSeq({{r} : r \in UNION Range(clocks)})
AsyncPairs(groups) ==
    UNION {UNION {{{a, b} : a \in groups[i], b \in groups[j]} : j \in (i + 1)..Len(groups)} : i \in DOMAIN groups}
FalsePathEnds(g, t, clocks, role) ==
    UNION {Of1(clocks, e.dst) : e \in {x \in Edges(g, {"CONSTRAINS"}) :
                                          x.src = t /\ (Attr(x, "role", "") = "from") = (role = "from")}}
Constraints(g, set_type) ==
    {t \in OfKind(g, {"TIMING_CONSTRAINT"}) : Attr(g.nodes[t], "set_type", "") = set_type}
SqlDeclaredSafe(g, nets, clocks) ==
    LET paths == Constraints(g, "false_path")
    IN  [async |-> UNION {AsyncPairs(Groups(g, t, clocks)) :
                             t \in {x \in Constraints(g, "clock_groups") : Attr(g.nodes[x], "asynchronous", FALSE)}},
         pairs |-> UNION {FalsePathEnds(g, t, clocks, "from") \X FalsePathEnds(g, t, clocks, "to") : t \in paths},
         nets  |-> {Find(nets, e.dst) : e \in {x \in Edges(g, {"CONSTRAINS"}) :
                                                  x.src \in paths /\ g.nodes[x.dst].kind \in {"PORT", "SIGNAL"}}}]

SqlCdcSuspects(g, nets, order) ==
    LET domain == ProcDomain(g, nets)
        reads == ProcNets(g, nets, "READS")
        drives == ProcNets(g, nets, "DRIVES")
        held == Swept(LaunchedRows(domain, drives), reads, drives, order)
        clockNets == {Find(nets, e.dst) : e \in ProcessRows(g, "CLOCKED_BY")}
        safe == SqlDeclaredSafe(g, nets, ClockRows(g, nets))
        crossings(p, n) ==
            {[net |-> n, reader |-> p, from |-> r, to |-> domain[p],
              safe |-> {r, domain[p]} \in safe.async \/ <<r, domain[p]>> \in safe.pairs \/ n \in safe.nets] :
                r \in Of1(held, n) \ {domain[p]}}
    IN  UNION {UNION {crossings(p, n) : n \in Of1(reads, p) \ clockNets} : p \in DOMAIN domain}

(***************************************************************************)
(* UVM and power                                                           *)
(***************************************************************************)
(* Rows of a kind with their ends, and the nodes of a kind.                *)
Part(g, kinds, edges) ==
    [nodes |-> [i \in OfKind(g, kinds) \union UNION {{e.src, e.dst} : e \in edges} |-> g.nodes[i]],
     edges |-> edges]

UvmSummary(g) == [components |-> UvmTopology(g), covers |-> Edges(g, {"TEST_COVERS"})]
SqlUvmSummary(g) == UvmSummary(Part(g, {"CLASS"}, Edges(g, {"EXTENDS", "TEST_COVERS"})))

(* power_domains: the elements found, those declared and not found; the    *)
(* design root is never found.                                             *)
ElementResolved(g, declared, found) ==
    /\ declared # "."
    /\ \E i \in found : \/ g.nodes[i].name \in Glob(declared)
                        \/ declared \in DOMAIN Qualified /\ g.nodes[i].id[3] \in Qualified[declared]
PowerDomains(g) ==
    {[domain |-> d, elements |-> OutOf(g, d, "CONSTRAINS"),
      missing |-> {x \in Attr(g.nodes[d], "elements", {}) : ~ElementResolved(g, x, OutOf(g, d, "CONSTRAINS"))},
      isolated |-> "isolation" \in Attr(g.nodes[d], "strategies", {}),
      conf |-> Min({10} \union {e.conf : e \in {x \in Edges(g, {"CONSTRAINS"}) : x.src = d}})] :
        d \in OfKind(g, {"POWER_DOMAIN"})}
SqlPowerDomains(g) ==
    PowerDomains(Part(g, {"POWER_DOMAIN"},
                      {e \in Edges(g, {"CONSTRAINS"}) : e.src \in OfKind(g, {"POWER_DOMAIN"})}))

(***************************************************************************)
(* The reports                                                             *)
(***************************************************************************)
(* build_summaries, on the graph; order is that of the bridging processes. *)
Report(g, order) ==
    [domains |-> ClockDomains(g), resets |-> ResetTree(g), suspects |-> CdcSuspects(g, order),
     uvm |-> UvmSummary(g), power |-> PowerDomains(g)]

SqlReportOn(g, order, pairs, nets) ==
    [domains |-> SqlClockDomains(g, nets, pairs), resets |-> SqlResetTree(g, nets, pairs),
     suspects |-> SqlCdcSuspects(g, nets, order), uvm |-> SqlUvmSummary(g), power |-> SqlPowerDomains(g)]
SqlReport(g, order) == SqlReportOn(g, order, PairRows(g), NetsOf(PairRows(g)))
=============================================================================
