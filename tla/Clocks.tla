-------------------------------- MODULE Clocks --------------------------------
(***************************************************************************)
(* Clock and reset inference, clock-domain crossings (graph/clocks.py) and *)
(* the UVM topology (graph/uvm.py) of a linked graph.  The union-find of   *)
(* net aliases is the set of its classes: where the code has a root id the *)
(* model has the whole net.                                                *)
(***************************************************************************)
EXTENDS KGraph

FormalPorts(g, inst, port) ==
    {p \in UNION {OutOf(g, m, "DECLARES") : m \in OutOf(g, inst, "INSTANTIATES")} :
        g.nodes[p].kind = "PORT" /\ g.nodes[p].name = port}

(* <<formal port, actual net>> for every binding to one identifier.        *)
AliasPairs(g) ==
    LET plain(e) == \/ Attr(e, "expr", <<>>) = <<g.nodes[e.dst].name>>
                    \/ \E x \in DOMAIN Fold : /\ Attr(e, "expr", <<>>) = <<x>>
                                              /\ Fold[x] = g.nodes[e.dst].name
        derived == {e \in Edges(g, {"READS", "DRIVES"}) : "via_port" \in DOMAIN e.at /\ plain(e)}
    IN  UNION {FormalPorts(g, e.src, e.at.via_port) \X {e.dst} : e \in derived}

Net(pairs, x) ==
    LET next(y) == {p[2] : p \in {q \in pairs : q[1] = y}} \union
                   {p[1] : p \in {q \in pairs : q[2] = y}}
    IN  Reach({x}, next, Cardinality(pairs))

Actuals(pairs, formal) == {p[2] : p \in {q \in pairs : q[1] = formal}}

(* Nets merged by nothing but a formal port that several actuals share.    *)
AliasCollapses(pairs, roots) ==
    LET sound == {p \in pairs : Cardinality(Actuals(pairs, p[1])) = 1}
        shared == {f \in {p[1] : p \in pairs} :
                     /\ Cardinality(Actuals(pairs, f)) > 1
                     /\ Net(pairs, f) \in roots
                     /\ Cardinality({Net(sound, a) : a \in Actuals(pairs, f)}) > 1}
    IN  {[net |-> Net(pairs, f), formal |-> f, nets |-> Actuals(pairs, f)] : f \in shared}

(***************************************************************************)
(* Domains, reset groups                                                   *)
(***************************************************************************)
(* One group per net that edges of the kind point at.                      *)
Grouped(g, kind) ==
    LET pairs == AliasPairs(g)
        edges == Edges(g, {kind})
        roots == {Net(pairs, e.dst) : e \in edges}
        of(r) == {e \in edges : e.dst \in r}
    IN  {[net   |-> r, names |-> NamesOf(g, {e.dst : e \in of(r)}),
          procs |-> {e.src : e \in of(r)},
          async |-> \E e \in of(r) : Attr(e, "is_async", FALSE),
          conf  |-> Min({10} \union {e.conf : e \in of(r)}),
          sites |-> {c \in AliasCollapses(pairs, roots) : c.net = r}] : r \in roots}

ClockDomains(g) ==
    {[net |-> d.net, names |-> d.names, procs |-> d.procs, conf |-> d.conf, sites |-> d.sites,
      signals |-> {Net(AliasPairs(g), s) :
                      s \in UNION {OutOf(g, p, "DRIVES") : p \in d.procs \intersect OfKind(g, {"PROCESS"})}}] :
        d \in Grouped(g, "CLOCKED_BY")}

ResetTree(g) == Grouped(g, "RESETS")

(***************************************************************************)
(* SDC evidence                                                            *)
(***************************************************************************)
ClockNetRoots(g, pairs) ==
    LET backed(c) == {e.dst : e \in {x \in Edges(g, {"CONSTRAINS"}) : x.src = c}}
                        \intersect OfKind(g, {"PORT", "SIGNAL"})
    IN  [c \in {x \in OfKind(g, {"CLOCK"}) : backed(x) # {}} |->
            {Net(pairs, t) : t \in backed(c)}]

(* apply_sdc_clock_evidence                                                *)
WithSdcEvidence(g) ==
    LET pairs == AliasPairs(g)
        roots == ClockNetRoots(g, pairs)
        backed == UNION {roots[c] : c \in DOMAIN roots}
        upgraded(e) == e.kind = "CLOCKED_BY" /\ e.conf < 10 /\ Net(pairs, e.dst) \in backed
    IN  IF backed = {} THEN g
        ELSE [g EXCEPT !.edges = {IF upgraded(e)
                                  THEN [e EXCEPT !.conf = 10,
                                                 !.at = [sdc |-> TRUE] @@ e.at]
                                  ELSE e : e \in @}]

(* What constraints declare safe: pairs of nets whichever way, directed    *)
(* pairs, and single nets.                                                 *)
DeclaredSafe(g, pairs) ==
    LET roots == ClockNetRoots(g, pairs)
        all == UNION {roots[c] : c \in DOMAIN roots}
        named(names) == UNION {roots[c] : c \in {x \in DOMAIN roots : g.nodes[x].name \in names}}
        constraints == OfKind(g, {"TIMING_CONSTRAINT"})
        groups(t) == LET given == Attr(g.nodes[t], "groups", <<>>)
                     IN  IF given = <<>> THEN SetToSeq({{r} : r \in all})
                         ELSE [k \in DOMAIN given |-> named(given[k])]
        apart(G) == UNION {{{a, b} : a \in G[i], b \in G[j]} :
                              <<i, j>> \in {p \in (DOMAIN G) \X (DOMAIN G) : p[1] < p[2]}}
        ends(t, role) == UNION {roots[e.dst] :
            e \in {x \in Edges(g, {"CONSTRAINS"}) : /\ x.src = t /\ x.dst \in DOMAIN roots
                                                    /\ (Attr(x, "role", "") = "from") = role}}
        falsePaths == {t \in constraints : Attr(g.nodes[t], "set_type", "") = "false_path"}
    IN  [async |-> UNION {apart(groups(t)) : t \in {x \in constraints :
                              /\ Attr(g.nodes[x], "set_type", "") = "clock_groups"
                              /\ Attr(g.nodes[x], "asynchronous", FALSE)}},
         pairs |-> UNION {ends(t, TRUE) \X ends(t, FALSE) : t \in falsePaths},
         nets  |-> {Net(pairs, n) : n \in (UNION {OutOf(g, t, "CONSTRAINS") : t \in falsePaths})
                                            \intersect OfKind(g, {"PORT", "SIGNAL"})}]

(***************************************************************************)
(* Clock-domain crossings                                                  *)
(***************************************************************************)
(* The nets that a process reads or drives.                                *)
Data(g, pairs, p, kind) == {Net(pairs, n) : n \in OutOf(g, p, kind)}
ClocksOf(g, pairs, p) == {Net(pairs, c) : c \in OutOf(g, p, "CLOCKED_BY")}

(* Processes on exactly one clock net; the others are not in any domain.   *)
Domained(g, pairs) == {p \in OfKind(g, {"PROCESS"}) : Cardinality(ClocksOf(g, pairs, p)) = 1}

(* Net -> the clock nets it is launched from, by domained processes alone. *)
Launched(g, pairs) ==
    [n \in UNION {Data(g, pairs, p, "READS") \union Data(g, pairs, p, "DRIVES") :
                     p \in OfKind(g, {"PROCESS"})} |->
        UNION {ClocksOf(g, pairs, p) :
                  p \in {q \in Domained(g, pairs) : n \in Data(g, pairs, q, "DRIVES")}}]

(* A process without a domain hands the domains of what it reads to what   *)
(* it drives; one sweep, in the order the walk over the edges meets them.  *)
Bridged(g, pairs, order) ==
    LET bridge(held, p) ==
            LET inherited == UNION {held[n] : n \in Data(g, pairs, p, "READS")}
            IN  [n \in DOMAIN held |-> IF n \in Data(g, pairs, p, "DRIVES")
                                       THEN held[n] \union inherited ELSE held[n]]
    IN  FoldLeft(bridge, Launched(g, pairs), order)

(* cdc_suspects: who reads a net launched from another domain.  Which of   *)
(* several drivers is named, and with what confidence, is left out.        *)
CdcSuspects(g, order) ==
    LET pairs == AliasPairs(g)
        held == Bridged(g, pairs, order)
        safe == DeclaredSafe(g, pairs)
        clockNets == UNION {ClocksOf(g, pairs, p) : p \in OfKind(g, {"PROCESS"})}
        crossing(p, to, n) ==
            {[net |-> n, reader |-> p, from |-> r, to |-> to,
              safe |-> {r, to} \in safe.async \/ <<r, to>> \in safe.pairs \/ n \in safe.nets] :
                r \in held[n] \ {to}}
    IN  UNION {UNION {UNION {crossing(p, to, n) : n \in Data(g, pairs, p, "READS") \ clockNets} :
                        to \in ClocksOf(g, pairs, p)} : p \in Domained(g, pairs)}

(* The driving processes without a domain of their own.                    *)
Bridges(g) ==
    ({e.src : e \in Edges(g, {"DRIVES"})} \intersect OfKind(g, {"PROCESS"}))
        \ Domained(g, AliasPairs(g))

(***************************************************************************)
(* UVM                                                                     *)
(***************************************************************************)
(* Names of the bases of a class, nearest first: the first base by id on   *)
(* ambiguity, stopping at a cycle.                                         *)
ExtendsChain(g, class) ==
    LET bases(c) == OutOf(g, c, "EXTENDS")
        up(chain) == LET base == CHOOSE b \in bases(Last(chain)) : TRUE
                     IN  IF bases(Last(chain)) = {} \/ base \in Range(chain) THEN chain
                         ELSE Append(chain, base)
        chain == Repeat(up, <<class>>, Cardinality(OfKind(g, {"CLASS"})))
    IN  [k \in 1..(Len(chain) - 1) |-> g.nodes[chain[k + 1]].name]

(* Class -> role of the first uvm_* base on its chain.                     *)
UvmTopology(g) ==
    LET base(c) == SelectSeq(ExtendsChain(g, c), LAMBDA n : n \in DOMAIN Roles)
    IN  [c \in {x \in OfKind(g, {"CLASS"}) : ~Unresolved(g, x) /\ base(x) # <<>>} |->
            Roles[Head(base(c))]]

(* derive_test_covers                                                      *)
TestCovers(g) ==
    LET tops == {t \in OfKind(g, {"MODULE"}) :
                    /\ ~Unresolved(g, t) /\ g.nodes[t].name \in TbNames
                    /\ Into(g, t, "INSTANTIATES") = {}}
        dut(t) == {m \in UNION {OutOf(g, i, "INSTANTIATES") :
                                   i \in OutOf(g, t, "DECLARES") \intersect OfKind(g, {"INSTANCE"})} :
                      g.nodes[m].kind \in {"MODULE", "ENTITY"} /\ ~Unresolved(g, m)}
        topology == UvmTopology(g)
        tests == {c \in DOMAIN topology : topology[c] = "test"}
        covers == UNION {{t} \X dut(t) : t \in tops} \union
                  (tests \X UNION {dut(t) : t \in tops})
    IN  {[src |-> c[1], dst |-> c[2], kind |-> "TEST_COVERS", conf |-> 4, at |-> << >>] :
            c \in covers}
=============================================================================
