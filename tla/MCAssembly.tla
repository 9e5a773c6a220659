------------------------------ MODULE MCAssembly ------------------------------
EXTENDS Assembly, Samples

(* Sources.                                                                *)
U(design, i, k) == [ir |-> design[i][k], hash |-> <<design[i][k].path, k>>]
List(f, files, at) ==
    LET fl == [F(f, at) EXCEPT !.id = <<f, "FILELIST", <<>>>>, !.kind = "FILELIST"]
        lib == N("", "LIBRARY", <<"work">>, "vhdl", << >>)
        to(n, kind) == {[src |-> n.id, dst |-> F(x, << >>).id, kind |-> kind, conf |-> 10, at |-> << >>] : x \in files}
    IN  [path |-> "lists", nodes |-> {fl, lib} \union {F(x, << >>) : x \in files}, refs |-> <<>>,
         edges |-> to(fl, "REFERENCES_FILE") \union to(lib, "DECLARES")]
NoList == IR("lists", {}, {}, <<>>)
Source(us, others, adapters) ==
    [root |-> "/p", codec |-> "current", enriched |-> FALSE, units |-> us, rows |-> others, lists |-> adapters]

(* Clock domains that meet: through ports, a bridge and a process on two   *)
(* clocks, with what constraints say of them.                              *)
Tcl(n, kind, at) == N("sdc", kind, <<n>>, "tcl", at)
Crossing ==
    LET top == N("top", "MODULE", <<"top">>, SV, << >>)
        in(s) == N("top", s[1], <<"top", s[2]>>, SV, << >>)
        nets == {in(s) : s \in {<<"PORT", "ck1">>, <<"PORT", "ck2">>, <<"SIGNAL", "rst">>,
                                <<"SIGNAL", "d">>, <<"SIGNAL", "m">>, <<"SIGNAL", "q">>}}
        proc(n) == N("top", "PROCESS", <<"top", n>>, SV, << >>)
        procs == {proc(n) : n \in {"A", "B", "C", "E"}}
        inst(n) == N("top", "INSTANCE", <<"top", n>>, SV, << >>)
        sub == N("sub", "MODULE", <<"sub">>, SV, << >>)
        clk == N("sub", "PORT", <<"sub", "clk">>, SV, [direction |-> "input", index |-> 0])
        sp == N("sub", "PROCESS", <<"sub", "S">>, SV, << >>)
        r(n, kind, s, k) == R(proc(n), kind, s, Site(k))
        bind(u, ck, k) == <<R(inst(u), "INSTANTIATES", "sub", Site(k)), Named(inst(u), "sub", k + 1, "clk", <<ck>>)>>
        guess(ref) == [ref EXCEPT !.conf = 4]
        refs == <<r("A", "CLOCKED_BY", "ck1", 1), r("A", "DRIVES", "d", 2), r("B", "CLOCKED_BY", "ck2", 3),
                  r("B", "READS", "d", 4), r("B", "DRIVES", "q", 5), r("C", "READS", "d", 6), r("C", "DRIVES", "m", 7),
                  r("E", "CLOCKED_BY", "ck1", 8), r("E", "CLOCKED_BY", "ck2", 9), r("E", "READS", "q", 10),
                  r("B", "READS", "m", 12), guess(r("A", "RESETS", "rst", 13)),
                  R(proc("B"), "RESETS", "rst", [site |-> 14, is_async |-> TRUE])>>
        ck(n) == Tcl(n, "CLOCK", << >>)
        on(src, name, k, at) == R(src, "CONSTRAINS", name, [site |-> k] @@ at)
        apart(groups) == Tcl("set_clock_groups", "TIMING_CONSTRAINT",
                             [set_type |-> "clock_groups", asynchronous |-> TRUE, groups |-> groups])
        path == Tcl("false", "TIMING_CONSTRAINT", [set_type |-> "false_path"])
        pd == Tcl("pd", "POWER_DOMAIN", [elements |-> {"u1", "u*", "gone", "."}, strategies |-> {"isolation"}])
        clocks == <<on(ck("k1"), "ck1", 1, [query |-> "ports"]), on(ck("k2"), "ck2", 2, [query |-> "ports"])>>
        sdc(more, rest) == IR("sdc", {ck("k1"), ck("k2")} \union more, {}, clocks \o rest)
    IN  << <<Scope("top", top, nets \union procs \union {inst("u1"), inst("u2")},
                   refs \o bind("u1", "ck1", 20) \o bind("u2", "ck2", 22)),
             Scope("top", top, nets \union procs \union {inst("u1")}, refs \o bind("u1", "ck2", 20))>>,
           <<Scope("sub", sub, {clk, sp}, <<R(sp, "CLOCKED_BY", "clk", Site(1))>>)>>,
           <<sdc({}, <<>>), sdc({apart(<<{"k1"}, {"k2"}>>)}, <<>>), sdc({apart(<<>>)}, <<>>),
             sdc({path}, <<on(path, "k1", 3, [query |-> "clocks", role |-> "from"]),
                           on(path, "k2", 4, [query |-> "clocks", role |-> "to"])>>),
             sdc({path, pd}, <<on(path, "top.d", 5, [query |-> "pins", role |-> "to"]),
                               on(pd, "u1", 6, [query |-> "cells"]), on(pd, "u*", 7, [query |-> "cells"])>>)>> >>

(* Two levels of files: headers, macros, a package, a class, three levels  *)
(* of modules of which the lowest contains the middle one.                 *)
Levels3 ==
    LET mod(f, n) == N(f, "MODULE", <<n>>, SV, << >>)
        u(f, n, k) == N(f, "INSTANCE", <<n, k>>, SV, << >>)
        mac == N("inc", "MACRO", <<"W">>, SV, << >>)
        pkg == N("inc", "PACKAGE", <<"p">>, SV, << >>)
        link(a, b, kind) == [src |-> a.id, dst |-> b.id, kind |-> kind, conf |-> 10, at |-> << >>]
        file(f, n, under, refs) ==
            [IR(f, {F(f, << >>), mod(f, n), u(f, n, "u"), u(f, n, "v")},
                {<<F(f, << >>), mod(f, n)>>, <<mod(f, n), u(f, n, "u")>>, <<mod(f, n), u(f, n, "v")>>}, refs
                \o <<R(u(f, n, "u"), "INSTANTIATES", under, Site(1)), R(u(f, n, "v"), "INSTANTIATES", under, Site(2))>>)
             EXCEPT !.edges = @ \union IF f = "top" THEN {link(F(f, << >>), F("inc", << >>), "INCLUDES"),
                                                          link(F(f, << >>), mac, "USES_MACRO")} ELSE {}]
        inc == [IR("inc", {F("inc", << >>), mac, pkg}, {<<F("inc", << >>), pkg>>}, <<>>)
                EXCEPT !.edges = @ \union {link(F("inc", << >>), mac, "DEFINES_MACRO")}]
    IN  << <<inc>>, <<file("top", "top", "mid", <<R(mod("top", "top"), "IMPORTS", "p", Site(3))>>)>>,
           <<file("mid", "mid", "leaf", <<>>), file("mid", "mid", "gone", <<>>)>>, <<file("low", "leaf", "mid", <<>>)>> >>

H == Hierarchy
C == Crossing
L == Levels3
V == Vhdl
K == Classes
MCProjects ==
    << {Source(<<U(H, 1, 1), U(H, 3, 1)>>, ("img" :> <<1>>), NoList),
        Source(<<U(H, 1, 2), U(H, 2, 1), U(H, 4, 1)>>, ("img" :> <<1>>), NoList),
        Source(<<U(H, 2, 1), U(H, 3, 2)>>, ("img" :> <<2>> @@ "one" :> <<0>>), NoList)},
       {Source(<<U(C, 1, 1), U(C, 2, 1)>>, << >>, NoList), Source(<<U(C, 1, 2), U(C, 2, 1), U(C, 3, 3)>>, << >>, NoList),
        Source(<<U(C, 3, 2)>>, << >>, NoList), Source(<<U(C, 3, 4)>>, << >>, NoList), Source(<<U(C, 3, 5)>>, << >>, NoList)},
       {Source(<<U(L, 1, 1), U(L, 2, 1)>>, << >>, List("a.f", {"top", "mid"}, << >>)),
        Source(<<U(L, 3, 1), U(L, 4, 1)>>, << >>, List("b.f", {"mid", "gone"}, << >>)),
        Source(<<U(L, 3, 2)>>, << >>, List("a.f", {"mid"}, [order |-> 2]))},
       {Source(<<U(V, 1, 1), U(V, 2, 1)>>, << >>, NoList), Source(<<U(V, 3, 1), U(V, 4, 1), U(V, 5, 1)>>, << >>, NoList),
        Source(<<U(V, 1, 2), U(V, 5, 2)>>, << >>, NoList)},
       {Source(<<U(K, 1, 1), U(K, 2, 1), U(K, 3, 1)>>, << >>, NoList),
        Source(<<U(K, 4, 1), U(K, 5, 1), U(K, 6, 1), U(K, 7, 1)>>, << >>, NoList)},
       {Source(<<>>, ("img" :> <<1>>), NoList), Source(<<>>, ("img" :> <<2>>), NoList),
        [Source(<<U(H, 2, 1)>>, << >>, NoList) EXCEPT !.root = "/q"],
        [Source(<<U(H, 2, 1)>>, << >>, NoList) EXCEPT !.codec = "old"],
        [Source(<<U(H, 2, 1)>>, << >>, NoList) EXCEPT !.enriched = TRUE]} >>

(* A file parsed under two sets of defines.                                *)
MCPreprocessed ==
    << {Source(<<[U(H, 1, k) EXCEPT !.hash = "one"], U(H, 3, 1)>>, << >>, NoList) : k \in {1, 3}} >>

MCFold == ("Core" :> "core" @@ "Clk" :> "clk")
MCRoles == ("uvm_test" :> "test")
MCTb == {"tb"}
MCQualified == ("top.u*" :> {<<"top", "u">>, <<"top", "u1">>, <<"top", "u2">>})
MCGlobs == ("c*" :> {"clk", "core", "ck1", "ck2"} @@ "u*" :> {"u", "u1", "u2"} @@ "top.u*" :> {})
MCPin == ("top.d" :> "d")
MCRoot == ("/p/one" :> "one")
=============================================================================
