-------------------------------- MODULE Samples --------------------------------
(* Sample designs as pass 1 leaves them: sequences of units, a unit the    *)
(* sequence of the IRs it may have.                                        *)
EXTENDS Integers, SequencesExt

(* Constructors of IRs.                                                    *)
N(f, kind, path, lang, at) ==
    [id |-> <<f, kind, path>>, kind |-> kind, name |-> Last(path), file |-> f, lang |-> lang, at |-> at]
F(f, at) == [id |-> <<f, "FILE", <<>>>>, kind |-> "FILE", name |-> f, file |-> f, lang |-> "unknown", at |-> at]
IR(f, nodes, pairs, refs) ==
    [path |-> f, nodes |-> nodes, refs |-> refs,
     edges |-> {[src |-> p[1].id, dst |-> p[2].id, kind |-> "DECLARES", conf |-> 10, at |-> << >>] : p \in pairs}]
(* A scope with its children.                                              *)
Scope(f, parent, kids, refs) == IR(f, {parent} \union kids, {parent} \X kids, refs)
R(src, kind, name, at) == [src |-> src.id, kind |-> kind, name |-> name, conf |-> 10, at |-> at]
Named(src, module, k, formal, expr) ==
    R(src, "CONNECTS", module, [site |-> k, formal |-> formal, expr |-> expr])
Site(k) == [site |-> k]
SV == "systemverilog"

(* Two definitions of leaf, and a bench that binds its ports.              *)
Leaf(f, in, out) ==
    Scope(f, N(f, "MODULE", <<"leaf">>, SV, << >>),
          {N(f, "PORT", <<"leaf", "a">>, SV, [direction |-> in, index |-> 0]),
           N(f, "PORT", <<"leaf", "y">>, SV, [direction |-> out, index |-> 1])}, <<>>)
Twins(f) ==
    IR(f, {N(f, "MODULE", <<"leaf">>, SV, << >>), N(f, "MODULE", <<"leaf", "2">>, SV, [conditional |-> TRUE])}, {}, <<>>)
Bench(kinds, nets) ==
    LET top == N("top", "MODULE", <<"tb">>, SV, << >>)
        u == N("top", "INSTANCE", <<"tb", "u">>, SV, [target |-> "leaf"])
        v == N("top", "INSTANCE", <<"tb", "v">>, SV, [target |-> "leaf"])
        ports == {N("top", k, <<"tb", n>>, SV, << >>) : k \in kinds, n \in nets}
    IN  Scope("top", top, {u, v} \union ports,
              <<R(u, "INSTANTIATES", "leaf", Site(1)), Named(u, "leaf", 2, "a", <<"w">>),
                Named(u, "leaf", 3, "y", <<"w", "-", "z">>), R(v, "INSTANTIATES", "leaf", Site(4)),
                R(v, "CONNECTS", "leaf", [site |-> 5, wildcard |-> TRUE]),
                R(top, "READS", "w", Site(6))>>)
Other ==
    LET top == N("oth", "MODULE", <<"oth">>, SV, << >>)
        u == N("oth", "INSTANCE", <<"oth", "u">>, SV, << >>)
    IN  Scope("oth", top, {u, N("oth", "SIGNAL", <<"oth", "w">>, SV, << >>)},
              <<R(u, "INSTANTIATES", "leaf", Site(1)),
                R(u, "CONNECTS", "leaf", [site |-> 2, position |-> 1, expr |-> <<"w">>])>>)

Hierarchy ==
    << <<Leaf("one", "input", "output"), Leaf("one", "output", "inout"), Twins("one")>>,
       <<Leaf("two", "input", "output")>>,
       <<Bench({"SIGNAL"}, {"w", "z", "a", "y"}), Bench({"SIGNAL", "PORT"}, {"w", "z", "a", "y"})>>,
       <<Other>> >>

(* Nets nobody declares, formals of an undefined module by position.       *)
Implicit ==
    << <<Leaf("one", "input", "output")>>, <<Bench({"SIGNAL"}, {"w"}), Bench({"SIGNAL"}, {"w", "z", "a", "y"})>>,
       <<Other>> >>

(* Packages, classes, UVM tests, DPI-C, assertions, enums, `ifdef twins.   *)
Classes ==
    LET pkg == N("pkg", "PACKAGE", <<"p">>, SV, << >>)
        base == N("pkg", "CLASS", <<"p", "c">>, SV, << >>)
        other == N("lib", "CLASS", <<"c">>, SV, << >>)
        test == N("tst", "CLASS", <<"t">>, SV, << >>)
        imp == N("tst", "FUNCTION", <<"dpi">>, SV, << >>)
        body == N("cfn", "FUNCTION", <<"dpi">>, "c", [is_definition |-> TRUE])
        proto == N("chd", "FUNCTION", <<"dpi">>, "c", << >>)
        tb == N("top", "MODULE", <<"tb">>, SV, << >>)
        u == N("top", "INSTANCE", <<"tb", "u">>, SV, << >>)
        enum == N("top", "ENUM", <<"tb", "e">>, SV, << >>)
        member == N("top", "ENUM_MEMBER", <<"tb", "e", "w">>, SV, << >>)
        arms == {N("top", "SIGNAL", <<"tb", "x">>, SV, << >>),
                 N("top", "SIGNAL", <<"tb", "arm", "x">>, SV, [conditional |-> TRUE])}
        check == N("top", "PROPERTY", <<"tb", "q">>, SV, << >>)
        assert == N("top", "ASSERTION", <<"tb", "s">>, SV, << >>)
        scope(k) == IR("top", {tb, u, enum, member, check, assert} \union arms,
            ({tb} \X ({u, enum, check, assert} \union arms)) \union {<<enum, member>>},
            <<R(u, "INSTANTIATES", "leaf", Site(1)), R(tb, "READS", "w", Site(2)),
              R(tb, "DRIVES", "x", Site(3)), R(assert, "ASSERTS_ON", "q", Site(4)),
              R(assert, "ASSERTS_ON", "x", Site(5)), R(tb, "IMPORTS", "p", Site(6))>>)
        class(attrs) == IR("tst", {test, imp}, {},
            <<R(test, "EXTENDS", "c", attrs), R(imp, "FOREIGN_BINDS", "dpi", [site |-> 8]),
              R(test, "FOREIGN_BINDS", "dpi", [site |-> 9, dpi_export |-> TRUE])>>)
        from(ref, f, n) == IR(f, {n}, {}, ref)
    IN  << <<IR("pkg", {pkg, base}, {<<pkg, base>>}, <<R(base, "EXTENDS", "uvm_test", Site(1))>>)>>,
           <<from(<<R(other, "EXTENDS", "c", Site(1))>>, "lib", other)>>,
           <<class([site |-> 7, package |-> "p"]), class([site |-> 7])>>,
           <<from(<<>>, "cfn", body)>>, <<from(<<>>, "chd", proto)>>,
           <<scope(1)>>, <<Leaf("one", "input", "output")>> >>

(* VHDL: libraries, component, entity and configuration instances.         *)
Vhdl ==
    LET V == "vhdl"
        lib(f, l) == F(f, [library |-> l])
        entity(f, l, n) == N(f, "ENTITY", <<n>>, V, [library |-> l])
        port(f, n) == N(f, "PORT", <<n, "clk">>, V, [direction |-> "in", index |-> 0])
        cfg == N("cfg", "CONFIGURATION", <<"cf">>, V, [of_entity |-> "core", library |-> "work"])
        arch == N("top", "ARCHITECTURE", <<"rtl">>, V, [of_entity |-> "core", library |-> "work"])
        inst(n, at) == N("top", "INSTANCE", <<"rtl", n>>, V, at)
        u == inst("u", [target |-> "leaf", style |-> "component"])
        e == inst("e", [target |-> "core", style |-> "entity", library |-> "work"])
        c == inst("c", [target |-> "cf", style |-> "configuration", library |-> "work"])
        bind(block, at) == R(cfg, "BINDS", "core",
            at @@ [role |-> "binding", of_entity |-> "core", component |-> "leaf", library |-> "other", block |-> block])
        source(f, l, n) == IR(f, {lib(f, l), entity(f, l, n), port(f, n)}, {<<entity(f, l, n), port(f, n)>>}, <<>>)
    IN  << <<source("e1", "work", "core"), source("e1", "other", "core")>>,
           <<source("e2", "other", "core")>>,
           <<Scope("cor", N("cor", "MODULE", <<"Core">>, SV, << >>),
                   {N("cor", "PORT", <<"Core", "Clk">>, SV, [direction |-> "inout", index |-> 0])}, <<>>)>>,
           <<IR("top", {arch, u, e, c, lib("top", "work")}, {<<arch, u>>, <<arch, e>>, <<arch, c>>},
               <<R(arch, "IMPLEMENTS", "core", [site |-> 1, library |-> "work"]),
                 R(arch, "USES_PACKAGE", "numeric", [site |-> 2, library |-> "ieee"]),
                 R(u, "INSTANTIATES", "leaf", Site(3)), Named(u, "leaf", 4, "clk", <<"clk">>),
                 R(e, "INSTANTIATES", "core", Site(5)), R(c, "INSTANTIATES", "cf", Site(6))>>)>>,
           <<IR("cfg", {cfg}, {}, <<bind("rtl", [site |-> 1, instances |-> "all"])>>),
             IR("cfg", {cfg}, {}, <<bind("rtl", [site |-> 1, instances |-> "others"]),
                                    bind("", [site |-> 2, labels |-> {"u"}])>>)>> >>

(* cocotb, SDC, SLN and generator scripts around one module.               *)
Scripts ==
    LET dut == N("one", "MODULE", <<"core">>, SV, << >>)
        clk == N("one", "PORT", <<"core", "clk">>, SV, [direction |-> "input"])
        net == N("one", "SIGNAL", <<"core", "clk", "w">>, SV, << >>)
        proc == N("one", "PROCESS", <<"core", "p">>, SV, << >>)
        py == N("tst", "TEST", <<"py">>, "python", << >>)
        sdc == N("sdc", "CLOCK", <<"ck">>, "tcl", << >>)
        tcl == F("sdc", << >>)
        act == N("sln", "ACTION", <<"go">>, "sln", << >>)
        sub == N("sln", "ACTION", <<"sub">>, "sln", << >>)
    IN  << <<IR("one", {F("one", << >>), dut, clk, net, proc}, {<<dut, clk>>, <<dut, net>>, <<dut, proc>>},
                <<[R(proc, "CLOCKED_BY", "clk", Site(1)) EXCEPT !.conf = 4]>>)>>,
           <<IR("tst", {py}, {}, <<[R(py, "TEST_COVERS", "Core", [site |-> 1, cocotb |-> TRUE]) EXCEPT !.conf = 6],
                 [R(py, "DRIVES", "clk", [site |-> 2, cocotb |-> TRUE, dut_module |-> "core"]) EXCEPT !.conf = 6]>>)>>,
           <<IR("sdc", {sdc, tcl}, {},
                <<R(sdc, "CONSTRAINS", "clk", [site |-> 1, query |-> "ports"]),
                  R(sdc, "CONSTRAINS", "c*", [site |-> 2, query |-> "pins"]),
                  R(tcl, "REFERENCES_FILE", "/p/one", [site |-> 3, file_ref |-> TRUE]),
                  R(tcl, "GENERATED_FROM", "gone", [site |-> 4, file_ref |-> TRUE])>>),
             IR("sdc", {sdc, tcl}, {}, <<R(sdc, "CONSTRAINS", "u/clk", [site |-> 1, query |-> "pins"])>>)>>,
           <<IR("sln", {act, sub}, {}, <<R(act, "INVOKES", "sub", [site |-> 1, sln |-> TRUE]),
                                        R(act, "TEST_COVERS", "core", [site |-> 2, sln |-> TRUE])>>)>> >>
=============================================================================
