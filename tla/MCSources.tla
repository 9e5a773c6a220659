------------------------------ MODULE MCSources ------------------------------
EXTENDS Sources, TLC

MCNames == <<"/", "..", "alias", "hdl-kgraph.toml", "a.v", "b.v", "c.v", "h.vh", "inc", "n.vhd", "p", "q", "r",
             "s.f", "sub", "top.f", "x", "zlink">>
MCLinks == (<<"q", "zlink">> :> <<"q", "sub">>) @@ (<<"r", "alias">> :> <<"r", "sub">>) @@ (<<"r", "sub", "x">> :> <<"r">>)
MCEnv == "$X" :> <<"/", "x">>
MCSuffix == [n \in {"a.v", "b.v", "c.v"} |-> ".v"] @@ ("h.vh" :> ".vh") @@ ("n.vhd" :> ".vhd")
            @@ ("hdl-kgraph.toml" :> ".toml") @@ [n \in {"s.f", "top.f"} |-> ".f"]
MCWild == "*.v" :> {"a.v", "b.v", "c.v"} @@ "*" :> ToSet(MCNames)

(* Texts.                                                                  *)
Text(ver, inc) == [ver |-> ver, size |-> 1, marks |-> {}, inc |-> inc, tokens |-> <<>>, toml |-> NoConfig]
Marked(ver, marks) == [Text(ver, <<>>) EXCEPT !.marks = marks]
Big(ver) == [Text(ver, <<>>) EXCEPT !.size = 2]
List(ver, tokens) == [Text(ver, <<>>) EXCEPT !.tokens = tokens]
Toml(ver, toml) == [Text(ver, <<>>) EXCEPT !.toml = toml]
T(op, arg) == [op |-> op, arg |-> arg]
H == <<"h.vh">>

Scene(texts, commands) ==
    [texts |-> texts, start |-> [p \in DOMAIN texts |-> CHOOSE x \in texts[p] : TRUE], commands |-> commands]

(* Filelists that name each other, a source, a library file, a directory   *)
(* to search, through .. and an environment variable.                      *)
Filelists ==
    LET cmd == [Command(<<"p">>) EXCEPT !.filelists = << <<"p", "top.f">> >>]
    IN  Scene((<<"p", "top.f">> :>
                  {List(1, <<T("-v", <<"sub", "b.v">>), T("source", <<"a.v">>), T("-f", <<"sub", "s.f">>),
                             T("+incdir+", << <<"inc">>, <<"..", "x">> >>)>>),
                   List(2, <<T("-f", <<"sub", "s.f">>), T("+define+", << <<"W", "1">> >>), T("other", <<>>),
                             T("source", <<"a.v">>), T("source", <<"$X", "c.v">>)>>)})
              @@ (<<"p", "sub", "s.f">> :>
                  {List(3, <<T("source", <<"..", "c.v">>), T("-f", <<"..", "top.f">>), T("source", <<"b.v">>)>>),
                   List(4, <<T("source", <<"b.v">>), T("-y", <<"..">>), T("-f", <<"s.f">>)>>)})
              @@ (<<"p", "a.v">> :> {Text(5, <<H>>)})
              @@ (<<"p", "c.v">> :> {Text(6, <<>>)})
              @@ (<<"p", "sub", "b.v">> :> {Text(8, <<<<"..", "inc", "h.vh">>>>)})
              @@ (<<"p", "inc", "h.vh">> :> {Text(9, <<>>), Absent})
              @@ (<<"x", "h.vh">> :> {Text(10, <<>>)}) @@ (<<"x", "c.v">> :> {Text(11, <<>>)}),
              {cmd, [cmd EXCEPT !.outside = TRUE]})

(* A configuration at the root and one above it; patterns, exclusions and  *)
(* a directory with two names.                                             *)
Configured ==
    LET conf(sources, ex) == [NoConfig EXCEPT !.sources = sources, !.exclude = ex]
        cmd == Command(<<"q">>)
    IN  Scene((<<"hdl-kgraph.toml">> :> {Toml(20, [conf(<< >>, << >>) EXCEPT !.incdirs = << <<"x">> >>, !.libs = << <<"lib", <<"x">>>> >>])})
              @@ (<<"q", "hdl-kgraph.toml">> :>
                    {Absent, Toml(21, conf(<< <<"**", "*.v">>, <<"sub", "*">> >>, <<>>)),
                     Toml(22, [conf(<< >>, << <<"sub">> >>) EXCEPT !.bad = TRUE]),
                     Toml(23, conf(<< <<"*", "*">>, <<"a.v">> >>, << <<"sub">> >>))})
              @@ (<<"q", "a.v">> :> {Text(24, <<H>>)})
              @@ (<<"q", "sub", "h.vh">> :> {Text(27, <<<<"b.v">>>>), Absent})
              @@ (<<"q", "sub", "b.v">> :> {Text(28, <<H>>), Absent})
              @@ (<<"x", "h.vh">> :> {Text(29, <<>>)}),
              {cmd, [cmd EXCEPT !.source = <<"q", "a.v">>, !.noAuto = TRUE]})

(* The whole tree, through links: one that comes before the directory it   *)
(* leads to, one that leads back; guarded files; a VHDL library.           *)
Walked ==
    LET cmd == [Command(<<"r">>) EXCEPT !.libs = << <<"lib", <<"r", "sub">>>>, <<"top", <<"r">>>> >>]
    IN  Scene((<<"r", "a.v">> :> {Text(40, <<H>>), Text(41, <<<<"inc", "h.vh">>>>)})
              @@ (<<"r", "inc", "h.vh">> :> {Text(42, <<>>), Marked(43, {"protect"}), Absent})
              @@ (<<"r", "sub", "b.v">> :> {Text(46, <<<<"c.v">>>>), Absent})
              @@ (<<"r", "n.vhd">> :> {Text(47, <<>>), Big(48), Absent}),
              {cmd})

MCIgnored == {<<"r", "sub", "b.v">>}
MCScenes == <<Filelists, Configured, Walked>>
===============================================================================
