----------------------------- MODULE MCPipeline -----------------------------
(* Small trees for Pipeline: a header between two units, one of which uses *)
(* the other, a constraints script and a filelist.                         *)
EXTENDS Pipeline

Source(ver, inc, uses) == [ver |-> ver, skip |-> FALSE, inc |-> inc, uses |-> uses, binds |-> FALSE]
Plain == Source(0, {}, {})
Set(root, inputs, enrich, bounded, jobs) ==
    [root |-> root, inputs |-> inputs, enrich |-> enrich, bounded |-> bounded, jobs |-> jobs]

MCOrder == <<"a", "h", "b", "s">>
MCLang == [a |-> "systemverilog", h |-> "verilog", b |-> "systemverilog", s |-> "tcl"]
MCVersions ==
    [a |-> {Source(1, {"h"}, {"b"})},
     h |-> {Source(1, {}, {}), [Source(2, {"b"}, {}) EXCEPT !.binds = TRUE]},
     b |-> {Source(1, {"h"}, {}), Absent},
     s |-> {Source(1, {}, {"a"}), Absent}]
ListVersions == [f \in {"f"} |-> {Plain, Source(1, {}, {})}] @@ MCVersions
PoolOption == {Set("here", "defines", FALSE, TRUE, 2)}
MCOptions == {Set("here", "defines", FALSE, TRUE, 2), Set("here", "defines", FALSE, FALSE, Absent)}
=============================================================================
