------------------------------ MODULE MCUpdate ------------------------------
(* Update on a tree of two units around one header in discovery order, so  *)
(* that the header is spliced by the unit before it or by the one after.   *)
EXTENDS Update

CONSTANTS a, h, b, p, q, n1, n2, M

MCOrder == <<a, h, b>>
MCPathOrder == <<p>>
MCSearch == [x \in {p} |-> <<h>>]

\* A second include text, for the header that includes a header.
MCPathOrder2 == <<p, q>>
MCSearch2 == (p :> <<h>>) @@ (q :> <<b>>)

\* A header outside the discovered files.
MCOrderHidden == <<a, b>>

(* The directive part of a text.                                           *)
Quiet == [m \in Macros |-> Silent]
Define(n) == [m \in Macros |-> n]

Text(inc, defs, cond, refs, use, mac) ==
    [inc |-> inc, defs |-> defs, cond |-> cond, refs |-> refs, use |-> use, mac |-> mac]

MCVersions ==
    (a :> {Text({p}, {n1}, {}, {n2}, {}, Quiet),
           Text({p}, {n2}, {}, {n1}, {M}, Quiet),
           Text({}, {n1}, {}, {n2}, {}, Define(n1)),
           Absent})
    @@
    (h :> {Text({}, {n2}, {}, {n1}, {}, Quiet),
           Text({}, {n1}, {}, {}, {M}, Quiet),
           Text({}, {}, {<<M, n2>>}, {}, {}, Define(n2)),
           Absent})
    @@
    (b :> {Text({p}, {n2}, {}, {n1}, {}, Quiet),
           Text({}, {n1}, {<<M, n2>>}, {}, {M}, Quiet),
           Text({}, {}, {}, {n2}, {}, Define(n2)),
           Absent})

\* Texts for updates that race their user's edits.
MCVersionsMid ==
    (a :> {Text({p}, {n1}, {}, {n2}, {}, Quiet),
           Text({}, {n1}, {}, {}, {}, Define(n2)),
           Absent})
    @@
    (h :> {Text({}, {n2}, {}, {}, {}, Quiet),
           Text({}, {}, {}, {n1}, {M}, Quiet),
           Absent})
    @@
    (b :> {Text({p}, {}, {}, {n2}, {}, Quiet),
           Absent})

\* Texts without macros: whose header a file is, and nothing else, changes.
MCVersionsOwner ==
    (a :> {Text({p}, {n1}, {}, {}, {}, Quiet), Text({}, {n1}, {}, {}, {}, Quiet)})
    @@
    (h :> {Text({}, {n2}, {}, {n1}, {}, Quiet)})
    @@
    (b :> {Text({}, {}, {}, {n2}, {}, Quiet), Text({}, {n1}, {}, {}, {}, Quiet)})

\* A unit, its header h, and the file b the header includes.
MCVersionsNested ==
    (a :> {Text({p}, {n1}, {}, {}, {}, Quiet)})
    @@
    (h :> {Text({q}, {n2}, {}, {}, {}, Quiet), Text({q}, {n1}, {}, {}, {}, Quiet)})
    @@
    (b :> {Text({}, {}, {}, {}, {}, Quiet), Absent})

\* A header that expands a macro a unit before it defines.
MCVersionsMacro ==
    (a :> {Text({}, {}, {}, {}, {}, Define(n1)), Text({}, {}, {}, {}, {}, Define(n2)), Absent})
    @@
    (h :> {Text({}, {n1}, {}, {}, {M}, Quiet)})
    @@
    (b :> {Text({}, {n2}, {}, {}, {}, Quiet), Text({p}, {n2}, {}, {}, {}, Quiet)})

\* A unit that starts to include a header discovery does not see.
MCVersionsHidden ==
    (a :> {Text({p}, {n1}, {}, {}, {}, Quiet), Text({}, {n1}, {}, {}, {}, Quiet)})
    @@
    (h :> {Text({}, {n2}, {}, {}, {}, Quiet)})
    @@
    (b :> {Text({}, {}, {}, {n2}, {}, Quiet), Text({}, {}, {}, {n1}, {}, Quiet)})

\* A header spliced by two units with different bodies of a macro, of which
\* only the second refers to what a file after them comes to define.
MCOrderBounded == <<"m", a, h, b, "x">>
MCVersionsBounded ==
    [f \in {"m"} |-> {Text({}, {}, {}, {}, {}, Define(n2))}]
    @@
    (a :> {Text({p}, {}, {}, {}, {}, Define(n1))})
    @@
    (h :> {Text({}, {}, {}, {}, {M}, Quiet)})
    @@
    (b :> {Text({p}, {n1}, {}, {}, {}, Quiet)})
    @@
    [f \in {"x"} |-> {Text({}, {}, {}, {}, {}, Quiet), Text({}, {n1}, {}, {}, {}, Quiet)}]
=============================================================================
