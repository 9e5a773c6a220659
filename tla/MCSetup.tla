------------------------------- MODULE MCSetup -------------------------------
EXTENDS Setup, TLC

MCWords == {"front", "start", "body", "end", "table", "key", "ours", "object", "none", "",
            "inline", "comment", "broken", "mine", "more", "other", "array", "x", "v",
            "ours.env", "db1", "db2", "v1"}

L(kind) == <<kind, "">>
Table(name) == <<"table", name>>
Key(text) == <<"key", text>>
MCUserTexts ==
    (<<"cursor", "config">> :>
        {[NewJson EXCEPT !.servers = "array"], [NewJson EXCEPT !.rest = "mine", !.ours = "db2"]})
    @@ (<<"cursor", "notes">> :>
        {<<L("mine"), L("start"), L("mine"), L("end"), L("more")>>, <<L("mine"), L("start"), L("more")>>})
    @@ (<<"codex", "config">> :>
        {<<Table("other"), Key("x"), Table("ours"), Key("db2"), L("comment"), Table("ours.env"), Key("v")>>,
         <<<<"inline", "db1">>>>, <<L("broken")>>})
    @@ (<<"codex", "notes">> :> {})
===============================================================================
