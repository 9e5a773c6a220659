--------------------------------- MODULE Setup ---------------------------------
(***************************************************************************)
(* hdl-kgraph setup (mcp/setup.py and the command in cli/serve.py): the    *)
(* server entry it merges into each assistant's configuration and the      *)
(* notes it keeps in each instruction file, while the user edits the same  *)
(* files and a run may be declined at a prompt, refused or killed.         *)
(*                                                                         *)
(* A JSON file is [ok, servers, ours, rest]; a TOML file and an            *)
(* instruction file are sequences of lines, a line a pair <<kind, text>>.  *)
(***************************************************************************)
EXTENDS Integers, SequencesExt, FiniteSetsExt

CONSTANTS
    Detected,       \* the assistants that are installed
    Entries,        \* the server entries of the databases a run may name
    Bodies,         \* the usage notes of the releases of the program
    UserTexts,      \* file -> the texts the user may give it
    Words,          \* the words that texts are made of
    Absent

VARIABLES
    file,       \* file -> its content, or Absent
    bak,        \* file -> its .bak, or Absent
    steps,      \* the files the run has still to write, in order
    entry,      \* the entry and the notes of the run
    body,
    users       \* file -> the user's part of it, or Absent once that is not promised

vars == <<file, bak, steps, entry, body, users>>

Target(name, fmt, backup, notes) == [name |-> name, fmt |-> fmt, backup |-> backup, notes |-> notes]
DetectTargets ==
    <<Target("claude-code", "json", FALSE, TRUE), Target("claude-desktop", "json", TRUE, FALSE),
      Target("cursor", "json", FALSE, TRUE), Target("codex", "toml", TRUE, TRUE),
      Target("windsurf", "json", TRUE, TRUE), Target("gemini-cli", "json", TRUE, TRUE),
      Target("vscode", "json", FALSE, TRUE)>>
Targets == {DetectTargets[i] : i \in {j \in DOMAIN DetectTargets : DetectTargets[j].name \in Detected}}
Configs == {<<t.name, "config">> : t \in Targets}
Notes == {<<t.name, "notes">> : t \in {x \in Targets : x.notes}}
TargetOf(f) == CHOOSE t \in Targets : t.name = f[1]
IsToml(f) == f[2] = "config" /\ TargetOf(f).fmt = "toml"

(* A dedicated Cursor rule begins with a front matter of its own.          *)
Frontmatter(f) == IF f[1] = "cursor" THEN <<<<"front", "">>>> ELSE <<>>

(***************************************************************************)
(* Instruction files                                                       *)
(***************************************************************************)
InstructionsBlock(b) == <<<<"start", "">>, <<"body", b>>, <<"end", "">>>>
Markers(text, kind) == {i \in DOMAIN text : text[i][1] = kind}
(* The first block: from the first start to the first end after it.        *)
Block(text) ==
    LET starts == Markers(text, "start")
        ends == {i \in Markers(text, "end") : starts # {} /\ i > Min(starts)}
    IN  IF starts = {} \/ ends = {} THEN {} ELSE Min(starts)..Min(ends)
Around(text, block, new) ==
    IF block = {} THEN text \o new
    ELSE SubSeq(text, 1, Min(block) - 1) \o new \o SubSeq(text, Max(block) + 1, Len(text))
InstructionsPreview(f, text, b) ==
    IF text = <<>> THEN Frontmatter(f) \o InstructionsBlock(b) ELSE Around(text, Block(text), InstructionsBlock(b))

(***************************************************************************)
(* Configurations                                                          *)
(***************************************************************************)
NewJson == [ok |-> TRUE, servers |-> "object", ours |-> Absent, rest |-> "none"]
MergedConfig(json, e) == IF json.ok /\ json.servers = "object" THEN [json EXCEPT !.ours = e] ELSE Absent

TomlSection(e) == <<<<"table", "ours">>, <<"key", e>>>>
(* Our section: its header, and what comes before the next table.          *)
Section(text) ==
    LET heads == {i \in DOMAIN text : text[i] = <<"table", "ours">>}
        next == {i \in Markers(text, "table") : heads # {} /\ i > Min(heads)}
    IN  IF heads = {} THEN {} ELSE Min(heads)..(IF next = {} THEN Len(text) ELSE Min(next) - 1)
(* Toml that parses: no table twice, none where the servers are a value.   *)
Parses(text) ==
    /\ Markers(text, "broken") = {}
    /\ \A i, j \in Markers(text, "table") : text[i] = text[j] => i = j
    /\ Markers(text, "inline") # {} => \A i \in Markers(text, "table") : text[i][2] \notin {"ours", "ours.env"}
Registered(text, e) ==
    \/ \E i \in Markers(text, "inline") : text[i][2] = e
    \/ /\ {text[i] : i \in Section(text) \ Markers(text, "comment")} = ToSet(TomlSection(e))
       /\ \A i \in Markers(text, "table") : text[i][2] # "ours.env"
MergedTomlToEnd(text, e) ==
    LET new == IF Section(text) = {} THEN text \o TomlSection(e)
               ELSE SubSeq(text, 1, Min(Section(text)) - 1) \o TomlSection(e)
    IN  IF Parses(new) THEN new ELSE Absent

MergedToml(text, e) ==
    LET new == Around(text, Section(text), TomlSection(e))
    IN  IF Parses(new) THEN new ELSE Absent

(* What a run makes of a file; Absent: it refuses the file.                *)
Merged(f, old, e, b) ==
    CASE f[2] = "notes" -> InstructionsPreview(f, IF old = Absent THEN <<>> ELSE old, b)
      [] IsToml(f) ->
            (LET text == IF old = Absent THEN <<>> ELSE old
             IN  IF Parses(text) /\ Registered(text, e) THEN text
                 ELSE IF Parses(text) THEN MergedToml(text, e) ELSE Absent)
      [] OTHER -> MergedConfig(IF old = Absent THEN NewJson ELSE old, e)

(***************************************************************************)
(* Texts                                                                   *)
(***************************************************************************)
Line == Words \X Words
Json == [ok : BOOLEAN, servers : Words, ours : Words \union {Absent}, rest : Words]
TextsOf(f) == IF f[2] = "notes" \/ IsToml(f) THEN Seq(Line) ELSE Json

ASSUME TextsAssumption ==
    /\ {"front", "start", "body", "end", "table", "key", "ours", "object", "none", ""} \subseteq Words
    /\ Entries \subseteq Words /\ Bodies \subseteq Words
    /\ \A f \in Configs \union Notes : UserTexts[f] \subseteq TextsOf(f) \union {Absent}
    /\ Absent \notin Seq(Line) \union Json

(***************************************************************************)
(* Behaviour                                                               *)
(***************************************************************************)
(* The user's part of a text.                                              *)
Own(f, text) ==
    IF text = Absent THEN Absent
    ELSE IF f[2] = "notes"
         THEN LET own == Around(text, Block(text), <<>>)
              IN  IF IsPrefix(Frontmatter(f), own) THEN SubSeq(own, Len(Frontmatter(f)) + 1, Len(own)) ELSE own
         ELSE IF IsToml(f) THEN Around(text, Section(text), <<>>)
         ELSE [text EXCEPT !.ours = Absent]
Nothing(f) == IF f[2] = "notes" \/ IsToml(f) THEN <<>> ELSE NewJson
(* What a write leaves of a file when it is killed.                        *)
Truncated(f) == IF f[2] = "notes" \/ IsToml(f) THEN <<>> ELSE [NewJson EXCEPT !.ok = FALSE]
(* A start marker without its end promises nothing.                        *)
Promised(f, text) ==
    f[2] = "config" \/ text = Absent \/ Cardinality(Markers(text, "start")) = (IF Block(text) = {} THEN 0 ELSE 1)

Init ==
    /\ file = [f \in Configs \union Notes |-> Absent]
    /\ bak = file
    /\ steps = <<>>
    /\ entry \in Entries
    /\ body \in Bodies
    /\ users = [f \in DOMAIN file |-> Nothing(f)]

Edit(f) ==
    \E text \in UserTexts[f] \ {file[f]} :
        /\ file' = [file EXCEPT ![f] = text]
        /\ users' = [users EXCEPT ![f] = IF ~Promised(f, text) THEN Absent
                                         ELSE IF text = Absent THEN Nothing(f) ELSE Own(f, text)]
        /\ UNCHANGED <<bak, steps, entry, body>>

(* setup, of the chosen assistants, with instructions or without.          *)
StepsOf(names, noInstructions) ==
    FlattenSeq([i \in DOMAIN DetectTargets |->
        IF DetectTargets[i].name \notin names THEN <<>>
        ELSE <<<<DetectTargets[i].name, "config">>>>
             \o (IF noInstructions \/ ~DetectTargets[i].notes THEN <<>> ELSE <<<<DetectTargets[i].name, "notes">>>>)])
Start ==
    /\ steps = <<>>
    /\ \E names \in (SUBSET Detected) \ {{}}, noInstructions \in BOOLEAN : steps' = StepsOf(names, noInstructions)
    /\ entry' \in Entries
    /\ body' \in Bodies
    /\ UNCHANGED <<file, bak, users>>

Decline ==
    /\ steps # <<>>
    /\ steps' = Tail(steps)
    /\ UNCHANGED <<file, bak, entry, body, users>>

(* A user-level file is copied once, before it is first written.           *)
BackedUp(f) ==
    IF f[2] = "config" /\ TargetOf(f).backup /\ bak[f] = Absent THEN [bak EXCEPT ![f] = file[f]] ELSE bak

Write ==
    /\ steps # <<>>
    /\ LET f == Head(steps)
           new == Merged(f, file[f], entry, body)
       IN  IF new = Absent
           THEN steps' = <<>> /\ UNCHANGED <<file, bak>>
           ELSE /\ steps' = Tail(steps)
                /\ file' = [file EXCEPT ![f] = new]
                /\ bak' = IF new = file[f] THEN bak ELSE BackedUp(f)
    /\ UNCHANGED <<entry, body, users>>

(* The run is killed: between two files, or with one truncated.            *)
Killed ==
    /\ steps # <<>>
    /\ steps' = <<>>
    /\ \/ UNCHANGED <<file, bak, users>>
       \/ LET f == Head(steps)
              new == Merged(f, file[f], entry, body)
          IN  /\ new # Absent
              /\ new # file[f]
              /\ file' = [file EXCEPT ![f] = Truncated(f)]
              /\ bak' = BackedUp(f)
              /\ users' = [users EXCEPT ![f] = IF file[f] = Absent THEN Own(f, Truncated(f)) ELSE Absent]
    /\ UNCHANGED <<entry, body>>

Next == (\E f \in DOMAIN file : Edit(f)) \/ Start \/ Decline \/ Write \/ Killed
Spec == Init /\ [][Next]_vars

(***************************************************************************)
(* Properties                                                              *)
(***************************************************************************)
(* However often setup runs, with whatever entry and notes, the user's     *)
(* part of each file is what the user wrote, and another run with the same *)
(* entry and notes finds the file as it should be. A user-level file that  *)
(* a killed run emptied has its backup.                                    *)
UsersTextKept ==
    \A f \in DOMAIN file :
        /\ users[f] # Absent =>
            LET new == Merged(f, file[f], entry, body)
            IN  /\ Own(f, IF file[f] = Absent THEN Nothing(f) ELSE file[f]) = users[f]
                /\ new # Absent => Merged(f, new, entry, body) = new
        /\ (users[f] = Absent /\ f[2] = "config" /\ TargetOf(f).backup) => bak[f] # Absent
===============================================================================
