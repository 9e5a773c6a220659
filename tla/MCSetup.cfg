SPECIFICATION Spec
CONSTANTS
    Detected = {"cursor", "codex"}
    Entries = {"db1", "db2"}
    Bodies = {"v1"}
    UserTexts <- MCUserTexts
    Words <- MCWords
    Absent = Absent
INVARIANTS
    UsersTextKept
