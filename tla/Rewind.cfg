SPECIFICATION Spec
CONSTANTS
    Clients = {a1, a2}
    Files = {f1, f2}
    Contents = {text, other}
    Absent = Absent
    Notes <- MCNotes
    MaxId = 3
    MaxTools = 0
    Worlds <- RewindWorlds
SYMMETRY Symmetric
INVARIANTS
    RoundsRestorable
    SharedMapsAreAncestors
    ObjectIndexIsHonest
    AnsweredSurvives
    RestoresTheRound
PROPERTIES
    RowsAreKept
    KeepsTheTargetsTurns
