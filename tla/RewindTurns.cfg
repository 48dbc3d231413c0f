SPECIFICATION Spec
CONSTANTS
    Clients = {a1}
    Files = {f1, f2}
    Contents = {text, other}
    Absent = Absent
    Notes <- MCNotes
    MaxId = 3
    MaxTools = 2
    Worlds <- CodexWorlds
PROPERTY KeepsTheTargetsTurns
