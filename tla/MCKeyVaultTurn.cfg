CONSTANTS
    Creations = {c1}
    Imports = {}
    Passcodes = {p1, p2}
    Short = short
    None = None
    Haste = {}
    Turns = {"confirm"}
    MaxTurns = 1
    MaxTaps = 2
    MaxDeaths = 0
    MaxFailures = 0
SPECIFICATION Spec
INVARIANTS PromiseKept
CHECK_DEADLOCK FALSE
