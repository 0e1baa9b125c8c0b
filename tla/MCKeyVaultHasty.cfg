CONSTANTS
    Creations = {c1, c2}
    Imports = {c2}
    Passcodes = {p1}
    Short = short
    None = None
    Haste = {"tap", "digit", "back"}
    Turns = {"start", "perfect", "setup", "confirm", "ready", "lock"}
    MaxTurns = 1
    MaxTaps = 2
    MaxDeaths = 0
    MaxFailures = 0
SPECIFICATION Spec
INVARIANTS DoorsAgree
CHECK_DEADLOCK FALSE
