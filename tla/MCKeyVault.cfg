CONSTANTS
    Creations = {c1, c2}
    Imports = {c2}
    Passcodes = {p1, p2}
    Short = short
    None = None
    Haste = {}
    Turns = {"start", "perfect", "setup", "lock"}
    MaxTurns = 1
    MaxTaps = 2
    MaxDeaths = 1
    MaxFailures = 1
SPECIFICATION FairSpec
INVARIANTS TypeOK PromiseKept DoorsAgree OneLayer
PROPERTIES PromiseHonoured
CHECK_DEADLOCK FALSE
