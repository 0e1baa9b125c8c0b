CONSTANTS
    Callers = {c1, c2}
    MaxFailures = 2
    MaxConfigs = 1
SPECIFICATION FairSpec
PROPERTIES FeesAnswered
CHECK_DEADLOCK FALSE
