\* The script after a key was saved in /settings.
CONSTANTS
    f1 = f1
    r1 = r1
    o1 = o1
    s1 = s1
    Files = {f1}
    Legacy0 = {}
    Legacy1 = {}
    Requests = {r1}
    Rotators = {o1}
    Secrets = {s1}
    InitialKeks = {0, 1}
    MaxDeks = 2
    MaxKeks = 2
    MaxEdits = 1
    MaxFailures = 1
SPECIFICATION Spec
PROPERTIES RestartLoadsKek
CHECK_DEADLOCK FALSE
