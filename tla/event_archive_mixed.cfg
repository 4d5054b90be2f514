CONSTANTS
    Run = {1, 2}
    Doc = {1}
    MaxEvents = 1
    MaxFaults = 0
SPECIFICATION Spec
INVARIANT ResponseScoped
CHECK_DEADLOCK FALSE
