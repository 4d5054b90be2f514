CONSTANTS
    s1 = s1
    s2 = s2
    p1 = p1
    p2 = p2
    a = a
    b = b
    c = c
    None = None
    Partition = {p1, p2}
    Payload = {a, b, c}
    Pickled = {c}
    Step = {s1}
    MaxEntries = 2
    MaxOutputs = 3
    MaxFaults = 0
SPECIFICATION Spec
PROPERTY SkippedIfUnchanged
