CONSTANTS
    q1 = q1
    q2 = q2
    r1 = r1
    r2 = r2
    i1 = i1
    i2 = i2
    l1 = l1
    l2 = l2
    l3 = l3
    p1 = p1
    p2 = p2
    Request = {q1, q2}
    Run = {r1, r2}
    Config = {i1}
    MaxActive = 1
    Nil = Nil
    MaxServed = 5
    MaxBroken = 1
    Item = {i1, i2}
    Label = {l1, l2, l3}
    Profile = {p1, p2}
    ProfileOf <- Members
    Name = {q1, q2}
    Unnamed = Unnamed
    MaxAsked = 3
    MaxErrors = 2
    v1 = v1
    v2 = v2
    v3 = v3
    t1 = t1
    t2 = t2
    Missing = Missing
    Path = {v1, v2, v3, t1, t2}
    TempOf <- Temps
    Downloads = {v1, v2, v3}
    RootOf <- Roots
    DocumentId <- OwnId
    Scan = {v1, v2}
    Transcode = {q1, q2}
    MAX_RUNS_PER_TICK = 1
    MaxChanges = 3
    MaxTranscodes = 2
    MaxUpsets = 1
    None = None
    MediaFiles <- MCMedia
    Diarizations <- MCDiarizations
    MinSegment = 3
    THRESHOLD = 4
    SpokenBy <- MCSpokenBy
    MaxDiarized = 3
    MaxMade = 2
    MaxHidden = 1
    Manuscripts <- MCManuscripts
    Passages <- MCPassages
    Models <- MCModels
    F1 = {0, 1}
    MaxEdits = 1
    MaxWrites = 3
    MaxBenches = 1
    MaxCuts = 1
    Source = {"metube", "tubesync"}
    Clip = {c1}
    Viewer = {q1, q2}
    RangeAsked <- MCRanges
    MaxSize = 2
    MaxReplaced = 2
    MaxAsks = 3
SPECIFICATION ServicesSpec
CHECK_DEADLOCK FALSE
INVARIANTS ServicesTypeOK CapKept EditsKept OriginalKept MadeAsTold
PROPERTY FilesReachPipeline
