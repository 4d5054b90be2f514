CONSTANTS
    c1 = c1
    c2 = c2
    c3 = c3
    p1 = p1
    p2 = p2
    k1 = k1
    k2 = k2
    k3 = k3
    s1 = s1
    o1 = o1
    o2 = o2
    o3 = o3
    o4 = o4
    o5 = o5
    o6 = o6
    o7 = o7
    o8 = o8
    s2 = s2
    None = None
    Process = {p1, p2}
    Caller = {c1, c2, c3}
    ProcessOf <- Two
    MaxCalls = 3
    MaxFaults = 1
    Key = {k1, k2, k3}
    Batch <- Batches
    Shard = {s1, s2}
    ShardOf <- Sharding
    InstructionOf <- Plain
    Document = {k1, k2}
    File = {k1, k2}
    Hash = {k1, k2}
    RunId = {1, 2}
    Event = {k1, k2}
    Manager = {"s3", "local"}
    Items = 3
    Suspect = {3}
    max_concurrency = 2
    max_retries = 1
    Texts = 3
    batch_size = 2
    MaxExtractions = 2
    MaxBreaks = 1
    Job = {j1}
    Product = {a1, a2}
    Slot = {s1, s2}
    MaxRestarts = 1
    MaxDrifts = 1
    Target = {o1, o2, o3, o4, o5, o6, o7, o8}
    About <- Outputs
    ModelKeyed = {"gold", "platinum"}
    Location = "media_ingest"
    MaxStores = 2
    MaxTorn = 1
SPECIFICATION Spec
CHECK_DEADLOCK FALSE
INVARIANTS TypeOK VectorsKept SingleFlight ObjectsFound AnswersKept
PROPERTY EmbedCallsEnd
