CONSTANTS
    None = None
    joeBiden = joeBiden
    biden = biden
    newYork = newYork
    Words <- MCWords
    Letters <- MCLetters
    Cosine <- MCCosine
    Rarity <- MCRarity
    MentionType = {"PERSON"}
    MAX_CLUSTER_SIZE = 3
    Part = {"congress", "film"}
    LocationOf <- MCLocationOf
    Locations <- MCLocations
    Batch <- Both
    Assertion <- Says
    Rule <- Same
    r1 = r1
    r2 = r2
    Run = {r1, r2}
    MaxLandings = 3
    MaxRuns = 4
    MaxFaults = 1
    Versions <- MCVersions
    Title <- MCTitle
    TailRun = {t1, t2}
    MaxFailures = 1
    BUDGET = 5
    SINGLE_CALL = 4
    MAX_CHUNK_CHARS = 3
    MAX_SUBSECTION_CHARS = 3
    FALLBACK_CHUNK_SIZE = 2
    FALLBACK_CHUNK_OVERLAP = 1
    Job = {"cables", "entities", "relationships"}
    Contents <- MCContents
    MAX_RETRIES = 2
    MaxRecords = 2
    MaxInterruptions = 2
    Hole = Hole
    Docs <- MCDocs
    PAGE_SIZE = 2
    MAX_CONSECUTIVE_FAILURES = 2
    MaxDocs = 4
    MaxFailed = 3
    Chunk = {1, 2}
    Layout <- MCLayout
    CHUNK_LEN = 2
    Editor = {e1}
    Absent = Absent
    MaxSaves = 3
    Nobody = Nobody
    Speech <- MCSpeech
    Voices <- MCVoices
    Backend = {"openvino", "mlx-whisper"}
    CHUNK_DURATION = 8
    CHUNK_OVERLAP = 3
    MERGE_GAP = 2
    PAUSE_THRESHOLD = 2
    CHUNK_SIZE = 8
    TEXT_OVERLAP = 3
SPECIFICATION PipelinesSpec
SYMMETRY Runs
CHECK_DEADLOCK FALSE
INVARIANTS PipelinesTypeOK GraphSound TextsKept GivenKept
