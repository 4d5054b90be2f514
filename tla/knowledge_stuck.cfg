CONSTANTS
    joeBiden = joeBiden
    biden = biden
    newYork = newYork
    None = None
    Words <- MCWords
    Letters <- MCLetters
    Cosine <- MCCosine
    Rarity <- MCRarity
    MentionType = {"PERSON"}
    MAX_CLUSTER_SIZE = 3
    Part = {"film"}
    LocationOf <- MCLocationOf
    Locations <- MCLocations
    Batch <- Singles
    Assertion <- Says
    Rule = {}
    r1 = r1
    r2 = r2
    Run = {r1}
    MaxLandings = 3
    MaxRuns = 9
    MaxFaults = 0
SPECIFICATION Spec
CHECK_DEADLOCK FALSE
PROPERTY GraphUpToDate
