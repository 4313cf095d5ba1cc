\* Four peers over generations of two entries, two callers.
SPECIFICATION CacheFairSpec
CONSTANTS
    NoPeer = NoPeer
    Peers = {p1, p2, p3, p4}
    Callers = {g1, g2}
    MaxCacheSize = 2
INVARIANTS CacheIsTrue
PROPERTIES SurvivesOneGeneration EveryGetAnswered
