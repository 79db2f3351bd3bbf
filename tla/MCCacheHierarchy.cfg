\* Two caches of two ways, three lines, a grid of latencies.
SPECIFICATION Spec
CONSTANTS
    t1 = t1
    t2 = t2
    t3 = t3
    Tags = {t1, t2, t3}
    NumCaches = 2
    Ways = 2
    Latencies <- MCLatencies
SYMMETRY TagSymmetry
INVARIANTS
    LastWriteFound
    RepliesExact
