\* A wrap, a group made again and a scrape that misses a group fit in three units.
CONSTANTS
    g1 = g1
    g2 = g2
    Groups <- TwoGroups
    Width = 4
    MaxFlow = 1
    MaxScrape = 1
    MaxTime = 3
    MayFail = {}
    None = None
SYMMETRY Symmetry
SPECIFICATION Spec
PROPERTY RateIsFlow
