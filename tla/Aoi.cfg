SPECIFICATION Spec
CONSTANTS
    Objects = {1, 3, 7, 11}
    Watchers = {1, 7, 11}
    Markers = {1, 3, 11}
    Points = {0, 1, 2}
    Targets = {0, 1}
    Radius = 1
    MaxAoiCount = 2
    PreAlloc = 2
INVARIANTS MapFinds RefsExact PairsExact ViewMatches
