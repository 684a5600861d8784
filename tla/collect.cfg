\* Three sitemaps, two pages, a channel of one.
CONSTANTS
    URLs = {"root", "a", "b", "p", "q"}
    Root = "root"
    Documents <- MCDocuments
    Filters <- MCFilters
    BufferSize = 1
SPECIFICATION FairSpec
INVARIANTS
    TypeOK
    FetchedOnce
    CollectsReachable
PROPERTY
    CollectionEnds
