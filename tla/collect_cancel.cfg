\* The documented exit of a cancelled run; a cancelled collection breaks it.
CONSTANTS
    URLs = {"root", "a", "b", "p", "q"}
    Root = "root"
    Documents <- MCDocuments
    Filters <- MCFilters
    BufferSize = 1
SPECIFICATION Spec
INVARIANT CancelIsGraceful
