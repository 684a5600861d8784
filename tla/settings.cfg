\* Every pair of changes to a sound file, under every command line.
CONSTANTS
    URLs = {"/en", "/fr"}
    Unsent = {"Host"}
    Upper <- MCUpper
    Lower <- MCLower
    Trim <- MCTrim
    Canonical <- MCCanonical
    CookieText <- MCCookieText
    FieldText <- MCFieldText
    Words <- MCWords
    Files <- MCFiles
    FlagSets <- MCFlagSets
SPECIFICATION Spec
INVARIANTS
    TypeOK
    AcceptedIsSound
    FlagsChangeOnlyTheirs
    RequestsShowAxes
    LayersInOrder
