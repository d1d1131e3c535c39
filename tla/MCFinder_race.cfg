CONSTANTS
    r = r
    a = a
    b = b
    git = git
    top = top
    src = src
    prune = prune
    Dirs <- MCDirs
    Top <- top
    Parent <- MCParent
    Above <- MCAbove
    FileNames <- MCFileNames
    PruneFiles = {prune}
    ExcludeDirs = {git}
    IncludeLists <- MCIncludeLists
    QuietLoad = FALSE
    FineClock = TRUE
    MaxClock = 3
SPECIFICATION MCSpec
INVARIANT
    DbTreeSound
