\* Expected violation: the default output file, created by a first generation in root/,
\* is selected as a text file and read back by the next generation.
CONSTANTS
    Elsewhere = Elsewhere
    ReadOnly = ReadOnly
    Nodes <- UNodes
    Root <- MCRoot
    StartDirs = {1}
    Parent <- MCParent
    Dirs <- MCDirs
    UnreadableDirs = {}
    Ext <- MCExt
    InitFs <- MCInitFs
    Patterns <- MCPatterns
    Malformed <- MCMalformed
    NameMatch <- MCNameMatch
    PathMatch <- MCPathMatch
    DefaultExcluded <- MCDefaultExcluded
    RegexPats <- MCRegexPats
    InvalidRegex <- MCInvalidRegex
    RegexMatch <- MCRegexMatch
    Dests <- UDests
    OutsideDests <- MCOutsideDests
    Unwritable = {}
    Touched = {}
    Rewrites <- MCRewrites
    MaxExternal = 0
    Typed <- MCTyped
    Aborts = {"disk_full", "interrupt"}
SPECIFICATION Spec
INVARIANT OutputNotAmongSources
\* The program ends: run() returns after "Back/Exit" or an uncaught error.
CHECK_DEADLOCK FALSE
