\* Expected violation: rglob walks enter excluded directories.
CONSTANTS
    Elsewhere = Elsewhere
    ReadOnly = ReadOnly
    Nodes <- TNodes
    Root <- MCRoot
    StartDirs = {1}
    Parent <- TParent
    Dirs <- MCDirs
    UnreadableDirs = {}
    Ext <- TExt
    InitFs <- TInitFs
    Patterns <- MCPatterns
    Malformed <- MCMalformed
    NameMatch <- MCNameMatch
    PathMatch <- MCPathMatch
    DefaultExcluded <- MCDefaultExcluded
    RegexPats <- MCRegexPats
    InvalidRegex <- MCInvalidRegex
    RegexMatch <- MCRegexMatch
    Dests <- TDests
    OutsideDests <- MCOutsideDests
    Unwritable <- MCUnwritable
    Touched = {}
    Rewrites <- MCRewrites
    MaxExternal = 0
    Typed <- MCTyped
    Aborts = {"disk_full", "interrupt"}
SPECIFICATION Spec
PROPERTY NoFileUnderExcludedDir
\* The program ends: run() returns after "Back/Exit" or an uncaught error.
CHECK_DEADLOCK FALSE
