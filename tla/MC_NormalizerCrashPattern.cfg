\* Expected violation: a malformed exclusion pattern ends the program.
CONSTANTS
    Elsewhere = Elsewhere
    ReadOnly = ReadOnly
    Nodes <- TNodes
    Root <- MCRoot
    StartDirs = {1}
    Parent <- TParent
    Dirs <- MCDirs
    UnreadableDirs = {}
    Ext <- TExt
    InitFs <- TInitFs
    Patterns <- MCPatterns
    Malformed <- MCMalformed
    NameMatch <- MCNameMatch
    PathMatch <- MCPathMatch
    DefaultExcluded <- MCDefaultExcluded
    RegexPats <- MCRegexPats
    InvalidRegex <- MCInvalidRegex
    RegexMatch <- MCRegexMatch
    Dests <- TDests
    OutsideDests <- MCOutsideDests
    Unwritable <- MCUnwritable
    Touched = {}
    Rewrites <- MCRewrites
    MaxExternal = 0
    Typed <- MCTyped
    Aborts = {"disk_full", "interrupt"}
SPECIFICATION Spec
INVARIANT NoCrash
\* The program ends: run() returns after "Back/Exit" or an uncaught error.
CHECK_DEADLOCK FALSE
