\* Expected violation: a selected file deleted before generation leaves an unterminated block.
CONSTANTS
    Elsewhere = Elsewhere
    ReadOnly = ReadOnly
    Nodes <- TNodes
    Root <- MCRoot
    StartDirs = {1}
    Parent <- TParent
    Dirs <- MCDirs
    UnreadableDirs = {}
    Ext <- TExt
    InitFs <- TInitFs
    Patterns <- FewPatterns
    Malformed = {}
    NameMatch <- MCNameMatch
    PathMatch <- MCPathMatch
    DefaultExcluded <- MCDefaultExcluded
    RegexPats <- FewRegexPats
    InvalidRegex = {}
    RegexMatch <- MCRegexMatch
    Dests = {Elsewhere}
    OutsideDests <- MCOutsideDests
    Unwritable = {}
    Touched = {2}
    Rewrites <- MCRewrites
    MaxExternal = 1
    Typed <- MCTyped
    Aborts = {"disk_full", "interrupt"}
SPECIFICATION Spec
INVARIANT BlocksWellFormed
\* The program ends: run() returns after "Back/Exit" or an uncaught error.
CHECK_DEADLOCK FALSE
