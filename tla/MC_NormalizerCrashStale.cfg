\* Expected violation: show_current_selection stat()s a deleted selected file.
CONSTANTS
    Elsewhere = Elsewhere
    ReadOnly = ReadOnly
    Nodes <- TNodes
    Root <- MCRoot
    StartDirs = {1}
    Parent <- TParent
    Dirs <- MCDirs
    UnreadableDirs = {}
    Ext <- TExt
    InitFs <- TInitFs
    Patterns <- FewPatterns
    Malformed = {}
    NameMatch <- MCNameMatch
    PathMatch <- MCPathMatch
    DefaultExcluded <- MCDefaultExcluded
    RegexPats <- FewRegexPats
    InvalidRegex = {}
    RegexMatch <- MCRegexMatch
    Dests = {Elsewhere}
    OutsideDests <- MCOutsideDests
    Unwritable = {}
    Touched = {2}
    Rewrites <- MCRewrites
    MaxExternal = 1
    Typed <- MCTyped
    Aborts = {"disk_full", "interrupt"}
SPECIFICATION Spec
INVARIANT NoCrash
\* The program ends: run() returns after "Back/Exit" or an uncaught error.
CHECK_DEADLOCK FALSE
