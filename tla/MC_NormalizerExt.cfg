\* Changes by other programs to a.py between the steps of the session, and a
\* disk that fills up while a document is written.
CONSTANTS
    Elsewhere = Elsewhere
    ReadOnly = ReadOnly
    Nodes <- TNodes
    Root <- MCRoot
    StartDirs = {1}
    Parent <- TParent
    Dirs <- MCDirs
    UnreadableDirs = {}
    Ext <- TExt
    InitFs <- TInitFs
    Patterns <- FewPatterns
    Malformed <- MCMalformed
    NameMatch <- MCNameMatch
    PathMatch <- MCPathMatch
    DefaultExcluded <- MCDefaultExcluded
    RegexPats <- FewRegexPats
    InvalidRegex = {}
    RegexMatch <- MCRegexMatch
    Dests <- SafeDests
    OutsideDests <- MCOutsideDests
    Unwritable <- MCUnwritable
    Touched = {2}
    Rewrites <- MCRewrites
    MaxExternal = 1
    Typed <- MCTyped
    Aborts = {"disk_full"}
SPECIFICATION Spec
INVARIANT SummaryAccountsForEveryFile
\* The program ends: run() returns after "Back/Exit" or an uncaught error.
CHECK_DEADLOCK FALSE
