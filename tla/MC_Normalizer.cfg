\* The whole session: the start directory, every menu option, both
\* sub-loops with typed numbers, nested navigation, generation, and Ctrl-C
\* or end of input at a prompt or while the document is written.
CONSTANTS
    Elsewhere = Elsewhere
    ReadOnly = ReadOnly
    Nodes <- TNodes
    Root <- MCRoot
    StartDirs <- MCDirs
    Parent <- TParent
    Dirs <- MCDirs
    UnreadableDirs = {}
    Ext <- TExt
    InitFs <- TInitFs
    Patterns <- MCPatterns
    Malformed <- MCMalformed
    NameMatch <- MCNameMatch
    PathMatch <- MCPathMatch
    DefaultExcluded <- MCDefaultExcluded
    RegexPats <- MCRegexPats
    InvalidRegex <- MCInvalidRegex
    RegexMatch <- MCRegexMatch
    Dests <- TDests
    OutsideDests <- MCOutsideDests
    Unwritable <- MCUnwritable
    Touched = {}
    Rewrites <- MCRewrites
    MaxExternal = 0
    Typed <- MCTyped
    Aborts = {"interrupt", "eof"}
SPECIFICATION Spec
INVARIANT TypeOK
INVARIANT SummaryAccountsForEveryFile
INVARIANT TypedNumbersPickNamedItems
PROPERTY ImplementsSelectionSet
\* The program ends: run() returns after "Back/Exit" or an uncaught error.
CHECK_DEADLOCK FALSE
