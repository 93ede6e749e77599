\* Expected violation: a '.' in a pattern matches any character.
CONSTANTS
    NameChars <- MCNameChars
    PatChars <- MCPatChars
    Lower <- MCLower
    MaxName = 3
    MaxPat = 3
SPECIFICATION Spec
INVARIANT MatchesWildcard
