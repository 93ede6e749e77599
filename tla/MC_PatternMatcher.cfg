\* match_pattern agrees with the spec's wildcard on patterns without '.'.
CONSTANTS
    NameChars <- MCNameChars
    PatChars <- MCPatChars
    Lower <- MCLower
    MaxName = 3
    MaxPat = 3
SPECIFICATION Spec
INVARIANT MatchesWildcardWithoutDot
