\* Tree rendering over every selection, and format_size over sizes at its unit boundaries.
CONSTANTS
    Base <- MCBase
    Universe <- MCUniverse
    Sizes <- MCSizes
SPECIFICATION Spec
INVARIANT TreeListsEachFileUnderItsDirectory
INVARIANT TreeOrderAsSpecified
