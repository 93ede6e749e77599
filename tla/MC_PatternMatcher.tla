------------------------- MODULE MC_PatternMatcher -------------------------
(***************************************************************************)
(* Names over "a", "B", "." and patterns over "a", "b", ".", "*", "?", of *)
(* up to three characters: enough for a wildcard around a literal, the    *)
(* case folding of "B" against "b", and a '.' that is not at the end.     *)
(***************************************************************************)
EXTENDS PatternMatcher

MCNameChars == {"a", "B", "."}
MCPatChars == {"a", "b", ".", "*", "?"}
MCLower == [c \in MCNameChars \cup MCPatChars |-> IF c = "B" THEN "b" ELSE c]
=============================================================================
