--------------------------- MODULE PatternMatcher ---------------------------
(***************************************************************************)
(* match_pattern(text, pattern) of src/normalized_code.py: the shell      *)
(* wildcard is rewritten into a regular expression by replacing '*' with *)
(* '.*' and '?' with '.', and the result is matched anchored ('^...$')    *)
(* and case-insensitively.  Nothing else is escaped, so a '.' of the      *)
(* pattern stays the regex wildcard.                                       *)
(*                                                                         *)
(* Names and patterns are sequences of one-character strings.  The state *)
(* is the pair being compared; Type and Erase edit it one character at a *)
(* time, so every pair up to the bounds is reached.                       *)
(***************************************************************************)
EXTENDS Integers, Sequences, SequencesExt

CONSTANTS
    NameChars,  \* characters of file names
    PatChars,   \* characters of patterns, including "*", "?" and "."
    Lower,      \* [NameChars \cup PatChars -> STRING]: re.IGNORECASE folding
    MaxName,    \* longest name
    MaxPat      \* longest pattern

VARIABLES name, pattern
vars == <<name, pattern>>

(***************************************************************************)
(* The compiled expression as a sequence of tokens: "star" for '.*',     *)
(* "any" for '.', and a folded character for a literal.                  *)
(***************************************************************************)
RegexToken(c) ==
    CASE c = "*" -> "star"
      [] c = "?" -> "any"
      [] c = "." -> "any"
      [] OTHER   -> Lower[c]

Translate(p) == [i \in DOMAIN p |-> RegexToken(p[i])]

\* Bug variant: re.search-like prefix matching, as without the '$' anchor.
RECURSIVE RegexMatchesUnanchored(_, _)
RegexMatchesUnanchored(toks, s) ==
    IF toks = <<>> THEN TRUE
    ELSE CASE Head(toks) = "star" ->
                 RegexMatchesUnanchored(Tail(toks), s)
                 \/ (s # <<>> /\ RegexMatchesUnanchored(toks, Tail(s)))
           [] Head(toks) = "any" -> s # <<>> /\ RegexMatchesUnanchored(Tail(toks), Tail(s))
           [] OTHER -> /\ s # <<>> /\ Lower[Head(s)] = Head(toks)
                       /\ RegexMatchesUnanchored(Tail(toks), Tail(s))

\* re.match('^' + regex + '$', s, re.IGNORECASE) for the tokens above.
RECURSIVE RegexMatches(_, _)
RegexMatches(toks, s) ==
    IF toks = <<>> THEN s = <<>>
    ELSE CASE Head(toks) = "star" ->
                 RegexMatches(Tail(toks), s) \/ (s # <<>> /\ RegexMatches(toks, Tail(s)))
           [] Head(toks) = "any" -> s # <<>> /\ RegexMatches(Tail(toks), Tail(s))
           [] OTHER -> /\ s # <<>> /\ Lower[Head(s)] = Head(toks)
                       /\ RegexMatches(Tail(toks), Tail(s))

MatchPattern(text, p) == RegexMatches(Translate(p), text)

(***************************************************************************)
(* The reference: the spec's shell wildcard, where '*' matches zero or    *)
(* more characters, '?' exactly one, and every other character itself,   *)
(* case-insensitively.  Stated without recursion: the pattern's i-th      *)
(* character covers the name's characters end[i-1]+1 .. end[i].           *)
(***************************************************************************)
GlobMatch(text, p) ==
    \E end \in [0..Len(p) -> 0..Len(text)] :
        /\ end[0] = 0 /\ end[Len(p)] = Len(text)
        /\ \A i \in 1..Len(p) :
              IF p[i] = "*" THEN end[i] >= end[i - 1]
              ELSE /\ end[i] = end[i - 1] + 1
                   /\ p[i] # "?" => Lower[text[end[i]]] = Lower[p[i]]

-----------------------------------------------------------------------------
Init == name = <<>> /\ pattern = <<>>

TypeName(c) == Len(name) < MaxName /\ name' = Append(name, c) /\ UNCHANGED pattern
TypePattern(c) == Len(pattern) < MaxPat /\ pattern' = Append(pattern, c) /\ UNCHANGED name
EraseName == name # <<>> /\ name' = Front(name) /\ UNCHANGED pattern
ErasePattern == pattern # <<>> /\ pattern' = Front(pattern) /\ UNCHANGED name

Next ==
    \/ \E c \in NameChars : TypeName(c)
    \/ \E c \in PatChars : TypePattern(c)
    \/ EraseName
    \/ ErasePattern

Spec == Init /\ [][Next]_vars

-----------------------------------------------------------------------------
(***************************************************************************)
(* For patterns made of literals, '*' and '?', match_pattern decides      *)
(* exactly as the shell wildcard of the spec: anchored at both ends,      *)
(* '*' spanning any run (also the empty one), '?' exactly one character,  *)
(* letters compared without case.                                         *)
(***************************************************************************)
MatchesWildcardWithoutDot ==
    ~Contains(pattern, ".") => (MatchPattern(name, pattern) <=> GlobMatch(name, pattern))

(***************************************************************************)
(* The spec: "Any other pattern metacharacters are treated literally".    *)
(* match_pattern leaves '.' unescaped, so "*.log" also matches "blog".   *)
(***************************************************************************)
MatchesWildcard == MatchPattern(name, pattern) <=> GlobMatch(name, pattern)
=============================================================================
