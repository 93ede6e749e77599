--------------------------- MODULE MC_Normalizer ---------------------------
(***************************************************************************)
(* Directory trees for the session, nodes numbered in sorted() order.      *)
(*                                                                         *)
(* Tree T:  1 root/   2 a.py   3 b.bin   4 node_modules/                   *)
(*          5 node_modules/x.js   6 sub/   7 sub/c.txt (latin-1 text)      *)
(* Tree U adds 0 NormalizedFile.txt, absent at the start: the process runs *)
(* in root/, so the default output name resolves to it (uppercase sorts    *)
(* first).                                                                 *)
(***************************************************************************)
EXTENDS Normalizer, TLC

CONSTANTS Elsewhere, ReadOnly

TNodes == 1..7
UNodes == 0..7
MCRoot == 1
MCParent == [n \in UNodes \ {1} |-> CASE n = 5 -> 4 [] n = 7 -> 6 [] OTHER -> 1]
MCDirs == {1, 4, 6}
MCExt == [f \in UNodes \ MCDirs |-> IF f = 3 THEN "other" ELSE "code"]
MCInitFs ==
    [f \in UNodes \ MCDirs |->
        [exists |-> f # 0, readable |-> TRUE,
         content |-> CASE f = 3 -> "nul_bin" [] f = 7 -> "latin" [] OTHER -> "utf8"]]
TParent == [n \in TNodes \ {1} |-> MCParent[n]]
TExt == [f \in TNodes \ MCDirs |-> MCExt[f]]
TInitFs == [f \in TNodes \ MCDirs |-> MCInitFs[f]]

\* "node_modules" is in the default set; "*.txt" a user may add; "[" does
\* not compile.  The other default patterns match nothing in these trees.
MCPatterns == {"node_modules", "*.txt", "["}
MCMalformed == {"["}
MCNameMatch == ("node_modules" :> {4}) @@ ("*.txt" :> {0, 7}) @@ ("[" :> {})
\* Neither pattern contains '/': "node_modules" matches a relative path only
\* when it is the name of a child of the base (the regex is anchored), and
\* "*.txt" (regex ".*.txt") a path ending in the name at any depth.
MCPathMatch ==
    [p \in MCPatterns |->
        {<<n, b>> \in MCNameMatch[p] \X UNodes :
            IF p = "node_modules" THEN MCParent[n] = b ELSE b \in Ancestors(n)}]
MCDefaultExcluded == {"node_modules"}

MCRegexPats == {"py$", "x", "("}
MCInvalidRegex == {"("}
\* re.search over names: "x" is found in x.js and in the "txt" of c.txt and
\* NormalizedFile.txt.
MCRegexMatch == ("py$" :> {2}) @@ ("x" :> {0, 5, 7}) @@ ("(" :> {})

\* Output names: one outside the tree, one in a read-only place, and a
\* name that is a file of the tree ("a.py", or the default name in U).
TDests == {2, Elsewhere, ReadOnly}
UDests == {0, Elsewhere}
MCOutsideDests == {Elsewhere, ReadOnly}
MCUnwritable == {ReadOnly}

\* Smaller input sets for the runs with changes by other programs.
FewPatterns == {"node_modules", "["}
FewRegexPats == {"py$"}
FewDests == {2, Elsewhere}
SafeDests == {Elsewhere, ReadOnly}
GoodPatterns == MCPatterns \ MCMalformed
\* Rewrites by other programs: the content becomes binary, or the file
\* loses its read permission (deletion is always possible).
MCRewrites ==
    {[exists |-> TRUE, content |-> "nul_bin", readable |-> TRUE],
     [exists |-> TRUE, content |-> "utf8", readable |-> FALSE]}

\* Typed at "Selection:": every set of the numbers 1-4 as a comma list (so
\* every choice among up to four listed items), and inputs at the edges of
\* the syntax: 0, a number or a range past the table, a reversed range,
\* blanks around the numbers, a leading zero, and four malformed inputs.
CommaList(S) ==
    LET s == SortedPaths(S)
    IN  FlattenSeq([i \in DOMAIN s |-> (IF i = 1 THEN <<>> ELSE <<",">>) \o <<ToString(s[i])>>])
MCTyped ==
    {CommaList(S) : S \in SUBSET (1..4) \ {{}}}
    \cup {<<"0">>, <<"5">>, <<"1", "-", "5">>, <<"2", "-", "1">>,
          <<" ", "2", " ", "-", " ", "3">>, <<"0", "1">>,
          <<"1", " ", "2">>, <<"-", "1">>, <<"1", ",">>, <<"1", "-", "2", "-", "3">>}
=============================================================================
