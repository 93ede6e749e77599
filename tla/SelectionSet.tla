---------------------------- MODULE SelectionSet ----------------------------
(***************************************************************************)
(* What spec.md (sections 3, 4.4, 4.6 and 7) promises of the selection and *)
(* of generation, stated without the menus, the scans or the files:       *)
(*   - the selection is "mutated only by explicit selection operations     *)
(*     (never by scanning)" and "cleared only by explicit user action";    *)
(*   - generation with an empty selection "fails with EmptySelection, no   *)
(*     destination file created or overwritten";                           *)
(*   - a generated document's header counts the selection and its summary  *)
(*     splits that count into successes and failures, and generating does  *)
(*     not change the selection;                                           *)
(*   - a DestinationWriteFailure leaves "nothing (or a partial file)", and *)
(*     the destination is then to be treated as invalid.                   *)
(* Which candidates a selection operation may add (text files only) is     *)
(* left open here: Normalizer checks that separately.                      *)
(***************************************************************************)
EXTENDS Naturals, FiniteSets

CONSTANTS
    Candidates,  \* the paths a selection operation can name
    NoDocument   \* no valid document (none generated yet, or the last
                 \* generation failed): a total of 0, which no generation
                 \* writes

VARIABLES
    chosen,      \* the selection
    document     \* the counts of the last generated document

vars == <<chosen, document>>

\* A generated document: header total, and the summary's two counters.
Documents(n) ==
    {[total |-> n, success |-> s, failed |-> n - s] : s \in 0..n}

Init ==
    /\ chosen = {}
    /\ document = NoDocument

\* add-by-path, add-by-directory, add-by-regex: the selection grows by some
\* candidates (stated as a relation, so no subset of Candidates is listed).
Add ==
    /\ chosen \subseteq chosen'
    /\ chosen' \subseteq Candidates
    /\ UNCHANGED document

\* clear(): the explicit user action.
Clear ==
    /\ chosen' = {}
    /\ UNCHANGED document

\* generate(): refused on an empty selection; otherwise one document whose
\* counts add up to the size of the selection, which stays as it was.
Generate ==
    /\ chosen # {}
    /\ document' \in Documents(Cardinality(chosen))
    /\ UNCHANGED chosen

\* generate() failing on the destination: no valid document is left.
GenerateFails ==
    /\ chosen # {}
    /\ document' = NoDocument
    /\ UNCHANGED chosen

Next ==
    \/ Add
    \/ Clear
    \/ Generate
    \/ GenerateFails

Spec == Init /\ [][Next]_vars
=============================================================================
