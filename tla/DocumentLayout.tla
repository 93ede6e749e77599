--------------------------- MODULE DocumentLayout ---------------------------
(***************************************************************************)
(* The layout of the aggregate document that generate_normalized_file      *)
(* writes: the order of the file blocks, the PROJECT STRUCTURE tree that   *)
(* generate_tree_structure renders, and the SIZE lines of format_size.     *)
(*                                                                         *)
(* A path is a sequence of components and a component a sequence of       *)
(* character codes, so that Python's str order (by code point) and         *)
(* PurePath order (by the list of components) can both be stated.  The     *)
(* state is a selection of absolute file paths and one file size; actions  *)
(* change them one at a time, so every selection of Universe and every     *)
(* size of Sizes is reached.                                               *)
(***************************************************************************)
EXTENDS Integers, Sequences, SequencesExt, FiniteSets

CONSTANTS
    Base,      \* the aggregation base (the current directory), a path
    Universe,  \* the file paths that can be selected, some outside Base
    Sizes      \* file sizes in bytes

Slash == 47  \* '/'

\* TLC's integers have 32 bits: sizes stay below 1024^3 (GB and TB are not
\* reached) and ten times a size stays representable.
ASSUME \A n \in Sizes : n \in 0..200000000

VARIABLES sel, size
vars == <<sel, size>>

\* Python comparison of sequences: first differing element, else shorter.
LexLess(s, t, Lt(_, _)) ==
    \E i \in 0..Len(s) :
        /\ i <= Len(t)
        /\ \A k \in 1..i : s[k] = t[k]
        /\ \/ i = Len(s) /\ i < Len(t)
           \/ i < Len(s) /\ i < Len(t) /\ Lt(s[i + 1], t[i + 1])

StrLess(s, t) == LexLess(s, t, LAMBDA a, b : a < b)
\* PurePath.__lt__: component lists compared, each component as a str.
PathLess(p, q) == LexLess(p, q, StrLess)
\* The string form "/c1/c2/..." of an absolute path.
Str(p) == FlattenSeq([i \in DOMAIN p |-> <<Slash>> \o p[i]])

\* sorted(S) for a strict total order Lt on S.
SortBy(S, Lt(_, _)) ==
    [i \in 1..Cardinality(S) |->
        CHOOSE x \in S : Cardinality({y \in S : Lt(y, x)}) = i - 1]

-----------------------------------------------------------------------------
(* generate_normalized_file, "for file_path in sorted(self.selected_files)"*)
BlockOrder(S) == SortBy(S, PathLess)

(* generate_tree_structure.  relative_to raises ValueError for a path     *)
(* outside base_path, which is skipped; rel_path.parent is () for '.'.    *)
Inside(S) == {p \in S : IsPrefix(Base, p) /\ Len(p) > Len(Base)}
Rel(p) == SubSeq(p, Len(Base) + 1, Len(p))
DirOf(p) == Front(Rel(p))

\* dir_files: keys in insertion order (first file of each directory in
\* sorted order), each holding the names of its files.
InsertedFiles(S) == SelectSeq(BlockOrder(S), LAMBDA p : p \in Inside(S))
Keys(S) == {DirOf(p) : p \in Inside(S)}
FirstSeen(S, d) ==
    LET o == InsertedFiles(S)
    IN  CHOOSE i \in DOMAIN o : DirOf(o[i]) = d /\ \A j \in 1..(i - 1) : DirOf(o[j]) # d
LastKey(S) == CHOOSE d \in Keys(S) : \A e \in Keys(S) : FirstSeen(S, e) <= FirstSeen(S, d)
\* Bug variant: "dir_files[dir_path] = []" for every file, not only the first.
DirFilesReset(S, d) ==
    {Last(Last(SelectSeq(InsertedFiles(S), LAMBDA p : DirOf(p) = d)))}
DirFiles(S, d) == {Last(Rel(p)) : p \in {q \in Inside(S) : DirOf(q) = d}}

\* The connector: "    └── " under a subdirectory, "└── " for the last
\* file of '.' when '.' is the last inserted key, "├── " otherwise.
Glyph(S, d, last) ==
    CASE d # <<>>                -> "indent"
      [] last /\ d = LastKey(S)  -> "corner"
      [] OTHER                   -> "tee"

Group(S, d) ==
    LET names == SortBy(DirFiles(S, d), StrLess)
    IN  (IF d = <<>> THEN <<>> ELSE <<[kind |-> "dir", name |-> d, glyph |-> "tee"]>>)
        \o [j \in 1..Len(names) |->
              [kind |-> "file", name |-> names[j], glyph |-> Glyph(S, d, j = Len(names))]]

\* Bug variant: "for dir_path in dir_files.keys()", in insertion order.
TreeInsertionOrder(S) ==
    IF S = {} THEN <<>>
    ELSE LET keys == SortBy(Keys(S), LAMBDA a, b : FirstSeen(S, a) < FirstSeen(S, b))
         IN  <<[kind |-> "root", name |-> Last(Base), glyph |-> "none"]>>
             \o FlattenSeq([i \in 1..Len(keys) |-> Group(S, keys[i])])

Tree(S) ==
    IF S = {} THEN <<>>
    ELSE LET keys == SortBy(Keys(S), PathLess)
         IN  <<[kind |-> "root", name |-> Last(Base), glyph |-> "none"]>>
             \o FlattenSeq([i \in 1..Len(keys) |-> Group(S, keys[i])])

(* format_size: "for unit in B, KB, MB, GB: if size < 1024 return; size /= *)
(* 1024", then TB.  The divisions by 1024 are exact in binary floating    *)
(* point, and "{:.1f}" rounds the exact quotient half to even.             *)
RECURSIVE UnitOf(_, _)
UnitOf(n, k) == IF k = 4 \/ n < 1024^(k + 1) THEN k ELSE UnitOf(n, k + 1)
RoundHalfEven(a, b) ==
    LET q == a \div b
        r == a % b
    IN  IF 2 * r > b \/ (2 * r = b /\ q % 2 = 1) THEN q + 1 ELSE q
FormatSize(n) ==
    LET k == UnitOf(n, 0) IN [unit |-> k, tenths |-> RoundHalfEven(10 * n, 1024^k)]

-----------------------------------------------------------------------------
Init == sel = {} /\ size \in Sizes

Select(p) == p \notin sel /\ sel' = sel \cup {p} /\ UNCHANGED size
Deselect(p) == p \in sel /\ sel' = sel \ {p} /\ UNCHANGED size
Resize(n) == n # size /\ size' = n /\ UNCHANGED sel

Next ==
    \/ \E p \in Universe : Select(p) \/ Deselect(p)
    \/ \E n \in Sizes : Resize(n)

Spec == Init /\ [][Next]_vars

-----------------------------------------------------------------------------
\* The directory under which line i of a tree appears: the nearest "dir"
\* line above it, or the base ('.') when there is none.
DirAbove(t, i) ==
    LET ds == {j \in 1..(i - 1) : t[j].kind = "dir"}
    IN  IF ds = {} THEN <<>> ELSE t[Max(ds)].name

(***************************************************************************)
(* TreeRenderer: the tree "groups selected paths by their parent directory *)
(* relative to the aggregation base" and drops paths outside it.  Every   *)
(* selected file under the base has exactly one line, and that line is in *)
(* the group of its own directory: the dictionary dir_files, its sorted   *)
(* keys and the special-cased '.' group must agree for this to hold.      *)
(***************************************************************************)
TreeListsEachFileUnderItsDirectory ==
    LET t == Tree(sel)
        fileLines == {i \in DOMAIN t : t[i].kind = "file"}
    IN  /\ Cardinality(fileLines) = Cardinality(Inside(sel))
        /\ \A p \in Inside(sel) :
              \E i \in fileLines : t[i].name = Last(p) /\ DirAbove(t, i) = DirOf(p)

\* The spec's tree, connectors left out: '.' first, the other directories
\* sorted by their string, the files of each sorted by name.
SpecDirLess(a, b) ==
    \/ a = <<>> /\ b # <<>>
    \/ a # <<>> /\ b # <<>> /\ StrLess(Str(a), Str(b))
SpecTree(S) ==
    IF S = {} THEN <<>>
    ELSE LET keys == SortBy({DirOf(p) : p \in Inside(S)}, SpecDirLess)
             Lines(d) ==
                LET names == SortBy({Last(p) : p \in {q \in Inside(S) : DirOf(q) = d}}, StrLess)
                IN  (IF d = <<>> THEN <<>> ELSE <<[kind |-> "dir", name |-> d]>>)
                    \o [j \in 1..Len(names) |-> [kind |-> "file", name |-> names[j]]]
         IN  <<[kind |-> "root", name |-> Last(Base)]>>
             \o FlattenSeq([i \in 1..Len(keys) |-> Lines(keys[i])])
WithoutConnectors(t) == [i \in DOMAIN t |-> [kind |-> t[i].kind, name |-> t[i].name]]
\* No character sorts below '/' in any selected path.
NoCharBelowSlash(S) == \A p \in S : \A i \in DOMAIN p : \A j \in DOMAIN p[i] : p[i][j] > Slash

(***************************************************************************)
(* For paths whose characters all sort after '/', generate_tree_structure *)
(* renders the spec's tree line for line (connectors aside): sorting the  *)
(* keys of dir_files as Paths puts '.' first and orders the directories  *)
(* as their strings, however the insertion order of dir_files went.       *)
(***************************************************************************)
TreeOrderAsSpecified ==
    NoCharBelowSlash(sel) => WithoutConnectors(Tree(sel)) = SpecTree(sel)

(***************************************************************************)
(* SelectionSet list(), which AggregateWriter writes the file blocks in:  *)
(* "sorted lexicographically by full path string".  The code sorts Path   *)
(* objects, component by component, so "a-/b" and "a/b" come out in the   *)
(* other order ('-' sorts before '/').                                    *)
(***************************************************************************)
FileBlocksInSpecOrder ==
    BlockOrder(sel) = SortBy(sel, LAMBDA p, q : StrLess(Str(p), Str(q)))
=============================================================================
