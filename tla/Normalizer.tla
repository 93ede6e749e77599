----------------------------- MODULE Normalizer -----------------------------
(***************************************************************************)
(* The interactive session of CodebaseNormalizer (src/normalized_code.py): *)
(* navigate_directory's menu loop over a small directory tree, the         *)
(* selection set, the exclusion patterns, the recursive walks of           *)
(* add_directory_files and select_by_regex, and generate_normalized_file.  *)
(*                                                                         *)
(* The program is single-threaded; each menu handler is one atomic step,   *)
(* and every handler ends where the loop returns to its top and calls      *)
(* scan_directory again, so that re-scan is part of the handler's action.  *)
(* The only concurrency is the environment: other programs may delete or   *)
(* rewrite files while the user sits at a prompt (ExternalChange).         *)
(***************************************************************************)
EXTENDS Integers, Sequences, FiniteSets, SequencesExt, SelectionInput

CONSTANTS
    Nodes,          \* filesystem objects under the chosen directory, numbered
                    \* in the order sorted() puts their Paths
    Root,           \* the top of the modelled tree
    StartDirs,      \* directories a user may type at "Enter the directory path"
    Parent,         \* [Nodes \ {Root} -> Nodes]
    Dirs,           \* the directories among Nodes (never created or removed)
    UnreadableDirs, \* directories whose listing raises PermissionError
    Ext,            \* [Files -> {"code", "mime", "other"}]: suffix in
                    \* common_code_extensions, MIME type text/*, or neither
    InitFs,         \* [Files -> FileState]: the files when the session starts
    Patterns,       \* exclusion patterns a user may type
    Malformed,      \* patterns whose translated regex re.match cannot compile
    NameMatch,      \* [Patterns -> SUBSET Nodes]: nodes whose name matches
    PathMatch,      \* [Patterns -> SUBSET (Nodes \X Nodes)]: <<n, base>> whose
                    \* path relative to base matches
    DefaultExcluded,\* the patterns __init__ puts in excluded_patterns
    RegexPats,      \* regular expressions a user may type at option 5
    InvalidRegex,   \* those re.compile rejects
    RegexMatch,     \* [RegexPats -> SUBSET Nodes]: regex.search(name) holds
    Dests,          \* where an output file name typed at option 9 resolves to:
                    \* a file node of the tree or one of OutsideDests
    OutsideDests,   \* destinations outside the tree
    Unwritable,     \* destinations open(.., 'w') fails on
    Touched,        \* the files other programs may change
    Rewrites,       \* states they may leave an existing file in (or delete it)
    MaxExternal,    \* bound on changes made by other programs
    Typed,          \* what a user may type at the "Selection:" prompt of
                    \* option 1 besides done, all and text (sequences of
                    \* characters, see SelectionInput)
    Aborts          \* how the program may be stopped from outside:
                    \* "disk_full" (every write of a generation from some point
                    \* on fails), "interrupt" (Ctrl-C, KeyboardInterrupt) and
                    \* "eof" (standard input closed)

Files == Nodes \ Dirs

\* Classes of file content: decodable as UTF-8 or not, with a NUL byte in the
\* first 1024 bytes or not; "agg" is an aggregate document written by
\* generate_normalized_file (UTF-8 text).
Contents == {"utf8", "latin", "nul_utf8", "nul_bin", "agg"}
FileState == [exists : BOOLEAN, content : Contents, readable : BOOLEAN]

ASSUME /\ Root \in Dirs /\ StartDirs \subseteq Dirs
       /\ Malformed \subseteq Patterns /\ DefaultExcluded \subseteq Patterns \ Malformed
       /\ InvalidRegex \subseteq RegexPats
       /\ Dests \subseteq Files \cup OutsideDests /\ Unwritable \subseteq Dests
       /\ Touched \subseteq Files /\ MaxExternal \in Nat
       /\ Rewrites \subseteq FileState /\ \A st \in Rewrites : st.exists
       /\ Aborts \subseteq {"disk_full", "interrupt", "eof"}
       \* a blank input is "done", handled before the numbers are parsed
       /\ \A t \in Typed : Strip(t) # <<>>

VARIABLES
    status,     \* "running", "exited" (run returned) or "crashed" (run's
                \* except Exception caught an error and the program ended)
    pc,         \* "path" (get_directory_path), "menu", or inside a sub-loop:
                \* "individual", "exclusions"
    stack,      \* the directories of the nested navigate_directory calls
    listing,    \* files_info of the innermost call, from its last scan
    selected,   \* self.selected_files
    excluded,   \* self.excluded_patterns
    fs,         \* [Files -> FileState]
    external,   \* number of changes made by other programs
    doc         \* the last aggregate document generate_normalized_file wrote,
                \* abstracted to its counts and the kinds of its file blocks

vars == <<status, pc, stack, listing, selected, excluded, fs, external, doc>>

Listings == [files : SUBSET Files, text : SUBSET Files, dirs : SUBSET Dirs]
BlockKinds == {"text", "fallback", "error", "broken"}
Blocks == [file : Nodes, kind : BlockKinds, content : Contents \cup {"none"}]
Docs == [written : BOOLEAN, summary : BOOLEAN, total : Nat, success : Nat,
         failed : Nat, kinds : SUBSET BlockKinds, readsDest : BOOLEAN]

Top == stack[Len(stack)]
Live(n) == n \in Dirs \/ fs[n].exists
Children(d) == {n \in Nodes \ {Root} : Parent[n] = d /\ Live(n)}
RECURSIVE Ancestors(_)
Ancestors(n) == IF n = Root THEN {} ELSE {Parent[n]} \cup Ancestors(Parent[n])

(***************************************************************************)
(* is_text_file: suffix in the allow-list, else a text/* MIME type, else   *)
(* the first 1024 bytes: empty or NUL-free is text; OSError is binary.     *)
(***************************************************************************)
IsTextFile(f) ==
    \/ Ext[f] \in {"code", "mime"}
    \/ /\ fs[f].exists /\ fs[f].readable
       /\ fs[f].content \in {"utf8", "latin", "agg"}

(***************************************************************************)
(* should_exclude_path: any pattern matching the path relative to base or *)
(* the name.  The patterns are iterated in the hash order of a Python set, *)
(* and a malformed one raises re.error as soon as it is reached; so the    *)
(* check raises for certain when no well-formed pattern matches, and may   *)
(* raise or answer True when one does.                                     *)
(***************************************************************************)
GoodExcluded(n, base) ==
    \E p \in excluded \ Malformed : n \in NameMatch[p] \/ <<n, base>> \in PathMatch[p]
MayRaiseOn(S) == excluded \cap Malformed # {} /\ S # {}
MustRaiseOn(S, base) ==
    excluded \cap Malformed # {} /\ \E n \in S : ~GoodExcluded(n, base)

(***************************************************************************)
(* scan_directory: the non-excluded children, files classified; an        *)
(* unreadable directory yields empty lists (PermissionError is caught).   *)
(***************************************************************************)
Scanned(d) == IF d \in UnreadableDirs THEN {} ELSE Children(d)
Listing(d) ==
    LET kept == {n \in Scanned(d) : ~GoodExcluded(n, d)}
    IN  [files |-> kept \cap Files,
         text  |-> {f \in kept \cap Files : IsTextFile(f)},
         dirs  |-> kept \cap Dirs]

\* The top of navigate_directory's loop: scan_directory of the innermost
\* directory, in the state the handler left (hence the primes); an re.error
\* from should_exclude_path is not caught there and ends the program.
Rescan ==
    \/ /\ ~(MustRaiseOn(Scanned(Top), Top))'
       /\ listing' = (Listing(Top))'
       /\ status' = status
    \/ /\ (MayRaiseOn(Scanned(Top)))'
       /\ status' = "crashed"
       /\ UNCHANGED listing

(***************************************************************************)
(* Path.rglob('*'): every descendant of d, not entering a directory whose *)
(* listing fails (rglob skips it silently).                                *)
(***************************************************************************)
RECURSIVE Walk(_)
Walk(d) == IF d \in UnreadableDirs THEN {}
           ELSE Children(d) \cup UNION {Walk(c) : c \in Children(d) \cap Dirs}

\* The files of a walk that pass `is_file() and not should_exclude_path`
\* and is_text_file; with a malformed pattern present no file passes
\* (each one not matched first by a good pattern raises), see WalkRaises.
WalkAdds(d, base) ==
    IF excluded \cap Malformed # {} THEN {}
    ELSE {f \in Walk(d) \cap Files : ~GoodExcluded(f, base) /\ IsTextFile(f)}
WalkRaises(d, base) == MayRaiseOn(Walk(d) \cap Files)

(***************************************************************************)
(* add_directory_files(d): rglob under d, exclusions relative to d's      *)
(* parent; returns how many files it added.                                *)
(***************************************************************************)
AddDirectoryFiles(d) == WalkAdds(d, Parent[d])

-----------------------------------------------------------------------------
Init ==
    /\ status = "running"
    /\ pc = "path"
    /\ stack = <<>>
    /\ selected = {}
    /\ excluded = DefaultExcluded
    /\ fs = InitFs
    /\ external = 0
    /\ doc = [written |-> FALSE, summary |-> FALSE, total |-> 0, success |-> 0,
              failed |-> 0, kinds |-> {}, readsDest |-> FALSE]
    /\ listing = [files |-> {}, text |-> {}, dirs |-> {}]

\* End of a handler: "Press Enter", back to the loop top, scan again.
BackToMenu ==
    /\ pc' = "menu"
    /\ Rescan

Items == listing.files \cup listing.dirs
\* sorted() of paths: Nodes are numbered in Path order.
SortedPaths(S) ==
    [i \in 1..Cardinality(S) |-> CHOOSE x \in S : Cardinality({y \in S : y < x}) = i - 1]

\* all_items = files_info['directories'] + files_info['files'], each list in
\* the sorted order scan_directory appended it in.
AllItems == SortedPaths(listing.dirs) \o SortedPaths(listing.files)
Untouched == UNCHANGED <<stack, excluded, fs, external, doc>>

\* Option 2 "Select all text files": the files the last scan classified as
\* text, whether or not they still exist; prints how many it visited.
SelectAllText ==
    /\ selected' = selected \cup listing.text
    /\ Untouched
    /\ BackToMenu

\* Option 3 "Select all files": every listed file, text or binary.
SelectAllFiles ==
    /\ selected' = selected \cup listing.files
    /\ Untouched
    /\ BackToMenu

\* Option 1, select_individual_items: with nothing listed it returns at once,
\* otherwise it enters its input loop.
EnterIndividual ==
    /\ Items = {}
    /\ UNCHANGED selected
    /\ Untouched
    /\ BackToMenu
EnterIndividualLoop ==
    /\ Items # {}
    /\ pc' = "individual"
    /\ UNCHANGED <<status, listing, selected>>
    /\ Untouched

\* Input "all": listed items that are text or directories (is_dir() asked
\* now), the directory itself being added; prints len(all_items).
IndividualAll ==
    LET added == {i \in Items : i \in listing.text \/ i \in Dirs}
    IN  /\ selected' = selected \cup added
        /\ UNCHANGED <<status, pc, listing>>
        /\ Untouched

\* Input "text".
IndividualText ==
    /\ selected' = selected \cup listing.text
    /\ UNCHANGED <<status, pc, listing>>
    /\ Untouched

\* The parse of every input of Typed (constant, so computed once).
ParsedInputs == [t \in Typed |-> ParseIndices(t)]

\* Bug variant: the index is used without its lower bound, so Python's
\* negative indexing makes 0 the last item.
PickedItemsNegative(indices) ==
    {AllItems[IF i < 0 THEN Len(AllItems) + i + 1 ELSE i + 1] :
        i \in {j \in indices : j < Len(AllItems)}}

\* "if 0 <= idx < len(all_items): item = all_items[idx]"; any other index
\* is reported as an invalid number.  A ValueError leaves no index.
PickedItems(indices) ==
    {AllItems[i + 1] : i \in {j \in indices : 0 <= j /\ j < Len(AllItems)}}

(***************************************************************************)
(* The items S an input names: a file is added when is_file() holds now  *)
(* and the scan classified it as text, a directory through                *)
(* add_directory_files.  The indices are visited in ascending order,      *)
(* directories (listed first) before files, so an re.error raised in a   *)
(* directory walk reaches `except Exception` before any listed file is    *)
(* added, but after the walks have added the files they reached first (a *)
(* part of their additions: rglob's order is the file system's).          *)
(* The directories are siblings, so the per-directory counts add up to    *)
(* the size of the union.                                                 *)
(***************************************************************************)
IndividualPick(S) ==
    LET dirs  == S \cap Dirs
        files == {f \in S \cap listing.files : fs[f].exists /\ f \in listing.text}
        added == files \cup UNION {AddDirectoryFiles(d) : d \in dirs}
        walked == UNION {Walk(d) \cap Files : d \in dirs}
    IN  /\ \/ /\ ~MustRaiseOn(walked, Top)
              /\ selected' = selected \cup added
           \/ /\ MayRaiseOn(walked)
              /\ \E done \in SUBSET (added \ files) : selected' = selected \cup done
        /\ UNCHANGED <<status, pc, listing>>
        /\ Untouched

IndividualDone ==
    /\ UNCHANGED selected
    /\ Untouched
    /\ BackToMenu

(***************************************************************************)
(* Option 5, select_by_regex(files_info, directory): first the listed     *)
(* files whose name the regex searches and that the scan called text,     *)
(* then every file of rglob(directory) not excluded relative to it, text  *)
(* now and matching; both loops count, so a listed file counts twice.  An *)
(* re.error from a malformed exclusion pattern in the second loop is      *)
(* caught as if the regex were invalid, after the first loop's additions *)
(* and those the second made before the raise.                            *)
(***************************************************************************)
SelectByRegex(r) ==
    LET first  == {f \in listing.files : f \in RegexMatch[r] /\ f \in listing.text}
        walked == Walk(Top) \cap Files
        second == {f \in WalkAdds(Top, Top) : f \in RegexMatch[r]}
    IN  /\ \/ /\ r \in InvalidRegex
              /\ UNCHANGED selected
           \/ /\ r \notin InvalidRegex
              /\ ~MustRaiseOn(walked, Top)
              /\ selected' = selected \cup first \cup second
           \/ /\ r \notin InvalidRegex
              /\ MayRaiseOn(walked)
              /\ \E done \in SUBSET second : selected' = selected \cup first \cup done
        /\ Untouched
        /\ BackToMenu

\* Option 6 "Remove selection" clears the whole selection.
RemoveSelection ==
    /\ selected' = {}
    /\ Untouched
    /\ BackToMenu

\* Option 7, show_current_selection: stat() of every selected path; for a
\* path that no longer exists FileNotFoundError escapes to run().
ShowSelection ==
    /\ UNCHANGED selected
    /\ Untouched
    /\ IF \A n \in selected : Live(n)
       THEN BackToMenu
       ELSE /\ status' = "crashed"
            /\ UNCHANGED <<pc, listing>>

\* Option 8, manage_exclusions: its own loop of add / remove / clear / done.
EnterExclusions ==
    /\ pc' = "exclusions"
    /\ UNCHANGED <<status, listing, selected>>
    /\ Untouched
AddExclusion(p) ==
    /\ excluded' = excluded \cup {p}
    /\ UNCHANGED <<status, pc, stack, listing, selected, fs, external, doc>>
RemoveExclusion(p) ==
    /\ p \in excluded
    /\ excluded' = excluded \ {p}
    /\ UNCHANGED <<status, pc, stack, listing, selected, fs, external, doc>>
ClearExclusions ==
    /\ excluded' = {}
    /\ UNCHANGED <<status, pc, stack, listing, selected, fs, external, doc>>
ExclusionsDone ==
    /\ UNCHANGED selected
    /\ Untouched
    /\ BackToMenu

\* Bug variant: opening a directory that is not in the table.
OpenDirectoryAnyDir(d) ==
    /\ stack' = Append(stack, d)
    /\ pc' = "menu"
    /\ UNCHANGED <<selected, excluded, fs, external, doc>>
    /\ Rescan

\* Option 4: a listed directory (is_dir() checked now) is opened by a nested
\* call of navigate_directory, which scans it first.
OpenDirectory(d) ==
    /\ d \in listing.dirs
    /\ stack' = Append(stack, d)
    /\ pc' = "menu"
    /\ UNCHANGED <<selected, excluded, fs, external, doc>>
    /\ Rescan

\* Option 0 returns from the innermost navigate_directory: the caller's loop
\* scans its own directory again, or run() ends when there is no caller.
Back ==
    /\ stack' = Front(stack)
    /\ UNCHANGED <<pc, selected, excluded, fs, external, doc>>
    /\ IF Len(stack) = 1
       THEN /\ status' = "exited" /\ UNCHANGED listing
       ELSE Rescan

(***************************************************************************)
(* generate_normalized_file(base, name).  open(name, 'w') truncates the   *)
(* destination before the loop; then, for each selected path in sorted    *)
(* order: header (stat() for the size), then the content read as UTF-8,   *)
(* else as latin-1 after a warning line, else an [ERROR] line.  A path    *)
(* that stat() cannot find leaves a header without SIZE line, border or   *)
(* separator ("broken"), counted by the outer except.  A selected path   *)
(* that is the destination is read back as the part of the document      *)
(* written so far.                                                        *)
(***************************************************************************)
Utf8 == {"utf8", "nul_utf8", "agg"}
Truncated == [exists |-> TRUE, content |-> "agg", readable |-> TRUE]

Block(f, dest) ==
    LET st == IF f = dest THEN Truncated ELSE fs[f]
    IN  CASE f \in Dirs          -> [file |-> f, kind |-> "error", content |-> "none"]
          [] ~st.exists          -> [file |-> f, kind |-> "broken", content |-> "none"]
          [] ~st.readable        -> [file |-> f, kind |-> "error", content |-> "none"]
          [] st.content \in Utf8 -> [file |-> f, kind |-> "text", content |-> st.content]
          [] OTHER               -> [file |-> f, kind |-> "fallback", content |-> st.content]

\* successful_files / failed_files as the loop increments them.
KindCount(blocks, k) == Cardinality({i \in DOMAIN blocks : blocks[i].kind = k})
\* Bug variants: a failure path that does not count the file.
TallyNoInnerFailure(blocks) ==
    [success |-> KindCount(blocks, "text") + KindCount(blocks, "fallback"),
     failed  |-> KindCount(blocks, "broken")]
TallyNoOuterFailure(blocks) ==
    [success |-> KindCount(blocks, "text") + KindCount(blocks, "fallback"),
     failed  |-> KindCount(blocks, "error")]

Tally(blocks) ==
    [success |-> KindCount(blocks, "text") + KindCount(blocks, "fallback"),
     failed  |-> KindCount(blocks, "error") + KindCount(blocks, "broken")]

GeneratedDoc(dest) ==
    LET order  == SortedPaths(selected)
        blocks == [i \in 1..Len(order) |-> Block(order[i], dest)]
    IN  [written |-> TRUE, summary |-> TRUE, total |-> Cardinality(selected),
         success |-> Tally(blocks).success, failed |-> Tally(blocks).failed,
         kinds |-> {blocks[i].kind : i \in DOMAIN blocks},
         readsDest |-> \E i \in DOMAIN blocks : blocks[i].file = dest]

(***************************************************************************)
(* A document that stops at cut c: in the banner or tree (c = 0), inside  *)
(* the block of the c-th sorted path (its earlier blocks complete, its own *)
(* broken), or in the summary (c = n + 1).  Text buffered after the last  *)
(* successful flush is lost, so c is where the file on disk ends, not     *)
(* necessarily the write that failed.  Without a summary the counts are  *)
(* not kept.                                                              *)
(***************************************************************************)
Cuts == 0..(Cardinality(selected) + 1)
CutDoc(dest, c) ==
    LET order  == SortedPaths(selected)
        blocks == [i \in 1..(c - 1) |-> Block(order[i], dest)]
    IN  [written |-> TRUE, summary |-> FALSE, total |-> 0, success |-> 0, failed |-> 0,
         kinds |-> {blocks[i].kind : i \in DOMAIN blocks}
                   \cup (IF c \in DOMAIN order THEN {"broken"} ELSE {}),
         readsDest |-> \E i \in DOMAIN blocks : blocks[i].file = dest]

TruncateDest(dest) == IF dest \in Files THEN [fs EXCEPT ![dest] = Truncated] ELSE fs

(***************************************************************************)
(* The three outcomes of generate_normalized_file that return to the      *)
(* caller: open() fails ("Failed to create normalized file", nothing       *)
(* written); the document is written; or the disk fills up: every write   *)
(* from then on raises, the per-file except counts the remaining files as *)
(* failed, the summary and the final flush raise, and the outer except    *)
(* reports the failure, leaving the document cut.                         *)
(***************************************************************************)
GenerateNormalizedFile(dest) ==
    \/ /\ dest \in Unwritable
       /\ UNCHANGED <<fs, doc>>
    \/ /\ dest \notin Unwritable
       /\ doc' = GeneratedDoc(dest)
       /\ fs' = TruncateDest(dest)
    \/ /\ "disk_full" \in Aborts
       /\ dest \notin Unwritable
       /\ \E c \in Cuts : doc' = CutDoc(dest, c)
       /\ fs' = TruncateDest(dest)

\* "Exit after generation?": yes returns from the innermost
\* navigate_directory only (run() ends when it was the outermost); no
\* waits for Enter and goes back to the loop top.
AfterGenerate(leave) ==
    IF leave
    THEN /\ stack' = Front(stack)
         /\ IF Len(stack) = 1
            THEN /\ status' = "exited" /\ UNCHANGED <<pc, listing>>
            ELSE BackToMenu
    ELSE /\ UNCHANGED stack
         /\ BackToMenu

\* Option 9 with an empty selection: "No files selected", then continue to
\* the loop top.
GenerateRefused ==
    /\ selected = {}
    /\ UNCHANGED selected
    /\ Untouched
    /\ BackToMenu

\* Bug variant: option 9 without its empty-selection check.
GenerateNoEmptyCheck(dest, leave) ==
    /\ GenerateNormalizedFile(dest)
    /\ UNCHANGED <<excluded, external, selected>>
    /\ AfterGenerate(leave)

\* Option 9: generate, then ask whether to exit.
Generate(dest, leave) ==
    /\ selected # {}
    /\ GenerateNormalizedFile(dest)
    /\ UNCHANGED <<excluded, external, selected>>
    /\ AfterGenerate(leave)

(***************************************************************************)
(* Ctrl-C while the document is written: KeyboardInterrupt is not an      *)
(* Exception, so it passes generate_normalized_file's except clauses; the *)
(* with statement closes the file, cut where the interrupt came, and      *)
(* run()'s except KeyboardInterrupt says goodbye and returns.             *)
(***************************************************************************)
GenerateInterrupted(dest) ==
    /\ "interrupt" \in Aborts
    /\ selected # {}
    /\ dest \notin Unwritable
    /\ \E c \in Cuts : doc' = CutDoc(dest, c)
    /\ fs' = TruncateDest(dest)
    /\ status' = "exited"
    /\ UNCHANGED <<pc, stack, listing, selected, excluded, external>>

\* Ctrl-C at any prompt: run() catches KeyboardInterrupt and returns.
Interrupt ==
    /\ "interrupt" \in Aborts
    /\ status' = "exited"
    /\ UNCHANGED <<pc, stack, listing, selected, excluded, fs, external, doc>>

\* End of input at any prompt: input() and Prompt.ask raise EOFError, which
\* no handler catches before run()'s except Exception ("Unexpected error").
EndOfInput ==
    /\ "eof" \in Aborts
    /\ status' = "crashed"
    /\ UNCHANGED <<pc, stack, listing, selected, excluded, fs, external, doc>>

\* Option 4 that opens nothing: no directory listed, Enter to cancel, or a
\* number naming no directory (is_dir() asked now) or no number at all; the
\* loop goes back to its top.  A choice outside 0-9 does the same.
OpenDirectoryRefused ==
    /\ UNCHANGED selected
    /\ Untouched
    /\ BackToMenu

(***************************************************************************)
(* get_directory_path: a typed path that does not exist or is not a       *)
(* directory is reported and the prompt is asked again, which changes no  *)
(* state; a directory is returned, and run() calls navigate_directory on  *)
(* it, which scans it first.                                               *)
(***************************************************************************)
GetDirectoryPath(d) ==
    /\ stack' = <<d>>
    /\ pc' = "menu"
    /\ UNCHANGED <<selected, excluded, fs, external, doc>>
    /\ Rescan

\* Another program deletes, rewrites or changes the permissions of a file
\* while the user is at a prompt.
ExternalChange(f, st) ==
    /\ external < MaxExternal
    /\ fs[f].exists
    /\ st # fs[f]
    /\ st \in Rewrites \/ st = [fs[f] EXCEPT !.exists = FALSE]
    /\ fs' = [fs EXCEPT ![f] = st]
    /\ external' = external + 1
    /\ UNCHANGED <<status, pc, stack, listing, selected, excluded, doc>>

MenuStep ==
    \/ SelectAllText
    \/ SelectAllFiles
    \/ EnterIndividual
    \/ EnterIndividualLoop
    \/ \E r \in RegexPats : SelectByRegex(r)
    \/ RemoveSelection
    \/ ShowSelection
    \/ EnterExclusions
    \/ \E d \in Dirs : OpenDirectory(d)
    \/ OpenDirectoryRefused
    \/ Back
    \/ GenerateRefused
    \/ \E dest \in Dests, leave \in BOOLEAN : Generate(dest, leave)
    \/ \E dest \in Dests : GenerateInterrupted(dest)

IndividualStep ==
    \/ IndividualAll
    \/ IndividualText
    \/ \E t \in Typed : IndividualPick(PickedItems(ParsedInputs[t].indices))
    \/ IndividualDone

ExclusionsStep ==
    \/ \E p \in Patterns : AddExclusion(p)
    \/ \E p \in Patterns : RemoveExclusion(p)
    \/ ClearExclusions
    \/ ExclusionsDone

Next ==
    \/ /\ status = "running"
       /\ \/ pc = "path" /\ \E d \in StartDirs : GetDirectoryPath(d)
          \/ pc = "menu" /\ MenuStep
          \/ pc = "individual" /\ IndividualStep
          \/ pc = "exclusions" /\ ExclusionsStep
          \/ Interrupt
          \/ EndOfInput
    \/ /\ status = "running"
       /\ \E f \in Touched :
             \E st \in Rewrites \cup {[fs[f] EXCEPT !.exists = FALSE]} :
                 ExternalChange(f, st)

Spec == Init /\ [][Next]_vars

-----------------------------------------------------------------------------
TypeOK ==
    /\ status \in {"running", "exited", "crashed"}
    /\ pc \in {"path", "menu", "individual", "exclusions"}
    /\ stack \in Seq(Dirs) /\ Len(stack) <= Cardinality(Dirs)
    /\ listing \in Listings
    /\ selected \subseteq Nodes
    /\ excluded \subseteq Patterns
    /\ fs \in [Files -> FileState]
    /\ external \in 0..MaxExternal
    /\ doc \in Docs

(***************************************************************************)
(* The summary of a document, when it gets written, accounts for every    *)
(* path counted in its "Total Files" header: successes plus failures,     *)
(* whatever happened to the files between selection and generation       *)
(* (deleted, unreadable, not UTF-8, a directory, the destination itself). *)
(***************************************************************************)
SummaryAccountsForEveryFile ==
    doc.summary => doc.success + doc.failed = doc.total

(***************************************************************************)
(* select_individual_items: at the "Selection:" prompt every input acts on *)
(* exactly the listed items whose numbers its help text's syntax names    *)
(* ("1,3,5 or 1-5 for range"), counted from 1 over the directories and    *)
(* then the files of the table; a malformed input (InvalidSelectionSyntax)*)
(* and numbers outside the table act on none.  The split/strip/int parse, *)
(* the 1-based to 0-based shift and the bounds check on the table all     *)
(* have to agree for this to hold.                                        *)
(***************************************************************************)
NamedInputs == [t \in Typed |-> NamedNumbers(t)]
TypedNumbersPickNamedItems ==
    pc = "individual" =>
        \A t \in Typed :
            PickedItems(ParsedInputs[t].indices)
                = {AllItems[k] : k \in NamedInputs[t].numbers \cap 1..Len(AllItems)}

(***************************************************************************)
(* Properties the spec states of the code and that it does not keep; each *)
(* is checked by a run that expects a violation.                          *)
(***************************************************************************)

\* SelectionSet: files are added "only if isFile && isText", and
\* "directories are never stored as selected"; option 3 adds binaries,
\* input "all" of select_individual_items adds directories, and options 2,
\* 3, 5 and the inputs "all" and "text" add from the scan made before the
\* prompt, so a file deleted since then is added though no longer a file.
OnlyTextFilesAdded ==
    [][\A f \in selected' \ selected :
          f \in Files /\ fs[f].exists /\ IsTextFile(f)]_vars

\* Exclusion patterns: a rule like node_modules "excludes the directory
\* anywhere in the tree", so no file under such a directory is selected by
\* the recursive walks of add_directory_files and select_by_regex.
NoFileUnderExcludedDir ==
    [][\A f \in selected' \ selected :
          \A a \in Ancestors(f) \ {Root} :
              \A p \in excluded \ Malformed : a \notin NameMatch[p]]_vars

\* Error handling: "no operation in the core ever terminates the whole
\* process on a recoverable error"; malformed patterns "degrade to literal
\* matching".
NoCrash == status # "crashed"

\* AggregateWriter: in a document that gets its summary (generation did not
\* fail on the destination), a file that cannot be read gets an inline error
\* marker instead of content, inside a complete bordered block.
BlocksWellFormed == doc.summary => "broken" \notin doc.kinds

\* AggregateWriter: "creates/overwrites the destination; never deletes other
\* files" - the destination is never one of the files being aggregated.
OutputNotAmongSources ==
    doc.written => ~doc.readsDest

(***************************************************************************)
(* Refinement: the session implements the SelectionSet contract of        *)
(* spec.md.  Whatever the user does in the menus, the sub-loops and the   *)
(* nested directories, and whatever other programs do to the files, the   *)
(* selection only grows (options 2, 3, 5, select_individual_items) or is  *)
(* emptied by option 6; option 9 is refused on an empty selection, leaves *)
(* the selection alone, and either writes a header total equal to the     *)
(* size of the selection with a summary that splits it, or leaves a      *)
(* destination without a summary, which counts as no document.            *)
(***************************************************************************)
Contract == INSTANCE SelectionSet
    WITH Candidates <- Nodes,
         NoDocument <- [total |-> 0, success |-> 0, failed |-> 0],
         chosen <- selected,
         document <- IF doc.summary
                     THEN [total |-> doc.total, success |-> doc.success,
                           failed |-> doc.failed]
                     ELSE [total |-> 0, success |-> 0, failed |-> 0]

ImplementsSelectionSet == Contract!Spec
=============================================================================
