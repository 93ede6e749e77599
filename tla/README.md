# TLA+ models of the codebase normalizer

The program is `src/normalized_code.py`, a single-threaded interactive CLI.
You browse a directory tree, build a set of selected files and write them
into one aggregate text file (`NormalizedFile.txt` by default). The modules
here model its control flow and its data handling. TLC checks them against
what `spec.md`, the code's comments and its help text say.

## 1. Inventory

### Components

| Component | Code | State | Operations |
|---|---|---|---|
| PatternMatcher | `match_pattern` 167-171, `should_exclude_path` 157-165 | none (pure) | wildcard → regex, anchored case-insensitive match on name or relative path |
| ExclusionRuleSet | `__init__` 58-67, `manage_exclusions` 512-563 | `excluded_patterns` | add, remove, clear, done |
| TextClassifier | `is_text_file` 134-155 | none (reads the file) | extension allow-list, MIME guess, NUL/UTF-8 probe of 1024 bytes |
| DirectoryScanner | `scan_directory` 173-208, rglob in 443-455 and 457-484 | none (reads the fs) | list children, filter exclusions, classify, swallow `PermissionError` |
| SelectionSet | `selected_files`, options 2/3/5/6, `select_individual_items` 341-441 | `selected_files` | add text files, add all files, add by indices or ranges, all, text, add by regex, clear |
| Session / menu loop | `get_directory_path` 89-110, `navigate_directory` 702-810, `run` 812-832, the number parse of `select_individual_items` 384-406 | Python call stack of nested `navigate_directory`, sub-loop | choose the start directory, scan at loop top, dispatch, parse typed numbers, recurse into a subdirectory, back, exit, Ctrl-C, end of input |
| AggregateWriter | `generate_normalized_file` 602-700 | the output file | truncate destination, tree, one block per sorted path, counters, summary |
| TreeRenderer | `generate_tree_structure` 565-600 | none | drop paths outside the base, group by parent, sort, connectors |
| format_size | 210-216 | none | bytes → B/KB/MB/GB/TB |
| Presentation | banner, `print_*`, `display_*`, menus, `main` | none | terminal output, argparse |

### How the parts interact

Each pass of the `navigate_directory` loop does these steps in order:
1. It scans the current directory with `scan_directory`, which filters entries through `should_exclude_path`/`match_pattern` and classifies them with `is_text_file`.
2. It shows the listing.
3. It runs one handler.

The handlers read the listing and also walk the tree themselves (`rglob`). They then change `selected_files` or `excluded_patterns`, recurse into a subdirectory, or run `generate_normalized_file`.

Generation reads the selected files and writes the output into the working directory. The next scan can therefore list the output file, and a later selection can include it.

Nothing runs concurrently inside the program. Its environment does change, though: other programs may delete, rewrite or chmod files between two prompts. The handlers use results obtained earlier (the listing scanned before the prompt, the selection) after the user answers.

### Hard behaviours

- **Stale listing.** The listing and the selection are used after the files they describe have changed.
- **Uncaught errors end the program.** Only `PermissionError` is caught in `scan_directory`. Any other error reaches `run()`, which prints it and returns. This includes `re.error` from a user's malformed exclusion pattern and `FileNotFoundError` from a vanished file.
- **Order of the `re.error` depends on hashing.** `should_exclude_path` returns at the first matching pattern while iterating a `set`. Whether a malformed pattern is reached before a good one that matches depends on hash order. The model makes this a nondeterministic choice: it must raise if no good pattern matches, and may raise otherwise.
- **Destination among the sources.** The output path is relative to the working directory and truncated before the sources are read.
- **Nested recursion.** Back, exit and the rescan after a nested call returns all depend on it.
- **Per-file failure paths.** Generation has several, and the summary counts must add up across all of them.
- **Wildcard translation.** `match_pattern` leaves `.` unescaped.

## 2. Modules

| Module | Components | Kind |
|---|---|---|
| `Normalizer.tla` | ExclusionRuleSet, TextClassifier, DirectoryScanner, SelectionSet, Session, AggregateWriter (counts and block kinds) | state machine of the session |
| `SelectionInput.tla` | Session (the typed numbers of option 1) | pure algorithm, and its reference |
| `SelectionSet.tla` | SelectionSet, AggregateWriter's result | abstract specification from spec.md, implemented by `Normalizer` |
| `PatternMatcher.tla` | PatternMatcher | pure algorithm against a reference |
| `DocumentLayout.tla` | TreeRenderer, format_size, AggregateWriter (block order) | pure algorithms against references |

### `Normalizer.tla`

**State**

| Variable | Code |
|---|---|
| `status` | `run()` running, returned normally, or ended by an uncaught error |
| `pc` | which loop is prompting: `get_directory_path`, menu, `select_individual_items`, `manage_exclusions` |
| `stack` | the directories of the nested `navigate_directory` calls |
| `listing` | `files_info` of the last scan |
| `selected` | `selected_files` |
| `excluded` | `excluded_patterns` |
| `fs` | each file's existence, content class and readability |
| `external` | how many changes other programs have made |
| `doc` | the last written document, abstracted |

The `doc` abstraction keeps:
- the header's total;
- the success and failure counters;
- the kinds of blocks (text, latin-1 fallback, error, broken);
- whether a source was the destination itself.

The counts that bulk selections print are console output and are not kept.

**Abstractions**

- The tree is a `Parent` function over numbered nodes. The numbering is the `sorted()` order of their paths.
- Pattern and regex matching are given as tables `NameMatch`, `PathMatch` and `RegexMatch` over a few patterns. `match_pattern` itself is checked separately in PatternMatcher.
- The typed numbers of `select_individual_items` are strings of the constant `Typed`, parsed by `SelectionInput`'s `ParseIndices`. `PickedItems` maps the indices onto `all_items` (`AllItems`: directories, then files) under the code's bounds check. The MC's `Typed` names every set of up to four items, plus edge inputs.
- A typed path that does not exist or is not a directory only re-prompts, which changes no state. So `GetDirectoryPath(d)` ranges over the directories in `StartDirs`.
- The rescan at the top of the loop (`Rescan`) is the last conjunct of every handler that returns to the menu. The model never shows a menu that the code would have rescanned. The code scans unconditionally at line 709, before every menu. An invariant that the table is fresh would only restate that assignment, so no run checks one.
- `should_exclude_path` iterates a `set`, so whether a malformed pattern raises before a good one matches depends on hash order. The model makes this a nondeterministic choice: it must raise if no good pattern matches, and may raise otherwise.
- When `re.error` escapes a recursive walk, the walk's earlier additions stay in the selection. rglob's order is the file system's, so the model lets that be any part of the walk's additions.

**Actions**

There is one action per handler or menu option. Each is the whole handler, with its early returns and error paths as disjuncts. Examples:
- `SelectByRegex`: invalid regex / normal / `re.error` from an exclusion pattern.
- `GenerateRefused` and `Generate`: empty selection / unwritable destination / written / cut by a full disk, then exit or continue (`AfterGenerate`).
- `GenerateInterrupted` and `Interrupt`: Ctrl-C while the document is written, or at any prompt. `KeyboardInterrupt` is not an `Exception`, so only `run()` catches it, and the program ends.
- `GetDirectoryPath(d)`: `run()` opens the first `navigate_directory` on a typed directory.
- `EndOfInput`: closed standard input. `input()` raises `EOFError` at the next prompt. Nothing catches it before `run()`'s `except Exception`, so the program ends as after any uncaught error.
- `OpenDirectoryRefused`: option 4 with no directory listed, cancelled, or given a number that names no directory; the loop scans again.
- `ExternalChange(f, st)`: another program deletes file `f` or leaves it in one of the states in `Rewrites`. It is bounded by `MaxExternal` and limited to the files in `Touched`.

**Cut documents.** A full disk (`Aborts` contains `"disk_full"`) makes every flush fail from some point on. The per-file except counts each remaining file as failed, and the final flush raises into the outer except, which reports the failure. Ctrl-C (`"interrupt"`) closes the file wherever it came. Either way the destination ends at a cut `c` (`CutDoc`): in the banner, inside the block of the c-th sorted path, or in the summary. Text buffered since the last flush is lost, so `c` is where the file ends, not which write failed. A cut document has no summary (`doc.summary` is false), and its counters are never written. So `SummaryAccountsForEveryFile` says nothing about cut documents. Both kinds of cut are reached, but no property tells a right cut document from a wrong one; the hazards at lines 697 and 824 say so.

**Refinement**

`Contract == INSTANCE SelectionSet WITH chosen <- selected, document <- (the counts of a document that has its summary, or a zero document)`. `ImplementsSelectionSet == Contract!Spec` is checked as a PROPERTY.

### `SelectionSet.tla`

This module states spec.md's contract for the selection and for generation, with no menus or files:
- `Add`: the selection grows by some candidates.
- `Clear`: the user empties the selection.
- `Generate`: refused on an empty selection. It writes a document whose header total is the size of the selection and whose summary splits that total into successes and failures. The selection does not change.
- `GenerateFails`: spec §7's DestinationWriteFailure. Nothing valid is left, and the selection does not change.

Which candidates may be added (text files only) is left open here; the `non_text_selected` run checks that.

### `SelectionInput.tla`

`ParseIndices` translates the parse at lines 384-401 on inputs written as character sequences:
- `Split` and `Strip` are `str.split` and `str.strip`;
- `IsRange` is the test "exactly one `-`";
- `IsNumeral` and `IntValue` are `int()` on digits and blanks;
- the result is a ValueError, or the set of 0-based indices.

The reference is `NamedNumbers`, the help text's "1,3,5 or 1-5" read as a grammar over tokens by a recursive descent (`Tokens`, `ItemList`). The session run checks `TypedNumbersPickNamedItems`: at the selection prompt, every input of `Typed` picks exactly the items whose 1-based numbers the reference names. The property covers both the parse and the bounds check of line 405, which has to discard the `0` that becomes index -1.

### `PatternMatcher.tla`

`Translate` and the recursive `RegexMatches` model `match_pattern` on names and patterns written as character sequences.

The reference is `GlobMatch`, the spec's shell wildcard. It is stated without recursion, as an assignment of name positions to pattern characters.

The state is a `(name, pattern)` pair that actions edit one character at a time. This makes TLC enumerate every pair up to the bounds.

### `DocumentLayout.tla`

**Paths.** A path is a sequence of components, and a component is a sequence of character codes.
- `StrLess` is Python's `str` order.
- `PathLess` is `PurePath` order: component lists compared element by element.
- `Str` is the full path string.

**Operators translated from the code**
- `BlockOrder`: the block loop of `generate_normalized_file`.
- `Tree`: `generate_tree_structure`, built from these parts:
  - `Inside` and `Rel`: `relative_to` and the `ValueError` skip;
  - `InsertedFiles` and `FirstSeen`: `dir_files` and its insertion order;
  - `LastKey`: `list(dir_files.keys())[-1]`;
  - `Group` and `Glyph`: the lines and connectors of each group.
- `FormatSize`: the unit loop (`UnitOf`) and `{:.1f}` rounding (`RoundHalfEven`). The divisions by 1024 are exact in binary floating point, so this arithmetic is exact. No run checks a property of it. The one edge it has, `1024.0 KB` for sizes just under 1 MiB, is allowed by the spec's wording ('until magnitude < 1024'). The other obvious property, rounding within half a tenth, holds for any round-to-nearest helper, so it would say nothing about this code.

**References**
- `SpecTree`: the tree spec.md describes.
- The string-sorted block order of spec.md.

**State.** The state is a selection plus one size. Actions add or remove one path or change the size.

## 3. Runs

| Run | Config | Expect | What it shows |
|---|---|---|---|
| session | `MC_Normalizer.cfg` | pass | `TypeOK`; `SummaryAccountsForEveryFile` (in a document that gets its summary, success + failed = Total Files on every failure path); `TypedNumbersPickNamedItems` (typed numbers and ranges select exactly the listed items they name); `ImplementsSelectionSet` (the refinement above, with a chosen start directory, and with Ctrl-C and end of input at prompts and while writing) |
| session_external | `MC_NormalizerExt.cfg` | pass | `SummaryAccountsForEveryFile` with another program deleting `a.py`, making it binary or making it unreadable between prompts, with a malformed exclusion pattern, and with the disk filling up while a document is written |
| non_text_selected | `MC_NormalizerOnlyTextFiles.cfg` | violation | option 3 adds binaries; input `all` adds directories; the bulk options add files deleted since the last scan |
| excluded_dir_walked | `MC_NormalizerExcludedDir.cfg` | violation | `rglob` selects `node_modules/x.js` |
| malformed_pattern_crash | `MC_NormalizerCrashPattern.cfg` | violation | exclusion `[` → `re.error` in the next scan → program ends |
| stale_selection_crash | `MC_NormalizerCrashStale.cfg` | violation | option 7 `stat()`s a deleted selected file → program ends |
| broken_block | `MC_NormalizerBrokenBlock.cfg` | violation | a vanished file leaves a block without SIZE line, border or marker |
| output_reads_itself | `MC_NormalizerOutputSource.cfg` | violation | `NormalizedFile.txt` from an earlier generation is selected, truncated and read back |
| wildcard | `MC_PatternMatcher.cfg` | pass | `match_pattern` = shell wildcard for dot-free patterns |
| wildcard_dot | `MC_PatternMatcherDot.cfg` | violation | pattern `.` matches name `a`, so `*.log` matches `blog` |
| layout | `MC_DocumentLayout.cfg` | pass | see below |
| path_order | `MC_DocumentLayoutOrder.cfg` | violation | blocks come out as `/r/a/b`, `/r/a-/b`; the spec's string order is the reverse |

The `layout` run checks two properties:
- `TreeListsEachFileUnderItsDirectory`: each file under the base has exactly one tree line, inside its own directory's group.
- `TreeOrderAsSpecified`: when no character sorts below `/`, the tree is the spec's tree line for line (connectors aside).

The findings in `PROJECT.json` say what each violation means for the code. Each property of a passing run also has a mutant, a plausible bug in the mapped code, and TLC must find the property violated when that mutant is used:
- `OpenDirectory` opening a directory that is not in the table (`OpenDirectoryAnyDir`, caught by `TypeOK`'s bound on the nesting depth);
- `Tally` without one of its two failure counters;
- option 9 without its empty-selection check (`GenerateNoEmptyCheck`, caught by the refinement);
- `RegexMatches` without the `$` anchor;
- `dir_files[dir_path] = []` on every file;
- iterating `dir_files` in insertion order;
- Python's negative indexing let through by the bounds check (`PickedItemsNegative`).

### Bounds and why they suffice

**Tree T** (session and most violation runs) has seven nodes. It holds one of each kind of node the code tells apart:
- a root with a text file, a binary file, an excluded `node_modules` directory holding a file, and a plain subdirectory holding a latin-1 text file;
- so there are two levels of nesting, a default exclusion, both `is_text_file` outcomes and both decode paths.

**Inputs**

- Patterns: `node_modules`, `*.txt` and the malformed `[`.
- Regexes: `py$`, `x` and the invalid `(`.
- Destinations:
  - a selectable source file;
  - a path outside the tree;
  - an unwritable path.

**Tree U** adds the default output file as an initially absent node, so a generation can create it.

**Typed** has two parts. The first is every nonempty subset of 1-4 as a comma list. The second is edge inputs: `0`, `5`, `1-5`, `2-1`, ` 2 - 3`, `01`, `1 2`, `-1`, `1,` and `1-2-3`.

**StartDirs** is every directory in the session run, and the root elsewhere. `NoFileUnderExcludedDir` measures from the root.

**session** adds Ctrl-C and end of input (`Aborts = {"interrupt", "eof"}`); **session_external** adds a full disk (`Aborts = {"disk_full"}`) instead, since each doubles the state space.

**session_external** trims the inputs and allows one external change to `a.py`. That is enough for every "checked, then changed, then used" window: after the scan, after the selection, before generation. `a.py` is the file every selection option reaches, and its three changes lead to the three failure paths of a block. A second change, or a second touched file, multiplies the state space several times and reaches no new kind of window.

**PatternMatcher**
- Names of up to 3 characters over `a`, `B` and `.`. The upper-case `B` exercises case folding.
- Patterns of up to 3 characters over `a`, `b`, `.`, `*` and `?`.
- This covers a star matching an empty run, a nonempty run and the whole name, and the anchoring at both ends.

**DocumentLayout**

The base is `/r`. The seven paths are:
- `r/b` and `r/c`: two files of `.`, which `dir_files` receives after the subdirectories (the spec's open question on the connector of a multi-file `.` group);
- `r/a/b` and `r/a/c`: two files of one directory;
- `r/a/a/b`: a directory that Path order puts between `a` and `a-`;
- `r/a-/b`: the `-` that separates Path order from string order;
- `q/b`: a path outside the base.

Every one of their 128 subsets is checked.

The sizes lie on each side of the KB and MB boundaries, plus one that rounds to `1024.0 KB`. They are kept so that `FormatSize` can be evaluated on them. TLC's integers have 32 bits, so sizes stay below 2^27 and the GB and TB branches are not reached.

### Fairness

None is assumed, and no liveness property is checked. Every step is the user answering a prompt. The code cannot force any answer, so nothing must eventually happen. The program stops only when the user exits or an error ends it. The Normalizer configs therefore disable deadlock checking: a stopped program is a final state, not a deadlock.

## 4. Not modelled

- **Presentation.** Banner, tables, menus, colours, `clear_screen` and `main`'s argparse. `get_directory_path`'s re-prompts are modelled only as the absence of a step. They print and read input, and change no state the properties talk about.
- **Printed counts and messages.** The counts that bulk selections print, and the wording of errors, are output only. The double count of `select_by_regex` (line 479) and its "Invalid regex" message after partial additions (line 483) are listed as hazards without a property for this reason.
- **Huge ranges.** `Typed` holds short inputs only. The unbounded list that a huge range builds is listed as a hazard.
- **The text of the document.** Header, footer, border lines, timestamps. `DocumentLayout` keeps the order of blocks and the tree lines; `Normalizer` keeps the counts and block kinds.
- **A write error that clears again within one generation.** The disk-full fault is persistent: once a flush fails, every later one does. If room came back before the summary, the summary would reach the file with the file whose separator failed counted both as a success and as a failure (line 678). That case is not reached.
- **Option 4's `except ValueError` around the nested `navigate_directory`.** It needs terminal output and name encoding, neither of which is modelled. It is listed as a hazard (line 766).
- **A file deleted between `is_file()` and `stat()` inside one scan.** A scan is one step, so no external change falls inside it (hazard at line 184).
- **format_size above 2^27 bytes.** TLC's 32-bit integers do not reach it.

## 5. Plan for the remaining work

In order of importance:

1. Done:
   - the session model (`Normalizer`) with its refinement of `SelectionSet`;
   - `match_pattern` (`PatternMatcher`);
   - the document layout (`DocumentLayout`).
2. Done: the start directory prompt, the typed-number parse (`SelectionInput`), end of input, Ctrl-C and a full disk during generation, option 4's refusals, the contract's DestinationWriteFailure, and a second root-level file in `DocumentLayout`.
3. A variable recording the message each handler prints, so that two spec statements can be checked:
   - `select_by_regex`'s "Invalid regex" after partial additions (spec: an invalid pattern adds nothing);
   - the printed counts.
   Each needs a run expecting a violation.
4. "Exit after generation?" at nesting depth two or more returns to the parent directory's menu. This needs a property once the intended meaning is settled; spec.md does not say.
5. Composing `DocumentLayout` with `Normalizer`: the layout of the document that `GeneratedDoc` writes for tree T.
