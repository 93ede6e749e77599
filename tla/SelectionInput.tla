--------------------------- MODULE SelectionInput ---------------------------
(***************************************************************************)
(* The numbers typed at select_individual_items' "Selection:" prompt      *)
(* (src/normalized_code.py), once "done", "all" and "text" are ruled out: *)
(* the input is split at ',', each part stripped, a part with exactly one *)
(* '-' read as a range "start-end" and any other part as one number, and  *)
(* int() raising ValueError on anything that is not a numeral.  The       *)
(* numbers become 0-based indices, duplicates removed.                     *)
(*                                                                         *)
(* A typed string is a sequence of one-character strings over digits,    *)
(* '-', ',' and ' ' (the input is lower-cased first, so no other case    *)
(* matters here).                                                          *)
(***************************************************************************)
EXTENDS Integers, Sequences, SequencesExt

Numerals == <<"0", "1", "2", "3", "4", "5", "6", "7", "8", "9">>
IsDigit(c) == Contains(Numerals, c)
DigitValue(c) == SelectInSeq(Numerals, LAMBDA x : x = c) - 1

\* str.strip(): blanks removed at both ends.
Strip(s) ==
    LET kept == {i \in DOMAIN s : s[i] # " "}
    IN  IF kept = {} THEN <<>> ELSE SubSeq(s, Min(kept), Max(kept))

\* str.split(c): the pieces between the occurrences of c.
RECURSIVE Split(_, _)
Split(s, c) ==
    LET i == SelectInSeq(s, LAMBDA x : x = c)
    IN  IF i = 0 THEN <<s>>
        ELSE <<SubSeq(s, 1, i - 1)>> \o Split(SubSeq(s, i + 1, Len(s)), c)

\* int(s) for these characters: surrounding blanks are ignored, and what is
\* left must be one or more digits (a sign never reaches int() here: a
\* part with one '-' is a range, and one with more has no numeral).
IsNumeral(s) == Strip(s) # <<>> /\ \A i \in DOMAIN Strip(s) : IsDigit(Strip(s)[i])
IntValue(s) == FoldLeft(LAMBDA n, c : 10 * n + DigitValue(c), 0, Strip(s))

\* "if '-' in part and part.count('-') == 1".
IsRange(part) == Cardinality({i \in DOMAIN part : part[i] = "-"}) = 1

\* Whether int() accepts one stripped part, and the numbers it contributes:
\* range(start, end + 1), or the number itself.
PartParses(part) ==
    IF IsRange(part)
    THEN IsNumeral(Split(part, "-")[1]) /\ IsNumeral(Split(part, "-")[2])
    ELSE IsNumeral(part)
PartNumbers(part) ==
    IF IsRange(part)
    THEN IntValue(Split(part, "-")[1])..IntValue(Split(part, "-")[2])
    ELSE {IntValue(part)}

\* The parse: raises ValueError ("Invalid input") when a part fails, before
\* any index is acted on; else "indices = list(set(idx - 1 for idx in
\* indices))".
ParseIndices(typed) ==
    LET parts == [i \in DOMAIN Split(typed, ",") |-> Strip(Split(typed, ",")[i])]
        ok    == \A i \in DOMAIN parts : PartParses(parts[i])
    IN  [valueError |-> ~ok,
         indices    |-> IF ok THEN {k - 1 : k \in UNION {PartNumbers(parts[i]) : i \in DOMAIN parts}}
                        ELSE {}]

-----------------------------------------------------------------------------
(***************************************************************************)
(* The reference: what the prompt's help text offers, "Enter numbers:     *)
(* 1,3,5 or 1-5 for range", read as a grammar over tokens.  A token is a *)
(* maximal run of digits, '-' or ','; blanks only separate tokens.  An   *)
(* input is a list of items separated by ',', an item a number or two    *)
(* numbers joined by '-'.  Anything else is InvalidSelectionSyntax (spec  *)
(* section 7), which names no number.                                     *)
(***************************************************************************)
Invalid == [invalid |-> TRUE, numbers |-> {}]
Named(S) == [invalid |-> FALSE, numbers |-> S]

RECURSIVE Tokens(_)
Tokens(s) ==
    IF s = <<>> THEN <<>>
    ELSE IF Head(s) = " " THEN Tokens(Tail(s))
    ELSE IF ~IsDigit(Head(s)) THEN <<[sym |-> Head(s), val |-> 0]>> \o Tokens(Tail(s))
    ELSE LET stop == SelectInSeq(s, LAMBDA c : ~IsDigit(c))
             run  == IF stop = 0 THEN s ELSE SubSeq(s, 1, stop - 1)
         IN  <<[sym |-> "num", val |-> IntValue(run)]>>
             \o Tokens(SubSeq(s, Len(run) + 1, Len(s)))

Is(ts, i, sym) == i \in DOMAIN ts /\ ts[i].sym = sym

\* The numbers an item list names, or Invalid.
RECURSIVE ItemList(_)
ItemList(ts) ==
    LET width == IF Is(ts, 2, "-") /\ Is(ts, 3, "num") THEN 3 ELSE 1
        item  == IF width = 3 THEN ts[1].val..ts[3].val ELSE {ts[1].val}
        rest  == IF Is(ts, width + 1, ",")
                 THEN ItemList(SubSeq(ts, width + 2, Len(ts))) ELSE Invalid
    IN  CASE ~Is(ts, 1, "num")  -> Invalid
          [] Len(ts) = width    -> Named(item)
          [] rest.invalid       -> Invalid
          [] OTHER              -> Named(item \cup rest.numbers)

NamedNumbers(typed) == ItemList(Tokens(typed))
=============================================================================
