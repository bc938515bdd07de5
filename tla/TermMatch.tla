------------------------------ MODULE TermMatch ------------------------------
(***************************************************************************)
(* Does an ingredient mention a term?  Two answers are in the program: one *)
(* by words and their inflections (internal/shopping), for the dislikes of *)
(* a whole week and for staples, and one by substring, for the dislikes of *)
(* a swap.                                                                 *)
(*                                                                         *)
(* A text is what both start from: its characters, in lower case.  A       *)
(* letter with its diacritics counts as one character; digits are letters. *)
(***************************************************************************)
EXTENDS Naturals, SequencesExt

CONSTANTS
    Letters,    \* lower-case letters and digits, with and without diacritics
    Separators, \* other characters: space, hyphen, ...
    Folded      \* the letter without its diacritics

ASSUME LettersAssumption == Letters \cap Separators = {}
ASSUME FoldedAssumption == Folded \in [Letters -> Letters]

Texts == Seq(Letters \cup Separators)

(* Where the words of a text begin and end: as many letters as there are.  *)
Begins(text) == {i \in DOMAIN text : text[i] \in Letters /\ (i > 1 => text[i - 1] \notin Letters)}
Ends(text) == {i \in DOMAIN text : text[i] \in Letters /\ (i < Len(text) => text[i + 1] \notin Letters)}
Runs(text) ==
    {run \in Begins(text) \X Ends(text) :
        run[1] <= run[2] /\ \A k \in run[1] .. run[2] : text[k] \in Letters}

(* strings.Fields(Normalize(text)): the words, without diacritics. *)
Fold(word) == [k \in DOMAIN word |-> Folded[word[k]]]
Tokens(text) == {Fold(SubSeq(text, run[1], run[2])) : run \in Runs(text)}

minPrefixLen == 3

(* A short word must be there as it is.  A longer one may be the beginning *)
(* of a word of the text, or the other way round, or differ at its end.    *)
MatchAny(hay, needle) ==
    \E word \in hay :
        IF Len(needle) < minPrefixLen
        THEN word = needle
        ELSE \/ IsPrefix(needle, word)
             \/ Len(word) >= minPrefixLen /\ IsPrefix(word, needle)
             \/ Len(needle) > minPrefixLen /\ IsPrefix(Front(needle), word)

(* Every word of the term, in whatever order. *)
ContainsTerm(hay, needle) ==
    LET hayTokens == Tokens(hay)
        needleTokens == Tokens(needle)
    IN  needleTokens # {} /\ \A word \in needleTokens : MatchAny(hayTokens, word)

(* strings.Contains of the texts as they are; an empty term is skipped. *)
At(hay, n, needle) ==
    n + Len(needle) <= Len(hay) /\ \A k \in 1 .. Len(needle) : hay[n + k] = needle[k]
ContainsText(hay, needle) ==
    needle # <<>> /\ \E n \in 0 .. Len(hay) : At(hay, n, needle)

(* For comparison, not in the program.  A text names a term if the term    *)
(* stands in it as it was typed, and not inside a word; it has the term's  *)
(* words if they are there in whatever order, with whatever diacritics and *)
(* separators.  A term without a word ("!?") names nothing.                *)
HasWords(hay, needle) == Tokens(needle) # {} /\ Tokens(needle) \subseteq Tokens(hay)
Names(hay, needle) ==
    /\ Runs(needle) # {}
    /\ \E n \in 0 .. Len(hay) :
         /\ At(hay, n, needle)
         /\ n > 0 => hay[n] \notin Letters
         /\ n + Len(needle) < Len(hay) => hay[n + Len(needle) + 1] \notin Letters
=============================================================================
