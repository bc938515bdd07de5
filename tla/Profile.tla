------------------------------ MODULE Profile ------------------------------
(***************************************************************************)
(* What the settings screens promise about a household: it has one profile; *)
(* saving the form changes the language and the family size and nothing     *)
(* else; a list of ingredients gains or loses one word at a time and holds  *)
(* no word twice, however it is spelled; onboarding, once over, is over.    *)
(*                                                                         *)
(* Household implements it when requests come one at a time.               *)
(***************************************************************************)
CONSTANTS Languages, Sizes, Words, Spellings,
          Defaults   \* the profiles a household may start with

VARIABLE profile   \* the profile, in a set that is empty before there is one

Lists == {"disliked", "pantry"}

(* The spellings of a word that a list holds. *)
SpellingsIn(p, list, word) == {t \in p[list] : t[1] = word}

Init == profile = {}

Open == profile = {} /\ \E p \in Defaults : profile' = {p}

Save ==
    \E p \in profile, lang \in Languages, size \in Sizes :
        profile' = {[p EXCEPT !.language = lang, !.size = size]}

CompleteOnboarding ==
    \E p \in profile : profile' = {[p EXCEPT !.onboarded = TRUE]}

Add ==
    \E p \in profile, list \in Lists, word \in Words, spelling \in Spellings :
        /\ SpellingsIn(p, list, word) = {}
        /\ profile' = {[p EXCEPT ![list] = @ \cup {<<word, spelling>>}]}

Remove ==
    \E p \in profile, list \in Lists, word \in Words :
        profile' = {[p EXCEPT ![list] = @ \ SpellingsIn(p, list, word)]}

Next == Open \/ Save \/ CompleteOnboarding \/ Add \/ Remove

Spec == Init /\ [][Next]_profile
=============================================================================
