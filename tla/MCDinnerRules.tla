--------------------------- MODULE MCDinnerRules ---------------------------
(* Terms and ingredients that are alike: a salmon in Russian with and      *)
(* without its diacritic, a red onion with a space and with a hyphen, and  *)
(* kana, a chicken, in kananmuna, its egg.                                 *)
EXTENDS DinnerRules, TLC

kana == <<"k", "a", "n", "a">>
kananmuna == kana \o <<"n", "m", "u", "n", "a">>
semg == <<"s", "e", "m", "g">>
semga == semg \o <<"a">>
syomg == <<"s", "yo", "m", "g">>
syomga == syomg \o <<"a">>
red == <<"r", "e", "d">>
onion == <<"o", "n", "i", "o", "n">>
redOnion == red \o <<" ">> \o onion
redOnions == redOnion \o <<",", " ", "2">>
redOnionHyphened == red \o <<"-">> \o onion

MCLetters == {"a", "e", "d", "g", "i", "k", "m", "n", "o", "r", "s", "u", "yo", "2"}
MCSeparators == {" ", "-", ","}
MCFolded == "yo" :> "e" @@ [l \in MCLetters |-> l]
MCTerms == {semga, redOnion}
MCHouseholds == {2, 3}
MCKeywords == << [letters |-> kana, protein |-> "poultry"],
                 [letters |-> syomg, protein |-> "fish"],
                 [letters |-> semg, protein |-> "fish"] >>
MCDinners == {
    [ingredients |-> <<redOnions>>, protein |-> "vegetarian", servings |-> 8],
    [ingredients |-> <<kana, semga>>, protein |-> "poultry", servings |-> 5],
    [ingredients |-> <<redOnionHyphened, syomga>>, protein |-> "fish", servings |-> 4],
    [ingredients |-> <<kananmuna>>, protein |-> "vegetarian", servings |-> 8]}
=============================================================================
