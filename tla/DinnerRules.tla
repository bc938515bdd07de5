---------------------------- MODULE DinnerRules ----------------------------
(***************************************************************************)
(* What a dinner must be like to get into the week: nothing that the       *)
(* household dislikes, portions for seven days, and two sorts of protein.  *)
(* GenerateWeek checks the three recipes of a reply; SwapRecipe checks one *)
(* against the two that are kept; CookAgain checks nothing.                *)
(*                                                                         *)
(* The two sets of checks are not the same code.  The week is searched for *)
(* disliked words in any spelling and inflection, the swap for what the    *)
(* household typed, character for character.  The week goes by the         *)
(* proteins the model names; they are not stored, so the swap has to guess *)
(* those of the kept recipes from their ingredients.                       *)
(*                                                                         *)
(* One request at a time, beside a household that edits its profile: what  *)
(* overlapping requests do to each other is WeekPlan's matter, calls and   *)
(* their errors are Generation's.                                          *)
(*                                                                         *)
(* An operator with an underscore in its name is not the program, but a    *)
(* slip in the definition that follows it.                                 *)
(***************************************************************************)
EXTENDS TermMatch

CONSTANTS
    Terms,      \* what may be disliked
    Households, \* how many people eat
    Dinners,    \* the recipes the model may reply
    Keywords    \* inferProtein's cases in order: letters and the protein they mean

Unknown == ""
Slots == 1 .. 3
NoWeek == <<>>

ASSUME HouseholdsAssumption == Households \subseteq Nat
ASSUME TermsAssumption == Terms \subseteq Texts
ASSUME DinnersAssumption == \A d \in Dinners : d.servings \in Nat /\ d.ingredients \in Seq(Texts)

VARIABLES
    disliked,   \* the profile
    people,
    plan,       \* the recipes of the current week, with the protein the model named
    op,         \* the request that runs, or "none"
    asked,      \* the profile it has read
    slot,       \* the recipe to replace
    attempt     \* round of the dislike loop

vars == <<disliked, people, plan, op, asked, slot, attempt>>

TypeOK ==
    /\ disliked \subseteq Terms
    /\ people \in Households
    /\ plan \in [Slots -> Dinners] \cup {NoWeek}
    /\ op \in {"none", "generate", "swap", "cookAgain"}
    /\ asked \in [disliked : SUBSET Terms, people : Households]
    /\ slot \in Slots
    /\ attempt \in 1 .. 3

Init ==
    /\ disliked = {}
    /\ people \in Households
    /\ plan = NoWeek
    /\ op = "none"
    /\ asked = [disliked |-> {}, people |-> people]
    /\ slot = 1
    /\ attempt = 1
-----------------------------------------------------------------------------
Ingredients(dinner) == {dinner.ingredients[i] : i \in DOMAIN dinner.ingredients}
Kept == {plan[i] : i \in Slots \ {slot}}

(* The week's check, and the swap's. *)
dislikeViolations(week) ==
    {t \in asked.disliked :
        \E i \in Slots : \E name \in Ingredients(week[i]) : ContainsTerm(name, t)}
dislikeViolationsRecipe_FirstOnly(dinner) ==
    {t \in asked.disliked : ContainsText(dinner.ingredients[1], t)}
dislikeViolationsRecipe(dinner) ==
    {t \in asked.disliked : \E name \in Ingredients(dinner) : ContainsText(name, t)}

targetPortions(n) == 7 * n
Servings(week) == week[1].servings + week[2].servings + week[3].servings
portionsCovered(week) == Servings(week) >= targetPortions(asked.people)

(* What the replacement has to serve: at least one portion. *)
targetServings_All ==
    LET left == Servings(plan) IN
    IF targetPortions(asked.people) > left THEN targetPortions(asked.people) - left ELSE 1
targetServings ==
    LET left == Servings(plan) - plan[slot].servings IN
    IF targetPortions(asked.people) > left THEN targetPortions(asked.people) - left ELSE 1

TwoOf(proteins) == \E a, b \in proteins \ {Unknown} : a # b
hasProteinVariety(week) == TwoOf({week[i].protein : i \in Slots})

(* The first ingredient with a keyword decides; of its keywords the first. *)
inferProtein(dinner) ==
    LET Has(i, k) == ContainsText(dinner.ingredients[i], Keywords[k].letters)
        hits == {i \in DOMAIN dinner.ingredients : \E k \in DOMAIN Keywords : Has(i, k)}
    IN  IF hits = {} THEN Unknown
        ELSE LET i == CHOOSE i \in hits : \A j \in hits : i <= j
                 k == CHOOSE k \in DOMAIN Keywords :
                        Has(i, k) /\ \A l \in DOMAIN Keywords : Has(i, l) => k <= l
             IN  Keywords[k].protein
swapHasProteinVariety_CountsOld(dinner) ==
    TwoOf({dinner.protein} \cup {inferProtein(plan[i]) : i \in Slots})
swapHasProteinVariety(dinner) ==
    TwoOf({dinner.protein} \cup {inferProtein(d) : d \in Kept})
-----------------------------------------------------------------------------
(* The settings forms. *)
EditProfile ==
    /\ disliked' \in SUBSET Terms
    /\ people' \in Households
    /\ UNCHANGED <<plan, op, asked, slot, attempt>>

(* The handler reads the profile and, to replace a recipe, the plan. *)
Begin(o, i) ==
    /\ op = "none"
    /\ IF o = "generate" THEN i = 1 ELSE plan # NoWeek
    /\ op' = o
    /\ asked' = [disliked |-> disliked, people |-> people]
    /\ slot' = i
    /\ attempt' = 1
    /\ UNCHANGED <<disliked, people, plan>>

(* The request ends, and its locals are gone. *)
End(week) ==
    /\ op' = "none"
    /\ plan' = week
    /\ asked' = [disliked |-> {}, people |-> people]
    /\ slot' = 1
    /\ attempt' = 1
    /\ UNCHANGED <<disliked, people>>

maxDislikeRetries == 2
Retry(times) ==
    IF attempt <= times
    THEN attempt' = attempt + 1 /\ UNCHANGED <<disliked, people, plan, op, asked, slot>>
    ELSE End(plan)

(* GenerateWeek, from a reply of the model on. *)
WeekReplied ==
    /\ op = "generate"
    /\ \E week \in [Slots -> Dinners] :
         IF dislikeViolations(week) # {}
         THEN Retry(maxDislikeRetries)
         ELSE IF portionsCovered(week) /\ hasProteinVariety(week) THEN End(week) ELSE End(plan)

(* SwapRecipe: one retry. *)
DinnerReplied ==
    /\ op = "swap"
    /\ \E dinner \in Dinners :
         IF dislikeViolationsRecipe(dinner) # {}
         THEN Retry(1)
         ELSE IF dinner.servings >= targetServings /\ swapHasProteinVariety(dinner)
              THEN End([plan EXCEPT ![slot] = dinner]) ELSE End(plan)

(* CookAgain: any recipe of this or an earlier week, unchecked. *)
DinnerCopied ==
    /\ op = "cookAgain"
    /\ \E dinner \in Dinners : End([plan EXCEPT ![slot] = dinner])

(* Any other error of a request. *)
Fail == op # "none" /\ End(plan)

Next ==
    \/ EditProfile
    \/ \E o \in {"generate", "swap", "cookAgain"}, i \in Slots : Begin(o, i)
    \/ WeekReplied \/ DinnerReplied \/ DinnerCopied \/ Fail

Spec == Init /\ [][Next]_vars
-----------------------------------------------------------------------------
ByTheModel == op \in {"generate", "swap"} /\ plan' # plan
New(i) == op = "generate" \/ i = slot

(* Whichever of the two checks a reply meets, in whatever round: a recipe  *)
(* that names a term the household disliked when it asked, as it typed it, *)
(* does not get into the week.  From a whole new week it also stays out in *)
(* another spelling; a swap lets that pass ("red-onion" for "red onion").  *)
NothingForbidden ==
    [][ByTheModel =>
         \A i \in Slots : New(i) =>
           \A t \in asked.disliked, name \in Ingredients(plan'[i]) :
             ~Names(name, t) /\ (op = "generate" => ~HasWords(name, t))]_vars

(* What the model names as protein is forgotten once a week is stored.     *)
(* Even so a swap leaves two sorts in the week, if no ingredient suggests  *)
(* another protein than the recipe has.                                    *)
VarietyStands ==
    [][ByTheModel /\ (\A i \in Slots : inferProtein(plan'[i]) \in {Unknown, plan'[i].protein})
         => hasProteinVariety(plan')]_vars

(* A swap makes the week enough for everybody who eats at that time, even  *)
(* if more do than when it was planned, and after a recipe was cooked      *)
(* again that serves fewer.                                                *)
PortionsStand ==
    [][ByTheModel => Servings(plan') >= targetPortions(asked.people)]_vars
=============================================================================
