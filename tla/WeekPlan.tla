------------------------------ MODULE WeekPlan ------------------------------
(***************************************************************************)
(* The household's weekly plan and its shopping list, as the three         *)
(* requests that write them see it:                                        *)
(*                                                                         *)
(*   generate    POST /generate                  GenerateWeek              *)
(*   swap        POST /generate/swap/{recipeID}  SwapRecipe                *)
(*   cook again  POST /archive/cook-again/{id}   CookAgain                 *)
(*                                                                         *)
(* Every request runs in a goroutine of its own.  The database pool holds  *)
(* one connection, so one SQL statement, or one transaction, is one step;  *)
(* but a request reads in one statement, waits for the language model, and *)
(* writes in another, and the requests interleave between these steps.     *)
(*                                                                         *)
(* Data that no property tells apart is left out: a recipe is its servings *)
(* and its source, a shopping list is the set of recipes it was built      *)
(* from.  The dislike and protein checks are an unknown outcome: they      *)
(* either pass or end the request (Fail).                                  *)
(*                                                                         *)
(* An operator with an underscore in its name, such as RebuiltList_AsRead, *)
(* is not the program: it is a slip one could make in the definition that  *)
(* follows it, kept to show which property would notice.                   *)
(***************************************************************************)
EXTENDS Integers

CONSTANTS
    Requests,        \* the requests: each runs one operation, once
    None,            \* the empty plan id ("")
    Servings,        \* the servings a model reply may claim for a recipe
    TargetPortions,  \* 7 * (adults + kids), the portions a week must cover
    OneAtATime       \* TRUE: a request starts only when no other is running

ASSUME NoneAssumption == None \notin Requests
ASSUME ServingsAssumption == Servings \subseteq Int /\ TargetPortions \in Int
ASSUME OneAtATimeAssumption == OneAtATime \in BOOLEAN

(* The three positions of recipe_ids. *)
Slots == 1 .. 3

(* A UUID is named by the request that assigns it: a generate request      *)
(* creates at most one plan, and any request at most one recipe per slot.  *)
PlanIds == Requests
RecipeIds == Requests \X Slots

(* A recipe row; source "none" is the row that does not exist (yet). *)
RecipeRows == [source : {"none", "llm", "history"}, servings : Servings \cup {0}]
NoRecipe == [source |-> "none", servings |-> 0]

VARIABLES
    recipe,     \* table recipe: the row of every id
    status,     \* table weekly_plan: no row, archived_at NULL, archived_at set
    recipeIDs,  \* table weekly_plan: recipe_ids, in slot order
    createdAt,  \* table weekly_plan: created_at
    list,       \* table shopping_list_item: the recipes a plan's rows add up
    clock,      \* the last created_at handed out
    pc,         \* where each request stands
    planID,     \* per request: previousID (generate), plan.ID (swap, cook again)
    seen,       \* per request: plan.RecipeIDs as the request read them
    idx,        \* per request: the slot of oldRecipeID in seen, 0 for none
    fresh       \* per request: the recipes in memory, not yet inserted

tables == <<recipe, status, recipeIDs, createdAt, list, clock>>
locals == <<planID, seen, idx, fresh>>
vars == <<recipe, status, recipeIDs, createdAt, list, clock, pc, planID, seen, idx, fresh>>

Phases == {"idle",        \* not received yet, or failed and to be tried again
           "generating",  \* GenerateWeek waits for the model
           "validated",   \* the reply passed, the list is built
           "replacing",   \* the plan to archive has been read
           "swapping",    \* SwapRecipe waits for the model
           "copying",     \* CookAgain has yet to read the recipe to copy
           "rotating",    \* the new recipe and list are in memory
           "done"}

InFlight == {r \in Requests : pc[r] \notin {"idle", "done"}}

TypeOK ==
    /\ recipe \in [RecipeIds -> RecipeRows]
    /\ status \in [PlanIds -> {"absent", "active", "archived"}]
    /\ recipeIDs \in [PlanIds -> [Slots -> RecipeIds]]
    /\ createdAt \in [PlanIds -> Nat]
    /\ list \in [PlanIds -> SUBSET RecipeIds]
    /\ clock \in Nat
    /\ pc \in [Requests -> Phases]
    /\ planID \in [Requests -> PlanIds \cup {None}]
    /\ seen \in [Requests -> [Slots -> RecipeIds]]
    /\ idx \in [Requests -> Slots \cup {0}]
    /\ fresh \in [Requests -> [Slots -> RecipeRows]]

(* The ids a request can assign, by slot; recipe_ids that nobody has read   *)
(* or written yet also start with them.                                    *)
OwnIDs(r) == [s \in Slots |-> <<r, s>>]

(* No recipe in memory. *)
Nothing == [s \in Slots |-> NoRecipe]

Init ==
    /\ recipe = [i \in RecipeIds |-> NoRecipe]
    /\ status = [p \in PlanIds |-> "absent"]
    /\ recipeIDs = [p \in PlanIds |-> OwnIDs(p)]
    /\ createdAt = [p \in PlanIds |-> 0]
    /\ list = [p \in PlanIds |-> {}]
    /\ clock = 0
    /\ pc = [r \in Requests |-> "idle"]
    /\ planID = [r \in Requests |-> None]
    /\ seen = [r \in Requests |-> OwnIDs(r)]
    /\ idx = [r \in Requests |-> 0]
    /\ fresh = [r \in Requests |-> Nothing]

-----------------------------------------------------------------------------
(* Reads of the tables. *)

Created(p) == status[p] # "absent"
Active(p) == status[p] = "active"
Exists(i) == recipe[i].source # "none"
RecipesOf(p) == {recipeIDs[p][s] : s \in Slots}

(* SELECT ... WHERE archived_at IS NULL ORDER BY created_at DESC LIMIT 1. *)
IsCurrent(p) ==
    /\ Active(p)
    /\ \A q \in PlanIds : Active(q) => createdAt[q] <= createdAt[p]
NoCurrent == \A p \in PlanIds : ~Active(p)

(* portionsCovered adds up the servings of three recipes. *)
Portions(servings) == servings[1] + servings[2] + servings[3]
PlanPortions(p) == Portions([s \in Slots |-> recipe[recipeIDs[p][s]].servings])

(* The slots that stay, and what the new recipe has to portion. *)
Kept(r) == Slots \ {idx[r]}
KeptServings(r) ==
    Portions([s \in Slots |-> IF s \in Kept(r) THEN recipe[seen[r][s]].servings ELSE 0])
TargetServings_OldCountsToo(r) ==
    TargetPortions - Portions([s \in Slots |-> recipe[seen[r][s]].servings])
TargetServings(r) ==
    IF TargetPortions - KeptServings(r) < 1 THEN 1 ELSE TargetPortions - KeptServings(r)

(* The id of the recipe a swap takes out. *)
OldRecipe(r) == seen[r][idx[r]]

-----------------------------------------------------------------------------
(* The parts of the two write transactions. *)

(* UPDATE the previous plan if it is still active, INSERT the new one. *)
StatusAfter_NotArchived(r, p) == IF p = r THEN "active" ELSE status[p]
StatusAfter_Deleted(r, p) ==
    IF p = r THEN "active" ELSE IF p = planID[r] THEN "absent" ELSE status[p]
StatusAfter(r, p) ==
    IF p = r THEN "active"
    ELSE IF p = planID[r] /\ Active(p) THEN "archived" ELSE status[p]

(* created_at is read inside the transaction. *)
Stamp_BeforeTx(r) == IF planID[r] = None THEN 1 ELSE createdAt[planID[r]] + 1
Stamp(r) == clock + 1

(* The slot of the old recipe, in the plan row as it is now. *)
SlotOfOld_AsRead(r, s) == s = idx[r]
SlotOfOld(r, s) == recipeIDs[planID[r]][s] = OldRecipe(r)

(* The id the new recipe gets. *)
NewID_OfKept(r) == seen[r][CHOOSE s \in Slots : s # idx[r]]
NewID(r) == <<r, idx[r]>>

(* recipe_ids as the transaction reads them, with one position replaced. *)
RotatedIDs_AsRead(r, s) == [seen[r] EXCEPT ![s] = NewID(r)]
RotatedIDs(r, s) == [recipeIDs[planID[r]] EXCEPT ![s] = NewID(r)]

(* INSERT of the one new recipe; the row of the old one stays. *)
InsertRecipe_Forgotten(r) == UNCHANGED recipe
InsertRecipe(r) == recipe' = [recipe EXCEPT ![NewID(r)] = fresh[r][idx[r]]]

(* The recipes the list was built from, before the transaction began. *)
RebuiltList_AsRead(r) == {seen[r][s] : s \in Slots}
RebuiltList(r) == {seen[r][s] : s \in Kept(r)} \cup {NewID(r)}

(* withTx: an error or a panic leaves the tables as they were. *)
RollBack_AfterArchive(r) ==
    /\ status' = IF pc[r] = "replacing" /\ planID[r] # None
                 THEN [status EXCEPT ![planID[r]] = "archived"] ELSE status
    /\ UNCHANGED <<recipe, recipeIDs, createdAt, list, clock>>
RollBack(r) == UNCHANGED tables

-----------------------------------------------------------------------------
(* The steps of a request. *)

MayStart(r) ==
    /\ pc[r] = "idle"
    /\ OneAtATime => InFlight = {}

(* The answer is sent; what the request replaced (seen, idx) is kept, for  *)
(* the properties to refer to.                                             *)
Finish(r) ==
    /\ pc' = [pc EXCEPT ![r] = "done"]
    /\ planID' = [planID EXCEPT ![r] = None]
    /\ fresh' = [fresh EXCEPT ![r] = Nothing]
    /\ UNCHANGED <<seen, idx>>

(* The handler has the household, the prompt is rendered, the model asked. *)
StartGenerate(r) ==
    /\ MayStart(r)
    /\ pc' = [pc EXCEPT ![r] = "generating"]
    /\ UNCHANGED <<tables, locals>>

(* Three recipes came back; they passed the checks, the list is built. *)
ReplyGenerate_TwoRecipes(r) ==
    /\ pc[r] = "generating"
    /\ \E servings \in [1 .. 2 -> Servings] :
         fresh' = [fresh EXCEPT ![r] =
                     [s \in 1 .. 2 |-> [source |-> "llm", servings |-> servings[s]]]]
    /\ pc' = [pc EXCEPT ![r] = "validated"]
    /\ UNCHANGED <<tables, planID, seen, idx>>
ReplyGenerate(r) ==
    /\ pc[r] = "generating"
    /\ \E servings \in [Slots -> Servings] :
         /\ Portions(servings) >= TargetPortions
         /\ fresh' = [fresh EXCEPT ![r] =
                        [s \in Slots |-> [source |-> "llm", servings |-> servings[s]]]]
    /\ pc' = [pc EXCEPT ![r] = "validated"]
    /\ UNCHANGED <<tables, planID, seen, idx>>

(* currentPlanID: a statement of its own, outside the transaction below. *)
ReadPrevious(r) ==
    /\ pc[r] = "validated"
    /\ \/ /\ NoCurrent
          /\ planID' = [planID EXCEPT ![r] = None]
       \/ \E p \in PlanIds :
            /\ IsCurrent(p)
            /\ planID' = [planID EXCEPT ![r] = p]
    /\ pc' = [pc EXCEPT ![r] = "replacing"]
    /\ UNCHANGED <<tables, seen, idx, fresh>>

(* One transaction: archive, INSERT three recipes, the plan and its items. *)
ArchiveAndCreateWeek(r) ==
    /\ pc[r] = "replacing"
    /\ status' = [p \in PlanIds |-> StatusAfter(r, p)]
    /\ recipe' = [i \in RecipeIds |-> IF i[1] = r THEN fresh[r][i[2]] ELSE recipe[i]]
    /\ recipeIDs' = [recipeIDs EXCEPT ![r] = OwnIDs(r)]
    /\ list' = [list EXCEPT ![r] = {<<r, s>> : s \in Slots}]
    /\ createdAt' = [createdAt EXCEPT ![r] = Stamp(r)]
    /\ clock' = clock + 1
    /\ Finish(r)

(* The handler reads the current plan; the old recipe is one of its three. *)
ReadPlan_AnyPlan(r, p, s) ==
    /\ Created(p)
    /\ planID' = [planID EXCEPT ![r] = p]
    /\ seen' = [seen EXCEPT ![r] = recipeIDs[p]]
    /\ idx' = [idx EXCEPT ![r] = s]
ReadPlan(r, p, s) ==
    /\ IsCurrent(p)
    /\ planID' = [planID EXCEPT ![r] = p]
    /\ seen' = [seen EXCEPT ![r] = recipeIDs[p]]
    /\ idx' = [idx EXCEPT ![r] = s]

StartSwap(r) ==
    /\ MayStart(r)
    /\ \E p \in PlanIds, s \in Slots : ReadPlan(r, p, s)
    /\ pc' = [pc EXCEPT ![r] = "swapping"]
    /\ UNCHANGED <<tables, fresh>>

(* One recipe came back with servings enough for what the kept ones leave. *)
ReplySwap(r) ==
    /\ pc[r] = "swapping"
    /\ \E n \in Servings :
         /\ n >= TargetServings(r)
         /\ fresh' = [fresh EXCEPT ![r][idx[r]] = [source |-> "llm", servings |-> n]]
    /\ pc' = [pc EXCEPT ![r] = "rotating"]
    /\ UNCHANGED <<tables, planID, seen, idx>>

StartCookAgain(r) ==
    /\ MayStart(r)
    /\ \E p \in PlanIds, s \in Slots : ReadPlan(r, p, s)
    /\ pc' = [pc EXCEPT ![r] = "copying"]
    /\ UNCHANGED <<tables, fresh>>

(* A stored recipe is copied into memory; nothing checks its servings. *)
CopySource(r) ==
    /\ pc[r] = "copying"
    /\ \E source \in RecipeIds :
         /\ Exists(source)
         /\ fresh' = [fresh EXCEPT ![r][idx[r]] =
                        [source |-> "history", servings |-> recipe[source].servings]]
    /\ pc' = [pc EXCEPT ![r] = "rotating"]
    /\ UNCHANGED <<tables, planID, seen, idx>>

(* One transaction: find the old recipe, INSERT the new one, rotate        *)
(* recipe_ids, replace the items.                                          *)
SwapRecipeInPlan(r) ==
    /\ pc[r] = "rotating"
    /\ Created(planID[r])
    /\ \E s \in Slots :
         /\ SlotOfOld(r, s)
         /\ recipeIDs' = [recipeIDs EXCEPT ![planID[r]] = RotatedIDs(r, s)]
    /\ InsertRecipe(r)
    /\ list' = [list EXCEPT ![planID[r]] = RebuiltList(r)]
    /\ Finish(r)
    /\ UNCHANGED <<status, createdAt, clock>>

(* Every error return (a check that fails, a recipe that is no longer in   *)
(* the plan), a cancelled or timed-out context, and the end of the         *)
(* process: what was in memory is gone.  The user may try again.           *)
Fail(r) ==
    /\ r \in InFlight
    /\ RollBack(r)
    /\ pc' = [pc EXCEPT ![r] = "idle"]
    /\ planID' = [planID EXCEPT ![r] = None]
    /\ seen' = [seen EXCEPT ![r] = OwnIDs(r)]
    /\ idx' = [idx EXCEPT ![r] = 0]
    /\ fresh' = [fresh EXCEPT ![r] = Nothing]

Start(r) == StartGenerate(r) \/ StartSwap(r) \/ StartCookAgain(r)
Proceed(r) ==
    \/ ReplyGenerate(r) \/ ReadPrevious(r) \/ ArchiveAndCreateWeek(r)
    \/ ReplySwap(r) \/ CopySource(r) \/ SwapRecipeInPlan(r)

Next == \E r \in Requests : Start(r) \/ Proceed(r) \/ Fail(r)

Spec == Init /\ [][Next]_vars

-----------------------------------------------------------------------------
(* What every interleaving of requests keeps. *)

(* Once a week has been generated the household always has an active plan: *)
(* ArchiveAndCreateWeek never leaves it between two plans, whatever fails. *)
ActivePlanRemains ==
    (\E p \in PlanIds : Created(p)) => \E p \in PlanIds : Active(p)

(* No dangling id: each recipe a plan, a shopping list or a request still  *)
(* waiting refers to has its row.                                          *)
ReferencesResolve ==
    /\ \A p \in PlanIds : Created(p) =>
         /\ \A i \in RecipesOf(p) : Exists(i)
         /\ \A i \in list[p] : Exists(i)
    /\ \A r \in Requests : idx[r] # 0 => \A s \in Slots : Exists(seen[r][s])

(* A recipe row stands in one slot of one plan: feedback given to it, or a *)
(* swap of it, cannot reach another week (cook again copies the recipe).   *)
RecipesNotShared ==
    \A p, q \in PlanIds : \A s, t \in Slots :
        Created(p) /\ Created(q) /\ <<p, s>> # <<q, t>>
            => recipeIDs[p][s] # recipeIDs[q][t]

(* Two requests that race for the same recipe do not both replace it: the  *)
(* transaction that comes second finds it gone.                            *)
OneWinnerPerRecipe ==
    \A r, q \in Requests :
        /\ r # q
        /\ pc[r] = "done" /\ pc[q] = "done"
        /\ idx[r] # 0 /\ idx[q] # 0
        => OldRecipe(r) # OldRecipe(q)

(* No update of recipe_ids is lost: every recipe stored is in a plan, or a *)
(* request that finished put another in its place.                         *)
NoRecipeLost ==
    \A i \in RecipeIds : Exists(i) =>
        \/ \E p \in PlanIds : Created(p) /\ i \in RecipesOf(p)
        \/ \E r \in Requests : pc[r] = "done" /\ idx[r] # 0 /\ OldRecipe(r) = i

(* History is append-only: a recipe row never changes or goes (a swap keeps *)
(* the row it takes out), an archived plan stays archived, a plan row stays.*)
HistoryKept ==
    [][/\ \A i \in RecipeIds : Exists(i) => recipe'[i] = recipe[i]
       /\ \A p \in PlanIds : Created(p) =>
            /\ status'[p] = status[p] \/ status'[p] = "archived"
            /\ createdAt'[p] = createdAt[p]]_vars

(* The current plan is the one generated last, even when generations       *)
(* overlap and more than one plan is active: it gives way only to a plan   *)
(* created in that very step, and that plan takes its place at once.       *)
LatestGenerationIsCurrent ==
    [][/\ \A p \in PlanIds : ~Created(p) /\ Created(p)' => IsCurrent(p)'
       /\ \A p \in PlanIds : IsCurrent(p) /\ ~IsCurrent(p)' =>
            \E q \in PlanIds : ~Created(q) /\ Created(q)']_vars

(* A swap whose plan nobody changed since it was read leaves the plan whole, *)
(* whatever earlier races did to it: the list is that of the three recipes,  *)
(* and, unless the user chose the recipe (cook again), they portion a week.  *)
UncontendedSwapHeals ==
    [][\A r \in Requests, p \in PlanIds :
         /\ pc[r] = "rotating" /\ pc'[r] = "done"
         /\ p = planID[r] /\ seen[r] = recipeIDs[p]
         => /\ list'[p] = RecipesOf(p)'
            /\ fresh[r][idx[r]].source = "llm"
                 => PlanPortions(p)' >= TargetPortions]_vars

-----------------------------------------------------------------------------
(* What the code says of the plan, and keeps when requests do not overlap. *)

(* "The single currently active plan per household". *)
SingleActivePlan ==
    \A p, q \in PlanIds : Active(p) /\ Active(q) => p = q

(* The shopping list is the list of the plan's three recipes. *)
ListMatchesRecipes ==
    \A p \in PlanIds : Created(p) => list[p] = RecipesOf(p)

(* The three recipes portion the week, unless the user put one of them     *)
(* there by cook again, which skips the check.                             *)
WeekPortioned ==
    \A p \in PlanIds : Created(p) =>
        \/ PlanPortions(p) >= TargetPortions
        \/ \E i \in RecipesOf(p) : recipe[i].source = "history"

(* An archived week is never written again: a swap replaces a recipe of    *)
(* the current plan.                                                       *)
ArchivedWeeksFrozen ==
    [][\A p \in PlanIds : status[p] = "archived" =>
         recipeIDs'[p] = recipeIDs[p] /\ list'[p] = list[p]]_vars

(* The promise to the household, with the tables read as a current week    *)
(* and the past ones.                                                      *)
WeekRow(p) == [name |-> p, dishes |-> recipeIDs[p], list |-> list[p]]

Promise == INSTANCE CurrentWeek WITH
    Weeks <- PlanIds, Dishes <- RecipeIds,
    current <- {WeekRow(p) : p \in {q \in PlanIds : IsCurrent(q)}},
    past <- {WeekRow(p) : p \in {q \in PlanIds : status[q] = "archived"}},
    served <- {i \in RecipeIds : Exists(i)}

(* One at a time, the requests implement CurrentWeek. *)
KeepsPromise == Promise!Spec
=============================================================================
