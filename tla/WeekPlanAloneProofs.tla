------------------------ MODULE WeekPlanAloneProofs ------------------------
(***************************************************************************)
(* What the requests of WeekPlan keep when they come one at a time: the    *)
(* claims of the code that overlapping requests can break.                 *)
(***************************************************************************)
EXTENDS WeekPlanProofs

USE DEF PlanIds

(* At most one request is running. *)
Alone == \A r, q \in InFlight : r = q

(* What a request has read of the plan is still so. *)
Snapshot ==
    \A r \in Requests :
        /\ pc[r] = "replacing" => \A p \in PlanIds : Active(p) => p = planID[r]
        /\ pc[r] \in {"swapping", "copying", "rotating"} =>
             Active(planID[r]) /\ seen[r] = recipeIDs[planID[r]]

(* A validated week portions the seven days. *)
WeekReady ==
    \A r \in Requests : pc[r] \in {"validated", "replacing"} =>
        Portions([s \in Slots |-> fresh[r][s].servings]) >= TargetPortions

SInv ==
    /\ Alone
    /\ Snapshot
    /\ WeekReady
    /\ SingleActivePlan
    /\ ListMatchesRecipes
    /\ WeekPortioned

LEMMA AloneInit == Init => SInv
<1> SUFFICES ASSUME Init PROVE SInv
  OBVIOUS
<1>1. InFlight = {} /\ \A r \in Requests : pc[r] = "idle"
  BY DEF Init, InFlight
<1>2. \A p \in PlanIds : ~Created(p) /\ ~Active(p)
  BY DEF Init, Created, Active
<1> QED
  BY <1>1, <1>2
  DEF SInv, Alone, Snapshot, WeekReady, SingleActivePlan, ListMatchesRecipes, WeekPortioned

LEMMA AloneNext ==
    ASSUME OneAtATime, TypeOK, Alone, [Next]_vars PROVE Alone'
<1>1. CASE UNCHANGED vars
  BY <1>1 DEF vars, Alone, InFlight
<1>2. ASSUME NEW r \in Requests, Start(r) PROVE Alone'
  <2>1. InFlight = {} /\ pc' = [pc EXCEPT ![r] = pc'[r]]
    BY <1>2 DEF TypeOK, Start, StartGenerate, StartSwap, StartCookAgain, MayStart
  <2>2. \A q \in Requests : q # r => q \notin InFlight'
    BY <2>1 DEF TypeOK, InFlight
  <2> QED
    BY <2>2 DEF Alone, InFlight
<1>3. ASSUME NEW r \in Requests, Proceed(r) \/ Fail(r) PROVE Alone'
  <2>1. /\ r \in InFlight
        /\ pc' = [pc EXCEPT ![r] = pc'[r]]
    BY <1>3
    DEF TypeOK, Proceed, ReplyGenerate, ReadPrevious, ArchiveAndCreateWeek, ReplySwap,
        CopySource, SwapRecipeInPlan, Fail, Finish, InFlight
  <2>2. \A q \in Requests : q \in InFlight' => q \in InFlight
    BY <2>1 DEF TypeOK, InFlight
  <2> QED
    BY <2>2 DEF Alone, InFlight
<1> QED
  BY <1>1, <1>2, <1>3 DEF Next

LEMMA ReadyNext == TypeOK /\ WeekReady /\ [Next]_vars => WeekReady'
<1> SUFFICES ASSUME TypeOK, WeekReady, [Next]_vars PROVE WeekReady'
  OBVIOUS
<1>1. CASE UNCHANGED vars
  BY <1>1 DEF vars, WeekReady
<1>2. ASSUME NEW r \in Requests, ReplyGenerate(r) PROVE WeekReady'
  <2>1. PICK servings \in [Slots -> Servings] :
          /\ Portions(servings) >= TargetPortions
          /\ fresh' = [fresh EXCEPT ![r] =
                         [s \in Slots |-> [source |-> "llm", servings |-> servings[s]]]]
    BY <1>2 DEF ReplyGenerate
  <2>2. \A s \in Slots : fresh'[r][s].servings = servings[s]
    BY <2>1 DEF TypeOK
  <2>3. Portions([s \in Slots |-> fresh'[r][s].servings]) = Portions(servings)
    BY <2>2 DEF Portions, Slots
  <2>4. \A q \in Requests : q # r => pc'[q] = pc[q] /\ fresh'[q] = fresh[q]
    BY <1>2, <2>1 DEF ReplyGenerate, TypeOK
  <2>5. ASSUME NEW q \in Requests, pc'[q] \in {"validated", "replacing"}
        PROVE  Portions([s \in Slots |-> fresh'[q][s].servings]) >= TargetPortions
    <3>1. CASE q = r
      BY <3>1, <2>1, <2>3
    <3>2. CASE q # r
      BY <3>2, <2>4, <2>5 DEF WeekReady
    <3> QED
      BY <3>1, <3>2
  <2> QED
    BY <2>5 DEF WeekReady, Portions
<1>3. ASSUME NEW r \in Requests, Start(r) \/ ReadPrevious(r) \/ ReplySwap(r) \/ CopySource(r)
                \/ Fail(r) \/ ArchiveAndCreateWeek(r) \/ SwapRecipeInPlan(r)
      PROVE  WeekReady'
  <2>1. \A q \in Requests : q # r => pc'[q] = pc[q] /\ fresh'[q] = fresh[q]
    <3>1. CASE Start(r)
      BY <3>1 DEF TypeOK, Start, StartGenerate, StartSwap, StartCookAgain, locals
    <3>2. CASE ReadPrevious(r) \/ ReplySwap(r) \/ CopySource(r) \/ Fail(r)
      BY <3>2 DEF TypeOK, ReadPrevious, ReplySwap, CopySource, Fail
    <3>3. CASE ArchiveAndCreateWeek(r) \/ SwapRecipeInPlan(r)
      BY <3>3 DEF TypeOK, ArchiveAndCreateWeek, SwapRecipeInPlan, Finish
    <3> QED
      BY <1>3, <3>1, <3>2, <3>3
  <2>2. pc'[r] \notin {"validated", "replacing"} \/ ReadPrevious(r)
    BY <1>3
    DEF TypeOK, Start, StartGenerate, StartSwap, StartCookAgain, ReplySwap, CopySource,
        Fail, ArchiveAndCreateWeek, SwapRecipeInPlan, Finish
  <2>3. ReadPrevious(r) => pc[r] = "validated" /\ fresh' = fresh
    BY DEF ReadPrevious
  <2> QED
    BY <2>1, <2>2, <2>3 DEF WeekReady, Portions
<1> QED
  BY <1>1, <1>2, <1>3 DEF Next, Proceed

(* Steps that leave the tables alone: the running request reads the plan   *)
(* as it is, and nobody else is there to change it.                        *)
LEMMA SnapshotQuiet ==
    ASSUME IInv, SInv, [Next]_vars, UNCHANGED tables PROVE Snapshot'
<1>1. TypeOK /\ Snapshot /\ SingleActivePlan
  BY DEF IInv, SInv
<1>2. UNCHANGED <<status, recipeIDs>>
  BY DEF tables
<1> USE DEF Active
<1>3. CASE UNCHANGED vars
  BY <1>1, <1>3 DEF vars, Snapshot
<1>4. ASSUME NEW r \in Requests, StartSwap(r) \/ StartCookAgain(r) PROVE Snapshot'
  <2>1. PICK p \in PlanIds, s \in Slots : ReadPlan(r, p, s)
    BY <1>4 DEF StartSwap, StartCookAgain
  <2>2. /\ Active(p) /\ planID'[r] = p /\ seen'[r] = recipeIDs[p]
        /\ pc'[r] \in {"swapping", "copying", "rotating"}
    BY <1>1, <1>4, <2>1 DEF TypeOK, ReadPlan, IsCurrent, StartSwap, StartCookAgain
  <2>3. \A q \in Requests : q # r =>
          pc'[q] = pc[q] /\ planID'[q] = planID[q] /\ seen'[q] = seen[q]
    BY <1>1, <1>4, <2>1 DEF TypeOK, ReadPlan, StartSwap, StartCookAgain
  <2> QED
    BY <1>1, <1>2, <2>2, <2>3 DEF Snapshot
<1>5. ASSUME NEW r \in Requests, ReadPrevious(r) PROVE Snapshot'
  <2>1. pc'[r] = "replacing" /\ \A p \in PlanIds : Active(p) => p = planID'[r]
    BY <1>1, <1>5 DEF TypeOK, ReadPrevious, NoCurrent, IsCurrent, SingleActivePlan
  <2>2. \A q \in Requests : q # r =>
          pc'[q] = pc[q] /\ planID'[q] = planID[q] /\ seen'[q] = seen[q]
    BY <1>1, <1>5 DEF TypeOK, ReadPrevious
  <2> QED
    BY <1>1, <1>2, <2>1, <2>2 DEF Snapshot
<1>6. ASSUME NEW r \in Requests, StartGenerate(r) \/ ReplyGenerate(r) \/ ReplySwap(r)
                \/ CopySource(r)
      PROVE  Snapshot'
  <2>1. UNCHANGED <<planID, seen>>
    BY <1>6 DEF StartGenerate, ReplyGenerate, ReplySwap, CopySource, locals
  <2>2. \A q \in Requests : pc'[q] = pc[q] \/ pc'[q] \in {"generating", "validated"}
                                         \/ (pc[q] \in {"swapping", "copying"} /\ pc'[q] = "rotating")
    <3>1. CASE StartGenerate(r)
      BY <1>1, <3>1 DEF TypeOK, StartGenerate
    <3>2. CASE ReplyGenerate(r)
      BY <1>1, <3>2 DEF TypeOK, ReplyGenerate
    <3>3. CASE ReplySwap(r) \/ CopySource(r)
      BY <1>1, <3>3 DEF TypeOK, ReplySwap, CopySource
    <3> QED
      BY <1>6, <3>1, <3>2, <3>3
  <2> QED
    BY <1>1, <1>2, <2>1, <2>2 DEF Snapshot
<1>7. ASSUME NEW r \in Requests, Fail(r) PROVE Snapshot'
  BY <1>1, <1>2, <1>7 DEF TypeOK, Snapshot, Fail
<1>8. ASSUME NEW r \in Requests, ArchiveAndCreateWeek(r) PROVE FALSE
  <2>1. clock' = clock + 1 /\ clock' = clock /\ clock \in Nat
    BY <1>1, <1>8 DEF TypeOK, ArchiveAndCreateWeek, tables
  <2> QED
    BY <2>1
<1>9. ASSUME NEW r \in Requests, SwapRecipeInPlan(r) PROVE Snapshot'
  BY <1>1, <1>2, <1>9 DEF TypeOK, Snapshot, SwapRecipeInPlan, Finish
<1> QED
  BY <1>3, <1>4, <1>5, <1>6, <1>7, <1>8, <1>9 DEF Next, Start, Proceed

LEMMA QuietAlone ==
    ASSUME OneAtATime, IInv, SInv, [Next]_vars, Quiet PROVE SInv'
<1>1. Alone' /\ WeekReady' /\ Snapshot'
  BY AloneNext, ReadyNext, SnapshotQuiet DEF IInv, SInv, Quiet
<1>2. UNCHANGED <<recipe, status, recipeIDs, list>>
  BY DEF Quiet, tables
<1> QED
  BY <1>1, <1>2
  DEF SInv, SingleActivePlan, ListMatchesRecipes, WeekPortioned, Active, Created, RecipesOf,
      PlanPortions, Portions

-----------------------------------------------------------------------------
(* The two transactions.  The request that commits was the only one.       *)

LEMMA NobodyLeft ==
    ASSUME TypeOK, Alone, NEW r \in Requests,
           ArchiveAndCreateWeek(r) \/ SwapRecipeInPlan(r)
    PROVE  /\ \A q \in Requests : pc'[q] \in {"idle", "done"}
           /\ Snapshot'
           /\ WeekReady'
<1>1. r \in InFlight /\ pc' = [pc EXCEPT ![r] = "done"]
  BY DEF ArchiveAndCreateWeek, SwapRecipeInPlan, Finish, InFlight
<1>2. ASSUME NEW q \in Requests PROVE pc'[q] \in {"idle", "done"}
  <2>1. CASE q = r
    BY <1>1, <2>1 DEF TypeOK
  <2>2. CASE q # r
    <3>1. q \notin InFlight
      BY <1>1, <2>2 DEF Alone
    <3> QED
      BY <1>1, <2>2, <3>1 DEF TypeOK, InFlight
  <2> QED
    BY <2>1, <2>2
<1> QED
  BY <1>2 DEF Snapshot, WeekReady

LEMMA ArchiveAlone ==
    ASSUME OneAtATime, IInv, SInv, [Next]_vars,
           NEW r \in Requests, ArchiveAndCreateWeek(r)
    PROVE  SInv'
<1>1. TypeOK /\ Alone /\ Snapshot /\ WeekReady /\ ListMatchesRecipes /\ WeekPortioned
  BY DEF IInv, SInv
<1>2. Alone' /\ Snapshot' /\ WeekReady'
  BY <1>1, AloneNext, NobodyLeft
<1>3. /\ \A p \in PlanIds : p # r => /\ recipeIDs'[p] = recipeIDs[p]
                                     /\ list'[p] = list[p]
                                     /\ status'[p] = "absent" <=> status[p] = "absent"
      /\ \A s \in Slots : recipeIDs'[r][s] = <<r, s>>
      /\ list'[r] = {<<r, s>> : s \in Slots}
  BY <1>1 DEF TypeOK, ArchiveAndCreateWeek, StatusAfter, Active, OwnIDs
<1>4. SingleActivePlan'
  <2>1. \A p \in PlanIds : Active(p) => p = planID[r]
    BY <1>1 DEF Snapshot, ArchiveAndCreateWeek
  <2>2. \A p \in PlanIds : status'[p] = "active" => p = r
    BY <1>1, <2>1 DEF TypeOK, ArchiveAndCreateWeek, StatusAfter, Active
  <2> QED
    BY <2>2 DEF SingleActivePlan, Active
<1>5. ListMatchesRecipes'
  <2>1. ASSUME NEW p \in PlanIds, Created(p)' PROVE list'[p] = {recipeIDs'[p][s] : s \in Slots}
    <3>1. CASE p = r
      BY <1>3, <3>1
    <3>2. CASE p # r
      BY <1>1, <1>3, <2>1, <3>2 DEF ListMatchesRecipes, RecipesOf, Created
    <3> QED
      BY <3>1, <3>2
  <2> QED
    BY <2>1 DEF ListMatchesRecipes, RecipesOf
<1>6. WeekPortioned'
  <2>1. ASSUME NEW p \in PlanIds, Created(p)', p # r
        PROVE  \/ PlanPortions(p)' >= TargetPortions
               \/ \E i \in RecipesOf(p)' : recipe'[i].source = "history"
    <3>1. Created(p) /\ recipeIDs'[p] = recipeIDs[p]
      BY <1>3, <2>1 DEF Created
    <3>2. \A s \in Slots : recipeIDs[p][s] \in RecipeIds /\ Exists(recipeIDs[p][s])
      BY <1>1, <3>1 DEF IInv, ReferencesResolve, RecipesOf, TypeOK
    <3>3. \A s \in Slots : recipe'[recipeIDs'[p][s]] = recipe[recipeIDs[p][s]]
      BY <3>1, <3>2, HistoryStep
    <3>4. PlanPortions(p)' = PlanPortions(p)
      BY <3>3 DEF PlanPortions, Portions, Slots
    <3>5. RecipesOf(p)' = RecipesOf(p) /\ \A i \in RecipesOf(p) : recipe'[i] = recipe[i]
      BY <3>1, <3>3 DEF RecipesOf
    <3> QED
      BY <1>1, <3>1, <3>4, <3>5 DEF WeekPortioned
  <2>2. PlanPortions(r)' >= TargetPortions
    <3>1. \A s \in Slots : recipe'[recipeIDs'[r][s]] = fresh[r][s]
      <4>1. recipe' = [i \in RecipeIds |-> IF i[1] = r THEN fresh[r][i[2]] ELSE recipe[i]]
        BY DEF ArchiveAndCreateWeek
      <4>2. \A s \in Slots : recipe'[<<r, s>>] = fresh[r][s]
        BY <4>1, IdFacts
      <4> QED
        BY <1>3, <4>2
    <3>2. PlanPortions(r)' = Portions([s \in Slots |-> fresh[r][s].servings])
      BY <3>1 DEF PlanPortions, Portions, Slots
    <3> QED
      BY <1>1, <3>2 DEF WeekReady, ArchiveAndCreateWeek
  <2> QED
    BY <2>1, <2>2 DEF WeekPortioned
<1> QED
  BY <1>2, <1>4, <1>5, <1>6 DEF SInv

LEMMA SwapAlone ==
    ASSUME OneAtATime, IInv, Portioned, SInv, [Next]_vars,
           NEW r \in Requests, SwapRecipeInPlan(r)
    PROVE  SInv'
<1> DEFINE p == planID[r]
<1>1. /\ TypeOK /\ Memory /\ Alone /\ Snapshot
      /\ SingleActivePlan /\ ListMatchesRecipes /\ WeekPortioned
  BY DEF IInv, SInv
<1>2. Alone' /\ Snapshot' /\ WeekReady'
  BY <1>1, AloneNext, NobodyLeft
<1>3. /\ p \in PlanIds /\ Created(p) /\ Active(p) /\ seen[r] = recipeIDs[p]
      /\ idx[r] \in Slots
      /\ status' = status
  BY <1>1 DEF Memory, Snapshot, SwapRecipeInPlan
<1>4. \A q \in PlanIds : q # p => recipeIDs'[q] = recipeIDs[q] /\ list'[q] = list[q]
  BY <1>1, <1>3 DEF TypeOK, SwapRecipeInPlan
<1>5. /\ list'[p] = {recipeIDs'[p][s] : s \in Slots}
      /\ fresh[r][idx[r]].source = "llm" =>
           Portions([s \in Slots |-> recipe'[recipeIDs'[p][s]].servings]) >= TargetPortions
  BY <1>3, HealStep
<1>6. SingleActivePlan'
  BY <1>1, <1>3 DEF SingleActivePlan, Active
<1>7. ListMatchesRecipes'
  BY <1>1, <1>3, <1>4, <1>5 DEF ListMatchesRecipes, RecipesOf, Created
<1>8. WeekPortioned'
  <2>1. ASSUME NEW q \in PlanIds, Created(q)', q # p
        PROVE  \/ PlanPortions(q)' >= TargetPortions
               \/ \E i \in RecipesOf(q)' : recipe'[i].source = "history"
    <3>1. Created(q) /\ recipeIDs'[q] = recipeIDs[q]
      BY <1>3, <1>4, <2>1 DEF Created
    <3>2. \A s \in Slots : recipeIDs[q][s] \in RecipeIds /\ Exists(recipeIDs[q][s])
      BY <1>1, <3>1 DEF IInv, ReferencesResolve, RecipesOf, TypeOK
    <3>3. \A s \in Slots : recipe'[recipeIDs'[q][s]] = recipe[recipeIDs[q][s]]
      BY <3>1, <3>2, HistoryStep
    <3>4. PlanPortions(q)' = PlanPortions(q)
      BY <3>3 DEF PlanPortions, Portions, Slots
    <3>5. RecipesOf(q)' = RecipesOf(q) /\ \A i \in RecipesOf(q) : recipe'[i] = recipe[i]
      BY <3>1, <3>3 DEF RecipesOf
    <3> QED
      BY <1>1, <3>1, <3>4, <3>5 DEF WeekPortioned
  <2>2. CASE fresh[r][idx[r]].source = "llm"
    <3>1. Portions([s \in Slots |-> recipe'[recipeIDs'[p][s]].servings]) >= TargetPortions
      BY <1>5, <2>2
    <3>2. ASSUME NEW q \in PlanIds, q = p PROVE PlanPortions(q)' >= TargetPortions
      BY <3>1, <3>2 DEF PlanPortions, Portions
    <3> QED
      BY <2>1, <3>2 DEF WeekPortioned
  <2>3. CASE fresh[r][idx[r]].source = "history"
    <3>1. PICK s \in Slots :
            recipeIDs' = [recipeIDs EXCEPT ![p] = [recipeIDs[p] EXCEPT ![s] = NewID(r)]]
      BY DEF SwapRecipeInPlan, RotatedIDs
    <3>2. recipeIDs'[p][s] = NewID(r) /\ NewID(r) \in RecipeIds
      BY <1>1, <1>3, <3>1, IdFacts DEF TypeOK, NewID
    <3>3. recipe'[NewID(r)].source = "history"
      BY <1>1, <2>3, <3>2 DEF TypeOK, SwapRecipeInPlan, InsertRecipe
    <3>4. ASSUME NEW q \in PlanIds, q = p
          PROVE  \E i \in RecipesOf(q)' : recipe'[i].source = "history"
      BY <3>2, <3>3, <3>4 DEF RecipesOf
    <3> QED
      BY <2>1, <3>4 DEF WeekPortioned
  <2>4. fresh[r][idx[r]].source \in {"llm", "history"}
    <3>1. fresh[r][idx[r]] \in RecipeRows /\ fresh[r][idx[r]].source # "none"
      BY <1>1, <1>3 DEF TypeOK, Memory, SwapRecipeInPlan
    <3> QED
      BY <3>1 DEF RecipeRows
  <2> QED
    BY <2>2, <2>3, <2>4
<1> QED
  BY <1>2, <1>6, <1>7, <1>8 DEF SInv

-----------------------------------------------------------------------------
LEMMA SInvNext ==
    ASSUME OneAtATime, IInv, Portioned, SInv, [Next]_vars PROVE SInv'
<1>1. TypeOK
  BY DEF IInv
<1> QED
  BY <1>1, StepKinds, QuietAlone, ArchiveAlone, SwapAlone

LEMMA AloneInvariance == OneAtATime /\ Spec => [](IInv /\ SInv)
<1>1. Spec => []Portioned
  BY PortionedInit, PortionedNext, Invariance, PTL DEF Spec
<1>2. OneAtATime /\ IInv /\ Portioned /\ SInv /\ [Next]_vars => SInv'
  BY SInvNext
<1>3. CASE OneAtATime
  <2>1. IInv /\ Portioned /\ SInv /\ [Next]_vars => SInv'
    BY <1>2, <1>3
  <2> QED
    BY <1>1, <2>1, AloneInit, Invariance, PTL DEF Spec
<1>4. CASE ~OneAtATime
  BY <1>4
<1> QED
  BY <1>3, <1>4

(* Requests that come one at a time leave one active plan, the list of its *)
(* recipes, and a portioned week; the three together need each other: a    *)
(* list is right because the plan that was read is still the same one.     *)
THEOREM AloneTheWeekIsRight ==
    OneAtATime /\ Spec => [](SingleActivePlan /\ ListMatchesRecipes /\ WeekPortioned)
<1>1. SInv => SingleActivePlan /\ ListMatchesRecipes /\ WeekPortioned
  BY DEF SInv
<1>2. CASE OneAtATime
  BY <1>1, <1>2, AloneInvariance, PTL
<1>3. CASE ~OneAtATime
  BY <1>3
<1> QED
  BY <1>2, <1>3

(* One request at a time: the list is the one of the plan's recipes. *)
THEOREM AloneListMatches == OneAtATime /\ Spec => []ListMatchesRecipes
  BY AloneTheWeekIsRight, PTL

(* One request at a time: a week is enough unless a dish was cooked again. *)
THEOREM AloneWeekPortioned == OneAtATime /\ Spec => []WeekPortioned
  BY AloneTheWeekIsRight, PTL

LEMMA FrozenStep ==
    ASSUME IInv, SInv, [Next]_vars, NEW p \in PlanIds, status[p] = "archived"
    PROVE  recipeIDs'[p] = recipeIDs[p] /\ list'[p] = list[p]
<1>1. TypeOK /\ Snapshot /\ Memory /\ NothingInsertedYet
  BY DEF IInv, SInv
<1>2. CASE Quiet
  BY <1>2 DEF Quiet, tables
<1>3. ASSUME NEW r \in Requests, ArchiveAndCreateWeek(r)
      PROVE  recipeIDs'[p] = recipeIDs[p] /\ list'[p] = list[p]
  <2>1. p # r
    BY <1>1, <1>3 DEF NothingInsertedYet, Created, ArchiveAndCreateWeek
  <2> QED
    BY <1>1, <1>3, <2>1 DEF TypeOK, ArchiveAndCreateWeek
<1>4. ASSUME NEW r \in Requests, SwapRecipeInPlan(r)
      PROVE  recipeIDs'[p] = recipeIDs[p] /\ list'[p] = list[p]
  <2>1. p # planID[r]
    BY <1>1, <1>4 DEF Snapshot, Active, SwapRecipeInPlan
  <2> QED
    BY <1>1, <1>4, <2>1 DEF TypeOK, SwapRecipeInPlan
<1> QED
  BY <1>1, <1>2, <1>3, <1>4, StepKinds

(* An archived week is not written again.                                  *)
THEOREM AloneArchiveFrozen == OneAtATime /\ Spec => ArchivedWeeksFrozen
<1>1. CASE OneAtATime
  <2>1. IInv /\ SInv /\ [Next]_vars =>
          \A p \in PlanIds : status[p] = "archived" =>
            recipeIDs'[p] = recipeIDs[p] /\ list'[p] = list[p]
    BY FrozenStep
  <2> QED
    BY <1>1, <2>1, AloneInvariance, PTL DEF ArchivedWeeksFrozen, Spec
<1>2. CASE ~OneAtATime
  BY <1>2
<1> QED
  BY <1>1, <1>2

-----------------------------------------------------------------------------
(* WeekPlan implements CurrentWeek then: each of the two transactions is    *)
(* one of its two steps, and every other step stutters.                     *)

(* The three variables of CurrentWeek, as WeekPlan refines them. *)
Current == {WeekRow(p) : p \in {q \in PlanIds : IsCurrent(q)}}
Past == {WeekRow(p) : p \in {q \in PlanIds : status[q] = "archived"}}
Served == {i \in RecipeIds : Exists(i)}

LEMMA PromiseInit == Init => Promise!Init
<1> SUFFICES ASSUME Init PROVE Current = {} /\ Past = {} /\ Served = {}
  BY DEF Promise!Init, Current, Past, Served
<1>1. \A p \in PlanIds : status[p] = "absent"
  BY DEF Init
<1>2. \A i \in RecipeIds : ~Exists(i)
  BY DEF Init, Exists, NoRecipe
<1> QED
  BY <1>1, <1>2 DEF Current, Past, Served, IsCurrent, Active

(* A plan that is the only active one is the current one. *)
LEMMA ActiveIsCurrent ==
    ASSUME TypeOK, SingleActivePlan, NEW p \in PlanIds
    PROVE  IsCurrent(p) <=> Active(p)
<1>1. Active(p) => \A q \in PlanIds : Active(q) => q = p
  BY DEF SingleActivePlan
<1>2. createdAt[p] <= createdAt[p]
  BY DEF TypeOK
<1> QED
  BY <1>1, <1>2 DEF IsCurrent

LEMMA PromiseQuiet == UNCHANGED tables => UNCHANGED Promise!vars
  BY DEF tables, Promise!vars, WeekRow, IsCurrent, Active, Exists

(* A generation is a new week. *)
LEMMA PromiseArchive ==
    ASSUME IInv, SInv, IInv', SInv', NEW r \in Requests, ArchiveAndCreateWeek(r)
    PROVE  Promise!PlanWeek
<1> DEFINE w == WeekRow(r)'
<1>1. /\ TypeOK /\ TypeOK' /\ SingleActivePlan /\ SingleActivePlan' /\ Snapshot
      /\ NothingInsertedYet /\ RecipesNotShared'
  BY DEF IInv, SInv
<1>2. ~Created(r) /\ \A s \in Slots : ~Exists(<<r, s>>)
  BY <1>1 DEF NothingInsertedYet, ArchiveAndCreateWeek
<1>3. /\ status'[r] = "active"
      /\ \A p \in PlanIds : p # r => status'[p] =
           IF p = planID[r] /\ status[p] = "active" THEN "archived" ELSE status[p]
  BY <1>1 DEF TypeOK, ArchiveAndCreateWeek, StatusAfter, Active
<1>4. /\ recipeIDs'[r] = OwnIDs(r)
      /\ list'[r] = {<<r, s>> : s \in Slots}
      /\ \A p \in PlanIds : p # r => recipeIDs'[p] = recipeIDs[p] /\ list'[p] = list[p]
  BY <1>1 DEF TypeOK, ArchiveAndCreateWeek
<1>5. w = [name |-> r, dishes |-> OwnIDs(r), list |-> {<<r, s>> : s \in Slots}]
  BY <1>4 DEF WeekRow
<1>6. Current' = {w}
  <2>1. \A p \in PlanIds : status'[p] = "active" => p = r
    BY <1>1, <1>3 DEF SingleActivePlan, Active
  <2>2. createdAt'[r] <= createdAt'[r]
    BY <1>1 DEF TypeOK
  <2>3. \A p \in PlanIds : IsCurrent(p)' <=> p = r
    BY <1>3, <2>1, <2>2 DEF IsCurrent, Active
  <2> QED
    BY <2>3 DEF Current
<1>7. \A p \in PlanIds : Created(p) => p # r /\ WeekRow(p)' = WeekRow(p)
  BY <1>2, <1>4 DEF WeekRow
<1>8. Past' = Past \cup Current
  <2>1. \A p \in PlanIds : Active(p) => p = planID[r]
    BY <1>1 DEF Snapshot, ArchiveAndCreateWeek
  <2>2. \A p \in PlanIds : status'[p] = "archived" <=> status[p] = "archived" \/ IsCurrent(p)
    BY <1>1, <1>2, <1>3, <2>1, ActiveIsCurrent DEF Active, Created
  <2>3. \A p \in PlanIds : status[p] = "archived" \/ IsCurrent(p) => WeekRow(p)' = WeekRow(p)
    BY <1>7 DEF IsCurrent, Active, Created
  <2>4. ASSUME NEW v PROVE v \in Past' <=> v \in Past \cup Current
    BY <2>2, <2>3 DEF Past, Current
  <2> QED
    BY <2>4
<1>9. Served' = Served \cup {<<r, s>> : s \in Slots}
  <2>1. recipe' = [i \in RecipeIds |-> IF i[1] = r THEN fresh[r][i[2]] ELSE recipe[i]]
    BY DEF ArchiveAndCreateWeek
  <2>2. \A s \in Slots : fresh[r][s].source # "none"
    BY DEF IInv, Memory, ArchiveAndCreateWeek
  <2>3. \A i \in RecipeIds : Exists(i)' <=> Exists(i) \/ i[1] = r
    BY <1>2, <2>1, <2>2, IdFacts DEF Exists
  <2>4. \A i \in RecipeIds : i[1] = r <=> i \in {<<r, s>> : s \in Slots}
    BY IdFacts
  <2>5. {<<r, s>> : s \in Slots} \subseteq RecipeIds
    BY IdFacts
  <2> QED
    BY <2>3, <2>4, <2>5 DEF Served
<1> DEFINE new == {<<r, s>> : s \in Slots}
<1>10. Promise!DishesOf(w) = new
  BY <1>5 DEF Promise!DishesOf, Promise!Days, OwnIDs, Slots
<1>11. Promise!Proper(w)
  <2>1. OwnIDs(r) \in [Slots -> RecipeIds]
    BY RowFacts
  <2>2. \A s, t \in Slots : s # t => OwnIDs(r)[s] # OwnIDs(r)[t]
    BY DEF OwnIDs
  <2> QED
    BY <1>5, <1>10, <2>1, <2>2 DEF Promise!Proper, Promise!Days, Slots
<1>12. \A v \in Past \cup Current : w.name # v.name
  BY <1>5, <1>7 DEF Past, Current, WeekRow, IsCurrent, Active, Created
<1>13. Promise!DishesOf(w) \cap Served = {}
  BY <1>2, <1>10 DEF Served
<1> HIDE DEF w, new
<1>14. /\ w \in Current' /\ Past' = Past \cup Current
       /\ Served' = Served \cup Promise!DishesOf(w)
  BY <1>6, <1>8, <1>9, <1>10 DEF new
<1> QED
  BY <1>6, <1>11, <1>12, <1>13, <1>14 DEF Promise!PlanWeek, Current, Past, Served

(* A swap, or cooking a dish again, replaces one dish. *)
LEMMA PromiseSwap ==
    ASSUME IInv, SInv, IInv', SInv', NEW r \in Requests, SwapRecipeInPlan(r)
    PROVE  Promise!ReplaceDish
<1>0. PICK p \in PlanIds, d \in Slots : p = planID[r] /\ d = idx[r]
  BY DEF IInv, Memory, SwapRecipeInPlan
<1> DEFINE new == <<r, d>>
           w == WeekRow(p)
           v == WeekRow(p)'
<1>1. /\ TypeOK /\ TypeOK' /\ Memory /\ SingleActivePlan /\ Snapshot
      /\ NothingInsertedYet /\ RecipesNotShared /\ RecipesNotShared' /\ ListMatchesRecipes'
  BY DEF IInv, SInv
<1>2. /\ Created(p) /\ Active(p)
      /\ new \in RecipeIds /\ ~Exists(new)
      /\ fresh[r][d].source # "none"
      /\ seen[r] = recipeIDs[p]
  BY <1>0, <1>1, IdFacts DEF Memory, Snapshot, NothingInsertedYet, SwapRecipeInPlan
<1>3. /\ status' = status /\ createdAt' = createdAt
      /\ recipe' = [recipe EXCEPT ![new] = fresh[r][d]]
      /\ \A q \in PlanIds : q # p => recipeIDs'[q] = recipeIDs[q] /\ list'[q] = list[q]
  BY <1>0, <1>1, <1>2 DEF TypeOK, SwapRecipeInPlan, InsertRecipe, NewID
<1>4. PICK s \in Slots : /\ recipeIDs[p][s] = recipeIDs[p][d]
                         /\ recipeIDs'[p] = [recipeIDs[p] EXCEPT ![s] = new]
  BY <1>0, <1>1, <1>2 DEF TypeOK, SwapRecipeInPlan, SlotOfOld, OldRecipe, RotatedIDs, NewID
<1>5. s = d
  BY <1>1, <1>2, <1>4 DEF RecipesNotShared
<1>6. recipeIDs'[p] = [recipeIDs[p] EXCEPT ![d] = new] /\ recipeIDs'[p][d] = new
  BY <1>1, <1>2, <1>4, <1>5 DEF TypeOK
<1>7. \A q \in PlanIds : IsCurrent(q) <=> q = p
  BY <1>1, <1>2, ActiveIsCurrent DEF SingleActivePlan
<1>8. Current = {w} /\ Current' = {v}
  <2>1. \A q \in PlanIds : IsCurrent(q)' <=> IsCurrent(q)
    BY <1>3 DEF IsCurrent, Active
  <2>2. Current' = {WeekRow(q)' : q \in {x \in PlanIds : IsCurrent(x)}}
    BY <2>1 DEF Current
  <2>3. \A q \in PlanIds : q = p => WeekRow(q)' = v
    BY DEF WeekRow
  <2> QED
    BY <1>2, <1>7, <2>2, <2>3 DEF Current
<1>9. Past' = Past
  <2>1. \A q \in PlanIds : status[q] = "archived" => WeekRow(q)' = WeekRow(q)
    BY <1>2, <1>3 DEF WeekRow, Active
  <2>2. ASSUME NEW x PROVE x \in Past' <=> x \in Past
    BY <1>3, <2>1 DEF Past
  <2> QED
    BY <2>2
<1>10. Served' = Served \cup {new}
  <2>1. \A i \in RecipeIds : Exists(i)' <=> Exists(i) \/ i = new
    BY <1>1, <1>2, <1>3 DEF TypeOK, Exists
  <2> QED
    BY <1>2, <2>1 DEF Served
<1>11. Promise!Proper(v)
  <2>1. recipeIDs'[p] \in [Slots -> RecipeIds]
    BY <1>1, <1>2 DEF TypeOK
  <2>2. Created(p)' /\ \A s1, s2 \in Slots : s1 # s2 => recipeIDs'[p][s1] # recipeIDs'[p][s2]
    BY <1>1, <1>2, <1>3 DEF RecipesNotShared, Created
  <2>3. list'[p] = {recipeIDs'[p][x] : x \in Slots}
    BY <1>1, <1>2, <2>2 DEF ListMatchesRecipes, RecipesOf
  <2> QED
    BY <1>2, <2>1, <2>2, <2>3
    DEF Promise!Proper, Promise!DishesOf, Promise!Days, Slots, WeekRow
<1>12. /\ v.name = w.name
       /\ v.dishes[d] = new
       /\ v.dishes[d] \notin Served
       /\ v.dishes = [w.dishes EXCEPT ![d] = v.dishes[d]]
       /\ Served' = Served \cup {v.dishes[d]}
  BY <1>2, <1>6, <1>10 DEF WeekRow, Served
<1>13. d \in Promise!Days
  BY <1>2 DEF Promise!Days, Slots
<1> HIDE DEF v, w, new
<1>14. \E a \in Current, b \in Current', c \in Promise!Days :
         /\ Current' = {b}
         /\ Promise!Proper(b)
         /\ b.name = a.name
         /\ b.dishes[c] \notin Served
         /\ b.dishes = [a.dishes EXCEPT ![c] = b.dishes[c]]
         /\ Served' = Served \cup {b.dishes[c]}
  <2>1. w \in Current /\ v \in Current'
    BY <1>8
  <2> QED
    BY <1>8, <1>11, <1>12, <1>13, <2>1
<1> QED
  BY <1>9, <1>14 DEF Promise!ReplaceDish, Current, Past, Served

LEMMA PromiseNext ==
    ASSUME IInv, SInv, IInv', SInv', [Next]_vars
    PROVE  [Promise!Next]_(Promise!vars)
<1>1. TypeOK
  BY DEF IInv
<1>2. CASE Quiet
  BY <1>2, PromiseQuiet DEF Quiet
<1>3. CASE \E r \in Requests : ArchiveAndCreateWeek(r)
  BY <1>3, PromiseArchive DEF Promise!Next
<1>4. CASE \E r \in Requests : SwapRecipeInPlan(r)
  BY <1>4, PromiseSwap DEF Promise!Next
<1> QED
  BY <1>1, <1>2, <1>3, <1>4, StepKinds

(* The household's tables keep the promise of CurrentWeek: one current     *)
(* week with its three dishes and their list, and past weeks that stay as  *)
(* they were.                                                              *)
THEOREM AloneKeepsPromise == OneAtATime /\ Spec => KeepsPromise
<1>1. IInv /\ SInv /\ IInv' /\ SInv' /\ [Next]_vars => [Promise!Next]_(Promise!vars)
  BY PromiseNext
<1>2. CASE OneAtATime
  BY <1>1, <1>2, PromiseInit, AloneInvariance, PTL DEF Spec, KeepsPromise, Promise!Spec
<1>3. CASE ~OneAtATime
  BY <1>3
<1> QED
  BY <1>2, <1>3
=============================================================================
