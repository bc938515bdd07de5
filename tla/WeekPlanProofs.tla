--------------------------- MODULE WeekPlanProofs ---------------------------
(***************************************************************************)
(* What holds of WeekPlan for every set of requests, every week size and   *)
(* every servings a model may claim.                                       *)
(***************************************************************************)
EXTENDS WeekPlan, TLAPS

USE DEF PlanIds

(* An id names its request and its slot. *)
LEMMA IdFacts ==
    /\ \A r \in Requests, s \in Slots :
         /\ <<r, s>> \in RecipeIds
         /\ <<r, s>>[1] = r
         /\ <<r, s>>[2] = s
    /\ \A i \in RecipeIds : i[1] \in Requests /\ i[2] \in Slots /\ i = <<i[1], i[2]>>
  BY DEF RecipeIds

(* Rows in memory and rows not yet written are recipe rows; a request's    *)
(* ids are recipe ids.                                                     *)
LEMMA RowFacts ==
    /\ Nothing \in [Slots -> RecipeRows]
    /\ NoRecipe \in RecipeRows
    /\ \A r \in Requests : OwnIDs(r) \in [Slots -> RecipeIds]
    /\ \A n \in Servings : [source |-> "llm", servings |-> n] \in RecipeRows
    /\ \A x \in RecipeRows : [source |-> "history", servings |-> x.servings] \in RecipeRows
  BY IdFacts DEF Nothing, NoRecipe, RecipeRows, OwnIDs

-----------------------------------------------------------------------------
(* Type correctness.  It is not inductive by itself: the swap transaction  *)
(* writes to the plan and the slot in the request's memory, which must be  *)
(* set by then.                                                            *)

Memory ==
    \A r \in Requests :
        /\ pc[r] \in {"swapping", "copying", "rotating"} =>
             planID[r] \in PlanIds /\ Created(planID[r]) /\ idx[r] \in Slots
        /\ pc[r] \in {"validated", "replacing"} =>
             \A s \in Slots : fresh[r][s].source # "none"
        /\ pc[r] = "rotating" => fresh[r][idx[r]].source # "none"
        /\ pc[r] \in {"idle", "generating", "validated", "replacing"} => idx[r] = 0

LEMMA TypeInit == Init => TypeOK /\ Memory
  BY RowFacts DEF Init, TypeOK, Memory, Phases

LEMMA TypeNext == TypeOK /\ Memory /\ [Next]_vars => TypeOK'
<1> SUFFICES ASSUME TypeOK, Memory, [Next]_vars PROVE TypeOK'
  OBVIOUS
<1>1. CASE UNCHANGED vars
  BY <1>1 DEF TypeOK, vars
<1>2. ASSUME NEW r \in Requests, StartGenerate(r) PROVE TypeOK'
  BY <1>2 DEF TypeOK, StartGenerate, tables, locals, Phases
<1>3. ASSUME NEW r \in Requests, StartSwap(r) PROVE TypeOK'
  BY <1>3 DEF TypeOK, StartSwap, ReadPlan, tables, Phases
<1>4. ASSUME NEW r \in Requests, StartCookAgain(r) PROVE TypeOK'
  BY <1>4 DEF TypeOK, StartCookAgain, ReadPlan, tables, Phases
<1>5. ASSUME NEW r \in Requests, ReplyGenerate(r) PROVE TypeOK'
  <2> PICK servings \in [Slots -> Servings] :
        fresh' = [fresh EXCEPT ![r] =
                    [s \in Slots |-> [source |-> "llm", servings |-> servings[s]]]]
    BY <1>5 DEF ReplyGenerate
  <2>1. [s \in Slots |-> [source |-> "llm", servings |-> servings[s]]]
          \in [Slots -> RecipeRows]
    BY RowFacts
  <2> QED
    BY <1>5, <2>1 DEF TypeOK, ReplyGenerate, tables, Phases
<1>6. ASSUME NEW r \in Requests, ReadPrevious(r) PROVE TypeOK'
  BY <1>6 DEF TypeOK, ReadPrevious, tables, Phases
<1>7. ASSUME NEW r \in Requests, ArchiveAndCreateWeek(r) PROVE TypeOK'
  <2>1. /\ fresh[r] \in [Slots -> RecipeRows]
        /\ OwnIDs(r) \in [Slots -> RecipeIds]
        /\ {<<r, s>> : s \in Slots} \in SUBSET RecipeIds
    BY RowFacts, IdFacts DEF TypeOK
  <2>2. recipe' \in [RecipeIds -> RecipeRows]
    BY <1>7, <2>1, IdFacts DEF TypeOK, ArchiveAndCreateWeek
  <2>3. status' \in [PlanIds -> {"absent", "active", "archived"}]
    BY <1>7 DEF TypeOK, ArchiveAndCreateWeek, StatusAfter
  <2> QED
    BY <1>7, <2>1, <2>2, <2>3, RowFacts
    DEF TypeOK, ArchiveAndCreateWeek, Finish, Stamp, Phases
<1>8. ASSUME NEW r \in Requests, ReplySwap(r) \/ CopySource(r) PROVE TypeOK'
  <2>1. PICK row \in RecipeRows : fresh' = [fresh EXCEPT ![r][idx[r]] = row]
    <3>1. CASE ReplySwap(r)
      <4>1. PICK n \in Servings :
              fresh' = [fresh EXCEPT ![r][idx[r]] = [source |-> "llm", servings |-> n]]
        BY <3>1 DEF ReplySwap
      <4> QED
        BY <4>1, RowFacts
    <3>2. CASE CopySource(r)
      <4>1. PICK i \in RecipeIds :
              fresh' = [fresh EXCEPT ![r][idx[r]] =
                          [source |-> "history", servings |-> recipe[i].servings]]
        BY <3>2 DEF CopySource
      <4>2. recipe[i] \in RecipeRows
        BY DEF TypeOK
      <4> QED
        BY <4>1, <4>2, RowFacts
    <3> QED
      BY <1>8, <3>1, <3>2
  <2>2. fresh[r] \in [Slots -> RecipeRows] /\ idx[r] \in Slots
    BY <1>8 DEF ReplySwap, CopySource, TypeOK, Memory
  <2> DEFINE memory == [fresh[r] EXCEPT ![idx[r]] = row]
  <2>3. memory \in [Slots -> RecipeRows] /\ fresh' = [fresh EXCEPT ![r] = memory]
    BY <2>1, <2>2
  <2> HIDE DEF memory
  <2>4. fresh' \in [Requests -> [Slots -> RecipeRows]]
    BY <2>3 DEF TypeOK
  <2> QED
    BY <1>8, <2>4 DEF TypeOK, ReplySwap, CopySource, tables, Phases
<1>9. ASSUME NEW r \in Requests, SwapRecipeInPlan(r) PROVE TypeOK'
  <2>1. /\ planID[r] \in PlanIds
        /\ idx[r] \in Slots
        /\ NewID(r) \in RecipeIds
    BY <1>9, IdFacts DEF SwapRecipeInPlan, Memory, NewID
  <2>2. fresh[r] \in [Slots -> RecipeRows] /\ seen[r] \in [Slots -> RecipeIds]
    BY DEF TypeOK
  <2>3. fresh[r][idx[r]] \in RecipeRows /\ RebuiltList(r) \in SUBSET RecipeIds
    BY <2>1, <2>2 DEF RebuiltList, Kept
  <2>4. recipe' \in [RecipeIds -> RecipeRows]
    BY <1>9, <2>1, <2>3 DEF TypeOK, SwapRecipeInPlan, InsertRecipe
  <2>5. recipeIDs' \in [PlanIds -> [Slots -> RecipeIds]]
    BY <1>9, <2>1 DEF TypeOK, SwapRecipeInPlan, RotatedIDs
  <2> QED
    BY <1>9, <2>1, <2>3, <2>4, <2>5, RowFacts DEF TypeOK, SwapRecipeInPlan, Finish, Phases
<1>10. ASSUME NEW r \in Requests, Fail(r) PROVE TypeOK'
  BY <1>10, RowFacts DEF TypeOK, Fail, RollBack, tables, Phases
<1> QED
  BY <1>1, <1>2, <1>3, <1>4, <1>5, <1>6, <1>7, <1>8, <1>9, <1>10 DEF Next, Start, Proceed

LEMMA MemoryNext == TypeOK /\ Memory /\ [Next]_vars => Memory'
<1> SUFFICES ASSUME TypeOK, Memory, [Next]_vars PROVE Memory'
  OBVIOUS
<1> USE DEF Created
<1>1. CASE UNCHANGED vars
  BY <1>1 DEF Memory, vars
<1>2. ASSUME NEW r \in Requests, StartGenerate(r) PROVE Memory'
  BY <1>2 DEF TypeOK, Memory, StartGenerate, MayStart, tables, locals
<1>3. ASSUME NEW r \in Requests, StartSwap(r) PROVE Memory'
  BY <1>3 DEF TypeOK, Memory, StartSwap, ReadPlan, IsCurrent, Active, tables
<1>4. ASSUME NEW r \in Requests, StartCookAgain(r) PROVE Memory'
  BY <1>4 DEF TypeOK, Memory, StartCookAgain, ReadPlan, IsCurrent, Active, tables
<1>5. ASSUME NEW r \in Requests, ReplyGenerate(r) PROVE Memory'
  BY <1>5 DEF TypeOK, Memory, ReplyGenerate, tables
<1>6. ASSUME NEW r \in Requests, ReadPrevious(r) PROVE Memory'
  BY <1>6 DEF TypeOK, Memory, ReadPrevious, tables
<1>7. ASSUME NEW r \in Requests, ArchiveAndCreateWeek(r) PROVE Memory'
  BY <1>7 DEF TypeOK, Memory, ArchiveAndCreateWeek, StatusAfter, Finish
<1>8. ASSUME NEW r \in Requests, ReplySwap(r) PROVE Memory'
  BY <1>8 DEF TypeOK, Memory, ReplySwap, tables
<1>9. ASSUME NEW r \in Requests, SwapRecipeInPlan(r) PROVE Memory'
  BY <1>9 DEF TypeOK, Memory, SwapRecipeInPlan, Finish
<1>10. ASSUME NEW r \in Requests, Fail(r) PROVE Memory'
  BY <1>10 DEF TypeOK, Memory, Fail, RollBack, tables
<1>11. ASSUME NEW r \in Requests, CopySource(r) PROVE Memory'
  BY <1>11 DEF TypeOK, Memory, CopySource, tables
<1> QED
  BY <1>1, <1>2, <1>3, <1>4, <1>5, <1>6, <1>7, <1>8, <1>9, <1>10, <1>11
  DEF Next, Start, Proceed

(* Every table and every request's memory keeps its type. *)
THEOREM TypeCorrect == Spec => [](TypeOK /\ Memory)
  BY TypeInit, TypeNext, MemoryNext, PTL DEF Spec
-----------------------------------------------------------------------------
(* The tables.  The inductive invariant says, beside the properties, that  *)
(* the ids a request will assign are in use nowhere before it commits, and *)
(* that a recipe taken out of a plan is in no plan any more.               *)

NothingInsertedYet ==
    \A r \in Requests : pc[r] # "done" =>
        ~Created(r) /\ \A s \in Slots : ~Exists(<<r, s>>)

ReplacedStaysReplaced ==
    \A r \in Requests : pc[r] = "done" /\ idx[r] # 0 =>
        \A p \in PlanIds : Created(p) =>
            \A s \in Slots : recipeIDs[p][s] # OldRecipe(r)

IInv ==
    /\ TypeOK
    /\ Memory
    /\ NothingInsertedYet
    /\ ReferencesResolve
    /\ RecipesNotShared
    /\ ReplacedStaysReplaced
    /\ OneWinnerPerRecipe
    /\ NoRecipeLost
    /\ ActivePlanRemains

LEMMA TablesInit == Init => IInv
<1> SUFFICES ASSUME Init PROVE IInv
  OBVIOUS
<1>1. \A i \in RecipeIds : ~Exists(i)
  BY DEF Init, Exists, NoRecipe
<1>2. \A p \in PlanIds : ~Created(p) /\ ~Active(p)
  BY DEF Init, Created, Active
<1>3. \A r \in Requests : idx[r] = 0
  BY DEF Init
<1> QED
  BY <1>1, <1>2, <1>3, TypeInit, IdFacts
  DEF IInv, NothingInsertedYet, ReferencesResolve, RecipesNotShared,
      ReplacedStaysReplaced, OneWinnerPerRecipe, NoRecipeLost, ActivePlanRemains

(* Every step but the two transactions leaves the tables alone, finishes   *)
(* no request, and puts into a request's memory only ids of a plan's row.  *)
Quiet ==
    /\ UNCHANGED tables
    /\ \A r \in Requests : (pc[r] = "done") = (pc'[r] = "done")
    /\ \A r \in Requests : pc[r] = "done" => seen'[r] = seen[r] /\ idx'[r] = idx[r]
    /\ \A r \in Requests :
         \/ seen'[r] = seen[r] /\ idx'[r] = idx[r]
         \/ idx'[r] = 0
         \/ \E p \in PlanIds : Created(p) /\ seen'[r] = recipeIDs[p]

LEMMA StepKinds ==
    ASSUME TypeOK, [Next]_vars
    PROVE  Quiet \/ \E r \in Requests : ArchiveAndCreateWeek(r) \/ SwapRecipeInPlan(r)
<1>1. CASE UNCHANGED vars
  BY <1>1 DEF vars, Quiet, tables
<1>2. ASSUME NEW r \in Requests, StartGenerate(r) \/ ReplyGenerate(r) \/ ReadPrevious(r)
      PROVE  Quiet
  BY <1>2 DEF Quiet, TypeOK, StartGenerate, MayStart, ReplyGenerate, ReadPrevious, locals
<1>3. ASSUME NEW r \in Requests, StartSwap(r) PROVE Quiet
  BY <1>3 DEF Quiet, TypeOK, StartSwap, MayStart, ReadPlan, IsCurrent, Active, Created
<1>4. ASSUME NEW r \in Requests, StartCookAgain(r) PROVE Quiet
  BY <1>4 DEF Quiet, TypeOK, StartCookAgain, MayStart, ReadPlan, IsCurrent, Active, Created
<1>5. ASSUME NEW r \in Requests, ReplySwap(r) \/ CopySource(r) PROVE Quiet
  BY <1>5 DEF Quiet, TypeOK, ReplySwap, CopySource
<1>6. ASSUME NEW r \in Requests, Fail(r) PROVE Quiet
  BY <1>6 DEF Quiet, TypeOK, Fail, RollBack, InFlight
<1> QED
  BY <1>1, <1>2, <1>3, <1>4, <1>5, <1>6 DEF Next, Start, Proceed

LEMMA QuietStep == IInv /\ TypeOK' /\ Memory' /\ Quiet => IInv'
<1> SUFFICES ASSUME IInv, TypeOK', Memory', Quiet PROVE IInv'
  OBVIOUS
<1>1. UNCHANGED <<recipe, status, recipeIDs, createdAt, list, clock>>
  BY DEF Quiet, tables
<1>2. NothingInsertedYet'
  BY <1>1 DEF IInv, Quiet, NothingInsertedYet, Created, Exists
<1>3. ReferencesResolve'
  <2>1. \A i : Exists(i)' = Exists(i)
    BY <1>1 DEF Exists
  <2>2. \A p \in PlanIds : Created(p) => \A s \in Slots : Exists(recipeIDs[p][s])
    BY DEF IInv, ReferencesResolve, RecipesOf
  <2>3. ASSUME NEW r \in Requests, idx'[r] # 0, NEW s \in Slots PROVE Exists(seen'[r][s])
    <3>1. CASE seen'[r] = seen[r] /\ idx'[r] = idx[r]
      BY <2>3, <3>1 DEF IInv, ReferencesResolve
    <3>2. CASE \E p \in PlanIds : Created(p) /\ seen'[r] = recipeIDs[p]
      BY <2>2, <3>2
    <3> QED
      BY <2>3, <3>1, <3>2 DEF Quiet
  <2> QED
    BY <1>1, <2>1, <2>3 DEF IInv, ReferencesResolve, RecipesOf, Created
<1>4. RecipesNotShared'
  BY <1>1 DEF IInv, RecipesNotShared, Created
<1>5. ReplacedStaysReplaced'
  BY <1>1 DEF IInv, Quiet, ReplacedStaysReplaced, Created, OldRecipe
<1>6. OneWinnerPerRecipe'
  BY DEF IInv, Quiet, OneWinnerPerRecipe, OldRecipe
<1>7. ActivePlanRemains'
  BY <1>1 DEF IInv, ActivePlanRemains, Created, Active
<1>8. NoRecipeLost'
  <2> SUFFICES ASSUME NEW i \in RecipeIds, Exists(i)
               PROVE  \/ \E p \in PlanIds : Created(p) /\ i \in RecipesOf(p)
                      \/ \E r \in Requests : pc'[r] = "done" /\ idx'[r] # 0
                                            /\ seen'[r][idx'[r]] = i
    BY <1>1 DEF NoRecipeLost, Exists, Created, RecipesOf, OldRecipe
  <2> QED
    BY DEF IInv, NoRecipeLost, Quiet, OldRecipe
<1> QED
  BY <1>2, <1>3, <1>4, <1>5, <1>6, <1>7, <1>8 DEF IInv

(* The transaction that creates a week: its three ids are new, so nothing  *)
(* that resolves to a row can be one of them.                              *)
LEMMA ArchiveStep ==
    ASSUME IInv, TypeOK', Memory', NEW r \in Requests, ArchiveAndCreateWeek(r)
    PROVE  IInv'
<1> USE DEF Created, Exists
<1>1. /\ ~Created(r)
      /\ \A s \in Slots : ~Exists(<<r, s>>)
      /\ \A s \in Slots : fresh[r][s].source # "none"
      /\ idx[r] = 0
  BY DEF IInv, NothingInsertedYet, Memory, ArchiveAndCreateWeek
<1>2. /\ pc' = [pc EXCEPT ![r] = "done"]
      /\ seen' = seen /\ idx' = idx
      /\ recipe' = [i \in RecipeIds |-> IF i[1] = r THEN fresh[r][i[2]] ELSE recipe[i]]
      /\ recipeIDs' = [recipeIDs EXCEPT ![r] = OwnIDs(r)]
      /\ list' = [list EXCEPT ![r] = {<<r, s>> : s \in Slots}]
  BY DEF ArchiveAndCreateWeek, Finish
<1>3. \A p \in PlanIds : /\ Created(p)' <=> (Created(p) \/ p = r)
                         /\ p # r => recipeIDs'[p] = recipeIDs[p] /\ list'[p] = list[p]
  BY <1>2 DEF ArchiveAndCreateWeek, StatusAfter, Active, IInv, TypeOK
<1>4. /\ \A s \in Slots : recipeIDs'[r][s] = <<r, s>>
      /\ list'[r] = {<<r, s>> : s \in Slots}
  BY <1>2 DEF IInv, TypeOK, OwnIDs
<1>5. /\ \A i \in RecipeIds : i[1] # r => Exists(i)' = Exists(i)
      /\ \A i \in RecipeIds : Exists(i) => Exists(i)'
      /\ \A s \in Slots : Exists(<<r, s>>)'
  BY <1>1, <1>2, IdFacts DEF Exists
<1>6. \A p \in PlanIds : Created(p) => \A s \in Slots :
        recipeIDs[p][s] \in RecipeIds /\ Exists(recipeIDs[p][s])
  BY DEF IInv, ReferencesResolve, RecipesOf, TypeOK
<1>7. NothingInsertedYet'
  BY <1>2, <1>3, <1>5, IdFacts DEF IInv, NothingInsertedYet, TypeOK
<1>8. ReferencesResolve'
  <2>1. ASSUME NEW p \in PlanIds, Created(p)' PROVE \A i \in RecipesOf(p)' : Exists(i)'
    <3>1. CASE p = r
      BY <3>1, <1>4, <1>5 DEF RecipesOf
    <3>2. CASE p # r
      <4>1. \A s \in Slots : recipeIDs[p][s] \in RecipeIds /\ Exists(recipeIDs[p][s])
        BY <3>2, <2>1, <1>3, <1>6
      <4>2. \A s \in Slots : Exists(recipeIDs[p][s])'
        BY <3>2, <4>1, <1>3, <1>5
      <4> QED
        BY <4>2 DEF RecipesOf
    <3> QED
      BY <3>1, <3>2
  <2>2. ASSUME NEW p \in PlanIds, Created(p)' PROVE \A i \in list'[p] : Exists(i)'
    <3>1. CASE p = r
      BY <3>1, <1>4, <1>5
    <3>2. CASE p # r
      <4>1. \A i \in list[p] : i \in RecipeIds /\ Exists(i)
        BY <3>2, <2>2, <1>3 DEF IInv, ReferencesResolve, TypeOK
      <4> QED
        BY <3>2, <4>1, <1>3, <1>5
    <3> QED
      BY <3>1, <3>2
  <2>3. ASSUME NEW q \in Requests, idx'[q] # 0 PROVE \A s \in Slots : Exists(seen[q][s])'
    BY <2>3, <1>2, <1>5 DEF IInv, ReferencesResolve, TypeOK
  <2> QED
    BY <2>1, <2>2, <2>3 DEF ReferencesResolve
<1>9. RecipesNotShared'
  <2> SUFFICES ASSUME NEW p \in PlanIds, NEW q \in PlanIds, NEW s \in Slots, NEW t \in Slots,
                      Created(p)', Created(q)', <<p, s>> # <<q, t>>
               PROVE  recipeIDs'[p][s] # recipeIDs'[q][t]
    BY DEF RecipesNotShared
  <2>1. CASE p # r /\ q # r
    BY <2>1, <1>3 DEF IInv, RecipesNotShared
  <2>2. CASE p = r /\ q = r
    BY <2>2, <1>4
  <2> HIDE DEF Exists
  <2>3. CASE p = r /\ q # r
    <3>1. Exists(recipeIDs[q][t]) /\ ~Exists(<<r, s>>)
      BY <2>3, <1>1, <1>3, <1>6
    <3> QED
      BY <2>3, <3>1, <1>3, <1>4
  <2>4. CASE p # r /\ q = r
    <3>1. Exists(recipeIDs[p][s]) /\ ~Exists(<<r, t>>)
      BY <2>4, <1>1, <1>3, <1>6
    <3> QED
      BY <2>4, <3>1, <1>3, <1>4
  <2> QED
    BY <2>1, <2>2, <2>3, <2>4
<1>10. ReplacedStaysReplaced'
  <2> SUFFICES ASSUME NEW q \in Requests, pc'[q] = "done", idx'[q] # 0,
                      NEW p \in PlanIds, Created(p)', NEW s \in Slots
               PROVE  recipeIDs'[p][s] # OldRecipe(q)'
    BY DEF ReplacedStaysReplaced
  <2>1. q # r /\ pc[q] = "done" /\ OldRecipe(q)' = OldRecipe(q)
    BY <1>1, <1>2 DEF IInv, TypeOK, OldRecipe
  <2>2. CASE p # r
    <3>1. Created(p) /\ recipeIDs'[p] = recipeIDs[p] /\ idx[q] # 0
      BY <2>2, <1>2, <1>3
    <3>2. recipeIDs[p][s] # OldRecipe(q)
      BY <2>1, <3>1 DEF IInv, ReplacedStaysReplaced
    <3> QED
      BY <2>1, <3>1, <3>2
  <2>3. CASE p = r
    <3>1. idx[q] \in Slots
      BY <1>2 DEF IInv, TypeOK
    <3>2. Exists(OldRecipe(q))
      BY <3>1, <1>2 DEF IInv, ReferencesResolve, OldRecipe
    <3> QED
      BY <3>2, <2>1, <2>3, <1>1, <1>4
  <2> QED
    BY <2>2, <2>3
<1>11. OneWinnerPerRecipe'
  BY <1>1, <1>2 DEF IInv, TypeOK, OneWinnerPerRecipe, OldRecipe
<1>12. ActivePlanRemains'
  BY DEF IInv, TypeOK, ArchiveAndCreateWeek, StatusAfter, ActivePlanRemains, Active
<1>13. NoRecipeLost'
  <2> SUFFICES ASSUME NEW i \in RecipeIds, recipe'[i].source # "none"
               PROVE  \/ \E p \in PlanIds : Created(p)' /\ \E s \in Slots : recipeIDs'[p][s] = i
                      \/ \E q \in Requests : pc'[q] = "done" /\ idx[q] # 0
                                            /\ seen[q][idx[q]] = i
    BY <1>2 DEF NoRecipeLost, RecipesOf, OldRecipe
  <2>1. CASE i[1] = r
    <3>1. i[2] \in Slots /\ i = <<r, i[2]>>
      BY <2>1, IdFacts
    <3>2. recipeIDs'[r][i[2]] = i /\ Created(r)'
      BY <3>1, <1>3, <1>4
    <3> QED
      BY <3>1, <3>2
  <2>2. CASE i[1] # r
    <3>1. \/ \E p \in PlanIds : Created(p) /\ \E s \in Slots : recipeIDs[p][s] = i
          \/ \E q \in Requests : pc[q] = "done" /\ idx[q] # 0 /\ seen[q][idx[q]] = i
      BY <2>2, <1>5 DEF IInv, NoRecipeLost, RecipesOf, OldRecipe
    <3>2. \A p \in PlanIds : Created(p) => Created(p)' /\ recipeIDs'[p] = recipeIDs[p]
      BY <1>1, <1>3
    <3>3. \A q \in Requests : pc[q] = "done" => pc'[q] = "done"
      BY <1>2 DEF IInv, TypeOK
    <3> QED
      BY <3>1, <3>2, <3>3
  <2> QED
    BY <2>1, <2>2
<1> QED
  BY <1>7, <1>8, <1>9, <1>10, <1>11, <1>12, <1>13 DEF IInv

(* The transaction that rotates a recipe: the old one was in one slot of   *)
(* one plan, the new id was in none.                                       *)
LEMMA SwapStep ==
    ASSUME IInv, TypeOK', Memory', NEW r \in Requests, SwapRecipeInPlan(r)
    PROVE  IInv'
<1> USE DEF Exists
<1> DEFINE p == planID[r]
           new == <<r, idx[r]>>
<1>1. /\ p \in PlanIds /\ Created(p)
      /\ idx[r] \in Slots
      /\ new \in RecipeIds
      /\ ~Exists(new)
      /\ fresh[r][idx[r]].source # "none"
      /\ ~Created(r)
  BY IdFacts DEF IInv, Memory, NothingInsertedYet, SwapRecipeInPlan
<1>2. /\ pc' = [pc EXCEPT ![r] = "done"]
      /\ seen' = seen /\ idx' = idx /\ status' = status
      /\ recipe' = [recipe EXCEPT ![new] = fresh[r][idx[r]]]
      /\ list' = [list EXCEPT ![p] = {seen[r][t] : t \in Kept(r)} \cup {new}]
  BY DEF SwapRecipeInPlan, Finish, InsertRecipe, NewID, RebuiltList
<1>3. PICK s \in Slots : /\ recipeIDs[p][s] = OldRecipe(r)
                         /\ recipeIDs' = [recipeIDs EXCEPT ![p] =
                                            [recipeIDs[p] EXCEPT ![s] = new]]
  BY DEF SwapRecipeInPlan, SlotOfOld, RotatedIDs, NewID
<1>4. \A q \in PlanIds, t \in Slots :
        recipeIDs'[q][t] = IF q = p /\ t = s THEN new ELSE recipeIDs[q][t]
  BY <1>1, <1>3 DEF IInv, TypeOK
<1>5. \A q : Created(q)' = Created(q) /\ Active(q)' = Active(q)
  BY <1>2 DEF Created, Active
<1>6. /\ \A i \in RecipeIds : Exists(i) => Exists(i)'
      /\ \A i \in RecipeIds : i # new => Exists(i)' = Exists(i)
      /\ recipe'[new].source # "none"
  BY <1>1, <1>2 DEF IInv, TypeOK, Exists
<1>7. \A q \in PlanIds : Created(q) => \A t \in Slots :
        recipeIDs[q][t] \in RecipeIds /\ Exists(recipeIDs[q][t])
  BY DEF IInv, ReferencesResolve, RecipesOf, TypeOK
<1>8. \A t \in Slots : seen[r][t] \in RecipeIds /\ Exists(seen[r][t])
  BY <1>1 DEF IInv, ReferencesResolve, TypeOK, Slots
<1>9. NothingInsertedYet'
  <2> SUFFICES ASSUME NEW q \in Requests, pc'[q] # "done"
               PROVE  ~Created(q)' /\ \A t \in Slots : ~Exists(<<q, t>>)'
    BY DEF NothingInsertedYet
  <2>1. q # r /\ pc[q] # "done"
    BY <1>2 DEF IInv, TypeOK
  <2>2. \A t \in Slots : <<q, t>> \in RecipeIds /\ <<q, t>> # new
    BY <2>1, IdFacts
  <2> QED
    BY <2>1, <2>2, <1>5, <1>6 DEF IInv, NothingInsertedYet
<1>10. ReferencesResolve'
  <2>1. ASSUME NEW q \in PlanIds, Created(q)' PROVE \A i \in RecipesOf(q)' : Exists(i)'
    <3>1. ASSUME NEW t \in Slots PROVE Exists(recipeIDs[q][t])'
      <4>1. recipeIDs[q][t] \in RecipeIds /\ Exists(recipeIDs[q][t])
        BY <2>1, <1>5, <1>7
      <4> QED
        BY <4>1, <1>4, <1>6
    <3> QED
      BY <3>1 DEF RecipesOf
  <2>2. ASSUME NEW q \in PlanIds, Created(q)' PROVE \A i \in list'[q] : Exists(i)'
    <3>1. CASE q = p
      <4>1. list'[p] = {seen[r][t] : t \in Kept(r)} \cup {new}
        BY <1>1, <1>2 DEF IInv, TypeOK
      <4>2. \A i \in {seen[r][t] : t \in Kept(r)} : i \in RecipeIds /\ Exists(i)
        BY <1>8 DEF Kept
      <4> QED
        BY <3>1, <4>1, <4>2, <1>6
    <3>2. CASE q # p
      <4>1. list'[q] = list[q] /\ list[q] \in SUBSET RecipeIds /\ Created(q)
        BY <2>2, <3>2, <1>2, <1>5 DEF IInv, TypeOK
      <4> QED
        BY <4>1, <1>6 DEF IInv, ReferencesResolve
    <3> QED
      BY <3>1, <3>2
  <2>3. ASSUME NEW q \in Requests, idx'[q] # 0 PROVE \A t \in Slots : Exists(seen[q][t])'
    BY <2>3, <1>2, <1>6 DEF IInv, ReferencesResolve, TypeOK
  <2> QED
    BY <2>1, <2>2, <2>3 DEF ReferencesResolve
<1>11. RecipesNotShared'
  <2> SUFFICES ASSUME NEW q1 \in PlanIds, NEW q2 \in PlanIds, NEW t1 \in Slots, NEW t2 \in Slots,
                      Created(q1)', Created(q2)', <<q1, t1>> # <<q2, t2>>
               PROVE  recipeIDs'[q1][t1] # recipeIDs'[q2][t2]
    BY DEF RecipesNotShared
  <2>1. recipeIDs[q1][t1] # recipeIDs[q2][t2]
    BY <1>5 DEF IInv, RecipesNotShared
  <2>2. recipeIDs[q1][t1] # new /\ recipeIDs[q2][t2] # new
    BY <1>1, <1>5, <1>7
  <2> QED
    BY <2>1, <2>2, <1>4
<1>12. Exists(OldRecipe(r)) /\ OldRecipe(r) # new
  BY <1>1, <1>8 DEF OldRecipe
<1>13. ReplacedStaysReplaced'
  <2> SUFFICES ASSUME NEW q \in Requests, pc'[q] = "done", idx'[q] # 0,
                      NEW a \in PlanIds, Created(a)', NEW t \in Slots
               PROVE  recipeIDs'[a][t] # OldRecipe(q)'
    BY DEF ReplacedStaysReplaced
  <2>1. OldRecipe(q)' = OldRecipe(q) /\ idx[q] # 0 /\ Created(a)
    BY <1>2, <1>5 DEF OldRecipe
  <2>2. CASE q = r
    <3>1. CASE a = p /\ t = s
      BY <3>1, <2>1, <2>2, <1>4, <1>12
    <3>2. CASE ~(a = p /\ t = s)
      <4>1. recipeIDs[a][t] # recipeIDs[p][s]
        BY <3>2, <2>1, <1>1 DEF IInv, RecipesNotShared
      <4> QED
        BY <3>2, <4>1, <2>1, <2>2, <1>3, <1>4
    <3> QED
      BY <3>1, <3>2
  <2>3. CASE q # r
    <3>1. pc[q] = "done" /\ idx[q] \in Slots
      BY <2>3, <1>2 DEF IInv, TypeOK
    <3>2. recipeIDs[a][t] # OldRecipe(q) /\ Exists(OldRecipe(q))
      BY <3>1, <2>1 DEF IInv, ReplacedStaysReplaced, ReferencesResolve, OldRecipe
    <3> QED
      BY <3>2, <2>1, <1>1, <1>4
  <2> QED
    BY <2>2, <2>3
<1>14. OneWinnerPerRecipe'
  <2>1. \A q \in Requests : /\ pc[q] = "done" /\ idx[q] # 0 => OldRecipe(q) # OldRecipe(r)
                            /\ OldRecipe(q)' = OldRecipe(q)
                            /\ q # r => pc'[q] = pc[q]
    BY <1>1, <1>2, <1>3 DEF IInv, TypeOK, ReplacedStaysReplaced, OldRecipe
  <2> QED
    BY <2>1, <1>2 DEF IInv, OneWinnerPerRecipe
<1>15. ActivePlanRemains'
  BY <1>5 DEF IInv, ActivePlanRemains
<1>16. NoRecipeLost'
  <2> SUFFICES ASSUME NEW i \in RecipeIds, recipe'[i].source # "none"
               PROVE  \/ \E a \in PlanIds : Created(a) /\ \E t \in Slots : recipeIDs'[a][t] = i
                      \/ \E q \in Requests : pc'[q] = "done" /\ idx[q] # 0
                                            /\ seen[q][idx[q]] = i
    BY <1>2, <1>5 DEF NoRecipeLost, RecipesOf, OldRecipe
  <2>1. CASE i = new
    BY <2>1, <1>1, <1>4
  <2>2. CASE i = seen[r][idx[r]]
    BY <2>2, <1>1, <1>2 DEF IInv, TypeOK, Slots
  <2>3. CASE i # new /\ i # seen[r][idx[r]]
    <3>1. \/ \E a \in PlanIds : Created(a) /\ \E t \in Slots : recipeIDs[a][t] = i
          \/ \E q \in Requests : pc[q] = "done" /\ idx[q] # 0 /\ seen[q][idx[q]] = i
      BY <2>3, <1>6 DEF IInv, NoRecipeLost, RecipesOf, OldRecipe
    <3>2. \A a \in PlanIds, t \in Slots : recipeIDs[a][t] = i => recipeIDs'[a][t] = i
      BY <2>3, <1>3, <1>4 DEF OldRecipe
    <3>3. \A q \in Requests : pc[q] = "done" => pc'[q] = "done"
      BY <1>2 DEF IInv, TypeOK
    <3> QED
      BY <3>1, <3>2, <3>3
  <2> QED
    BY <2>1, <2>2, <2>3
<1> QED
  BY <1>9, <1>10, <1>11, <1>13, <1>14, <1>15, <1>16 DEF IInv

LEMMA TablesNext == IInv /\ [Next]_vars => IInv'
<1> SUFFICES ASSUME IInv, [Next]_vars PROVE IInv'
  OBVIOUS
<1>1. TypeOK /\ Memory /\ TypeOK' /\ Memory'
  BY TypeNext, MemoryNext DEF IInv
<1> QED
  BY <1>1, StepKinds, QuietStep, ArchiveStep, SwapStep

LEMMA Invariance == Spec => []IInv
  BY TablesInit, TablesNext, PTL DEF Spec

(* No plan, list or waiting request refers to a recipe row that is not     *)
(* there, no row stands in two plans, of two racing swaps of a recipe one  *)
(* is refused, no swap undoes another, and a household that has planned a  *)
(* week always has a plan.                                                 *)
THEOREM SafeUnderOverlap ==
    Spec => []/\ ReferencesResolve
              /\ RecipesNotShared
              /\ OneWinnerPerRecipe
              /\ NoRecipeLost
              /\ ActivePlanRemains
<1>1. IInv => /\ ReferencesResolve
              /\ RecipesNotShared
              /\ OneWinnerPerRecipe
              /\ NoRecipeLost
              /\ ActivePlanRemains
  BY DEF IInv
<1> QED
  BY <1>1, Invariance, PTL

(* The household is never without a plan again: no failure or interleaving *)
(* leaves it between the archived one and its successor.                   *)
THEOREM NeverBetweenPlans == Spec => []ActivePlanRemains
  BY SafeUnderOverlap, PTL

(* No two plans share a recipe, so a swap of one week edits no other. *)
THEOREM WeeksAreSeparate == Spec => []RecipesNotShared
  BY SafeUnderOverlap, PTL

(* Of several swaps of one recipe at most one takes effect. *)
THEOREM OneSwapWins == Spec => []OneWinnerPerRecipe
  BY SafeUnderOverlap, PTL

(* A swap never undoes what another one wrote into the plan. *)
THEOREM SwapsDoNotUndo == Spec => []NoRecipeLost
  BY SafeUnderOverlap, PTL
-----------------------------------------------------------------------------
(* What no step may do: the action properties. *)

(* The clock is never behind a plan. *)
Clocked == \A p \in PlanIds : createdAt[p] <= clock

LEMMA ClockedNext == IInv /\ Clocked /\ [Next]_vars => Clocked'
<1> SUFFICES ASSUME IInv, Clocked, [Next]_vars PROVE Clocked'
  OBVIOUS
<1>1. TypeOK
  BY DEF IInv
<1>2. CASE Quiet
  BY <1>2 DEF Quiet, tables, Clocked
<1>3. ASSUME NEW r \in Requests, ArchiveAndCreateWeek(r) PROVE Clocked'
  BY <1>1, <1>3 DEF TypeOK, Clocked, ArchiveAndCreateWeek, Stamp
<1>4. ASSUME NEW r \in Requests, SwapRecipeInPlan(r) PROVE Clocked'
  BY <1>4 DEF Clocked, SwapRecipeInPlan
<1> QED
  BY <1>1, <1>2, <1>3, <1>4, StepKinds

-----------------------------------------------------------------------------
(* History. *)

LEMMA HistoryStep ==
    ASSUME IInv, [Next]_vars
    PROVE  /\ \A i \in RecipeIds : Exists(i) => recipe'[i] = recipe[i]
           /\ \A p \in PlanIds : Created(p) =>
                /\ status'[p] = status[p] \/ status'[p] = "archived"
                /\ createdAt'[p] = createdAt[p]
<1>1. TypeOK /\ Memory /\ NothingInsertedYet
  BY DEF IInv
<1>2. CASE Quiet
  BY <1>2 DEF Quiet, tables
<1>3. ASSUME NEW r \in Requests, ArchiveAndCreateWeek(r)
      PROVE  /\ \A i \in RecipeIds : Exists(i) => recipe'[i] = recipe[i]
             /\ \A p \in PlanIds : Created(p) =>
                  /\ status'[p] = status[p] \/ status'[p] = "archived"
                  /\ createdAt'[p] = createdAt[p]
  <2>1. ~Created(r) /\ \A s \in Slots : ~Exists(<<r, s>>)
    BY <1>1, <1>3 DEF NothingInsertedYet, ArchiveAndCreateWeek
  <2>2. ASSUME NEW i \in RecipeIds, Exists(i) PROVE i[1] # r
    BY <2>1, <2>2, IdFacts
  <2>3. \A i \in RecipeIds : Exists(i) => recipe'[i] = recipe[i]
    BY <1>3, <2>2 DEF ArchiveAndCreateWeek
  <2>4. ASSUME NEW p \in PlanIds, Created(p)
        PROVE  /\ status'[p] = status[p] \/ status'[p] = "archived"
               /\ createdAt'[p] = createdAt[p]
    BY <1>1, <1>3, <2>1, <2>4 DEF TypeOK, ArchiveAndCreateWeek, StatusAfter
  <2> QED
    BY <2>3, <2>4
<1>4. ASSUME NEW r \in Requests, SwapRecipeInPlan(r)
      PROVE  /\ \A i \in RecipeIds : Exists(i) => recipe'[i] = recipe[i]
             /\ UNCHANGED <<status, createdAt>>
  <2>1. ~Exists(NewID(r)) /\ NewID(r) \in RecipeIds
    BY <1>1, <1>4, IdFacts DEF Memory, NothingInsertedYet, SwapRecipeInPlan, NewID
  <2> QED
    BY <1>1, <1>4, <2>1 DEF TypeOK, SwapRecipeInPlan, InsertRecipe
<1> QED
  BY <1>1, <1>2, <1>3, <1>4, StepKinds

(* A recipe row never changes or goes, an archived plan stays archived, a  *)
(* plan keeps its row and its created_at, however requests interleave.     *)
THEOREM HistoryIsKept == Spec => HistoryKept
  BY HistoryStep, Invariance, PTL DEF HistoryKept, Spec

-----------------------------------------------------------------------------
(* The current plan. *)

LEMMA CurrentStep ==
    ASSUME IInv, Clocked, [Next]_vars
    PROVE  /\ \A p \in PlanIds : ~Created(p) /\ Created(p)' => IsCurrent(p)'
           /\ \A p \in PlanIds : IsCurrent(p) /\ ~IsCurrent(p)' =>
                \E q \in PlanIds : ~Created(q) /\ Created(q)'
<1> USE DEF Created, Active, IsCurrent
<1>1. TypeOK /\ NothingInsertedYet
  BY DEF IInv
<1>2. CASE UNCHANGED <<status, createdAt>>
  BY <1>2
<1>3. ASSUME NEW r \in Requests, ArchiveAndCreateWeek(r)
      PROVE  /\ \A p \in PlanIds : ~Created(p) /\ Created(p)' => IsCurrent(p)'
             /\ ~Created(r) /\ Created(r)'
  <2>1. status[r] = "absent"
    BY <1>1, <1>3 DEF NothingInsertedYet, ArchiveAndCreateWeek
  <2>2. /\ status'[r] = "active"
        /\ \A p \in PlanIds : p # r /\ status[p] = "absent" => status'[p] = "absent"
    BY <1>1, <1>3 DEF TypeOK, ArchiveAndCreateWeek, StatusAfter
  <2>3. /\ createdAt'[r] = clock + 1
        /\ \A p \in PlanIds : p # r => createdAt'[p] = createdAt[p]
    BY <1>1, <1>3 DEF TypeOK, ArchiveAndCreateWeek, Stamp
  <2>4. \A p \in PlanIds : createdAt'[p] <= createdAt'[r]
    <3>1. clock \in Nat /\ \A p \in PlanIds : createdAt[p] \in Nat /\ createdAt[p] <= clock
      BY <1>1 DEF TypeOK, Clocked
    <3> QED
      BY <3>1, <2>3
  <2> QED
    BY <2>1, <2>2, <2>4
<1> QED
  <2>1. Quiet => UNCHANGED <<status, createdAt>>
    BY DEF Quiet, tables
  <2>2. \A r \in Requests : SwapRecipeInPlan(r) => UNCHANGED <<status, createdAt>>
    BY DEF SwapRecipeInPlan
  <2>3. \/ UNCHANGED <<status, createdAt>>
        \/ \E r \in Requests : ArchiveAndCreateWeek(r)
    BY <1>1, <2>1, <2>2, StepKinds
  <2>4. CASE \E r \in Requests : ArchiveAndCreateWeek(r)
    <3> PICK r \in Requests : ArchiveAndCreateWeek(r)
      BY <2>4
    <3> QED
      BY <1>3
  <2> QED
    BY <1>2, <2>3, <2>4

LEMMA ClockedInit == Init => Clocked
<1> SUFFICES ASSUME Init, NEW p \in PlanIds PROVE createdAt[p] <= clock
  BY DEF Clocked
<1>1. clock = 0 /\ createdAt[p] = 0
  BY DEF Init
<1> QED
  BY <1>1

(* The plan of the last committed generation is the current one, and stays *)
(* it until the next one commits, also when several plans are active.      *)
THEOREM LatestIsCurrent == Spec => LatestGenerationIsCurrent
<1>1. Spec => []Clocked
  BY ClockedInit, ClockedNext, Invariance, PTL DEF Spec
<1> QED
  BY <1>1, CurrentStep, Invariance, PTL DEF LatestGenerationIsCurrent, Spec

-----------------------------------------------------------------------------
(* Swaps heal. *)

(* A model's recipe that waits for its transaction portions what the       *)
(* recipes kept with it leave.                                             *)
Portioned ==
    \A r \in Requests : pc[r] = "rotating" /\ fresh[r][idx[r]].source = "llm" =>
        fresh[r][idx[r]].servings >= TargetServings(r)

LEMMA ServingsAreIntegers == \A n \in Servings \cup {0} : n \in Int
<1> SUFFICES ASSUME NEW n \in Servings \cup {0} PROVE n \in Int
  OBVIOUS
<1>1. CASE n = 0
  BY <1>1
<1>2. CASE n \in Servings
  BY <1>2, ServingsAssumption
<1> QED
  BY <1>1, <1>2

LEMMA RowServings == \A x \in RecipeRows : x.servings \in Int
<1> SUFFICES ASSUME NEW x \in RecipeRows PROVE x.servings \in Int
  OBVIOUS
<1>1. x.servings \in Servings \cup {0}
  BY DEF RecipeRows
<1> QED
  BY <1>1, ServingsAreIntegers

LEMMA TargetFacts ==
    ASSUME IInv, NEW r \in Requests, idx[r] \in Slots
    PROVE  /\ \A s \in Slots : seen[r][s] \in RecipeIds /\ Exists(seen[r][s])
           /\ \A s \in Slots : recipe[seen[r][s]].servings \in Int
           /\ TargetServings(r) \in Int
           /\ TargetServings(r) >= TargetPortions - KeptServings(r)
           /\ KeptServings(r) \in Int
<1>1. \A s \in Slots : seen[r][s] \in RecipeIds /\ Exists(seen[r][s])
  BY DEF IInv, TypeOK, ReferencesResolve, Slots
<1>2. \A s \in Slots : recipe[seen[r][s]].servings \in Int
  <2>1. \A i \in RecipeIds : recipe[i] \in RecipeRows
    BY DEF IInv, TypeOK
  <2> QED
    BY <1>1, <2>1, RowServings
<1>3. KeptServings(r) \in Int
  BY <1>2 DEF KeptServings, Portions, Slots
<1> QED
  BY <1>1, <1>2, <1>3, ServingsAssumption DEF TargetServings

LEMMA PortionedNext == IInv /\ Portioned /\ [Next]_vars => Portioned'
<1> SUFFICES ASSUME IInv, Portioned, [Next]_vars PROVE Portioned'
  OBVIOUS
<1>1. TypeOK /\ Memory
  BY DEF IInv
<1>2. ASSUME NEW q \in Requests, pc[q] = "rotating", seen'[q] = seen[q], idx'[q] = idx[q]
      PROVE  TargetServings(q)' = TargetServings(q)
  <2>1. idx[q] \in Slots
    BY <1>1, <1>2 DEF Memory
  <2>2. \A s \in Slots : recipe'[seen'[q][s]] = recipe[seen[q][s]]
    BY <2>1, <1>2, TargetFacts, HistoryStep
  <2>3. KeptServings(q)' = KeptServings(q)
    BY <2>2, <1>2 DEF KeptServings, Portions, Kept, Slots
  <2> QED
    BY <2>3 DEF TargetServings
<1>3. ASSUME NEW q \in Requests, pc[q] = "rotating", pc'[q] = "rotating"
      PROVE  seen'[q] = seen[q] /\ idx'[q] = idx[q] /\ fresh'[q] = fresh[q]
  <2>1. CASE UNCHANGED vars
    BY <2>1 DEF vars
  <2>2. ASSUME NEW r \in Requests, Start(r) \/ Proceed(r) \/ Fail(r) PROVE r # q
    BY <1>1, <1>3, <2>2
    DEF TypeOK, Start, Proceed, StartGenerate, StartSwap, StartCookAgain, MayStart,
        ReplyGenerate, ReadPrevious, ArchiveAndCreateWeek, ReplySwap, CopySource,
        SwapRecipeInPlan, Fail, Finish
  <2>3. ASSUME NEW r \in Requests, r # q, Start(r)
        PROVE  seen'[q] = seen[q] /\ idx'[q] = idx[q] /\ fresh'[q] = fresh[q]
    BY <1>1, <2>3
    DEF TypeOK, Start, StartGenerate, StartSwap, StartCookAgain, ReadPlan, locals
  <2>4. ASSUME NEW r \in Requests, r # q, Proceed(r) \/ Fail(r)
        PROVE  seen'[q] = seen[q] /\ idx'[q] = idx[q] /\ fresh'[q] = fresh[q]
    BY <1>1, <2>4
    DEF TypeOK, Proceed, ReplyGenerate, ReadPrevious, ArchiveAndCreateWeek, ReplySwap,
        CopySource, SwapRecipeInPlan, Fail, Finish
  <2> QED
    BY <2>1, <2>2, <2>3, <2>4 DEF Next
<1>4. ASSUME NEW q \in Requests, pc[q] # "rotating", pc'[q] = "rotating",
             fresh'[q][idx'[q]].source = "llm"
      PROVE  fresh'[q][idx'[q]].servings >= TargetServings(q)'
  <2>1. CASE ReplySwap(q)
    <3>1. PICK n \in Servings :
            /\ n >= TargetServings(q)
            /\ fresh' = [fresh EXCEPT ![q][idx[q]] = [source |-> "llm", servings |-> n]]
      BY <2>1 DEF ReplySwap
    <3>2. idx[q] \in Slots /\ idx' = idx /\ seen' = seen /\ recipe' = recipe
      BY <2>1, <1>1 DEF ReplySwap, Memory, tables
    <3>3. fresh'[q][idx'[q]].servings = n
      BY <3>1, <3>2, <1>1 DEF TypeOK
    <3>4. TargetServings(q)' = TargetServings(q)
      BY <3>2 DEF TargetServings, KeptServings, Portions, Kept
    <3> QED
      BY <3>1, <3>3, <3>4
  <2>2. CASE CopySource(q)
    <3>1. PICK i \in RecipeIds :
            fresh' = [fresh EXCEPT ![q][idx[q]] =
                        [source |-> "history", servings |-> recipe[i].servings]]
      BY <2>2 DEF CopySource
    <3>2. idx' = idx /\ idx[q] \in Slots
      BY <2>2, <1>1 DEF CopySource, Memory
    <3>3. fresh'[q][idx'[q]].source = "history"
      BY <3>1, <3>2, <1>1 DEF TypeOK
    <3> QED
      BY <3>3, <1>4
  <2>3. ReplySwap(q) \/ CopySource(q)
    <3>1. ~UNCHANGED vars
      BY <1>4 DEF vars
    <3>2. PICK r \in Requests : Start(r) \/ Proceed(r) \/ Fail(r)
      BY <3>1 DEF Next
    <3>3. pc' = [pc EXCEPT ![r] = pc'[r]]
      BY <1>1, <3>2
      DEF TypeOK, Start, Proceed, StartGenerate, StartSwap, StartCookAgain, ReplyGenerate,
          ReadPrevious, ArchiveAndCreateWeek, ReplySwap, CopySource, SwapRecipeInPlan, Fail,
          Finish
    <3>4. r = q
      BY <1>1, <1>4, <3>3 DEF TypeOK
    <3>5. ~StartGenerate(q) /\ ~StartSwap(q) /\ ~StartCookAgain(q) /\ ~Fail(q)
      BY <1>1, <1>4 DEF TypeOK, StartGenerate, StartSwap, StartCookAgain, Fail
    <3>6. ~ReplyGenerate(q) /\ ~ReadPrevious(q) /\ ~ArchiveAndCreateWeek(q)
      BY <1>1, <1>4 DEF TypeOK, ReplyGenerate, ReadPrevious, ArchiveAndCreateWeek, Finish
    <3> QED
      BY <1>4, <3>2, <3>4, <3>5, <3>6 DEF Start, Proceed, SwapRecipeInPlan
  <2> QED
    BY <2>1, <2>2, <2>3
<1> QED
  BY <1>2, <1>3, <1>4 DEF Portioned

(* The transaction of an uncontended swap. *)
LEMMA HealStep ==
    ASSUME IInv, Portioned, NEW r \in Requests, SwapRecipeInPlan(r),
           seen[r] = recipeIDs[planID[r]]
    PROVE  /\ list'[planID[r]] = {recipeIDs'[planID[r]][s] : s \in Slots}
           /\ fresh[r][idx[r]].source = "llm" =>
                Portions([s \in Slots |-> recipe'[recipeIDs'[planID[r]][s]].servings])
                    >= TargetPortions
<1> DEFINE p == planID[r]
           k == idx[r]
           new == NewID(r)
<1>1. /\ TypeOK
      /\ p \in PlanIds /\ Created(p) /\ k \in Slots
      /\ new \in RecipeIds /\ ~Exists(new)
  BY IdFacts DEF IInv, Memory, NothingInsertedYet, SwapRecipeInPlan, NewID
<1>2. PICK s \in Slots : /\ recipeIDs[p][s] = recipeIDs[p][k]
                         /\ recipeIDs' = [recipeIDs EXCEPT ![p] =
                                            [recipeIDs[p] EXCEPT ![s] = new]]
  BY DEF SwapRecipeInPlan, SlotOfOld, RotatedIDs, OldRecipe
<1>3. s = k
  BY <1>1, <1>2 DEF IInv, RecipesNotShared
<1>4. \A t \in Slots : recipeIDs'[p][t] = IF t = k THEN new ELSE seen[r][t]
  BY <1>1, <1>2, <1>3 DEF TypeOK
<1>5. list'[p] = {seen[r][t] : t \in Slots \ {k}} \cup {new}
  BY <1>1 DEF TypeOK, SwapRecipeInPlan, RebuiltList, Kept
<1>6. list'[p] = {recipeIDs'[p][t] : t \in Slots}
  BY <1>1, <1>4, <1>5
<1>7. ASSUME fresh[r][k].source = "llm"
      PROVE  Portions([t \in Slots |-> recipe'[recipeIDs'[p][t]].servings]) >= TargetPortions
  <2> DEFINE serves(t) == recipe[seen[r][t]].servings
             n == fresh[r][k].servings
  <2>1. /\ \A t \in Slots : serves(t) \in Int /\ seen[r][t] \in RecipeIds /\ seen[r][t] # new
        /\ n \in Int /\ n >= TargetPortions - KeptServings(r)
    <3>1. fresh[r][k] \in RecipeRows
      BY <1>1 DEF TypeOK
    <3>2. n \in Int
      BY <3>1, RowServings
    <3>3. n >= TargetServings(r)
      BY <1>7 DEF Portioned, SwapRecipeInPlan
    <3> QED
      BY <1>1, <3>2, <3>3, TargetFacts, ServingsAssumption
  <2>2. \A t \in Slots :
          recipe'[recipeIDs'[p][t]].servings = IF t = k THEN n ELSE serves(t)
    BY <1>1, <1>4, <2>1 DEF TypeOK, SwapRecipeInPlan, InsertRecipe
  <2>3. KeptServings(r) =
          (IF k = 1 THEN 0 ELSE serves(1)) + (IF k = 2 THEN 0 ELSE serves(2))
            + (IF k = 3 THEN 0 ELSE serves(3))
    BY DEF KeptServings, Kept, Portions, Slots
  <2>4. Portions([t \in Slots |-> recipe'[recipeIDs'[p][t]].servings]) =
          (IF k = 1 THEN n ELSE serves(1)) + (IF k = 2 THEN n ELSE serves(2))
            + (IF k = 3 THEN n ELSE serves(3))
    BY <2>2 DEF Portions, Slots
  <2>5. /\ k = 1 \/ k = 2 \/ k = 3
        /\ serves(1) \in Int /\ serves(2) \in Int /\ serves(3) \in Int
    BY <1>1, <2>1 DEF Slots
  <2> HIDE DEF serves, n, k
  <2> QED
    BY <2>1, <2>3, <2>4, <2>5, ServingsAssumption
<1> QED
  BY <1>6, <1>7

(* Only the swap transaction takes a request from "rotating" to "done". *)
LEMMA RotatedBySwap ==
    ASSUME TypeOK, [Next]_vars, NEW r \in Requests, pc[r] = "rotating", pc'[r] = "done"
    PROVE  SwapRecipeInPlan(r)
<1>1. ~UNCHANGED vars
  BY DEF vars
<1>2. PICK q \in Requests : Start(q) \/ Proceed(q) \/ Fail(q)
  BY <1>1 DEF Next
<1>3. pc' = [pc EXCEPT ![q] = pc'[q]]
  BY <1>2
  DEF TypeOK, Start, Proceed, StartGenerate, StartSwap, StartCookAgain, ReplyGenerate,
      ReadPrevious, ArchiveAndCreateWeek, ReplySwap, CopySource, SwapRecipeInPlan, Fail, Finish
<1>4. q = r
  BY <1>3 DEF TypeOK
<1>5. ~Start(r) /\ ~Fail(r)
  BY DEF TypeOK, Start, StartGenerate, StartSwap, StartCookAgain, MayStart, Fail
<1> QED
  BY <1>2, <1>4, <1>5
  DEF Proceed, ReplyGenerate, ReadPrevious, ArchiveAndCreateWeek, ReplySwap, CopySource

LEMMA HealNext ==
    ASSUME IInv, Portioned, [Next]_vars
    PROVE  \A r \in Requests, p \in PlanIds :
             /\ pc[r] = "rotating" /\ pc'[r] = "done"
             /\ p = planID[r] /\ seen[r] = recipeIDs[p]
             => /\ list'[p] = RecipesOf(p)'
                /\ fresh[r][idx[r]].source = "llm"
                     => PlanPortions(p)' >= TargetPortions
<1> SUFFICES ASSUME NEW r \in Requests, NEW p \in PlanIds,
                    pc[r] = "rotating", pc'[r] = "done",
                    p = planID[r], seen[r] = recipeIDs[p]
             PROVE  /\ list'[p] = RecipesOf(p)'
                    /\ fresh[r][idx[r]].source = "llm" => PlanPortions(p)' >= TargetPortions
  OBVIOUS
<1>1. SwapRecipeInPlan(r)
  BY RotatedBySwap DEF IInv
<1>2. /\ list'[p] = {recipeIDs'[p][s] : s \in Slots}
      /\ fresh[r][idx[r]].source = "llm" =>
           Portions([s \in Slots |-> recipe'[recipeIDs'[p][s]].servings]) >= TargetPortions
  BY <1>1, HealStep
<1> QED
  BY <1>2 DEF RecipesOf, PlanPortions, Portions

LEMMA PortionedInit == Init => Portioned
  BY DEF Init, Portioned

(* However plans and lists were left by earlier races, the next swap that  *)
(* runs alone leaves its plan with its own list, and portioned.            *)
THEOREM SwapsHeal == Spec => UncontendedSwapHeals
<1>1. Spec => []Portioned
  BY PortionedInit, PortionedNext, Invariance, PTL DEF Spec
<1> QED
  BY <1>1, HealNext, Invariance, PTL DEF UncontendedSwapHeals, Spec
=============================================================================
