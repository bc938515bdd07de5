----------------------------- MODULE CurrentWeek -----------------------------
(***************************************************************************)
(* What the application promises about a household's week, free of tables, *)
(* transactions and requests: there is at most one current week; it has    *)
(* three dishes and a shopping list for exactly these dishes; a new week   *)
(* sends the current one to the past unchanged; a dish of the current week *)
(* can be replaced by a dish no week ever had.                             *)
(*                                                                         *)
(* WeekPlan implements it when requests come one at a time.                *)
(***************************************************************************)
EXTENDS Integers

CONSTANTS Weeks,  \* the names of weeks
          Dishes  \* the names of dishes

Days == 1 .. 3

VARIABLES current, \* the current week, in a set that is empty before there is one
          past,    \* the weeks that were current once
          served   \* the dishes that ever were part of a week

vars == <<current, past, served>>

DishesOf(w) == {w.dishes[d] : d \in Days}

(* A week as it should be: three different dishes, and a list for them. *)
Proper(w) ==
    /\ w.name \in Weeks
    /\ w.dishes \in [Days -> Dishes]
    /\ \A d, e \in Days : d # e => w.dishes[d] # w.dishes[e]
    /\ w.list = DishesOf(w)

Init ==
    /\ current = {}
    /\ past = {}
    /\ served = {}

(* A week with a new name and three new dishes. *)
PlanWeek ==
    /\ \E w \in current' :
         /\ current' = {w}
         /\ Proper(w)
         /\ \A v \in past \cup current : w.name # v.name
         /\ DishesOf(w) \cap served = {}
         /\ served' = served \cup DishesOf(w)
    /\ past' = past \cup current

(* One new dish on one day; the list follows. *)
ReplaceDish ==
    /\ \E w \in current, v \in current', d \in Days :
         /\ current' = {v}
         /\ Proper(v)
         /\ v.name = w.name
         /\ v.dishes[d] \notin served
         /\ v.dishes = [w.dishes EXCEPT ![d] = v.dishes[d]]
         /\ served' = served \cup {v.dishes[d]}
    /\ UNCHANGED past

Next == PlanWeek \/ ReplaceDish

Spec == Init /\ [][Next]_vars
=============================================================================
