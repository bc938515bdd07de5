----------------------------- MODULE MCWeekPlan -----------------------------
(* WeekPlan on a handful of requests.  A recipe serves one or two and a    *)
(* week needs five portions, or it serves up to two, nobody included, and  *)
(* a week needs four: so a week can be short, exact or over, and the kept  *)
(* recipes can leave less than one portion to cover.                       *)
EXTENDS WeekPlan, TLC

CONSTANTS r1, r2, r3, r4

ThreeRequests == {r1, r2, r3}
FourRequests == {r1, r2, r3, r4}
OneOrTwo == {1, 2}
UpToTwo == {0, 1, 2}
Four == 4
Five == 5

Interchangeable == Permutations(Requests)
=============================================================================
