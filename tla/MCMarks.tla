------------------------------ MODULE MCMarks ------------------------------
(* Two taps on two pages, two lines one after the other, one recipe.       *)
EXTENDS Marks, TLC

Symmetry == Permutations(Taps) \cup Permutations(Pages) \cup Permutations(Items)
              \cup Permutations(Reactions)
=============================================================================
