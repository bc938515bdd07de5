---------------------------- MODULE MCHousehold ----------------------------
(* Household on two or three requests.  A word has two spellings, which    *)
(* is all that the comparison of terms can tell; the sizes of a form are   *)
(* the largest allowed, one too few and one too many.                      *)
EXTENDS Household, TLC

CONSTANTS r1, r2, r3

TwoRequests == {r1, r2}
ThreeRequests == {r1, r2, r3}
BoundarySizes == {<<6, 6>>, <<0, 0>>, <<7, 0>>}

Interchangeable == Permutations(Requests)
=============================================================================
