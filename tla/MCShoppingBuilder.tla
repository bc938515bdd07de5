-------------------------- MODULE MCShoppingBuilder --------------------------
(* ShoppingBuilder with three names: the dictionary knows the onion, and   *)
(* sumac and tahini have to be looked up.  The weeks mix spellings  *)
(* and units of one name, and reach, miss and exceed a kilogram.           *)
EXTENDS ShoppingBuilder, TLC

CONSTANTS b1, b2

TwoBuilds == {b1, b2}
Interchangeable == Permutations(Builds)

Unit(token) == CHOOSE u \in Units : u.token = token
Of(name, spelling, amount, token) ==
    [name |-> <<name, spelling>>, unit |-> Unit(token), amount |-> amount]

OnionKnown == [n \in Names |-> IF n = "onion" THEN "produce" ELSE None]

Sumac(amount, token) == Of("sumac", "lower", amount, token)
SUMAC(amount, token) == Of("sumac", "upper", amount, token)
Tahini(amount, token) == Of("tahini", "lower", amount, token)

SomeWeeks ==
    {<<Of("onion", "lower", 2, "pcs"), Of("salt", "upper", 1, "pinch")>>,
     <<Sumac(333, "g"), SUMAC(1, "kg"), Sumac(1, "pinch")>>,
     <<SUMAC(1, "pinch"), Sumac(333, "g"), SUMAC(666, "g")>>,
     <<Tahini(995, "g"), Sumac(2, "pcs"), Tahini(5, "g"), SUMAC(1, "kg"), SUMAC(1, "pcs")>>,
     <<Tahini(1, "kg"), Tahini(4, "g"), Of("salt", "lower", 5, "g")>>}
=============================================================================
