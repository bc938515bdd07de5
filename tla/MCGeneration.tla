---------------------------- MODULE MCGeneration ----------------------------
(* Generation with two ingredients to categorize.  A call takes a moment,  *)
(* about half the time a request has, or longer than a call may take.      *)
EXTENDS Generation

SomeLatencies == {1, 14, 31}
=============================================================================
