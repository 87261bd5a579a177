-------------------------- MODULE MCPayloadStorage --------------------------
(* Payloads at and over a threshold of two; two workers and the broker.      *)
EXTENDS PayloadStorage, TLC

MCSize == [c \in Contents |-> IF c = "at" THEN 2 ELSE 3]
MCLists == {<<"at">>, <<"large">>, <<"over", "large">>}
Symmetry == Permutations(Keys)
=============================================================================
