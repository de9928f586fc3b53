------------------------------ MODULE MCCredits ------------------------------
(***************************************************************************)
(* Credits on small instances: the request slots are interchangeable.      *)
(***************************************************************************)
EXTENDS Credits, TLC

\* Amounts granted by hand: a correction downwards and a gift.
SomeAmounts == {-1, 1}

CreditSlots == Permutations(CreditReqs)
=============================================================================
