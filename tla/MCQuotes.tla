------------------------------- MODULE MCQuotes -------------------------------
(***************************************************************************)
(* Quotes on small instances: request slots are interchangeable.           *)
(***************************************************************************)
EXTENDS Quotes, TLC

SalesSlots == Permutations(ClientReqs) \cup Permutations(DeskReqs)
                  \cup Permutations(RetryReqs)
=============================================================================
