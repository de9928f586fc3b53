--------------------------- MODULE SigningCeremony ---------------------------
(***************************************************************************)
(* What the signing of one document promises, with no word about requests, *)
(* database calls or failures: people join at the end of the queue, sign   *)
(* one at a time, each at most once and never before somebody whose turn   *)
(* is earlier and who is still expected to sign; or they leave.            *)
(***************************************************************************)
EXTENDS Naturals

CONSTANTS People, LastTurn

VARIABLES joined, waiting, signed, turn

ceremony == <<joined, waiting, signed, turn>>

CeremonyInit ==
    /\ joined \subseteq People /\ waiting = joined /\ signed = {}
    /\ turn \in [People -> 0 .. LastTurn]

MayJoin(p, n) ==
    /\ p \in People \ joined
    /\ \A q \in joined : turn[q] <= n
    /\ joined' = joined \cup {p}
    /\ waiting' = waiting \cup {p}
    /\ turn' = [turn EXCEPT ![p] = n]
    /\ signed' = signed

MaySign(p) ==
    /\ p \in waiting
    /\ \A q \in waiting : turn[p] <= turn[q]
    /\ waiting' = waiting \ {p}
    /\ signed' = signed \cup {p}
    /\ UNCHANGED <<joined, turn>>

MayLeave(gone) ==
    /\ waiting' = waiting \ gone
    /\ UNCHANGED <<joined, signed, turn>>

CeremonyNext ==
    \/ \E p \in People, n \in 0 .. LastTurn : MayJoin(p, n)
    \/ \E p \in People : MaySign(p)
    \/ \E gone \in SUBSET People : MayLeave(gone)

CeremonySpec == CeremonyInit /\ [][CeremonyNext]_ceremony
=============================================================================
