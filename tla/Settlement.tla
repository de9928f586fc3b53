------------------------------ MODULE Settlement ------------------------------
(***************************************************************************)
(* What becomes of the offers of one quote, with no word about requests,   *)
(* retries or failures: the client agrees to offers, an agreed offer is    *)
(* billed, documents with numbers of their own are made out for what was   *)
(* billed, and a bill is settled, for good, only after a document was made *)
(* out for it; a number it shows is that of such a document.               *)
(***************************************************************************)
EXTENDS Naturals

CONSTANTS Bills, Goods, Serials

VARIABLES agreed, billed, papers, settled, serial

settlement == <<agreed, billed, papers, settled, serial>>

PapersOf(b) == {p \in papers : p.row = b /\ p.items = billed[b]}

SettlementInit ==
    /\ agreed = {} /\ papers = {} /\ settled = {}
    /\ billed = [b \in Bills |-> {}]
    /\ serial = [b \in Bills |-> 0]

MayAgree(offer) ==
    /\ offer # {}
    /\ agreed' = agreed \cup {offer}
    /\ UNCHANGED <<billed, papers, settled, serial>>

MayBill(b, offer) ==
    /\ billed[b] = {} /\ offer \in agreed
    /\ billed' = [billed EXCEPT ![b] = offer]
    /\ UNCHANGED <<agreed, papers, settled, serial>>

MayIssue(b, n) ==
    /\ billed[b] # {}
    /\ n # 0 /\ \A p \in papers : p.number < n
    /\ papers' = papers \cup {[row |-> b, items |-> billed[b], number |-> n]}
    /\ UNCHANGED <<agreed, billed, settled, serial>>

MaySettle(b) ==
    /\ settled' = settled \cup {b}
    /\ \E p \in PapersOf(b) : serial' \in {serial, [serial EXCEPT ![b] = p.number]}
    /\ UNCHANGED <<agreed, billed, papers>>

SettlementNext ==
    \/ \E offer \in Goods : MayAgree(offer)
    \/ \E b \in Bills, offer \in Goods : MayBill(b, offer)
    \/ \E b \in Bills, n \in Serials : MayIssue(b, n)
    \/ \E b \in Bills : MaySettle(b)

SettlementSpec == SettlementInit /\ [][SettlementNext]_settlement
=============================================================================
