------------------------------ MODULE MCSigning ------------------------------
(***************************************************************************)
(* Signing on small instances.  Besides Spec, the runs use it with only    *)
(* some requests arriving, so that each question gets the signers, slots   *)
(* and edits it needs.                                                     *)
(***************************************************************************)
EXTENDS Signing, TLC

\* Request slots are interchangeable.
Slots == Permutations(TokenReqs) \cup Permutations(OwnerReqs)

\* The owner adds himself, twice at once, while signers sign or decline; the order he
\* gave to the parties is the lowest or the highest.
JoinSpec ==
    /\ Init /\ \A p \in Parties : signer[p].order \in {1, MaxOrder}
    /\ [][\/ TokNext /\ UNCHANGED <<own, job>>
          \/ /\ \E o \in OwnerReqs : JoinRead(o) \/ Join(o) \/ OwnFail(o)
             /\ UNCHANGED <<tok, job>>]_vars

\* The owner sends and edits, twice at once, while signers sign.
EditSpec ==
    /\ Init /\ Fairness
    /\ [][\/ \E r \in TokenReqs :
                /\ TokStep(r) \/ \E s \in Signers : SignRead(r, s) \/ VerifyRead(r, s)
                /\ UNCHANGED <<own, job>>
          \/ \E o \in OwnerReqs :
                /\ OwnStep(o) \/ SendRead(o) \/ EditRead(o)
                /\ UNCHANGED <<tok, job>>]_vars

\* Signers verify their addresses, sign and decline; there is nothing to fill in.
SignSpec ==
    /\ Init /\ Fairness
    /\ [][\E r \in TokenReqs :
             /\ TokStep(r) \/ \E s \in Signers : TokRequest(r, s)
             /\ tok'[r].pc # "fill"
             /\ UNCHANGED <<own, job>>]_vars
=============================================================================
