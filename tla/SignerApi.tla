------------------------------ MODULE SignerApi ------------------------------
(***************************************************************************)
(* The public endpoints behind a signing link (SignaturesService).  A      *)
(* request is a slot of TokenReqs; it reads the rows once, then writes     *)
(* them one await at a time on the strength of what it read.  The link     *)
(* works in every state of the contract: nothing compares contract.status, *)
(* and the owner's page shows the link (as a QR code) before sending it.   *)
(* Left out: consent, uploads, the contact book, confirmation mails, and   *)
(* the audit entries nothing counts.                                       *)
(***************************************************************************)
EXTENDS ContractStore

CONSTANT TokenReqs   \* requests with a signing link that can be in progress

VARIABLE tok         \* local state of each such request

SignSteps == {"fill", "claim", "log", "collect", "upload", "stamp",
              "complete", "partial", "invite"}

\* Steps a signing request takes once its conditional update has succeeded.
ClaimedSteps == SignSteps \ {"fill", "claim"}

DeclineSteps == {"declineSigner", "declineContract"}

TokState == [pc   : {"idle", "verify"} \cup SignSteps \cup DeclineSteps,
             by   : Signers,           \* row found by the link
             text : Texts,             \* contentHtml as first read, then as filled in
             seen : SUBSET Signers,    \* rows of the second read
             next : SUBSET (Signers \X Nat)]   \* links still to be mailed

TokTypeOK == tok \in [TokenReqs -> TokState]

\* The locals of a slot no request occupies; the value of by is immaterial.
IdleTok == [pc |-> "idle", by |-> CHOOSE s \in Signers : TRUE,
            text |-> FirstText, seen |-> {}, next |-> {}]

TokInit == tok = [r \in TokenReqs |-> IdleTok]

Tok(r, step) == tok' = [tok EXCEPT ![r].pc = step]

TokDone(r) == tok' = [tok EXCEPT ![r] = IdleTok]

Begin(r, s, step) ==
    /\ tok[r].pc = "idle"
    /\ tok' = [tok EXCEPT ![r] = [pc |-> step, by |-> s, text |-> text,
                                  seen |-> {}, next |-> {}]]
    /\ UNCHANGED storeVars

SetSignerStatus(s, new) == signer' = [signer EXCEPT ![s].status = new]

UnchangedButSigner == UNCHANGED <<status, text, pdf, edits, versions, mails,
                                  charges, archivedFrom, signedLog, final>>
UnchangedButStatus == UNCHANGED <<text, pdf, edits, versions, signer, mails,
                                  charges, archivedFrom, signedLog, final>>
-----------------------------------------------------------------------------
(* verifyOtp with the right code. *)

VerifyRead(r, s) ==
    /\ signer[s].status = "pending" /\ ~signer[s].otp
    /\ Begin(r, s, "verify")

VerifyWrite(r) ==
    /\ tok[r].pc = "verify"
    /\ signer' = [signer EXCEPT ![tok[r].by].otp = TRUE]
    /\ TokDone(r)
    /\ UnchangedButSigner
-----------------------------------------------------------------------------
(* signContract *)

\* Mutant of SignRead: the OTP check is forgotten.
SignReadNoOtp(r, s) ==
    /\ signer[s].status = "pending" /\ signer[s].live /\ WaitingBefore(s) = {}
    /\ \E step \in {"fill", "claim"} : Begin(r, s, step)

\* One findUnique reads the row, the contract and its signers; then the checks.
SignRead(r, s) ==
    /\ signer[s].status = "pending"
    /\ signer[s].live
    /\ signer[s].otp
    /\ WaitingBefore(s) = {}
    /\ \E step \in {"fill", "claim"} : Begin(r, s, step)

\* The signer's fields are put into the text that was read, not the one stored by
\* now; the result replaces the stored one, and no version row is added.
SignFill(r) ==
    LET filled == [tok[r].text EXCEPT !.fields = @ \cup {tok[r].by}] IN
    /\ tok[r].pc = "fill"
    /\ text' = filled
    /\ tok' = [tok EXCEPT ![r].pc = "claim", ![r].text = filled]
    /\ UNCHANGED <<status, pdf, edits, versions, signer, mails, charges,
                   archivedFrom, signedLog, final>>

\* Mutant of SignClaim: update by id alone, as in declineContract.
SignClaimById(r) ==
    /\ tok[r].pc = "claim"
    /\ signer' = [signer EXCEPT ![tok[r].by].status = "signed",
                                ![tok[r].by].signedAt = TRUE]
    /\ Tok(r, "log")
    /\ UnchangedButSigner

\* updateMany({id, status: 'pending'}); count 0 rejects the request.
SignClaim(r) ==
    LET s == tok[r].by IN
    /\ tok[r].pc = "claim"
    /\ \/ /\ signer[s].status = "pending"
          /\ signer' = [signer EXCEPT ![s].status = "signed",
                                      ![s].signedAt = TRUE]
          /\ Tok(r, "log")
       \/ /\ signer[s].status # "pending"
          /\ signer' = signer
          /\ TokDone(r)
    /\ UnchangedButSigner

SignLog(r) ==
    /\ tok[r].pc = "log"
    /\ signedLog' = [signedLog EXCEPT ![tok[r].by] = @ + 1]
    /\ Tok(r, "collect")
    /\ UNCHANGED <<status, text, pdf, edits, versions, signer, mails,
                   charges, archivedFrom, final>>

\* Mutants of OthersSigned: nobody else waits; all others come before s.
OthersAnswered(s, ss) == \A t \in ss \ {s} : signer[t].status # "pending"
OthersSignedBefore(s, ss) == \A t \in ss \ {s} :
    signer[t].status = "signed" /\ signer[t].order < signer[s].order

\* Everyone but s, who has just signed, has signed as far as ss goes.
OthersSigned(s, ss) == \A t \in ss \ {s} : signer[t].status = "signed"

\* The second read decides between completing and inviting the next in order.
SignCollect(r) ==
    LET s       == tok[r].by
        sameLvl == {t \in Present : signer[t].order = signer[s].order}
        goOn    == OthersSigned(s, Present)
    IN
    /\ tok[r].pc = "collect"
    /\ tok' = [tok EXCEPT
          ![r].pc = IF goOn THEN "upload" ELSE "partial",
          ![r].seen = Present,
          ![r].next = IF ~goOn /\ OthersSigned(s, sameLvl)
                      THEN CurrentLinks(NextInOrder(Present, signer[s].order))
                      ELSE {}]
    /\ UNCHANGED storeVars

\* final.pdf, as rendered from both reads.
PutFinal(r) ==
    /\ final' = [stored |-> TRUE, names |-> tok[r].seen, text |-> tok[r].text]
    /\ UNCHANGED <<status, text, pdf, edits, versions, signer, mails,
                   charges, archivedFrom, signedLog>>

SignUpload(r) == tok[r].pc = "upload" /\ PutFinal(r) /\ Tok(r, "stamp")

\* It is stored once more with a time stamp, unless the authority or the storage fails.
SignStamp(r) ==
    /\ tok[r].pc = "stamp"
    /\ PutFinal(r) \/ UNCHANGED storeVars
    /\ Tok(r, "complete")

SignComplete(r) ==
    /\ tok[r].pc = "complete"
    /\ status' = "completed" /\ pdf' = "final"
    /\ TokDone(r)
    /\ UNCHANGED <<text, edits, versions, signer, mails, charges,
                   archivedFrom, signedLog, final>>

SignPartial(r) ==
    /\ tok[r].pc = "partial"
    /\ status' = "partially_signed"
    /\ Tok(r, "invite")
    /\ UnchangedButStatus

\* Mails the next signers one after the other, then answers the request.
SignInvite(r) ==
    /\ tok[r].pc = "invite"
    /\ \/ \E m \in tok[r].next :
             /\ mails' = mails \cup {m}
             /\ tok' = [tok EXCEPT ![r].next = @ \ {m}]
       \/ tok[r].next = {} /\ mails' = mails /\ TokDone(r)
    /\ UNCHANGED <<status, text, pdf, edits, versions, signer, charges,
                   archivedFrom, signedLog, final>>
-----------------------------------------------------------------------------
(* declineContract: neither the expiry of the link nor the OTP is checked. *)

DeclineRead(r, s) ==
    /\ signer[s].status = "pending"
    /\ Begin(r, s, "declineSigner")

\* signer.update by id alone: whatever the row has become is overwritten.
DeclineSigner(r) ==
    /\ tok[r].pc = "declineSigner"
    /\ SetSignerStatus(tok[r].by, "declined")
    /\ Tok(r, "declineContract")
    /\ UnchangedButSigner

DeclineContract(r) ==
    /\ tok[r].pc = "declineContract"
    /\ status' = "declined"
    /\ TokDone(r)
    /\ UnchangedButStatus
-----------------------------------------------------------------------------
\* An awaited call rejects, or the process stops: the rest never happens.
TokFail(r) ==
    /\ tok[r].pc # "idle"
    /\ TokDone(r)
    /\ UNCHANGED storeVars

\* What the server does next for a request it has accepted.
TokStep(r) ==
    \/ VerifyWrite(r)
    \/ SignFill(r) \/ SignClaim(r) \/ SignLog(r) \/ SignCollect(r)
    \/ SignUpload(r) \/ SignStamp(r) \/ SignComplete(r)
    \/ SignPartial(r) \/ SignInvite(r)
    \/ DeclineSigner(r) \/ DeclineContract(r)

TokRequest(r, s) == VerifyRead(r, s) \/ SignRead(r, s) \/ DeclineRead(r, s)

TokNext == \E r \in TokenReqs :
    \/ \E s \in Signers : TokRequest(r, s)
    \/ TokStep(r)
    \/ TokFail(r)
=============================================================================
