---------------------------- MODULE ContractStore ----------------------------
(***************************************************************************)
(* The database rows behind ONE contract of Legitas, and the few columns   *)
(* of them that the request handlers and the hourly job read or write.     *)
(* Every handler runs without a transaction, so the other modules have     *)
(* one action per awaited database call; this module holds only the state  *)
(* they share.  The tables are in backend/prisma/schema.prisma.            *)
(***************************************************************************)
EXTENDS Naturals, FiniteSets

CONSTANTS
    Parties,    \* the signers listed when the contract is created
    Selves,     \* signer rows the owner may add for himself later on
    MaxOrder,   \* bound: largest signingOrder in use
    MaxEdits,   \* bound: number of times the owner rewrites the text
    MaxCharges  \* bound: number of credits spent on sending this contract

ASSUME StoreAssumption ==
    /\ IsFiniteSet(Parties) /\ IsFiniteSet(Selves)
    /\ Parties \cap Selves = {}
    /\ Parties \cup Selves # {}
    /\ MaxOrder \in Nat /\ MaxEdits \in Nat /\ MaxCharges \in Nat

Signers == Parties \cup Selves

VARIABLES
    status,       \* contracts.status
    text,         \* contracts.contentHtml
    pdf,          \* contracts.pdfUrl: a rendering of the text, or final.pdf
    edits,        \* how many times updateContent has produced a text
    versions,     \* rows of contract_versions
    signer,       \* rows of signers; status "absent" for a row not created
    mails,        \* signing links mailed: pairs of a signer and a link
    charges,      \* 'usage' credit transactions naming this contract
    archivedFrom, \* previousStatus in the latest contract_archived log entry
    signedLog,    \* number of 'signed' audit entries of each signer
    final         \* storage object contracts/signed/<id>/final.pdf

storeVars == <<status, text, pdf, edits, versions, signer, mails, charges,
               archivedFrom, signedLog, final>>

\* The values contracts.status takes in the backend (the schema has a String).
ContractStatus == {"draft", "sent", "partially_signed", "completed",
                   "declined", "cancelled", "expired", "archived"}

SignerStatus == {"absent", "pending", "signed", "declined", "expired"}

Edits == 0 .. MaxEdits

SignerRow == [status   : SignerStatus,
              order    : 0 .. MaxOrder,
              otp      : BOOLEAN,   \* otpVerified
              link     : Nat,       \* signToken, numbered by its renewals
              live     : BOOLEAN,   \* tokenExpiresAt is still ahead
              signedAt : BOOLEAN]   \* signedAt is set

\* A text: the edit that wrote it, and the signers whose fields were filled in since.
Texts == [edit : Edits, fields : SUBSET Signers]

FirstText == [edit |-> 0, fields |-> {}]

VersionRow == [version : Nat, edit : Edits]

FinalPdf == [stored : BOOLEAN, names : SUBSET Signers, text : Texts]

StoreTypeOK ==
    /\ status \in ContractStatus
    /\ text \in Texts
    /\ pdf \in {"rendered", "final"}
    /\ edits \in Edits
    /\ versions \subseteq VersionRow
    /\ signer \in [Signers -> SignerRow]
    /\ mails \subseteq Signers \X Nat
    /\ charges \in Nat
    /\ archivedFrom \in ContractStatus \cup {"none"}
    /\ signedLog \in [Signers -> Nat]
    /\ final \in FinalPdf

-----------------------------------------------------------------------------
Present == {s \in Signers : signer[s].status # "absent"}
Pending == {s \in Signers : signer[s].status = "pending"}
Signed  == {s \in Signers : signer[s].status = "signed"}

\* Mutant of WaitingBefore: the comparison is the wrong way round.
WaitingAfter(s) == {e \in Pending : signer[e].order > signer[s].order}

\* The rows of signing order lower than that of s that still wait.
WaitingBefore(s) == {e \in Pending : signer[e].order < signer[s].order}

\* The mails that bring each of ss the link its row holds now.
CurrentLinks(ss) == {<<s, signer[s].link>> : s \in ss}

\* Mutant of NextInOrder: an off-by-one skips the order that follows.
NextButOne(ss, o) ==
    LET later == {s \in ss \cap Pending : signer[s].order > o + 1}
    IN  {s \in later : \A t \in later : signer[s].order <= signer[t].order}

\* Among the pending signers of ss whose order exceeds o, those that come next.
NextInOrder(ss, o) ==
    LET later == {s \in ss \cap Pending : signer[s].order > o}
    IN  {s \in later : \A t \in later : signer[s].order <= signer[t].order}

\* Row of a freshly created signer: pending, not verified, a link for 7 days.
NewSigner(o) == [status |-> "pending", order |-> o, otp |-> FALSE,
                 link |-> 0, live |-> TRUE, signedAt |-> FALSE]

NoSigner == [status |-> "absent", order |-> 0, otp |-> FALSE,
             link |-> 0, live |-> FALSE, signedAt |-> FALSE]

(***************************************************************************)
(* ContractsService.create: a draft, its first version row and one pending *)
(* signer per listed party; the owner chose the signing orders.            *)
(***************************************************************************)
StoreInit ==
    /\ status = "draft"
    /\ text = FirstText /\ pdf = "rendered" /\ edits = 0
    /\ versions = {[version |-> 1, edit |-> 0]}
    /\ \E order \in [Parties -> 1 .. MaxOrder] :
          signer = [s \in Signers |-> IF s \in Parties THEN NewSigner(order[s])
                                                       ELSE NoSigner]
    /\ mails = {}
    /\ charges = 0
    /\ archivedFrom = "none"
    /\ signedLog = [s \in Signers |-> 0]
    /\ final = [stored |-> FALSE, names |-> {}, text |-> FirstText]

\* The clock passes tokenExpiresAt of s.
LinkExpires(s) ==
    /\ signer[s].live
    /\ signer' = [signer EXCEPT ![s].live = FALSE]
    /\ UNCHANGED <<status, text, pdf, edits, versions, mails, charges,
                   archivedFrom, signedLog, final>>
=============================================================================
