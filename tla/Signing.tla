------------------------------- MODULE Signing -------------------------------
(***************************************************************************)
(* The signing of one contract: the signers' endpoints, the owner's        *)
(* endpoints and the hourly expiry job, all at work on the same rows, with *)
(* their database calls interleaved in every order.                        *)
(***************************************************************************)
EXTENDS SignerApi, OwnerApi, ExpiryJob

vars == <<storeVars, tok, own, job>>

Init == StoreInit /\ TokInit /\ OwnInit /\ JobInit

\* Seven days pass for the link of some signer.
Clock == \E s \in Signers : LinkExpires(s)

Next ==
    \/ TokNext /\ UNCHANGED <<own, job>>
    \/ OwnNext /\ UNCHANGED <<tok, job>>
    \/ JobNext /\ UNCHANGED <<tok, own>>
    \/ Clock   /\ UNCHANGED <<tok, own, job>>

Spec == Init /\ [][Next]_vars

\* The server carries on with what it has begun; nobody has to send a request.
Fairness ==
    /\ \A r \in TokenReqs : WF_vars(TokStep(r) /\ UNCHANGED <<own, job>>)
    /\ \A o \in OwnerReqs : WF_vars(OwnStep(o) /\ UNCHANGED <<tok, job>>)
    /\ WF_vars(JobStep /\ UNCHANGED <<tok, own>>)

-----------------------------------------------------------------------------
\* Nobody of a lower order is waited for.
TurnReached(s) == \A e \in Pending : signer[s].order <= signer[e].order

\* Types of the rows and of every handler's locals.
TypeOK == StoreTypeOK /\ TokTypeOK /\ OwnTypeOK /\ JobTypeOK

(***************************************************************************)
(* Signing order.  Nobody has signed while a signer of a lower order is    *)
(* still expected to: the check is made on the rows read when the request  *)
(* begins (signatures.service.ts, "Check signing order"), any number of    *)
(* writes before the signature is recorded, and the owner may add himself  *)
(* in between with an order computed from an older read still.             *)
(***************************************************************************)
OrderKept ==
    \A s \in Signers : signer[s].signedAt =>
        \A e \in Pending : signer[s].order <= signer[e].order

(***************************************************************************)
(* However many times a signer submits the form, the audit log holds at    *)
(* most one 'signed' entry for him, and only if his signature was stored.  *)
(***************************************************************************)
SignedOnce ==
    \A s \in Signers : signedLog[s] <= IF signer[s].signedAt THEN 1 ELSE 0

(***************************************************************************)
(* A signature is only ever stored for a signer whose e-mail address was   *)
(* verified by a one-time code, whatever happens between the two.          *)
(***************************************************************************)
SignedVerified ==
    \A s \in Signers : signer[s].signedAt => signer[s].otp

(***************************************************************************)
(* The sealed PDF is never stored before every listed party has signed,    *)
(* it names only people who did sign, and contracts.pdfUrl never points to *)
(* it before it is stored.                                                 *)
(***************************************************************************)
FinalPdfSound ==
    /\ final.stored => Parties \subseteq final.names
    /\ \A s \in final.names : signer[s].signedAt
    /\ pdf = "final" => final.stored

(***************************************************************************)
(* Every text the contract shows, and the one in the sealed PDF, is        *)
(* accounted for, also while edits and signatures overlap, although        *)
(* signContract adds no version row for what it fills in: the version      *)
(* history has the edit it is made of; what is filled in comes from        *)
(* verified signers whose turn had come; and what was sealed, from those   *)
(* alone whom the sealed PDF names.                                        *)
(***************************************************************************)
Versioned == {v.edit : v \in versions}

TextAccounted ==
    /\ {text.edit, final.text.edit} \subseteq Versioned
    /\ \A s \in text.fields : signer[s].otp /\ TurnReached(s)
    /\ final.text.fields \subseteq final.names

(***************************************************************************)
(* A signer who was struck off (declined, or his link ran out) is never    *)
(* counted as having signed afterwards, and nobody is pending twice.       *)
(***************************************************************************)
NoRevival ==
    [][\A s \in Signers :
          signer[s].status \notin {"absent", "pending"} =>
              /\ signer'[s].status # "pending"
              /\ signer'[s].signedAt = signer[s].signedAt]_vars

(***************************************************************************)
(* Why these hold: together with the following facts about the rows and    *)
(* the locals of the handlers they are inductive (SigningProofs).          *)
(***************************************************************************)
\* Only a claim sets signedAt, and it finds the row pending.
RowsConsistent == \A s \in Signers :
    /\ signer[s].status \in {"absent", "pending"} => ~signer[s].signedAt
    /\ signer[s].status = "signed" => signer[s].signedAt

\* Rows are never deleted, and the handlers hold ids of existing rows.
RowsPresent ==
    /\ Parties \subseteq Present
    /\ \A r \in TokenReqs : tok[r].pc # "idle" => tok[r].by \in Present
    /\ job.due \subseteq Present

\* n is one more than the largest order among the parties.
AfterParties(n) ==
    /\ \A p \in Parties : signer[p].order < n
    /\ n = 1 \/ \E p \in Parties : signer[p].order = n - 1

\* However stale the read, the owner's row comes after the parties' rows, and
\* two such rows share one order.
NewcomersLast ==
    /\ \A s \in Selves \cap Present : AfterParties(signer[s].order)
    /\ \A o \in OwnerReqs : own[o].pc = "join" => AfterParties(own[o].order)

\* What a signing request knows at each of its steps.
RequestsSound == \A r \in TokenReqs :
    LET s == tok[r].by IN
    /\ tok[r].pc \in {"fill", "claim"} => signer[s].otp /\ TurnReached(s)
    /\ tok[r].pc \in ClaimedSteps => signer[s].signedAt
    /\ tok[r].pc = "log" => signedLog[s] = 0
    /\ tok[r].pc \in {"upload", "stamp", "complete"} =>
          /\ Parties \subseteq tok[r].seen
          /\ \A t \in tok[r].seen : signer[t].signedAt
    /\ tok[r].pc \in {"stamp", "complete"} => final.stored

OneLogEach == \A r, q \in TokenReqs :
    r # q /\ tok[r].pc = "log" /\ tok[q].pc = "log" => tok[r].by # tok[q].by

SigningInv ==
    /\ TypeOK /\ RowsConsistent /\ RowsPresent /\ NewcomersLast
    /\ OrderKept /\ SignedOnce /\ SignedVerified /\ FinalPdfSound
    /\ RequestsSound /\ OneLogEach

\* TextAccounted with the texts that requests still have in hand: the edits, ...
TextInv ==
    /\ {text.edit, final.text.edit, 0} \subseteq Versioned
    /\ \A r \in TokenReqs : tok[r].text.edit \in Versioned
    /\ \A o \in OwnerReqs : own[o].pc = "putText" => own[o].edit \in Versioned

\* ... and what was filled in.  Rows are never deleted, so whoever filled in his
\* fields is among those the second read finds.
MayFill(s) == s \in Present /\ signer[s].otp /\ TurnReached(s)

FieldsInv ==
    /\ \A s \in text.fields : MayFill(s)
    /\ \A r \in TokenReqs :
          /\ \A s \in tok[r].text.fields : MayFill(s)
          /\ tok[r].pc \in {"upload", "stamp"} => tok[r].text.fields \subseteq tok[r].seen
    /\ final.text.fields \subseteq final.names

(***************************************************************************)
(* The signing, seen through the rows only, is the abstract ceremony.      *)
(***************************************************************************)
Ceremony == INSTANCE SigningCeremony WITH
    People   <- Signers,
    LastTurn <- MaxOrder,
    joined   <- Present,
    waiting  <- Pending,
    signed   <- {s \in Signers : signer[s].signedAt},
    turn     <- [s \in Signers |-> signer[s].order]

CeremonyKept == Ceremony!CeremonySpec

(***************************************************************************)
(* If no call fails, then once every signer of the contract has signed the *)
(* sealed PDF gets stored (unless a late write of another request strikes  *)
(* one of them off): the requests race to be the one that sees them all.   *)
(***************************************************************************)
Sealed ==
    (Present # {} /\ Present = Signed) ~> (final.stored \/ Present # Signed)

(***************************************************************************)
(* If no call fails, a signer whose link was ever mailed ends up with the  *)
(* current link in a mail, although an edit replaces the links of signers  *)
(* while other requests are mailing the links they read earlier.           *)
(***************************************************************************)
LinkDelivered ==
    \A s \in Signers :
        (\E m \in mails : m[1] = s) ~> (<<s, signer[s].link>> \in mails)

(***************************************************************************)
(* If no call fails, then once everybody of the lower orders has signed,   *)
(* the signers whose turn it is are mailed their links.                    *)
(***************************************************************************)
TurnOf(s) ==
    LET before == {e \in Present : signer[e].order < signer[s].order} IN
    s \in Pending /\ before # {} /\ before \subseteq Signed

NextInvited ==
    \A s \in Parties : TurnOf(s) ~> (~TurnOf(s) \/ \E m \in mails : m[1] = s)

(***************************************************************************)
(* What a claim and a renewal oblige the server to.  The next two say, of  *)
(* a state with nothing in between, what Sealed, NextInvited and           *)
(* LinkDelivered say of the time to come; they need no fairness, and only  *)
(* these requests to go through, whatever fails elsewhere: a request that  *)
(* has claimed a signature, and an edit that has replaced a link.          *)
(***************************************************************************)
GoesThrough ==
    /\ \A r \in TokenReqs :
          tok[r].pc \in ClaimedSteps => TokStep(r) \/ tok'[r] = tok[r]
    /\ \A o \in OwnerReqs :
          own[o].pc = "mailRenewed" => OwnStep(o) \/ own'[o] = own[o]

AllSigned == Present # {} /\ Present = Signed

Mailed(s) == \E m \in mails : m[1] = s

\* A request on its way to collect or to upload, and one on its way to invite s.
Sealing(r) == tok[r].pc \in {"log", "collect", "upload"}

Before(s) == {e \in Present : signer[e].order < signer[s].order}

Inviting(r, s) ==
    \/ tok[r].pc \in {"log", "collect"} /\ tok[r].by \in Before(s)
    \/ tok[r].pc \in {"partial", "invite"} /\ \E m \in tok[r].next : m[1] = s

(***************************************************************************)
(* Of the requests that race to see everybody signed, one is still about   *)
(* to store the sealed PDF or it is stored; and a party whose turn has     *)
(* come was mailed his link or is about to be, by a request that has not   *)
(* looked at the rows yet or has found that he comes next.                 *)
(***************************************************************************)
NobodyForgotten ==
    /\ AllSigned => final.stored \/ \E r \in TokenReqs : Sealing(r)
    /\ \A s \in Parties :
          TurnOf(s) => Mailed(s) \/ \E r \in TokenReqs : Inviting(r, s)

(***************************************************************************)
(* The link that an edit put in the place of another is in a mail, or the  *)
(* edit is about to mail it, and no mail is ahead of the row: between      *)
(* edits whoever was mailed a link was mailed the one that works.          *)
(***************************************************************************)
LinkHeld(s) ==
    \/ <<s, signer[s].link>> \in mails
    \/ \E o \in OwnerReqs :
          own[o].pc = "mailRenewed" /\ <<s, signer[s].link>> \in own[o].mail

NoLinkLost ==
    \A s \in Signers : signer[s].link > 0 \/ Mailed(s) => LinkHeld(s)

\* Why NoLinkLost holds: links in hand are links the rows had, and only edits of
\* existing rows replace them.
LinksInv ==
    /\ NoLinkLost
    /\ \A m \in mails : m[2] <= signer[m[1]].link
    /\ \A r \in TokenReqs : \A m \in tok[r].next : m[2] <= signer[m[1]].link
    /\ \A o \in OwnerReqs :
          /\ \A m \in own[o].mail : m[2] <= signer[m[1]].link
          /\ own[o].renew \subseteq Present
    /\ \A s \in Signers \ Present : signer[s].link = 0

(***************************************************************************)
(* contracts.service.ts:551 refuses any other status for a completed       *)
(* contract; other handlers of the same service and of the signing         *)
(* endpoints write the status they decided on earlier.                     *)
(***************************************************************************)
CompletedStays == [][status = "completed" => status' = "completed"]_vars

(***************************************************************************)
(* signatures.service.ts:440 says that the conditional update prevents the *)
(* race between two writers of a signer's row: a signature once stored     *)
(* would then remain the row's status.                                     *)
(***************************************************************************)
SignatureStands ==
    \A s \in Signers : signer[s].signedAt => signer[s].status = "signed"
=============================================================================
