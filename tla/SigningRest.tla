----------------------------- MODULE SigningRest ------------------------------
(***************************************************************************)
(* What is begun gets finished: the safety part of the promises that the   *)
(* sealed PDF is stored, that the next signers are invited, and that a     *)
(* replaced link is mailed.  A request that finds itself the last one is   *)
(* one that nobody chose: of those that overlap, whoever looks at the rows *)
(* when everybody has signed.  The proofs show that some request is always *)
(* left to do so, as long as those that have claimed go through.           *)
(***************************************************************************)
EXTENDS SigningSafety

\* A row becomes 'signed' by a claim, which found it pending, and whose request goes on.
ClaimOf(q, s) ==
    /\ SignClaim(q) /\ tok[q].by = s
    /\ signer[s].status = "pending"
    /\ tok'[q].pc = "log" /\ tok'[q].by = s

LEMMA OnlyClaimsSign ==
    ASSUME TypeOK, [Next]_vars, NEW s \in Signers,
           signer[s].status # "signed", signer'[s].status = "signed"
    PROVE  \E q \in TokenReqs : ClaimOf(q, s)
<1> USE DEF TypeOK, StoreTypeOK
<1>1. ASSUME NEW r \in TokenReqs, TokAction(r) PROVE \E q \in TokenReqs : ClaimOf(q, s)
  <2>1. tok[r] \in TokState /\ tok[r].by \in Signers /\ tok \in [TokenReqs -> TokState]
    BY DEF TokTypeOK, TokState
  <2>2. CASE SignClaim(r)
    <3>1. /\ signer[tok[r].by].status = "pending"
          /\ signer' = [signer EXCEPT ![tok[r].by].status = "signed",
                                      ![tok[r].by].signedAt = TRUE]
          /\ Tok(r, "log")
      BY <2>2 DEF SignClaim
    <3>2. s = tok[r].by  BY <2>1, <3>1
    <3>3. tok'[r].pc = "log" /\ tok'[r].by = tok[r].by  BY <2>1, <3>1 DEF Tok,
         TokState
    <3> QED  BY <2>2, <3>1, <3>2, <3>3 DEF ClaimOf
  <2>3. CASE ~SignClaim(r)
    <3>1. signer'[s].status = signer[s].status \/ signer'[s].status = "declined"
      BY <1>1, <2>1, <2>3 DEF TokAction, TokRequest, VerifyRead, SignRead,
         DeclineRead, Begin, TokStep, TokFail, VerifyWrite, SignFill, SignLog,
         SignCollect, SignUpload, SignStamp, PutFinal, SignComplete, SignPartial,
         SignInvite, DeclineSigner, SetSignerStatus, DeclineContract,
         UnchangedButStatus, storeVars, SignerRow
    <3> QED  BY <3>1
  <2> QED  BY <2>2, <2>3
<1>2. CASE OwnNext
  <2>1. ASSUME NEW o \in OwnerReqs, OwnRequest(o) \/ OwnStep(o) \/ OwnFail(o)
        PROVE  signer'[s].status \in {signer[s].status, "pending"}
    <3>1. CASE EditRenew(o)
      <4>1. ASSUME NEW x \in own[o].renew,
                   signer' = [signer EXCEPT ![x].link = @ + 1, ![x].live = TRUE]
            PROVE  signer'[s].status = signer[s].status
        BY <4>1 DEF SignerRow
      <4> QED  BY <3>1, <4>1 DEF EditRenew
    <3>2. CASE Join(o)
      BY <3>2 DEF Join, NewSigner, SignerRow
    <3>3. CASE ~(EditRenew(o) \/ Join(o))
      BY <2>1, <3>3 DEF OwnRequest, SendRead, EditRead, CancelRead, ArchiveRead,
         UnarchiveRead, JoinRead, SetStatusRead, OwnerReads, OwnStep, SendCharge,
         SendMail, SendMark, EditNumber, EditAddVersion, EditPutText, EditMail,
         SetStatus, Archive, ArchiveLog, UnarchiveFind, PutStatus, OwnFail, storeVars
    <3> QED  BY <3>1, <3>2, <3>3
  <2> QED  BY <1>2, <2>1 DEF OwnNext
<1>3. CASE JobNext \/ Clock \/ UNCHANGED vars
  <2>1. signer'[s].status \in {signer[s].status, "expired"}
    BY <1>3 DEF JobNext, JobFind, JobStep, JobExpireSigners, JobReview,
       JobExpireContract, JobFail, Clock, LinkExpires, SignerRow, storeVars, vars
  <2> QED  BY <2>1
<1> QED  BY <1>1, <1>2, <1>3 DEF Next, TokNext, TokAction

\* A signature is stored for good, the sealed PDF too, and mails are not taken back.
LEMMA WhatStays ==
    ASSUME TypeOK, [Next]_vars
    PROVE  /\ final.stored => final'.stored
           /\ mails \subseteq mails'
<1>1. ASSUME NEW r \in TokenReqs, TokAction(r)
      PROVE  /\ final.stored => final'.stored
             /\ mails \subseteq mails'
  BY <1>1 DEF TokAction, TokRequest, VerifyRead, SignRead, DeclineRead, Begin,
     TokStep, TokFail, VerifyWrite, SignFill, SignClaim, SignLog, SignCollect,
     SignUpload, SignStamp, PutFinal, SignComplete, SignPartial, SignInvite,
     DeclineSigner, DeclineContract, UnchangedButSigner, UnchangedButStatus, storeVars
<1>2. ASSUME NEW o \in OwnerReqs, OwnRequest(o) \/ OwnStep(o) \/ OwnFail(o)
      PROVE  mails \subseteq mails'
  BY <1>2 DEF OwnRequest, SendRead, EditRead, CancelRead, ArchiveRead,
     UnarchiveRead, JoinRead, SetStatusRead, OwnerReads, OwnStep, SendCharge,
     SendMail, SendMark, EditNumber, EditAddVersion, EditPutText, EditRenew,
     EditMail, SetStatus, Archive, ArchiveLog, UnarchiveFind, Join, PutStatus,
     OwnFail, storeVars
<1>3. CASE JobNext \/ Clock \/ UNCHANGED vars
  BY <1>3 DEF JobNext, JobFind, JobStep, JobExpireSigners, JobReview,
     JobExpireContract, JobFail, Clock, LinkExpires, storeVars, vars
<1>4. (\E r \in TokenReqs : TokAction(r)) \/ final' = final
  BY TokOrQuiet DEF Quiet
<1>5. mails \subseteq mails'
  BY <1>1, <1>2, <1>3 DEF Next, TokNext, OwnNext, TokAction
<1> QED  BY <1>1, <1>4, <1>5

-----------------------------------------------------------------------------
(* Sealing *)

\* One step of a request on its way to seal what everybody has signed.
LEMMA SealingGoesOn ==
    ASSUME TypeOK, AllSigned, NEW r \in TokenReqs, Sealing(r), TokStep(r)
    PROVE  Sealing(r)' \/ final'.stored
<1>1. tok \in [TokenReqs -> TokState] /\ tok[r] \in TokState
  BY DEF TypeOK, TokTypeOK
<1>2. CASE SignLog(r)
  BY <1>1, <1>2 DEF SignLog, Tok, Sealing, TokState
<1>3. CASE SignCollect(r)
  <2>1. OthersSigned(tok[r].by, Present)
    BY DEF AllSigned, OthersSigned, Signed
  <2> QED  BY <1>1, <1>3, <2>1 DEF SignCollect, Sealing, TokState
<1>4. CASE SignUpload(r)
  BY <1>4 DEF SignUpload, PutFinal
<1> QED
  BY <1>2, <1>3, <1>4 DEF Sealing, TokStep, VerifyWrite, SignFill, SignClaim,
     SignStamp, SignComplete, SignPartial, SignInvite, DeclineSigner, DeclineContract

LEMMA SealingNext ==
    ASSUME SigningInv, [Next]_vars, [GoesThrough]_vars,
           AllSigned => final.stored \/ \E r \in TokenReqs : Sealing(r),
           AllSigned'
    PROVE  final'.stored \/ \E r \in TokenReqs : Sealing(r)'
<1> USE DEF SigningInv
<1>1. CASE AllSigned /\ final.stored
  BY <1>1, WhatStays
<1>2. ASSUME AllSigned, NEW r \in TokenReqs, Sealing(r)
      PROVE  final'.stored \/ Sealing(r)'
  <2>1. TokStep(r) \/ tok'[r] = tok[r]
    BY <1>2 DEF GoesThrough, Sealing, ClaimedSteps, SignSteps, vars
  <2> QED  BY <1>2, <2>1, SealingGoesOn DEF Sealing
<1>3. CASE ~AllSigned
  <2>1. PICK s \in Signers : signer[s].status # "signed" /\ signer'[s].status = "signed"
    <3>1. CASE Present = {}
      BY <3>1 DEF AllSigned, Present, Signed
    <3>2. CASE Present # Signed /\ Present # {}
      <4>1. PICK s \in Present : signer[s].status # "signed"
        BY <3>2 DEF Present, Signed
      <4>2. s \in Signers /\ s \in Present'
        BY <4>1, RowSteps, PresenceKept DEF Present
      <4> QED  BY <4>1, <4>2 DEF AllSigned, Signed
    <3> QED  BY <1>3, <3>1, <3>2 DEF AllSigned
  <2> QED  BY <2>1, OnlyClaimsSign DEF ClaimOf, Sealing
<1> QED  BY <1>1, <1>2, <1>3
-----------------------------------------------------------------------------
(* Inviting *)

LEMMA WhoseTurn ==
    ASSUME TypeOK, NEW s \in Parties, TurnOf(s)
    PROVE  /\ s \in Signers /\ s \in Pending
           /\ Before(s) # {} /\ Before(s) \subseteq Signed
BY DEF TurnOf, Before, Signers

\* Whoever collects when all of the lower orders have signed finds s to be next.
LEMMA CollectInvites ==
    ASSUME TypeOK, NEW s \in Parties, TurnOf(s),
           NEW r \in TokenReqs, SignCollect(r), tok[r].by \in Before(s)
    PROVE  /\ tok'[r].pc = "partial"
           /\ <<s, signer[s].link>> \in tok'[r].next
<1> DEFINE t == tok[r].by
           level == {u \in Present : signer[u].order = signer[t].order}
           later == {u \in Present \cap Pending : signer[u].order > signer[t].order}
<1>1. tok \in [TokenReqs -> TokState] /\ tok[r] \in TokState
  BY DEF TypeOK, TokTypeOK
<1>2. /\ s \in Signers /\ s \in Pending /\ Before(s) \subseteq Signed
      /\ \A u \in Signers : signer[u].order \in Nat
      /\ t \in Present /\ signer[t].order < signer[s].order
  BY WhoseTurn DEF TypeOK, StoreTypeOK, SignerRow, Before
<1>3. s \in Present /\ signer[s].status = "pending" /\ s # t
  BY <1>2 DEF Pending, Present
<1>4. ~OthersSigned(t, Present)
  BY <1>3 DEF OthersSigned
<1>5. OthersSigned(t, level)
  <2>1. level \subseteq Before(s)  BY <1>2 DEF Before
  <2> QED  BY <1>2, <2>1 DEF OthersSigned, Signed
<1>6. s \in NextInOrder(Present, signer[t].order)
  <2>1. s \in later  BY <1>2, <1>3
  <2>2. ASSUME NEW u \in later PROVE signer[s].order <= signer[u].order
    <3>1. u \in Signers /\ u \in Present /\ u \notin Signed
      BY DEF Pending, Present, Signed
    <3>2. u \notin Before(s)  BY <1>2, <3>1
    <3> QED  BY <1>2, <3>1, <3>2 DEF Before
  <2> QED  BY <2>1, <2>2 DEF NextInOrder
<1>7. tok' = [tok EXCEPT ![r].pc = "partial", ![r].seen = Present,
                 ![r].next = CurrentLinks(NextInOrder(Present, signer[t].order))]
  BY <1>4, <1>5 DEF SignCollect
<1> QED  BY <1>1, <1>6, <1>7 DEF CurrentLinks, TokState

LEMMA InvitingGoesOn ==
    ASSUME SigningInv, RowStep, NEW s \in Parties, TurnOf(s),
           NEW r \in TokenReqs, Inviting(r, s), TokStep(r)
    PROVE  Inviting(r, s)' \/ Mailed(s)'
<1> USE DEF SigningInv
<1>1. tok \in [TokenReqs -> TokState] /\ tok[r] \in TokState
  BY DEF TypeOK, TokTypeOK
<1>2. CASE SignLog(r)
  <2>1. signer' = signer /\ tok' = [tok EXCEPT ![r].pc = "collect"]
    BY <1>2 DEF SignLog, Tok
  <2>2. tok'[r].pc = "collect" /\ tok'[r].by = tok[r].by /\ Before(s)' = Before(s)
    BY <1>1, <2>1 DEF TokState, Before, Present
  <2> QED  BY <1>2, <2>2 DEF SignLog, Inviting
<1>3. CASE SignCollect(r)
  <2>1. tok[r].by \in Before(s)  BY <1>3 DEF SignCollect, Inviting
  <2> QED  BY <1>3, <2>1, CollectInvites DEF Inviting
<1>4. CASE SignPartial(r)
  <2>1. tok'[r].pc = "invite" /\ tok'[r].next = tok[r].next
    BY <1>1, <1>4 DEF SignPartial, Tok, TokState
  <2> QED  BY <1>4, <2>1 DEF SignPartial, Inviting
<1>5. CASE SignInvite(r)
  <2>1. PICK m \in tok[r].next : m[1] = s
    BY <1>5 DEF SignInvite, Inviting
  <2>2. PICK n \in tok[r].next : /\ mails' = mails \cup {n}
                                 /\ tok' = [tok EXCEPT ![r].next = @ \ {n}]
    BY <1>5, <2>1 DEF SignInvite
  <2>3. CASE n = m
    BY <2>1, <2>2, <2>3 DEF Mailed
  <2>4. CASE n # m
    <3>1. m \in tok'[r].next /\ tok'[r].pc = "invite"
      BY <1>1, <1>5, <2>1, <2>2, <2>4 DEF SignInvite, TokState
    <3> QED  BY <2>1, <3>1 DEF Inviting
  <2> QED  BY <2>3, <2>4
<1> QED
  BY <1>2, <1>3, <1>4, <1>5 DEF Inviting, TokStep, VerifyWrite, SignFill, SignClaim,
     SignUpload, SignStamp, PutFinal, SignComplete, DeclineSigner, DeclineContract

\* The turn of s comes when the last of the lower orders signs, in no other way.
LEMMA TurnComes ==
    ASSUME SigningInv, [Next]_vars, NEW s \in Parties, TurnOf(s)', ~TurnOf(s)
    PROVE  \E r \in TokenReqs : Inviting(r, s)'
<1> USE DEF SigningInv
<1>1. RowStep /\ TypeOK'  BY RowSteps, NextType
<1>2. /\ s \in Signers /\ s \in Present /\ signer'[s].status = "pending"
      /\ Before(s)' # {} /\ Before(s)' \subseteq Signed'
  BY <1>1 DEF RowsPresent, TurnOf, Before, Pending, Signers
<1>3. signer[s].status = "pending"
  BY <1>1, <1>2 DEF RowStep, RowsKept, RowClaimed, RowsStruckOff, RowJoined, SameRow
<1>4. ASSUME NEW u \in Before(s)'
      PROVE  u \in Before(s)
  <2>1. u \in Signers /\ signer'[u].status = "signed" /\ signer'[u].order < signer'[s].order
    BY <1>2 DEF Before, Signed
  <2>2. u \in Present
    BY <2>1, OnlyClaimsSign DEF ClaimOf, Present
  <2> QED  BY <1>1, <1>2, <2>1, <2>2, PresenceKept DEF Before
<1>5. Before(s) \subseteq Before(s)'
  BY <1>1, <1>2, PresenceKept DEF Before
<1>6. PICK u \in Before(s) : u \notin Signed
  BY <1>2, <1>3, <1>4 DEF TurnOf, Before, Pending
<1>7. u \in Signers /\ signer[u].status # "signed" /\ signer'[u].status = "signed"
  BY <1>2, <1>5, <1>6 DEF Before, Present, Signed
<1>8. PICK q \in TokenReqs : ClaimOf(q, u)
  BY <1>7, OnlyClaimsSign
<1> QED  BY <1>5, <1>6, <1>8 DEF ClaimOf, Inviting

LEMMA InvitingNext ==
    ASSUME SigningInv, [Next]_vars, [GoesThrough]_vars, NEW s \in Parties,
           TurnOf(s) => Mailed(s) \/ \E r \in TokenReqs : Inviting(r, s),
           TurnOf(s)'
    PROVE  Mailed(s)' \/ \E r \in TokenReqs : Inviting(r, s)'
<1>0. RowStep /\ TypeOK  BY RowSteps DEF SigningInv
<1>1. CASE TurnOf(s) /\ Mailed(s)
  BY <1>0, <1>1, WhatStays DEF Mailed
<1>2. ASSUME TurnOf(s), NEW r \in TokenReqs, Inviting(r, s)
      PROVE  Mailed(s)' \/ Inviting(r, s)'
  <2>1. TokStep(r) \/ tok'[r] = tok[r]
    BY <1>2 DEF GoesThrough, Inviting, ClaimedSteps, SignSteps, vars
  <2>2. CASE tok'[r] = tok[r]
    <3>1. Before(s) \subseteq Before(s)'
      BY <1>0, <1>2, PresenceKept, WhoseTurn DEF Before, Pending, Present
    <3> QED  BY <1>2, <2>2, <3>1 DEF Inviting
  <2> QED  BY <1>0, <1>2, <2>1, <2>2, InvitingGoesOn
<1>3. CASE ~TurnOf(s)
  BY <1>3, TurnComes
<1> QED  BY <1>1, <1>2, <1>3
-----------------------------------------------------------------------------
(* Links *)

\* A link that the row of its signer has, or once had.
Known(m) == m \in Signers \X Nat /\ m[2] <= signer[m[1]].link

LEMMA LinksKnown ==
    ASSUME TypeOK, LinksInv
    PROVE  /\ \A s \in Signers : signer[s].link \in Nat
           /\ \A m \in mails : Known(m)
           /\ \A r \in TokenReqs : \A m \in tok[r].next : Known(m)
           /\ \A o \in OwnerReqs : \A m \in own[o].mail : Known(m)
           /\ \A ss \in SUBSET Signers : \A m \in CurrentLinks(ss) : Known(m)
<1> USE DEF TypeOK, Known
<1>1. \A s \in Signers : signer[s].link \in Nat
  BY DEF StoreTypeOK, SignerRow
<1>2. \A m \in mails : Known(m)
  BY DEF StoreTypeOK, LinksInv
<1>3. \A r \in TokenReqs : tok[r].next \subseteq Signers \X Nat
  BY DEF TokTypeOK, TokState
<1>4. \A o \in OwnerReqs : own[o].mail \subseteq Signers \X Nat
  BY DEF OwnTypeOK, OwnState
<1>5. \A ss \in SUBSET Signers : \A m \in CurrentLinks(ss) : Known(m)
  BY <1>1 DEF CurrentLinks
<1> QED  BY <1>1, <1>2, <1>3, <1>4, <1>5 DEF LinksInv

\* Renewed(o, x): the edit o gives the row x its next link, and has it to mail.
Renewed(o, x) ==
    /\ own[o].pc = "renew" /\ x \in own[o].renew
    /\ signer' = [signer EXCEPT ![x].link = @ + 1, ![x].live = TRUE]
    /\ own' = [own EXCEPT ![o].pc = "mailRenewed", ![o].renew = @ \ {x},
                          ![o].mail = {<<x, signer[x].link + 1>>}]
    /\ UNCHANGED <<tok, mails>>

SameLinks ==
    \A s \in Signers : /\ signer'[s].link = signer[s].link
                       /\ s \in Present' <=> s \in Present

\* The owner's row appears; its link is the first, as that of no row is.
LinkJoins(x) ==
    /\ x \in Signers /\ x \notin Present /\ x \in Present' /\ signer'[x].link = 0
    /\ \A s \in Signers \ {x} : signer'[s] = signer[s]

LEMMA LinkSteps ==
    ASSUME TypeOK, RowsPresent, [Next]_vars
    PROVE  \/ SameLinks
           \/ \E o \in OwnerReqs, x \in Signers : Renewed(o, x)
           \/ \E x \in Signers : LinkJoins(x) /\ mails' = mails
<1> USE DEF TypeOK, StoreTypeOK
<1>0. ASSUME signer' = signer PROVE SameLinks
  BY <1>0 DEF SameLinks, Present
<1>1. ASSUME NEW r \in TokenReqs, TokAction(r) PROVE SameLinks
  <2>1. tok[r].by \in Signers  BY DEF TokTypeOK, TokState
  <2>2. CASE VerifyWrite(r)
    BY <2>1, <2>2 DEF VerifyWrite, SameLinks, SignerRow, Present
  <2>3. CASE SignClaim(r)
    BY <2>1, <2>3 DEF SignClaim, SameLinks, SignerRow, Present
  <2>4. CASE DeclineSigner(r)
    <3>1. tok[r].by \in Present  BY <2>4 DEF DeclineSigner, RowsPresent
    <3> QED
      BY <2>1, <2>4, <3>1 DEF DeclineSigner, SetSignerStatus, SameLinks, SignerRow,
         Present
  <2>5. CASE ~(VerifyWrite(r) \/ SignClaim(r) \/ DeclineSigner(r))
    BY <1>0, <1>1, <2>5 DEF TokAction, TokRequest, VerifyRead, SignRead, DeclineRead,
       Begin, TokStep, TokFail, SignFill, SignLog, SignCollect, SignUpload, SignStamp,
       PutFinal, SignComplete, SignPartial, SignInvite, DeclineContract,
       UnchangedButStatus, storeVars
  <2> QED  BY <2>2, <2>3, <2>4, <2>5
<1>2. ASSUME NEW o \in OwnerReqs, OwnRequest(o) \/ OwnStep(o) \/ OwnFail(o), tok' = tok
      PROVE  \/ SameLinks
             \/ \E x \in Signers : Renewed(o, x)
             \/ \E x \in Signers : LinkJoins(x) /\ mails' = mails
  <2>1. CASE EditRenew(o)
    <3>1. own[o].renew \subseteq Signers  BY DEF OwnTypeOK, OwnState
    <3>2. ASSUME NEW x \in own[o].renew,
                 signer' = [signer EXCEPT ![x].link = @ + 1, ![x].live = TRUE],
                 own' = [own EXCEPT ![o].pc = "mailRenewed", ![o].renew = @ \ {x},
                                    ![o].mail = {<<x, signer[x].link + 1>>}]
          PROVE  Renewed(o, x)
      BY <1>2, <2>1, <3>2 DEF EditRenew, Renewed
    <3> QED  BY <1>0, <2>1, <3>1, <3>2 DEF EditRenew
  <2>2. CASE Join(o)
    <3>1. PICK x \in Selves \ Present :
             signer' = [signer EXCEPT ![x] = NewSigner(own[o].order)]
      BY <2>2 DEF Join
    <3>2. x \in Signers  BY <3>1 DEF Signers
    <3>3. LinkJoins(x)
      BY <3>1, <3>2 DEF LinkJoins, NewSigner, Present
    <3> QED  BY <2>2, <3>2, <3>3 DEF Join
  <2>3. CASE ~(EditRenew(o) \/ Join(o))
    BY <1>0, <1>2, <2>3 DEF OwnRequest, SendRead, EditRead, CancelRead, ArchiveRead,
       UnarchiveRead, JoinRead, SetStatusRead, OwnerReads, OwnStep, SendCharge,
       SendMail, SendMark, EditNumber, EditAddVersion, EditPutText, EditMail,
       SetStatus, Archive, ArchiveLog, UnarchiveFind, PutStatus, OwnFail, storeVars
  <2> QED  BY <2>1, <2>2, <2>3
<1>3. CASE JobExpireSigners
  <2>1. job.due \subseteq Present  BY DEF RowsPresent
  <2> QED  BY <1>3, <2>1 DEF JobExpireSigners, SameLinks, SignerRow, Present
<1>4. CASE JobNext /\ ~JobExpireSigners
  BY <1>0, <1>4 DEF JobNext, JobFind, JobStep, JobReview, JobExpireContract,
     JobFail, storeVars
<1>5. CASE Clock
  BY <1>5 DEF Clock, LinkExpires, SameLinks, SignerRow, Present
<1>6. CASE UNCHANGED vars
  BY <1>0, <1>6 DEF vars, storeVars
<1> QED
  BY <1>1, <1>2, <1>3, <1>4, <1>5, <1>6 DEF Next, TokNext, TokAction, OwnNext
\* Handlers pass on links they were given, or take them from the rows.
LEMMA LinksPassedOn ==
    ASSUME SigningInv, LinksInv, [Next]_vars
    PROVE  /\ \A m \in mails' : Known(m)
           /\ \A r \in TokenReqs : \A m \in tok'[r].next : Known(m)
           /\ \A o \in OwnerReqs :
                 /\ \/ \A m \in own'[o].mail : Known(m)
                    \/ \E x \in Signers : Renewed(o, x)
                 /\ own'[o].renew \subseteq Present
<1> USE LinksKnown DEF SigningInv, TypeOK
<1>0. Pending \subseteq Present /\ \A q \in OwnerReqs : own[q].renew \subseteq Present
  BY DEF Pending, Present, LinksInv
<1>1. ASSUME NEW r \in TokenReqs, TokAction(r)
      PROVE  /\ \A m \in mails' : Known(m)
             /\ \A q \in TokenReqs : \A m \in tok'[q].next : Known(m)
  <2>1. /\ tok \in [TokenReqs -> TokState]
        /\ \A q \in TokenReqs : q # r => tok'[q] = tok[q]
    BY <1>1, OtherRequests DEF TokTypeOK
  <2>2. CASE SignInvite(r)
    <3>1. tok'[r].next \subseteq tok[r].next
      BY <2>1, <2>2 DEF SignInvite, TokDone, IdleTok, TokState
    <3>2. mails' \subseteq mails \cup tok[r].next
      BY <2>2 DEF SignInvite
    <3> QED  BY <2>1, <3>1, <3>2
  <2>3. CASE SignCollect(r)
    <3>1. /\ NextInOrder(Present, signer[tok[r].by].order) \in SUBSET Signers
          /\ mails' = mails
      BY <2>3 DEF SignCollect, NextInOrder, Present, storeVars
    <3>2. \A m \in tok'[r].next : Known(m)
      BY <2>1, <2>3, <3>1 DEF SignCollect, TokState
    <3> QED  BY <2>1, <3>1, <3>2
  <2>4. CASE ~(SignInvite(r) \/ SignCollect(r))
    <3>1. tok'[r].next \subseteq tok[r].next /\ mails' = mails
      BY <1>1, <2>1, <2>4 DEF TokAction, TokRequest, VerifyRead, SignRead,
         DeclineRead, Begin, TokStep, TokFail, VerifyWrite, SignFill, SignClaim,
         SignLog, SignUpload, SignStamp, PutFinal, SignComplete, SignPartial,
         DeclineSigner, DeclineContract, Tok, TokDone, IdleTok, TokState,
         UnchangedButSigner, UnchangedButStatus, storeVars
    <3> QED  BY <2>1, <3>1
  <2> QED  BY <2>2, <2>3, <2>4
<1>2. ASSUME NEW o \in OwnerReqs, OwnRequest(o) \/ OwnStep(o) \/ OwnFail(o), tok' = tok
      PROVE  /\ \A m \in mails' : Known(m)
             /\ \/ \A m \in own'[o].mail : Known(m)
                \/ \E x \in Signers : Renewed(o, x)
             /\ own'[o].renew \subseteq Present
             /\ \A q \in OwnerReqs : q # o => own'[q] = own[q]
  <2>1. own \in [OwnerReqs -> OwnState]  BY DEF OwnTypeOK
  <2>2. CASE SendRead(o)
    <3>1. PICK first \in SUBSET Signers :
             own' = [own EXCEPT ![o].pc = "charge", ![o].mail = CurrentLinks(first)]
      BY <2>2 DEF SendRead, Present
    <3>2. /\ own'[o].mail = CurrentLinks(first) /\ own'[o].renew = own[o].renew
          /\ \A q \in OwnerReqs : q # o => own'[q] = own[q]
      BY <2>1, <3>1 DEF OwnState
    <3>3. mails' = mails  BY <2>2 DEF SendRead, storeVars
    <3> QED  BY <1>0, <3>2, <3>3
  <2>3. CASE SendMail(o) \/ EditMail(o)
    <3>1. /\ own'[o].mail \subseteq own[o].mail /\ own'[o].renew = own[o].renew
          /\ mails' \subseteq mails \cup own[o].mail
          /\ \A q \in OwnerReqs : q # o => own'[q] = own[q]
      BY <2>1, <2>3 DEF SendMail, EditMail, Own, OwnState
    <3> QED  BY <1>0, <3>1
  <2>4. CASE EditPutText(o)
    <3>1. /\ own'[o].mail = own[o].mail /\ own'[o].renew \subseteq Pending
          /\ mails' = mails
          /\ \A q \in OwnerReqs : q # o => own'[q] = own[q]
      BY <2>1, <2>4 DEF EditPutText, OwnState
    <3> QED  BY <1>0, <3>1
  <2>5. CASE EditRenew(o)
    <3>1. own[o].renew \subseteq Signers  BY <2>1 DEF OwnState
    <3>2. ASSUME NEW x \in own[o].renew,
                 signer' = [signer EXCEPT ![x].link = @ + 1, ![x].live = TRUE],
                 own' = [own EXCEPT ![o].pc = "mailRenewed", ![o].renew = @ \ {x},
                                    ![o].mail = {<<x, signer[x].link + 1>>}]
          PROVE  /\ Renewed(o, x) /\ own'[o].renew \subseteq own[o].renew
                 /\ \A q \in OwnerReqs : q # o => own'[q] = own[q]
      <4>1. Renewed(o, x)  BY <1>2, <2>5, <3>2 DEF EditRenew, Renewed
      <4>2. /\ own'[o].renew = own[o].renew \ {x}
            /\ \A q \in OwnerReqs : q # o => own'[q] = own[q]
        BY <2>1, <3>2 DEF OwnState
      <4> QED  BY <4>1, <4>2
    <3>3. ASSUME OwnDone(o)
          PROVE  /\ own'[o].mail = {} /\ own'[o].renew = {}
                 /\ \A q \in OwnerReqs : q # o => own'[q] = own[q]
      BY <2>1, <3>3 DEF OwnDone, IdleOwn
    <3>4. mails' = mails  BY <2>5 DEF EditRenew
    <3> QED  BY <1>0, <2>5, <3>1, <3>2, <3>3, <3>4 DEF EditRenew
  <2>6. CASE ~(\/ SendRead(o) \/ SendMail(o) \/ EditMail(o)
               \/ EditPutText(o) \/ EditRenew(o))
    <3>1. /\ own'[o].mail \subseteq own[o].mail /\ own'[o].renew \subseteq own[o].renew
          /\ mails' = mails
          /\ \A q \in OwnerReqs : q # o => own'[q] = own[q]
      BY <1>2, <2>1, <2>6 DEF OwnRequest, EditRead, CancelRead, ArchiveRead,
         UnarchiveRead, JoinRead, SetStatusRead, OwnerReads, OwnStep, SendCharge,
         SendMark, EditNumber, EditAddVersion, SetStatus, Archive, ArchiveLog,
         UnarchiveFind, Join, PutStatus, OwnFail, Own, OwnDone, IdleOwn, OwnState,
         storeVars
    <3> QED  BY <1>0, <3>1
  <2> QED  BY <2>2, <2>3, <2>4, <2>5, <2>6
<1>3. CASE TokNext /\ UNCHANGED <<own, job>>
  BY <1>0, <1>1, <1>3 DEF TokNext, TokAction
<1>4. CASE OwnNext /\ UNCHANGED <<tok, job>>
  BY <1>0, <1>2, <1>4 DEF OwnNext
<1>5. CASE \/ JobNext /\ UNCHANGED <<tok, own>>
           \/ Clock /\ UNCHANGED <<tok, own, job>>
           \/ UNCHANGED vars
  <2>1. mails' = mails /\ tok' = tok /\ own' = own
    BY <1>5 DEF JobNext, JobFind, JobStep, JobExpireSigners, JobReview,
       JobExpireContract, JobFail, Clock, LinkExpires, storeVars, vars
  <2> QED  BY <1>0, <2>1
<1> QED  BY <1>3, <1>4, <1>5 DEF Next
\* A link in hand stays one that the row has or had: links only go up.
LEMMA KnownStays ==
    ASSUME SigningInv, LinksInv, [Next]_vars, NEW m, Known(m)
    PROVE  m[2] <= signer'[m[1]].link
<1>0. /\ \A s \in Signers : signer[s].link \in Nat
      /\ m[1] \in Signers /\ m[2] \in Nat /\ m[2] <= signer[m[1]].link
      /\ \A s \in Signers \ Present : signer[s].link = 0
      /\ signer \in [Signers -> SignerRow]
  BY LinksKnown DEF SigningInv, Known, LinksInv, TypeOK, StoreTypeOK
<1>1. CASE SameLinks  BY <1>0, <1>1 DEF SameLinks
<1>2. ASSUME NEW o \in OwnerReqs, NEW x \in Signers, Renewed(o, x)
      PROVE  m[2] <= signer'[m[1]].link
  <2>1. signer'[m[1]].link \in {signer[m[1]].link, signer[m[1]].link + 1}
    BY <1>0, <1>2 DEF Renewed, SignerRow
  <2> QED  BY <1>0, <2>1
<1>3. ASSUME NEW x, LinkJoins(x) PROVE m[2] <= signer'[m[1]].link
  BY <1>0, <1>3 DEF LinkJoins
<1> QED  BY <1>1, <1>2, <1>3, LinkSteps DEF SigningInv

\* A link that is held is mailed or still held as long as it is the row's.
LEMMA HeldStays ==
    ASSUME TypeOK, [Next]_vars, [GoesThrough]_vars, NEW s \in Signers, LinkHeld(s),
           signer'[s].link = signer[s].link
    PROVE  LinkHeld(s)'
<1>1. CASE <<s, signer[s].link>> \in mails
  BY <1>1, WhatStays DEF LinkHeld
<1>2. ASSUME NEW o \in OwnerReqs, own[o].pc = "mailRenewed",
             <<s, signer[s].link>> \in own[o].mail
      PROVE  LinkHeld(s)'
  <2>1. OwnStep(o) \/ own'[o] = own[o]
    BY <1>2 DEF GoesThrough, vars
  <2>2. CASE own'[o] = own[o]
    BY <1>2, <2>2 DEF LinkHeld
  <2>3. CASE OwnStep(o)
    <3>1. EditMail(o)
      BY <1>2, <2>3 DEF OwnStep, SendCharge, SendMail, SendMark, EditNumber,
         EditAddVersion, EditPutText, EditRenew, SetStatus, Archive, ArchiveLog,
         UnarchiveFind, Join
    <3> QED  BY <1>2, <3>1 DEF EditMail, LinkHeld
  <2> QED  BY <2>1, <2>2, <2>3
<1> QED  BY <1>1, <1>2 DEF LinkHeld

LEMMA NoLinkLostNext ==
    ASSUME SigningInv, LinksInv, [Next]_vars, [GoesThrough]_vars
    PROVE  NoLinkLost'
<1> SUFFICES ASSUME NEW s \in Signers, signer'[s].link > 0 \/ Mailed(s)'
             PROVE  LinkHeld(s)'
  BY DEF NoLinkLost
<1>0. /\ TypeOK /\ RowsPresent /\ signer \in [Signers -> SignerRow]
      /\ own \in [OwnerReqs -> OwnState]
      /\ \A m \in mails' : m[2] <= signer'[m[1]].link
      /\ \A m \in mails' : m = <<m[1], m[2]>> /\ m[2] \in Nat
      /\ signer'[s].link \in Nat
  <2>1. TypeOK'  BY NextType DEF SigningInv
  <2>2. mails' \subseteq Signers \X Nat /\ signer'[s].link \in Nat
    BY <2>1 DEF TypeOK, StoreTypeOK, SignerRow
  <2> QED  BY <2>2, LinksPassedOn, KnownStays
           DEF SigningInv, TypeOK, StoreTypeOK, OwnTypeOK
<1>1. ASSUME signer'[s].link = 0 PROVE LinkHeld(s)'
  <2>1. PICK m \in mails' : m[1] = s  BY <1>0, <1>1 DEF Mailed
  <2>2. m[2] = 0  BY <1>0, <1>1, <2>1
  <2>3. m = <<s, 0>>  BY <1>0, <2>1, <2>2
  <2> QED  BY <1>1, <2>1, <2>3 DEF LinkHeld
<1>2. ASSUME signer'[s].link > 0, signer'[s].link = signer[s].link
      PROVE  LinkHeld(s)'
  BY <1>0, <1>2, HeldStays DEF LinksInv, NoLinkLost
<1>3. ASSUME NEW o \in OwnerReqs, Renewed(o, s) PROVE LinkHeld(s)'
  <2>1. /\ own'[o].pc = "mailRenewed"
        /\ own'[o].mail = {<<s, signer[s].link + 1>>}
    BY <1>0, <1>3 DEF Renewed, OwnState
  <2>2. signer'[s].link = signer[s].link + 1
    BY <1>0, <1>3 DEF Renewed, SignerRow
  <2> QED  BY <2>1, <2>2 DEF LinkHeld
<1>4. \/ signer'[s].link = signer[s].link
      \/ signer'[s].link = 0
      \/ \E o \in OwnerReqs : Renewed(o, s)
  <2>1. ASSUME NEW o \in OwnerReqs, NEW x \in Signers, Renewed(o, x), x # s
        PROVE  signer'[s].link = signer[s].link
    BY <1>0, <2>1 DEF Renewed
  <2>2. ASSUME NEW x \in Signers, LinkJoins(x)
        PROVE  signer'[s].link = signer[s].link \/ signer'[s].link = 0
    BY <2>2 DEF LinkJoins
  <2> QED  BY <1>0, <2>1, <2>2, LinkSteps DEF SameLinks
<1> QED  BY <1>0, <1>1, <1>2, <1>3, <1>4

LEMMA LinksInvNext ==
    ASSUME SigningInv, LinksInv, [Next]_vars, [GoesThrough]_vars
    PROVE  LinksInv'
<1>1. \A m \in mails' : m[2] <= signer'[m[1]].link
  BY LinksPassedOn, KnownStays
<1>2. \A r \in TokenReqs : \A m \in tok'[r].next : m[2] <= signer'[m[1]].link
  BY LinksPassedOn, KnownStays
<1>3. ASSUME NEW o \in OwnerReqs, NEW m \in own'[o].mail
      PROVE  m[2] <= signer'[m[1]].link
  <2>1. CASE Known(m)  BY <2>1, KnownStays
  <2>2. ASSUME NEW q \in OwnerReqs, NEW x \in Signers, Renewed(q, x)
        PROVE  Known(m) \/ m[2] <= signer'[m[1]].link
    <3>1. /\ own \in [OwnerReqs -> OwnState] /\ signer \in [Signers -> SignerRow]
          /\ signer[x].link \in Nat
          /\ \A n \in own[o].mail : Known(n)
      BY LinksKnown DEF SigningInv, TypeOK, OwnTypeOK, StoreTypeOK
    <3>2. CASE o = q
      <4>1. m = <<x, signer[x].link + 1>>
        BY <2>2, <3>1, <3>2 DEF Renewed, OwnState
      <4>2. signer'[x].link = signer[x].link + 1
        BY <2>2, <3>1 DEF Renewed, SignerRow
      <4> QED  BY <3>1, <4>1, <4>2
    <3>3. CASE o # q
      BY <2>2, <3>1, <3>3 DEF Renewed
    <3> QED  BY <3>2, <3>3
  <2> QED
    BY <1>3, <2>1, <2>2, LinksPassedOn
<1>4. RowStep  BY RowSteps DEF SigningInv
<1>5. \A o \in OwnerReqs : own'[o].renew \subseteq Present'
  BY <1>4, LinksPassedOn, PresenceKept DEF SigningInv
<1>6. \A s \in Signers : s \notin Present' => signer'[s].link = 0
  <2> SUFFICES ASSUME NEW s \in Signers, s \notin Present' PROVE signer'[s].link = 0
    OBVIOUS
  <2>1. s \notin Present /\ signer[s].link = 0
    BY <1>4, PresenceKept DEF SigningInv, LinksInv
  <2>2. ASSUME NEW o \in OwnerReqs, NEW x \in Signers, Renewed(o, x)
        PROVE  signer'[s].link = 0
    <3>1. x \in Present  BY <2>2 DEF Renewed, LinksInv
    <3>2. x # s  BY <2>1, <3>1
    <3> QED  BY <2>1, <2>2, <3>2 DEF Renewed, SigningInv, TypeOK, StoreTypeOK
  <2> QED  BY <2>1, <2>2, LinkSteps DEF SameLinks, LinkJoins, SigningInv
<1> QED  BY <1>1, <1>2, <1>3, <1>5, <1>6, NoLinkLostNext DEF LinksInv

LEMMA LinksInitially == Init => LinksInv
<1> SUFFICES ASSUME Init PROVE LinksInv  OBVIOUS
<1>1. \A s \in Signers : signer[s].link = 0
  BY DEF Init, StoreInit, NewSigner, NoSigner
<1>2. mails = {}  BY DEF Init, StoreInit
<1>3. \A r \in TokenReqs : tok[r].next = {}  BY DEF Init, TokInit, IdleTok
<1>4. \A o \in OwnerReqs : own[o].mail = {} /\ own[o].renew = {}
  BY DEF Init, OwnInit, IdleOwn
<1> QED  BY <1>1, <1>2, <1>3, <1>4 DEF LinksInv, NoLinkLost, Mailed
-----------------------------------------------------------------------------

(***************************************************************************)
(* If requests that have claimed a signature go through, then whatever     *)
(* else fails, and however requests overlap: when everybody has signed the *)
(* sealed PDF is stored or a request is about to store it; when everybody  *)
(* of the lower orders has signed, a party was mailed his link or a        *)
(* request is about to mail it.  Each request of signContract decides from *)
(* the rows it reads after its own claim, so the last to look sees all.    *)
(***************************************************************************)
THEOREM NobodyIsForgotten == Spec /\ [][GoesThrough]_vars => []NobodyForgotten
<1>1. Init => NobodyForgotten
  <2> SUFFICES ASSUME Init PROVE NobodyForgotten  OBVIOUS
  <2>1. \A s \in Signers : signer[s].status # "signed"
    BY DEF Init, StoreInit, NewSigner, NoSigner
  <2>2. Signed = {}  BY <2>1 DEF Signed
  <2> QED  BY <2>2 DEF NobodyForgotten, AllSigned, TurnOf
<1>2. ASSUME SigningInv, NobodyForgotten, [Next]_vars, [GoesThrough]_vars
      PROVE  NobodyForgotten'
  <2>1. AllSigned' => final'.stored \/ \E r \in TokenReqs : Sealing(r)'
    BY <1>2, SealingNext DEF NobodyForgotten
  <2>2. ASSUME NEW s \in Parties, TurnOf(s)'
        PROVE  Mailed(s)' \/ \E r \in TokenReqs : Inviting(r, s)'
    BY <1>2, <2>2, InvitingNext DEF NobodyForgotten
  <2> QED  BY <2>1, <2>2 DEF NobodyForgotten
<1> QED  BY <1>1, <1>2, SigningInvariant, PTL DEF Spec

(***************************************************************************)
(* If an edit that has replaced a link also mails it, then whatever else   *)
(* fails, and however edits, sendings and signing requests overlap: the    *)
(* working link of a signer who was ever mailed one, or whose link was     *)
(* ever replaced, is in a mail or with the edit that is about to mail it.  *)
(* No request that passes on an older link can take this back.             *)
(***************************************************************************)
THEOREM NoLinkIsLost == Spec /\ [][GoesThrough]_vars => []NoLinkLost
<1>1. SigningInv /\ LinksInv /\ [Next]_vars /\ [GoesThrough]_vars => LinksInv'
  BY LinksInvNext
<1>2. LinksInv => NoLinkLost  BY DEF LinksInv
<1> QED  BY <1>1, <1>2, LinksInitially, SigningInvariant, PTL DEF Spec
=============================================================================
