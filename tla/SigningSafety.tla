---------------------------- MODULE SigningSafety ----------------------------
(***************************************************************************)
(* SigningInv is inductive.  A step of the system does one of four things  *)
(* to the signers' rows (RowStep); what the invariant says of the rows     *)
(* follows from these, and what it says of a request's locals from the     *)
(* steps of that request.                                                  *)
(***************************************************************************)
EXTENDS SigningProofs

SameRow(s) ==
    /\ signer'[s].status = signer[s].status
    /\ signer'[s].order = signer[s].order
    /\ signer'[s].signedAt = signer[s].signedAt
    /\ signer[s].otp => signer'[s].otp

RowsKept == \A s \in Signers : SameRow(s)

RowClaimed(r) ==
    LET x == tok[r].by IN
    /\ tok[r].pc = "claim"
    /\ signer[x].status = "pending"
    /\ signer'[x].status = "signed" /\ signer'[x].signedAt
    /\ signer'[x].order = signer[x].order /\ signer'[x].otp = signer[x].otp
    /\ \A s \in Signers \ {x} : SameRow(s)

RowsStruckOff(gone) ==
    /\ gone \subseteq Present
    /\ \A s \in Signers :
          /\ signer'[s].order = signer[s].order
          /\ signer'[s].signedAt = signer[s].signedAt
          /\ signer'[s].otp = signer[s].otp
          /\ IF s \in gone THEN signer'[s].status \in {"declined", "expired"}
                           ELSE signer'[s].status = signer[s].status

RowJoined(o, x) ==
    /\ own[o].pc = "join"
    /\ x \in Selves \ Present
    /\ signer'[x] = NewSigner(own[o].order)
    /\ \A s \in Signers \ {x} : SameRow(s)

RowStep ==
    \/ RowsKept
    \/ \E r \in TokenReqs : RowClaimed(r)
    \/ \E gone \in SUBSET Signers : RowsStruckOff(gone)
    \/ \E o \in OwnerReqs, x \in Signers : RowJoined(o, x)

LEMMA UnchangedKeeps == signer' = signer => RowsKept
  BY DEF RowsKept, SameRow

\* One action at a time: which of the four it is.
LEMMA RowSteps ==
  ASSUME TypeOK, RowsPresent, [Next]_vars
  PROVE  RowStep
PROOF
  <1> USE DEF TypeOK, StoreTypeOK
  <1>1. ASSUME NEW r \in TokenReqs,
               \/ \E s \in Signers : TokRequest(r, s)
               \/ TokStep(r)
               \/ TokFail(r)
        PROVE  RowStep
    <2>1. tok[r].by \in Signers
      BY DEF TokTypeOK, TokState
    <2>2. CASE VerifyWrite(r)
      <3>1. RowsKept
        BY <2>1, <2>2 DEF VerifyWrite, RowsKept, SameRow, SignerRow
      <3> QED
        BY <3>1 DEF RowStep
    <2>3. CASE SignClaim(r)
      <3>1. CASE signer' = signer
        BY <3>1, UnchangedKeeps DEF RowStep
      <3>2. CASE signer' # signer
        <4>1. RowClaimed(r)
          BY <2>1, <2>3, <3>2 DEF SignClaim, RowClaimed, SameRow, SignerRow
        <4> QED
          BY <4>1 DEF RowStep
      <3> QED
        BY <3>1, <3>2
    <2>4. CASE DeclineSigner(r)
      <3>1. tok[r].by \in Present
        BY <2>4 DEF DeclineSigner, RowsPresent
      <3>2. RowsStruckOff({tok[r].by})
        BY <2>1, <2>4, <3>1 DEF DeclineSigner, SetSignerStatus, RowsStruckOff,
           SignerRow
      <3> QED
        BY <2>1, <3>2 DEF RowStep
    <2>5. CASE ~(VerifyWrite(r) \/ SignClaim(r) \/ DeclineSigner(r))
      <3>1. signer' = signer
        BY <1>1, <2>5 DEF TokRequest, VerifyRead, SignRead, DeclineRead, Begin,
           TokStep, TokFail, SignFill, SignLog, SignCollect, SignUpload, SignStamp,
           PutFinal, SignComplete, SignPartial, SignInvite, DeclineContract,
           UnchangedButStatus, storeVars
      <3> QED
        BY <3>1, UnchangedKeeps DEF RowStep
    <2> QED
      BY <2>2, <2>3, <2>4, <2>5
  <1>2. ASSUME NEW o \in OwnerReqs, OwnRequest(o) \/ OwnStep(o) \/ OwnFail(o)
        PROVE  RowStep
    <2>1. CASE EditRenew(o)
      <3>1. RowsKept
        <4>1. CASE signer' = signer
          BY <4>1, UnchangedKeeps
        <4>2. ASSUME NEW s \in own[o].renew,
                     signer' = [signer EXCEPT ![s].link = @ + 1,
                                              ![s].live = TRUE]
              PROVE  RowsKept
          BY <4>2 DEF RowsKept, SameRow, SignerRow
        <4> QED
          BY <2>1, <4>1, <4>2 DEF EditRenew
      <3> QED
        BY <3>1 DEF RowStep
    <2>2. CASE Join(o)
      <3>1. PICK x \in Selves \ Present :
               signer' = [signer EXCEPT ![x] = NewSigner(own[o].order)]
        BY <2>2 DEF Join
      <3>2. RowJoined(o, x) /\ x \in Signers
        <4>1. x \in Signers
          BY <3>1 DEF Signers
        <4>2. signer'[x] = NewSigner(own[o].order)
          BY <3>1, <4>1
        <4>3. \A s \in Signers \ {x} : signer'[s] = signer[s]
          BY <3>1
        <4> QED
          BY <2>2, <3>1, <4>1, <4>2, <4>3 DEF Join, RowJoined, SameRow
      <3> QED
        BY <3>2 DEF RowStep
    <2>3. CASE ~(EditRenew(o) \/ Join(o))
      <3>1. signer' = signer
        BY <1>2, <2>3 DEF OwnRequest, SendRead, EditRead, CancelRead,
           ArchiveRead, UnarchiveRead, JoinRead, SetStatusRead, OwnerReads,
           OwnStep, SendCharge, SendMail, SendMark, EditNumber, EditAddVersion,
           EditPutText, EditMail, SetStatus, Archive, ArchiveLog,
           UnarchiveFind, PutStatus, OwnFail, storeVars
      <3> QED
        BY <3>1, UnchangedKeeps DEF RowStep
    <2> QED
      BY <2>1, <2>2, <2>3
  <1>3. ASSUME JobNext PROVE RowStep
    <2>1. CASE JobExpireSigners
      <3>1. job.due \subseteq Present /\ job.due \in SUBSET Signers
        BY DEF RowsPresent, JobTypeOK, JobState
      <3>2. RowsStruckOff(job.due)
        BY <2>1, <3>1 DEF JobExpireSigners, RowsStruckOff, SignerRow
      <3> QED
        BY <3>1, <3>2 DEF RowStep
    <2>2. CASE ~JobExpireSigners
      <3>1. signer' = signer
        BY <1>3, <2>2 DEF JobNext, JobFind, JobStep, JobReview,
           JobExpireContract, JobFail, storeVars
      <3> QED
        BY <3>1, UnchangedKeeps DEF RowStep
    <2> QED
      BY <2>1, <2>2
  <1>4. ASSUME Clock PROVE RowStep
    <2>1. RowsKept
      BY <1>4 DEF Clock, LinkExpires, RowsKept, SameRow, SignerRow
    <2> QED
      BY <2>1 DEF RowStep
  <1>5. CASE UNCHANGED vars
    BY <1>5, UnchangedKeeps DEF RowStep, vars, storeVars
  <1> QED
    BY <1>1, <1>2, <1>3, <1>4, <1>5 DEF Next, TokNext, OwnNext

(***************************************************************************)
(* What the row steps do to the parts of the invariant about rows alone.   *)
(***************************************************************************)
LEMMA RowsConsistentKept ==
  ASSUME TypeOK, RowsConsistent, SignedVerified, RequestsSound, RowStep
  PROVE  RowsConsistent' /\ SignedVerified'
PROOF
  <1> USE DEF TypeOK, StoreTypeOK, RowsConsistent, SignedVerified
  <1>1. CASE RowsKept
    BY <1>1 DEF RowsKept, SameRow
  <1>2. ASSUME NEW r \in TokenReqs, RowClaimed(r)
        PROVE  RowsConsistent' /\ SignedVerified'
    <2>1. signer[tok[r].by].otp
      BY <1>2 DEF RowClaimed, RequestsSound
    <2>2. signer'[tok[r].by].otp
      BY <1>2, <2>1 DEF RowClaimed
    <2> QED
      BY <1>2, <2>2 DEF RowClaimed, SameRow
  <1>3. ASSUME NEW gone \in SUBSET Signers, RowsStruckOff(gone)
        PROVE  RowsConsistent' /\ SignedVerified'
    BY <1>3 DEF RowsStruckOff
  <1>4. ASSUME NEW o \in OwnerReqs, NEW x \in Signers, RowJoined(o, x)
        PROVE  RowsConsistent' /\ SignedVerified'
    BY <1>4 DEF RowJoined, SameRow, NewSigner
  <1> QED
    BY <1>1, <1>2, <1>3, <1>4 DEF RowStep

\* Who is present only grows, and orders of those present never change.
LEMMA PresenceKept ==
  ASSUME TypeOK, RowStep
  PROVE  /\ Present \subseteq Present'
         /\ \A s \in Present : signer'[s].order = signer[s].order
PROOF
  <1> USE DEF Present
  <1>1. CASE RowsKept
    BY <1>1 DEF RowsKept, SameRow
  <1>2. ASSUME NEW r \in TokenReqs, RowClaimed(r)
        PROVE  /\ Present \subseteq Present'
               /\ \A s \in Present : signer'[s].order = signer[s].order
    BY <1>2 DEF RowClaimed, SameRow
  <1>3. ASSUME NEW gone \in SUBSET Signers, RowsStruckOff(gone)
        PROVE  /\ Present \subseteq Present'
               /\ \A s \in Present : signer'[s].order = signer[s].order
    BY <1>3 DEF RowsStruckOff
  <1>4. ASSUME NEW o \in OwnerReqs, NEW x \in Signers, RowJoined(o, x)
        PROVE  /\ Present \subseteq Present'
               /\ \A s \in Present : signer'[s].order = signer[s].order
    BY <1>4 DEF RowJoined, SameRow
  <1> QED
    BY <1>1, <1>2, <1>3, <1>4 DEF RowStep

\* A signature, once stored, keeps its time stamp.
LEMMA SignedAtKept ==
  ASSUME TypeOK, RowsConsistent, RowStep, NEW s \in Signers, signer[s].signedAt
  PROVE  signer'[s].signedAt
PROOF
  <1>1. CASE RowsKept
    BY <1>1 DEF RowsKept, SameRow
  <1>2. ASSUME NEW r \in TokenReqs, RowClaimed(r) PROVE signer'[s].signedAt
    BY <1>2 DEF RowClaimed, SameRow
  <1>3. ASSUME NEW gone \in SUBSET Signers, RowsStruckOff(gone)
        PROVE  signer'[s].signedAt
    BY <1>3 DEF RowsStruckOff
  <1>4. ASSUME NEW o \in OwnerReqs, NEW x \in Signers, RowJoined(o, x)
        PROVE  signer'[s].signedAt
    BY <1>4 DEF RowJoined, SameRow, RowsConsistent, Present
  <1> QED
    BY <1>1, <1>2, <1>3, <1>4 DEF RowStep

\* The owner's row, if it joins, comes after every row there is.
LEMMA JoinsLast ==
  ASSUME TypeOK, RowsPresent, NewcomersLast,
         NEW o \in OwnerReqs, own[o].pc = "join", NEW s \in Present
  PROVE  signer[s].order <= own[o].order
PROOF
  <1>1. /\ own[o].order \in Nat /\ AfterParties(own[o].order)
        /\ \A p \in Signers : signer[p].order \in Nat
    BY DEF TypeOK, OwnTypeOK, OwnState, NewcomersLast, StoreTypeOK, SignerRow
  <1>2. CASE s \in Parties
    BY <1>1, <1>2 DEF AfterParties, Signers
  <1>3. CASE s \in Selves
    <2>1. AfterParties(signer[s].order)
      BY <1>3 DEF NewcomersLast
    <2>2. signer[s].order \in Nat
      BY <1>1, <1>3 DEF Signers
    <2>3. CASE signer[s].order = 1
      <3>1. own[o].order # 0
        BY <1>1 DEF AfterParties, Signers
      <3> QED
        BY <1>1, <2>3, <3>1
    <2>4. CASE \E p \in Parties : signer[p].order = signer[s].order - 1
      BY <1>1, <2>2, <2>4 DEF AfterParties, Signers
    <2> QED
      BY <2>1, <2>3, <2>4 DEF AfterParties
  <1> QED
    BY <1>2, <1>3 DEF Present, Signers

LEMMA OrderKeptNext ==
  ASSUME SigningInv, RowStep, TypeOK'
  PROVE  OrderKept'
PROOF
  <1> USE DEF SigningInv, OrderKept, TurnReached
  <1>0. \A s \in Signers : /\ signer[s].order \in Nat /\ signer'[s].order \in Nat
                           /\ signer[s].signedAt => s \in Present
    BY DEF TypeOK, StoreTypeOK, SignerRow, RowsConsistent, Present
  <1>1. CASE RowsKept
    BY <1>1 DEF RowsKept, SameRow, Pending
  <1>2. ASSUME NEW r \in TokenReqs, RowClaimed(r) PROVE OrderKept'
    <2>1. TurnReached(tok[r].by)
      BY <1>2 DEF RowClaimed, RequestsSound
    <2>2. Pending' \subseteq Pending
      BY <1>2 DEF RowClaimed, SameRow, Pending
    <2>3. \A s \in Signers : signer'[s].order = signer[s].order
      BY <1>2 DEF RowClaimed, SameRow
    <2>4. \A s \in Signers : signer'[s].signedAt =>
             signer[s].signedAt \/ s = tok[r].by
      BY <1>2 DEF RowClaimed, SameRow
    <2> QED
      BY <2>1, <2>2, <2>3, <2>4 DEF Pending
  <1>3. ASSUME NEW gone \in SUBSET Signers, RowsStruckOff(gone)
        PROVE  OrderKept'
    BY <1>3 DEF RowsStruckOff, Pending
  <1>4. ASSUME NEW o \in OwnerReqs, NEW x \in Signers, RowJoined(o, x)
        PROVE  OrderKept'
    <2>1. \A s \in Present : signer[s].order <= own[o].order
      BY <1>4, JoinsLast DEF RowJoined
    <2>2. signer'[x].order = own[o].order /\ ~signer'[x].signedAt
      BY <1>4 DEF RowJoined, NewSigner
    <2>3. Pending' \subseteq Pending \cup {x}
      BY <1>4 DEF RowJoined, SameRow, Pending
    <2>4. \A s \in Signers \ {x} : /\ signer'[s].order = signer[s].order
                                   /\ signer'[s].signedAt = signer[s].signedAt
      BY <1>4 DEF RowJoined, SameRow
    <2> QED
      BY <1>0, <2>1, <2>2, <2>3, <2>4 DEF Pending
  <1> QED
    BY <1>1, <1>2, <1>3, <1>4 DEF RowStep

\* Once the turn of a present signer has come, it stays.
LEMMA TurnKept ==
  ASSUME SigningInv, RowStep, TypeOK', NEW s \in Present, TurnReached(s)
  PROVE  TurnReached(s)'
PROOF
  <1> USE DEF SigningInv, TurnReached
  <1>0. s \in Signers /\ signer'[s].order = signer[s].order
    BY PresenceKept DEF Present
  <1>1. CASE RowsKept
    <2>1. Pending' = Pending /\ \A e \in Signers : signer'[e].order = signer[e].order
      BY <1>1 DEF RowsKept, SameRow, Pending
    <2> QED
      BY <1>0, <2>1 DEF Pending
  <1>2. ASSUME NEW r \in TokenReqs, RowClaimed(r) PROVE TurnReached(s)'
    <2>1. Pending' \subseteq Pending
      BY <1>2 DEF RowClaimed, SameRow, Pending
    <2>2. \A e \in Signers : signer'[e].order = signer[e].order
      BY <1>2 DEF RowClaimed, SameRow
    <2> QED
      BY <1>0, <2>1, <2>2 DEF Pending
  <1>3. ASSUME NEW gone \in SUBSET Signers, RowsStruckOff(gone)
        PROVE  TurnReached(s)'
    BY <1>0, <1>3 DEF RowsStruckOff, Pending
  <1>4. ASSUME NEW o \in OwnerReqs, NEW x \in Signers, RowJoined(o, x)
        PROVE  TurnReached(s)'
    <2>1. signer[s].order <= own[o].order
      BY <1>4, JoinsLast DEF RowJoined
    <2>2. signer'[x].order = own[o].order
      BY <1>4 DEF RowJoined, NewSigner
    <2>3. Pending' \subseteq Pending \cup {x}
      BY <1>4 DEF RowJoined, SameRow, Pending
    <2>4. \A e \in Signers \ {x} : signer'[e].order = signer[e].order
      BY <1>4 DEF RowJoined, SameRow
    <2> QED
      BY <1>0, <2>1, <2>2, <2>3, <2>4 DEF Pending
  <1> QED
    BY <1>1, <1>2, <1>3, <1>4 DEF RowStep

\* AfterParties looks at the parties only, whose orders never change.
LEMMA AfterPartiesKept ==
  ASSUME SigningInv, RowStep, NEW n, AfterParties(n)
  PROVE  AfterParties(n)'
  BY PresenceKept DEF SigningInv, RowsPresent, AfterParties

LEMMA RowsPresentNext ==
  ASSUME SigningInv, [Next]_vars, RowStep
  PROVE  RowsPresent'
PROOF
  <1> USE DEF SigningInv, RowsPresent
  <1>1. Present \subseteq Present'
    BY PresenceKept
  <1>2. \A r \in TokenReqs : tok'[r].pc # "idle" => tok'[r].by \in Present
    <2>1. CASE TokNext
      <3> SUFFICES ASSUME NEW q \in TokenReqs, tok'[q].pc # "idle"
                   PROVE  tok'[q].by \in Present
        OBVIOUS
      <3>1. PICK r \in TokenReqs : \/ \E s \in Signers : TokRequest(r, s)
                                   \/ TokStep(r) \/ TokFail(r)
        BY <2>1 DEF TokNext
      <3>2. CASE q # r
        BY <3>1, <3>2 DEF TypeOK, TokTypeOK, TokRequest, VerifyRead, SignRead,
           DeclineRead, Begin, TokStep, VerifyWrite, SignFill, SignClaim, SignLog,
           SignCollect, SignUpload, SignStamp, PutFinal, SignComplete, SignPartial,
           SignInvite, DeclineSigner, DeclineContract, TokFail, Tok, TokDone
      <3>3. CASE q = r /\ \E s \in Signers : TokRequest(r, s)
        BY <3>3 DEF TypeOK, TokTypeOK, TokRequest, VerifyRead, SignRead,
           DeclineRead, Begin, Present
      <3>4. CASE q = r /\ (TokStep(r) \/ TokFail(r))
        <4>1. \/ tok'[r] = IdleTok
              \/ tok[r].pc # "idle" /\ tok'[r].by = tok[r].by
          BY <3>4 DEF TypeOK, TokTypeOK, TokState, TokStep, VerifyWrite, SignFill,
             SignClaim, SignLog, SignCollect, SignUpload, SignStamp, PutFinal,
             SignComplete, SignPartial, SignInvite, DeclineSigner, DeclineContract,
             TokFail, Tok, TokDone
        <4> QED
          BY <3>4, <4>1 DEF IdleTok
      <3> QED
        BY <3>1, <3>2, <3>3, <3>4
    <2>2. CASE UNCHANGED tok
      BY <2>2
    <2> QED
      BY <2>1, <2>2 DEF Next, vars
  <1>3. job'.due \subseteq Present
    <2>1. CASE JobNext
      BY <2>1 DEF JobNext, JobFind, JobStep, JobExpireSigners, JobReview,
         JobExpireContract, JobFail, IdleJob, Pending, Present, TypeOK,
         JobTypeOK, JobState
    <2>2. CASE UNCHANGED job
      BY <2>2
    <2> QED
      BY <2>1, <2>2 DEF Next, vars
  <1> QED
    BY <1>1, <1>2, <1>3

LEMMA NewcomersLastNext ==
  ASSUME SigningInv, [Next]_vars, RowStep, TypeOK'
  PROVE  NewcomersLast'
PROOF
  <1> USE DEF SigningInv
  <1>1. ASSUME NEW s \in Selves, s \in Present' PROVE AfterParties(signer[s].order)'
    <2>1. CASE s \in Present
      BY <1>1, <2>1, PresenceKept, AfterPartiesKept DEF NewcomersLast
    <2>2. CASE s \notin Present
      <3>1. PICK o \in OwnerReqs, x \in Signers : RowJoined(o, x)
        BY <1>1, <2>2 DEF RowStep, RowsKept, RowClaimed, RowsStruckOff,
           SameRow, Present
      <3>2. s = x
        BY <1>1, <2>2, <3>1 DEF RowJoined, SameRow, Present
      <3>3. signer'[s].order = own[o].order
        BY <3>1, <3>2 DEF RowJoined, NewSigner
      <3>4. AfterParties(own[o].order)
        BY <3>1 DEF RowJoined, NewcomersLast
      <3> QED
        BY <3>3, <3>4, AfterPartiesKept
    <2> QED
      BY <2>1, <2>2
  <1>2. ASSUME NEW q \in OwnerReqs, own'[q].pc = "join"
        PROVE  AfterParties(own[q].order)'
    <2>1. CASE own'[q].pc = own[q].pc /\ own'[q].order = own[q].order
      BY <1>2, <2>1, AfterPartiesKept DEF NewcomersLast
    <2>2. CASE JoinRead(q)
      <3>1. Present = Parties
        BY <2>2 DEF JoinRead, RowsPresent, Present, Signers
      <3>2. PICK n \in 1 .. MaxOrder :
              /\ \A s \in Present : signer[s].order < n
              /\ n = 1 \/ \E s \in Present : signer[s].order = n - 1
              /\ own' = [own EXCEPT ![q].pc = "join", ![q].order = n]
        BY <2>2 DEF JoinRead
      <3>3. AfterParties(n)
        BY <3>1, <3>2 DEF AfterParties
      <3>4. own'[q].order = n
        BY <3>2 DEF TypeOK, OwnTypeOK, OwnState
      <3> QED
        BY <3>3, <3>4, AfterPartiesKept
    <2>3. CASE ~JoinRead(q)
      <3>1. \/ own'[q].pc # "join"
            \/ own'[q].pc = own[q].pc /\ own'[q].order = own[q].order
        <4>1. CASE UNCHANGED own
          BY <4>1
        <4>2. ASSUME NEW o \in OwnerReqs, OwnRequest(o) \/ OwnStep(o) \/ OwnFail(o),
                     o # q
              PROVE  own'[q] = own[q]
          BY <4>2 DEF TypeOK, OwnTypeOK, OwnRequest, SendRead, EditRead,
             CancelRead, ArchiveRead, UnarchiveRead, JoinRead, SetStatusRead,
             OwnerReads, OwnStep, SendCharge, SendMail, SendMark, EditNumber,
             EditAddVersion, EditPutText, EditRenew, EditMail, SetStatus,
             Archive, ArchiveLog, UnarchiveFind, Join, OwnFail, Own, OwnDone
        <4>3. ASSUME OwnRequest(q) \/ OwnStep(q) \/ OwnFail(q)
              PROVE  \/ own'[q].pc # "join"
                     \/ own'[q].pc = own[q].pc /\ own'[q].order = own[q].order
          <5>1. own \in [OwnerReqs -> OwnState] /\ own[q] \in OwnState
            BY DEF TypeOK, OwnTypeOK
          <5>2. CASE OwnRequest(q)
            BY <2>3, <5>1, <5>2 DEF OwnState, OwnRequest, SendRead, EditRead,
               CancelRead, ArchiveRead, UnarchiveRead, SetStatusRead,
               OwnerReads
          <5>3. CASE \/ SendCharge(q) \/ SendMark(q) \/ EditNumber(q)
                     \/ EditAddVersion(q) \/ EditPutText(q) \/ EditMail(q)
                     \/ SetStatus(q) \/ Archive(q) \/ ArchiveLog(q)
                     \/ UnarchiveFind(q) \/ Join(q) \/ OwnFail(q)
            BY <5>1, <5>3 DEF OwnState, SendCharge, SendMark, EditNumber,
               EditAddVersion, EditPutText, EditMail, SetStatus, Archive,
               ArchiveLog, UnarchiveFind, Join, OwnFail, Own, OwnDone, IdleOwn
          <5>4. CASE SendMail(q)
            BY <5>1, <5>4 DEF OwnState, SendMail, Own
          <5>5. CASE EditRenew(q)
            <6>1. CASE OwnDone(q)
              BY <5>1, <6>1 DEF OwnDone, IdleOwn
            <6>2. ASSUME NEW s \in own[q].renew,
                         own' = [own EXCEPT ![q].pc = "mailRenewed",
                                    ![q].renew = @ \ {s},
                                    ![q].mail = {<<s, signer[s].link + 1>>}]
                  PROVE  own'[q].pc = "mailRenewed"
              BY <5>1, <6>2 DEF OwnState
            <6> QED
              BY <5>5, <6>1, <6>2 DEF EditRenew
          <5> QED
            BY <4>3, <5>2, <5>3, <5>4, <5>5 DEF OwnStep
        <4> QED
          BY <4>1, <4>2, <4>3 DEF Next, OwnNext, vars
      <3> QED
        BY <1>2, <2>1, <3>1
    <2> QED
      BY <2>2, <2>3
  <1> QED
    BY <1>1, <1>2 DEF NewcomersLast

(***************************************************************************)
(* What a request knows of its own progress.  OtherRequests: a step of     *)
(* request r leaves the locals of the others alone.                        *)
(***************************************************************************)
TokAction(r) == \/ \E s \in Signers : TokRequest(r, s)
                \/ TokStep(r) \/ TokFail(r)

LEMMA OtherRequests ==
  ASSUME TypeOK, NEW r \in TokenReqs, TokAction(r),
         NEW q \in TokenReqs, q # r
  PROVE  tok'[q] = tok[q]
  BY DEF TypeOK, TokTypeOK, TokAction, TokRequest, VerifyRead, SignRead, DeclineRead,
     Begin, TokStep, VerifyWrite, SignFill, SignClaim, SignLog, SignCollect,
     SignUpload, SignStamp, PutFinal, SignComplete, SignPartial, SignInvite,
     DeclineSigner, DeclineContract, TokFail, Tok, TokDone

\* RequestsSound, for one request.
RequestSound(r) ==
    LET s == tok[r].by IN
    /\ tok[r].pc \in {"fill", "claim"} => signer[s].otp /\ TurnReached(s)
    /\ tok[r].pc \in ClaimedSteps => signer[s].signedAt
    /\ tok[r].pc = "log" => signedLog[s] = 0
    /\ tok[r].pc \in {"upload", "stamp", "complete"} =>
          /\ Parties \subseteq tok[r].seen
          /\ \A t \in tok[r].seen : signer[t].signedAt
    /\ tok[r].pc \in {"stamp", "complete"} => final.stored

\* A request that stands still stays sound if the log and final.pdf allow it.
LEMMA StillSound ==
  ASSUME SigningInv, RowStep, TypeOK', NEW q \in TokenReqs,
         tok'[q] = tok[q],
         final.stored => final'.stored,
         tok[q].pc = "log" => signedLog'[tok[q].by] = signedLog[tok[q].by]
  PROVE  RequestSound(q)'
PROOF
  <1> DEFINE s == tok[q].by
  <1>1. RequestSound(q) /\ s \in Signers /\ tok[q].seen \subseteq Signers
    BY DEF SigningInv, RequestsSound, RequestSound, TypeOK, TokTypeOK, TokState
  <1>2. tok[q].pc \in {"fill", "claim"} => signer'[s].otp /\ TurnReached(s)'
    <2> SUFFICES ASSUME tok[q].pc \in {"fill", "claim"}
                 PROVE  signer'[s].otp /\ TurnReached(s)'
      OBVIOUS
    <2>1. s \in Present
      BY DEF SigningInv, RowsPresent
    <2>2. signer[s].otp /\ TurnReached(s)
      BY <1>1 DEF RequestSound
    <2>3. TurnReached(s)'
      BY <2>1, <2>2, TurnKept
    <2>4. signer'[s].otp
      BY <1>1, <2>1, <2>2 DEF RowStep, RowsKept, RowClaimed, RowsStruckOff,
         RowJoined, SameRow
    <2> QED
      BY <2>3, <2>4
  <1>3. \A t \in Signers : signer[t].signedAt => signer'[t].signedAt
    BY SignedAtKept DEF SigningInv
  <1> QED
    BY <1>1, <1>2, <1>3 DEF RequestSound

\* The request that moves: what it has just read or written makes it sound.
LEMMA MoverSound ==
  ASSUME SigningInv, NEW r \in TokenReqs, TokAction(r)
  PROVE  RequestSound(r)'
PROOF
  <1> DEFINE s == tok[r].by
  <1>1. /\ tok \in [TokenReqs -> TokState] /\ tok[r] \in TokState
        /\ s \in Signers
        /\ signer \in [Signers -> SignerRow]
        /\ signedLog \in [Signers -> Nat]
    BY DEF SigningInv, TypeOK, StoreTypeOK, TokTypeOK, TokState
  <1>2. RequestSound(r)
    BY DEF SigningInv, RequestsSound, RequestSound
  <1>3. ASSUME tok'[r] = IdleTok PROVE RequestSound(r)'
    BY <1>3 DEF RequestSound, IdleTok, ClaimedSteps, SignSteps
  <1>4. ASSUME tok'[r].pc \in {"verify", "declineSigner", "declineContract"}
        PROVE  RequestSound(r)'
    BY <1>4 DEF RequestSound, ClaimedSteps, SignSteps
  <1>5. ASSUME NEW x \in Signers, SignRead(r, x) PROVE RequestSound(r)'
    <2>1. /\ tok'[r].pc \in {"fill", "claim"} /\ tok'[r].by = x
          /\ signer' = signer
      BY <1>1, <1>5 DEF SignRead, Begin, storeVars
    <2>2. signer[x].otp /\ TurnReached(x)
      BY <1>1, <1>5 DEF SignRead, WaitingBefore, TurnReached, Pending, SignerRow
    <2>3. TurnReached(x)'
      BY <2>1, <2>2 DEF TurnReached, Pending
    <2> QED
      BY <2>1, <2>2, <2>3 DEF RequestSound, ClaimedSteps, SignSteps
  <1>6. CASE SignFill(r)
    <2>1. /\ tok'[r].pc = "claim" /\ tok'[r].by = s /\ signer' = signer
          /\ tok[r].pc = "fill"
      BY <1>1, <1>6 DEF SignFill, Tok, TokState
    <2>2. TurnReached(s)'
      BY <1>2, <2>1 DEF RequestSound, TurnReached, Pending
    <2> QED
      BY <1>2, <2>1, <2>2 DEF RequestSound, ClaimedSteps, SignSteps
  <1>7. CASE SignClaim(r)
    <2>1. CASE tok'[r] = IdleTok
      BY <1>3, <2>1
    <2>2. CASE signer[s].status = "pending"
      <3>1. /\ tok'[r].pc = "log" /\ tok'[r].by = s
            /\ signer'[s].signedAt /\ signedLog' = signedLog
        <4>1. /\ tok' = [tok EXCEPT ![r].pc = "log"]
              /\ signer' = [signer EXCEPT ![s].status = "signed",
                                          ![s].signedAt = TRUE]
              /\ signedLog' = signedLog
          BY <1>7, <2>2 DEF SignClaim, Tok, UnchangedButSigner
        <4> QED
          BY <1>1, <4>1 DEF TokState, SignerRow
      <3>2. signedLog[s] = 0
        <4>1. ~signer[s].signedAt
          BY <1>1, <2>2 DEF SigningInv, RowsConsistent
        <4>2. signedLog[s] <= 0
          BY <1>1, <4>1 DEF SigningInv, SignedOnce
        <4>3. signedLog[s] \in Nat
          BY <1>1
        <4> QED
          BY <4>2, <4>3
      <3> QED
        BY <3>1, <3>2 DEF RequestSound, ClaimedSteps, SignSteps
    <2> QED
      BY <1>1, <1>7, <2>1, <2>2 DEF SignClaim, TokDone
  <1>8. CASE SignLog(r)
    <2>1. /\ tok'[r].pc = "collect" /\ tok'[r].by = s /\ signer' = signer
          /\ tok[r].pc = "log"
      BY <1>1, <1>8 DEF SignLog, Tok, TokState
    <2> QED
      BY <1>2, <2>1 DEF RequestSound, ClaimedSteps, SignSteps
  <1>9. CASE SignCollect(r)
    <2>1. /\ tok'[r].by = s /\ tok'[r].seen = Present /\ signer' = signer
          /\ tok[r].pc = "collect"
      BY <1>1, <1>9 DEF SignCollect, TokState, storeVars
    <2>2. signer[s].signedAt
      BY <1>2, <2>1 DEF RequestSound, ClaimedSteps, SignSteps
    <2>3. CASE tok'[r].pc = "partial"
      BY <2>1, <2>2, <2>3 DEF RequestSound, ClaimedSteps, SignSteps
    <2>4. CASE tok'[r].pc = "upload" /\ OthersSigned(s, Present)
      <3>1. \A t \in Present : signer[t].signedAt
        BY <2>2, <2>4 DEF OthersSigned, SigningInv, RowsConsistent, Present
      <3>2. Parties \subseteq Present
        BY DEF SigningInv, RowsPresent
      <3>3. /\ Parties \subseteq tok'[r].seen
            /\ \A t \in tok'[r].seen : signer'[t].signedAt
        BY <2>1, <3>1, <3>2
      <3>4. signer'[tok'[r].by].signedAt
        BY <2>1, <2>2
      <3> QED
        BY <2>4, <3>3, <3>4 DEF RequestSound
    <2> QED
      BY <1>1, <1>9, <2>3, <2>4 DEF SignCollect, TokState
  <1>10. CASE SignUpload(r) \/ SignStamp(r)
    <2>1. /\ tok'[r].pc \in {"stamp", "complete"} /\ tok'[r].by = s
          /\ tok'[r].seen = tok[r].seen /\ signer' = signer
          /\ tok[r].pc \in {"upload", "stamp"}
      BY <1>1, <1>10 DEF SignUpload, SignStamp, PutFinal, Tok, TokState, storeVars
    <2>2. final'.stored
      BY <1>2, <1>10, <2>1 DEF SignUpload, SignStamp, PutFinal, RequestSound,
         storeVars
    <2> QED
      BY <1>2, <2>1, <2>2 DEF RequestSound, ClaimedSteps, SignSteps
  <1>11. CASE SignPartial(r)
    <2>1. /\ tok'[r].pc = "invite" /\ tok'[r].by = s /\ signer' = signer
          /\ tok[r].pc = "partial"
      BY <1>1, <1>11 DEF SignPartial, Tok, UnchangedButStatus, TokState
    <2> QED
      BY <1>2, <2>1 DEF RequestSound, ClaimedSteps, SignSteps
  <1>12. CASE SignInvite(r)
    <2>1. CASE tok'[r] = IdleTok
      BY <1>3, <2>1
    <2>2. CASE /\ tok'[r].pc = "invite" /\ tok'[r].by = s /\ signer' = signer
               /\ tok[r].pc = "invite"
      BY <1>2, <2>2 DEF RequestSound, ClaimedSteps, SignSteps
    <2> QED
      BY <1>1, <1>12, <2>1, <2>2 DEF SignInvite, TokDone, TokState
  <1>13. ASSUME \/ \E x \in Signers : VerifyRead(r, x) \/ DeclineRead(r, x)
                \/ DeclineSigner(r)
         PROVE  RequestSound(r)'
    <2>1. tok'[r].pc \in {"verify", "declineSigner", "declineContract"}
      BY <1>1, <1>13 DEF VerifyRead, DeclineRead, Begin, DeclineSigner, Tok,
         TokState
    <2> QED
      BY <1>4, <2>1
  <1>14. CASE VerifyWrite(r) \/ SignComplete(r) \/ DeclineContract(r) \/ TokFail(r)
    BY <1>1, <1>3, <1>14 DEF VerifyWrite, SignComplete, DeclineContract,
       TokFail, TokDone
  <1> QED
    BY <1>5, <1>6, <1>7, <1>8, <1>9, <1>10, <1>11, <1>12, <1>13, <1>14
       DEF TokAction, TokRequest, TokStep

\* No other step touches the locals of a request, the log or the sealed PDF.
Quiet == /\ tok' = tok /\ signedLog' = signedLog /\ final' = final
         /\ pdf' \in {pdf, "rendered"}

LEMMA TokOrQuiet ==
  ASSUME [Next]_vars
  PROVE  (\E r \in TokenReqs : TokAction(r)) \/ Quiet
PROOF
  <1> USE DEF Quiet
  <1>1. CASE TokNext
    BY <1>1 DEF TokNext, TokAction
  <1>2. CASE OwnNext /\ UNCHANGED <<tok, job>>
    <2>1. tok' = tok  BY <1>2
    <2>2. ASSUME NEW o \in OwnerReqs, OwnRequest(o) \/ OwnFail(o)
          PROVE  Quiet
      BY <2>1, <2>2 DEF OwnRequest, SendRead, EditRead, CancelRead,
         ArchiveRead, UnarchiveRead, JoinRead, SetStatusRead, OwnerReads,
         OwnFail, storeVars
    <2>3. ASSUME NEW o \in OwnerReqs,
                 SendCharge(o) \/ SendMail(o) \/ SendMark(o)
          PROVE  Quiet
      BY <2>1, <2>3 DEF SendCharge, SendMail, SendMark, PutStatus
    <2>4. ASSUME NEW o \in OwnerReqs,
                 \/ EditNumber(o) \/ EditAddVersion(o) \/ EditPutText(o)
                 \/ EditRenew(o) \/ EditMail(o)
          PROVE  Quiet
      BY <2>1, <2>4 DEF EditNumber, EditAddVersion, EditPutText, EditRenew,
         EditMail
    <2>5. ASSUME NEW o \in OwnerReqs,
                 \/ SetStatus(o) \/ Archive(o) \/ ArchiveLog(o)
                 \/ UnarchiveFind(o) \/ Join(o)
          PROVE  Quiet
      BY <2>1, <2>5 DEF SetStatus, Archive, ArchiveLog, UnarchiveFind, Join,
         PutStatus, storeVars
    <2> QED
      BY <1>2, <2>2, <2>3, <2>4, <2>5 DEF OwnNext, OwnStep
  <1>3. CASE JobNext /\ UNCHANGED <<tok, own>>
    BY <1>3 DEF JobNext, JobFind, JobStep, JobExpireSigners, JobReview,
       JobExpireContract, JobFail, storeVars
  <1>4. CASE Clock /\ UNCHANGED <<tok, own, job>>
    BY <1>4 DEF Clock, LinkExpires
  <1>5. CASE UNCHANGED vars
    BY <1>5 DEF vars, storeVars
  <1> QED
    BY <1>1, <1>2, <1>3, <1>4, <1>5 DEF Next

LEMMA RequestsSoundNext ==
  ASSUME SigningInv, [Next]_vars, RowStep, TypeOK'
  PROVE  RequestsSound'
PROOF
  <1> SUFFICES ASSUME NEW q \in TokenReqs PROVE RequestSound(q)'
    BY DEF RequestsSound, RequestSound
  <1>1. ASSUME NEW r \in TokenReqs, TokAction(r) PROVE RequestSound(q)'
    <2>1. CASE q = r
      BY <1>1, <2>1, MoverSound
    <2>2. CASE q # r
      <3>1. tok'[q] = tok[q]
        BY <1>1, <2>2, OtherRequests DEF SigningInv
      <3>2. final.stored => final'.stored
        BY <1>1 DEF TokAction, TokRequest, VerifyRead, SignRead, DeclineRead, Begin,
           TokStep, VerifyWrite, SignFill, SignClaim, SignLog, SignCollect,
           SignUpload, SignStamp, PutFinal, SignComplete, SignPartial, SignInvite,
           DeclineSigner, DeclineContract, TokFail, UnchangedButSigner,
           UnchangedButStatus, storeVars
      <3>3. tok[q].pc = "log" => signedLog'[tok[q].by] = signedLog[tok[q].by]
        <4> SUFFICES ASSUME tok[q].pc = "log"
                     PROVE  signedLog'[tok[q].by] = signedLog[tok[q].by]
          OBVIOUS
        <4>1. CASE SignLog(r)
          <5>1. tok[r].by # tok[q].by
            BY <2>2, <4>1 DEF SignLog, SigningInv, OneLogEach
          <5> QED
            BY <4>1, <5>1 DEF SignLog, SigningInv, TypeOK, StoreTypeOK,
               TokTypeOK, TokState
        <4>2. CASE ~SignLog(r)
          <5>1. signedLog' = signedLog
            BY <1>1, <4>2 DEF TokAction, TokRequest, VerifyRead, SignRead,
               DeclineRead, Begin, TokStep, VerifyWrite, SignFill, SignClaim,
               SignCollect, SignUpload, SignStamp, PutFinal, SignComplete,
               SignPartial, SignInvite, DeclineSigner, DeclineContract, TokFail,
               UnchangedButSigner, UnchangedButStatus, storeVars
          <5> QED
            BY <5>1
        <4> QED
          BY <4>1, <4>2
      <3> QED
        BY <3>1, <3>2, <3>3, StillSound
    <2> QED
      BY <2>1, <2>2
  <1>2. CASE Quiet
    BY <1>2, StillSound DEF Quiet
  <1> QED
    BY <1>1, <1>2, TokOrQuiet DEF Quiet

LEMMA SignedOnceNext ==
  ASSUME SigningInv, [Next]_vars, RowStep
  PROVE  SignedOnce'
PROOF
  <1> SUFFICES ASSUME NEW s \in Signers
               PROVE  signedLog'[s] <= IF signer'[s].signedAt THEN 1 ELSE 0
    BY DEF SignedOnce
  <1>1. /\ signedLog \in [Signers -> Nat]
        /\ signer[s].signedAt => signer'[s].signedAt
        /\ signedLog[s] <= IF signer[s].signedAt THEN 1 ELSE 0
    BY SignedAtKept DEF SigningInv, TypeOK, StoreTypeOK, SignedOnce
  <1>2. ASSUME NEW r \in TokenReqs, SignLog(r)
        PROVE  signedLog'[s] <= IF signer'[s].signedAt THEN 1 ELSE 0
    <2>1. CASE s = tok[r].by
      <3>1. signedLog[s] = 0 /\ signer[s].signedAt
        BY <1>2, <2>1 DEF SignLog, SigningInv, RequestsSound, ClaimedSteps,
           SignSteps
      <3>2. signedLog'[s] = 1
        BY <1>1, <1>2, <2>1, <3>1 DEF SignLog
      <3> QED
        BY <1>1, <3>1, <3>2
    <2>2. CASE s # tok[r].by
      <3>1. signedLog'[s] = signedLog[s]
        BY <1>1, <1>2, <2>2 DEF SignLog
      <3> QED
        BY <1>1, <3>1
    <2> QED
      BY <2>1, <2>2
  <1>3. CASE ~\E r \in TokenReqs : SignLog(r)
    <2>1. signedLog' = signedLog
      BY <1>3, TokOrQuiet DEF Quiet, TokAction, TokRequest, VerifyRead, SignRead,
         DeclineRead, Begin, TokStep, VerifyWrite, SignFill, SignClaim, SignCollect,
         SignUpload, SignStamp, PutFinal, SignComplete, SignPartial, SignInvite,
         DeclineSigner, DeclineContract, TokFail, UnchangedButSigner,
         UnchangedButStatus, storeVars
    <2> QED
      BY <1>1, <2>1
  <1> QED
    BY <1>2, <1>3

LEMMA OneLogEachNext ==
  ASSUME SigningInv, [Next]_vars
  PROVE  OneLogEach'
PROOF
  <1> SUFFICES ASSUME NEW r \in TokenReqs, NEW q \in TokenReqs, r # q,
                      tok'[r].pc = "log", tok'[q].pc = "log"
               PROVE  tok'[r].by # tok'[q].by
    BY DEF OneLogEach
  <1>1. /\ tok \in [TokenReqs -> TokState]
        /\ \A p \in TokenReqs : tok[p] \in TokState /\ tok[p].by \in Signers
    BY DEF SigningInv, TypeOK, TokTypeOK, TokState
  <1>2. CASE tok' = tok
    BY <1>2 DEF SigningInv, OneLogEach
  <1>3. ASSUME NEW p \in TokenReqs, TokAction(p), tok'[p].pc = "log"
        PROVE  /\ tok'[p].by = tok[p].by
               /\ signer[tok[p].by].status = "pending"
    <2>1. SignClaim(p)
      BY <1>1, <1>3 DEF TokAction, TokRequest, VerifyRead, SignRead, DeclineRead,
         Begin, TokStep, VerifyWrite, SignFill, SignLog, SignCollect, SignUpload,
         SignStamp, PutFinal, SignComplete, SignPartial, SignInvite, DeclineSigner,
         DeclineContract, TokFail, Tok, TokDone, IdleTok, TokState
    <2>2. signer[tok[p].by].status = "pending" /\ Tok(p, "log")
      BY <1>1, <1>3, <2>1 DEF SignClaim, TokDone, IdleTok
    <2> QED
      BY <1>1, <2>2 DEF Tok, TokState
  <1>4. \A p \in TokenReqs : tok[p].pc = "log" =>
           signer[tok[p].by].status # "pending"
    BY <1>1 DEF SigningInv, RequestsSound, RowsConsistent, ClaimedSteps,
       SignSteps
  <1>5. ASSUME NEW p \in TokenReqs, TokAction(p) PROVE tok'[r].by # tok'[q].by
    <2>1. CASE p = r
      <3>1. tok'[q] = tok[q]
        BY <1>5, <2>1, OtherRequests DEF SigningInv
      <3> QED
        BY <1>3, <1>4, <1>5, <2>1, <3>1
    <2>2. CASE p = q
      <3>1. tok'[r] = tok[r]
        BY <1>5, <2>2, OtherRequests DEF SigningInv
      <3> QED
        BY <1>3, <1>4, <1>5, <2>2, <3>1
    <2>3. CASE p # r /\ p # q
      <3>1. tok'[r] = tok[r] /\ tok'[q] = tok[q]
        BY <1>5, <2>3, OtherRequests DEF SigningInv
      <3> QED
        BY <3>1 DEF SigningInv, OneLogEach
    <2> QED
      BY <2>1, <2>2, <2>3
  <1> QED
    BY <1>2, <1>5, TokOrQuiet DEF Quiet

LEMMA FinalPdfSoundNext ==
  ASSUME SigningInv, [Next]_vars, RowStep
  PROVE  FinalPdfSound'
PROOF
  <1>1. FinalPdfSound /\ final \in FinalPdf
    BY DEF SigningInv, TypeOK, StoreTypeOK
  <1>2. \A s \in Signers : signer[s].signedAt => signer'[s].signedAt
    BY SignedAtKept DEF SigningInv
  <1>3. ASSUME NEW r \in TokenReqs, SignUpload(r) \/ SignStamp(r), PutFinal(r)
        PROVE  FinalPdfSound'
    <2>1. /\ Parties \subseteq tok[r].seen
          /\ \A t \in tok[r].seen : signer[t].signedAt
          /\ tok[r].seen \subseteq Signers
      BY <1>3 DEF SignUpload, SignStamp, SigningInv, RequestsSound, TypeOK, TokTypeOK,
         TokState
    <2> QED
      BY <1>2, <1>3, <2>1 DEF PutFinal, FinalPdfSound
  <1>4. ASSUME NEW r \in TokenReqs, SignComplete(r) PROVE FinalPdfSound'
    <2>1. final.stored
      BY <1>4 DEF SignComplete, SigningInv, RequestsSound
    <2> QED
      BY <1>1, <1>2, <1>4, <2>1 DEF SignComplete, FinalPdfSound, FinalPdf
  <1>5. CASE final' = final /\ pdf' \in {pdf, "rendered"}
    BY <1>1, <1>2, <1>5 DEF FinalPdfSound, FinalPdf
  <1>6. ASSUME NEW r \in TokenReqs, TokAction(r)
        PROVE  \/ (SignUpload(r) \/ SignStamp(r)) /\ PutFinal(r)
               \/ SignComplete(r)
               \/ final' = final /\ pdf' = pdf
    BY <1>6 DEF TokAction, TokRequest, VerifyRead, SignRead, DeclineRead, Begin,
       TokStep, VerifyWrite, SignFill, SignClaim, SignLog, SignUpload, SignStamp,
       SignCollect, SignPartial, SignInvite, DeclineSigner, DeclineContract, TokFail,
       UnchangedButSigner, UnchangedButStatus, storeVars
  <1> QED
    BY <1>3, <1>4, <1>5, <1>6, TokOrQuiet DEF Quiet

LEMMA InitInv == Init => SigningInv
PROOF
  <1> SUFFICES ASSUME Init PROVE SigningInv
    OBVIOUS
  <1>1. TypeOK
    BY InitType
  <1>2. \A s \in Signers :
           /\ ~signer[s].signedAt /\ signedLog[s] = 0
           /\ signer[s].status = IF s \in Parties THEN "pending" ELSE "absent"
    BY DEF Init, StoreInit, NewSigner, NoSigner
  <1>3. /\ \A r \in TokenReqs : tok[r].pc = "idle"
        /\ \A o \in OwnerReqs : own[o].pc = "idle"
        /\ job.due = {}
    BY DEF Init, TokInit, IdleTok, OwnInit, IdleOwn, JobInit, IdleJob
  <1>4. ~final.stored /\ final.names = {} /\ pdf # "final"
    BY DEF Init, StoreInit
  <1>5. RowsConsistent /\ SignedOnce /\ SignedVerified /\ OrderKept
    BY <1>2 DEF RowsConsistent, SignedOnce, SignedVerified, OrderKept
  <1>6. RowsPresent /\ NewcomersLast
    BY <1>2, <1>3, StoreAssumption
       DEF RowsPresent, NewcomersLast, Present, Signers
  <1>7. FinalPdfSound /\ RequestsSound /\ OneLogEach
    BY <1>3, <1>4 DEF FinalPdfSound, RequestsSound, OneLogEach, ClaimedSteps,
       SignSteps
  <1> QED
    BY <1>1, <1>5, <1>6, <1>7 DEF SigningInv

LEMMA NextInv == SigningInv /\ [Next]_vars => SigningInv'
PROOF
  <1> SUFFICES ASSUME SigningInv, [Next]_vars PROVE SigningInv'
    OBVIOUS
  <1>1. TypeOK'
    BY NextType DEF SigningInv
  <1>2. RowStep
    BY RowSteps DEF SigningInv
  <1> QED
    BY <1>1, <1>2, RowsConsistentKept, RowsPresentNext, NewcomersLastNext,
       OrderKeptNext, SignedOnceNext, FinalPdfSoundNext, RequestsSoundNext,
       OneLogEachNext DEF SigningInv

LEMMA SigningInvariant == Spec => []SigningInv
  BY InitInv, NextInv, PTL DEF Spec

(* For any signers, any number of concurrent requests and any failures:    *)

\* nobody has signed whose turn had not come (signContract checks it on rows read long
\* before it claims the signature);
THEOREM SignedInOrder == Spec => []OrderKept
  BY SigningInvariant, PTL DEF SigningInv

\* each signer's signature is claimed, and logged, at most once;
THEOREM SignaturesOnce == Spec => []SignedOnce
  BY SigningInvariant, PTL DEF SigningInv

\* and only after his address was verified (verifyOtp);
THEOREM SignaturesVerified == Spec => []SignedVerified
  BY SigningInvariant, PTL DEF SigningInv

\* the sealed PDF is stored only when everybody it names, every party included, has
\* signed.
THEOREM SealedWhenSigned == Spec => []FinalPdfSound
  BY SigningInvariant, PTL DEF SigningInv

LEMMA NoRevivalStep ==
  ASSUME SigningInv, RowStep, NEW s \in Signers,
         signer[s].status \notin {"absent", "pending"}
  PROVE  /\ signer'[s].status # "pending"
         /\ signer'[s].signedAt = signer[s].signedAt
PROOF
  <1>1. CASE RowsKept
    BY <1>1 DEF RowsKept, SameRow
  <1>2. ASSUME NEW r \in TokenReqs, RowClaimed(r)
        PROVE  /\ signer'[s].status # "pending"
               /\ signer'[s].signedAt = signer[s].signedAt
    BY <1>2 DEF RowClaimed, SameRow
  <1>3. ASSUME NEW gone \in SUBSET Signers, RowsStruckOff(gone)
        PROVE  /\ signer'[s].status # "pending"
               /\ signer'[s].signedAt = signer[s].signedAt
    BY <1>3 DEF RowsStruckOff
  <1>4. ASSUME NEW o \in OwnerReqs, NEW x \in Signers, RowJoined(o, x)
        PROVE  /\ signer'[s].status # "pending"
               /\ signer'[s].signedAt = signer[s].signedAt
    BY <1>4 DEF RowJoined, SameRow, Present
  <1> QED
    BY <1>1, <1>2, <1>3, <1>4 DEF RowStep

\* A signer struck off never becomes a signer who signed.
THEOREM StruckOffStays == Spec => NoRevival
PROOF
  <1>1. SigningInv /\ [Next]_vars =>
           [\A s \in Signers :
              signer[s].status \notin {"absent", "pending"} =>
                 /\ signer'[s].status # "pending"
                 /\ signer'[s].signedAt = signer[s].signedAt]_vars
    BY RowSteps, NoRevivalStep DEF SigningInv
  <1> QED
    BY <1>1, InitInv, NextInv, PTL DEF Spec, NoRevival
-----------------------------------------------------------------------------
(* What is filled in: FieldsInv is inductive relative to SigningInv. *)

\* Who may fill in his fields may do so from then on.
LEMMA MayFillKept ==
  ASSUME SigningInv, RowStep, TypeOK', NEW s, MayFill(s)
  PROVE  MayFill(s)'
PROOF
  <1> USE DEF MayFill
  <1>1. s \in Present' /\ TurnReached(s)'
    BY PresenceKept, TurnKept DEF SigningInv
  <1>2. signer'[s].otp
    <2>1. s \in Signers
      BY DEF Present
    <2> QED
      BY <2>1 DEF RowStep, RowsKept, RowClaimed, RowsStruckOff, RowJoined, SameRow
  <1> QED
    BY <1>1, <1>2

\* What FieldsInv needs of a step.
LEMMA FieldsStep ==
  ASSUME SigningInv, RowStep, TypeOK',
         \A s \in text'.fields : MayFill(s),
         \A r \in TokenReqs : \A s \in tok'[r].text.fields : MayFill(s),
         \A r \in TokenReqs : tok'[r].pc \in {"upload", "stamp"} =>
             tok'[r].text.fields \subseteq tok'[r].seen,
         final'.text.fields \subseteq final'.names
  PROVE  FieldsInv'
PROOF
  <1>1. \A s : MayFill(s) => MayFill(s)'
    BY MayFillKept
  <1> QED
    BY <1>1 DEF FieldsInv

\* A request with a signing link: what it has in hand was filled in by those who may.
LEMMA RequestFields ==
  ASSUME SigningInv, FieldsInv, NEW r \in TokenReqs, TokAction(r)
  PROVE  /\ \A s \in text'.fields : MayFill(s)
         /\ \A s \in tok'[r].text.fields : MayFill(s)
         /\ tok'[r].pc \in {"upload", "stamp"} =>
               tok'[r].text.fields \subseteq tok'[r].seen
         /\ final'.text.fields \subseteq final'.names
PROOF
  <1> DEFINE t == tok[r].text
             filled == [t EXCEPT !.fields = @ \cup {tok[r].by}]
  <1>0. /\ tok \in [TokenReqs -> TokState] /\ tok[r] \in TokState
        /\ t \in Texts
    BY DEF SigningInv, TypeOK, TokTypeOK, TokState
  <1>1. /\ \A s \in text.fields : MayFill(s)
        /\ \A s \in t.fields : MayFill(s)
        /\ tok[r].pc \in {"upload", "stamp"} => t.fields \subseteq tok[r].seen
        /\ final.text.fields \subseteq final.names
    BY DEF FieldsInv
  <1>2. CASE SignFill(r)
    <2>1. MayFill(tok[r].by)
      BY <1>2 DEF SignFill, SigningInv, RowsPresent, RequestsSound, MayFill
    <2>2. filled.fields = t.fields \cup {tok[r].by}
      BY <1>0 DEF Texts
    <2>3. text' = filled /\ final' = final
          /\ tok' = [tok EXCEPT ![r].pc = "claim", ![r].text = filled]
      BY <1>2 DEF SignFill
    <2> HIDE DEF filled
    <2>4. tok'[r].text = filled /\ tok'[r].pc = "claim"
      BY <1>0, <2>3 DEF TokState
    <2> QED
      BY <1>1, <2>1, <2>2, <2>3, <2>4
  <1>3. CASE SignCollect(r)
    <2>1. /\ tok'[r].seen = Present /\ tok'[r].text = t
          /\ text' = text /\ final' = final
      BY <1>0, <1>3 DEF SignCollect, TokState, storeVars
    <2> QED
      BY <1>1, <2>1 DEF MayFill
  <1>4. CASE SignUpload(r) \/ SignStamp(r)
    <2>1. /\ tok[r].pc \in {"upload", "stamp"} /\ text' = text
          /\ tok'[r].text = t /\ tok'[r].seen = tok[r].seen
      BY <1>0, <1>4 DEF SignUpload, SignStamp, PutFinal, Tok, TokState, storeVars
    <2>2. \/ final' = final
          \/ final'.text = t /\ final'.names = tok[r].seen
      BY <1>4 DEF SignUpload, SignStamp, PutFinal, storeVars
    <2> QED
      BY <1>1, <2>1, <2>2
  <1>5. ASSUME NEW x \in Signers, TokRequest(r, x)
        PROVE  /\ text' = text /\ final' = final /\ tok'[r].text = text
               /\ tok'[r].pc \notin {"upload", "stamp"}
    BY <1>0, <1>5 DEF TokRequest, VerifyRead, SignRead, DeclineRead, Begin, storeVars
  <1>6. CASE tok'[r] = IdleTok /\ text' = text /\ final' = final
    BY <1>1, <1>6 DEF IdleTok, FirstText
  <1>7. ASSUME ~(SignFill(r) \/ SignCollect(r) \/ SignUpload(r) \/ SignStamp(r)),
               TokStep(r) \/ TokFail(r)
        PROVE  /\ text' = text /\ final' = final
               /\ \/ tok'[r] = IdleTok
                  \/ tok'[r].text = t /\ tok'[r].pc \notin {"upload", "stamp"}
    <2>1. text' = text /\ final' = final
      BY <1>7 DEF TokStep, TokFail, VerifyWrite, SignClaim, SignLog, SignComplete,
         SignPartial, SignInvite, DeclineSigner, DeclineContract,
         UnchangedButSigner, UnchangedButStatus, storeVars
    <2>2. CASE SignInvite(r)
      BY <1>0, <2>2 DEF SignInvite, TokDone, TokState
    <2>3. ASSUME NEW pc \in {"log", "collect", "invite", "declineContract"}, Tok(r, pc)
          PROVE  tok'[r].text = t /\ tok'[r].pc \notin {"upload", "stamp"}
      BY <1>0, <2>3 DEF Tok, TokState
    <2>4. TokDone(r) => tok'[r] = IdleTok
      BY <1>0 DEF TokDone
    <2>5. CASE ~SignInvite(r)
      <3>1. \/ TokDone(r) \/ Tok(r, "log") \/ Tok(r, "collect")
            \/ Tok(r, "invite") \/ Tok(r, "declineContract")
        BY <1>7, <2>5 DEF TokStep, TokFail, VerifyWrite, SignClaim, SignLog,
           SignComplete, SignPartial, DeclineSigner, DeclineContract
      <3> QED
        BY <2>1, <2>3, <2>4, <3>1
    <2> QED
      BY <2>1, <2>2, <2>5
  <1> QED
    BY <1>1, <1>2, <1>3, <1>4, <1>5, <1>6, <1>7 DEF TokAction

\* Nobody else touches what requests have in hand; an edit starts without fillings.
LEMMA OthersKeepFields ==
  ASSUME [Next]_vars, ~ \E r \in TokenReqs : TokAction(r)
  PROVE  text' = text \/ text'.fields = {}
PROOF
  <1>1. CASE OwnNext
    <2>1. ASSUME NEW o \in OwnerReqs, OwnRequest(o) \/ OwnFail(o)
          PROVE  text' = text
      BY <2>1 DEF OwnRequest, SendRead, EditRead, CancelRead, ArchiveRead,
         UnarchiveRead, JoinRead, SetStatusRead, OwnerReads, OwnFail, storeVars
    <2>2. ASSUME NEW o \in OwnerReqs, OwnStep(o)
          PROVE  text' = text \/ text'.fields = {}
      <3>1. CASE EditPutText(o)
        BY <3>1 DEF EditPutText
      <3>2. CASE EditRenew(o)
        BY <3>2 DEF EditRenew
      <3>3. CASE ~(EditPutText(o) \/ EditRenew(o))
        BY <2>2, <3>3 DEF OwnStep, SendCharge, SendMail, SendMark, PutStatus,
           EditNumber, EditAddVersion, EditMail, SetStatus, Archive, ArchiveLog,
           UnarchiveFind, Join, storeVars
      <3> QED
        BY <3>1, <3>2, <3>3
    <2> QED
      BY <1>1, <2>1, <2>2 DEF OwnNext
  <1>2. CASE JobNext \/ Clock \/ UNCHANGED vars
    BY <1>2 DEF JobNext, JobFind, JobStep, JobExpireSigners, JobReview,
       JobExpireContract, JobFail, Clock, LinkExpires, vars, storeVars
  <1> QED
    BY <1>1, <1>2 DEF Next, TokNext, TokAction

LEMMA FieldsStart == Init => FieldsInv
  BY DEF Init, StoreInit, TokInit, IdleTok, FirstText, FieldsInv

LEMMA FieldsNext == SigningInv /\ FieldsInv /\ [Next]_vars => FieldsInv'
PROOF
  <1> SUFFICES ASSUME SigningInv, FieldsInv, [Next]_vars PROVE FieldsInv'
    OBVIOUS
  <1>1. RowStep /\ TypeOK'
    BY RowSteps, NextType DEF SigningInv
  <1>2. /\ \A s \in text.fields : MayFill(s)
        /\ \A q \in TokenReqs : \A s \in tok[q].text.fields : MayFill(s)
        /\ \A q \in TokenReqs : tok[q].pc \in {"upload", "stamp"} =>
               tok[q].text.fields \subseteq tok[q].seen
        /\ final.text.fields \subseteq final.names
    BY DEF FieldsInv
  <1>3. ASSUME NEW r \in TokenReqs, TokAction(r) PROVE FieldsInv'
    <2>1. \A q \in TokenReqs : q # r => tok'[q] = tok[q]
      BY <1>3, OtherRequests DEF SigningInv
    <2> QED
      BY <1>1, <1>2, <1>3, <2>1, RequestFields, FieldsStep
  <1>4. CASE ~ \E r \in TokenReqs : TokAction(r)
    <2>1. tok' = tok /\ final' = final
      BY <1>4, TokOrQuiet DEF Quiet
    <2>2. text' = text \/ text'.fields = {}
      BY <1>4, OthersKeepFields
    <2> QED
      BY <1>1, <1>2, <2>1, <2>2, FieldsStep
  <1> QED
    BY <1>3, <1>4

(***************************************************************************)
(* For any number of overlapping edits and signing requests, and though no *)
(* version row is added for them: what is filled into the text comes from  *)
(* verified signers whose turn had come; what is filled into the sealed    *)
(* PDF, from those it names; and the edit each is made of is in the        *)
(* version history.                                                        *)
(***************************************************************************)
THEOREM TextsAccounted == Spec => []TextAccounted
PROOF
  <1>1. TextInv /\ FieldsInv => TextAccounted
    BY DEF TextInv, FieldsInv, MayFill, TextAccounted
  <1>2. Spec => []FieldsInv
    BY FieldsStart, FieldsNext, SigningInvariant, PTL DEF Spec
  <1> QED
    BY <1>1, <1>2, EditsInHistory, PTL
-----------------------------------------------------------------------------
(* Refinement: each of the four row steps is a step of the ceremony. *)

HaveSigned == {s \in Signers : signer[s].signedAt}
Orders == [s \in Signers |-> signer[s].order]

LEMMA CeremonyStarts == Init => Ceremony!CeremonyInit
PROOF
  <1> SUFFICES ASSUME Init PROVE Ceremony!CeremonyInit
    OBVIOUS
  <1>1. SigningInv
    BY InitInv
  <1>2. Present \subseteq Signers /\ Pending = Present
    BY DEF Init, StoreInit, NewSigner, NoSigner, Present, Pending
  <1>3. HaveSigned = {}
    BY DEF Init, StoreInit, NewSigner, NoSigner, HaveSigned
  <1>4. Orders \in [Signers -> 0 .. MaxOrder]
    BY <1>1 DEF SigningInv, TypeOK, StoreTypeOK, SignerRow, Orders
  <1> QED
    BY <1>2, <1>3, <1>4 DEF Ceremony!CeremonyInit, HaveSigned, Orders

LEMMA CeremonyGoesOn ==
  ASSUME SigningInv, RowStep, TypeOK'
  PROVE  Ceremony!CeremonyNext \/ UNCHANGED <<Present, Pending, HaveSigned, Orders>>
PROOF
  <1> USE DEF SigningInv
  <1>0. /\ \A s \in Signers : signer[s].order \in 0 .. MaxOrder
        /\ \A s \in Signers : signer'[s].order \in 0 .. MaxOrder
    BY DEF TypeOK, StoreTypeOK, SignerRow
  <1>1. CASE RowsKept
    <2>1. Present' = Present /\ Pending' = Pending
      BY <1>1 DEF RowsKept, SameRow, Present, Pending
    <2>2. HaveSigned' = HaveSigned /\ Orders' = Orders
      BY <1>1 DEF RowsKept, SameRow, HaveSigned, Orders
    <2> QED
      BY <2>1, <2>2
  <1>2. ASSUME NEW r \in TokenReqs, RowClaimed(r)
        PROVE  Ceremony!CeremonyNext
    <2>0. PICK x \in Signers : x = tok[r].by
      BY DEF TypeOK, TokTypeOK, TokState
    <2>1. x \in Pending
      BY <1>2, <2>0 DEF RowClaimed, Pending
    <2>2. \A e \in Pending : signer[x].order <= signer[e].order
      BY <1>2, <2>0 DEF RowClaimed, RequestsSound, TurnReached
    <2>3. Present' = Present /\ Pending' = Pending \ {x}
      BY <1>2, <2>0, <2>1 DEF RowClaimed, SameRow, Present, Pending
    <2>4. HaveSigned' = HaveSigned \cup {x}
      BY <1>2, <2>0, <2>1 DEF RowClaimed, SameRow, HaveSigned
    <2>5. Orders' = Orders
      BY <1>2, <2>0 DEF RowClaimed, SameRow, Orders
    <2>6. \A q \in Pending : Orders[x] <= Orders[q]
      BY <2>1, <2>2 DEF Orders, Pending
    <2>7. Ceremony!MaySign(x)
      BY <2>1, <2>3, <2>4, <2>5, <2>6
         DEF Ceremony!MaySign, HaveSigned, Orders
    <2> QED
      BY <2>1, <2>7 DEF Ceremony!CeremonyNext
  <1>3. ASSUME NEW gone \in SUBSET Signers, RowsStruckOff(gone)
        PROVE  Ceremony!CeremonyNext
    <2>1. Present' = Present /\ Pending' = Pending \ gone
      BY <1>3 DEF RowsStruckOff, Present, Pending
    <2>2. HaveSigned' = HaveSigned /\ Orders' = Orders
      BY <1>3 DEF RowsStruckOff, HaveSigned, Orders
    <2>3. Ceremony!MayLeave(gone)
      BY <2>1, <2>2 DEF Ceremony!MayLeave, HaveSigned, Orders
    <2> QED
      BY <2>3 DEF Ceremony!CeremonyNext
  <1>4. ASSUME NEW o \in OwnerReqs, NEW x \in Signers, RowJoined(o, x)
        PROVE  Ceremony!CeremonyNext
    <2>0. PICK n \in 0 .. MaxOrder : n = own[o].order
      BY DEF TypeOK, OwnTypeOK, OwnState
    <2>1. x \in Signers \ Present
      BY <1>4 DEF RowJoined
    <2>2. \A s \in Present : Orders[s] <= n
      BY <1>4, <2>0, JoinsLast DEF RowJoined, Orders, Present
    <2>3. Present' = Present \cup {x} /\ Pending' = Pending \cup {x}
      BY <1>4 DEF RowJoined, SameRow, NewSigner, Present, Pending
    <2>4. ~signer[x].signedAt
      BY <2>1 DEF RowsConsistent, Present
    <2>5. HaveSigned' = HaveSigned
      BY <1>4, <2>4 DEF RowJoined, SameRow, NewSigner, HaveSigned
    <2>6. Orders' = [Orders EXCEPT ![x] = n]
      <3>1. signer'[x].order = n
        BY <1>4, <2>0 DEF RowJoined, NewSigner
      <3>2. \A s \in Signers \ {x} : signer'[s].order = signer[s].order
        BY <1>4 DEF RowJoined, SameRow
      <3> QED
        BY <3>1, <3>2 DEF Orders
    <2>7. Ceremony!MayJoin(x, n)
      BY <2>1, <2>2, <2>3, <2>5, <2>6
         DEF Ceremony!MayJoin, HaveSigned, Orders
    <2> QED
      BY <2>1, <2>7 DEF Ceremony!CeremonyNext
  <1> QED
    BY <1>1, <1>2, <1>3, <1>4 DEF RowStep

(***************************************************************************)
(* The handlers, with all their awaits, races and failures, implement the  *)
(* abstract ceremony.                                                      *)
(***************************************************************************)
THEOREM SigningImplementsCeremony == Spec => CeremonyKept
PROOF
  <1>1. SigningInv /\ [Next]_vars =>
           [Ceremony!CeremonyNext]_(Ceremony!ceremony)
    <2> SUFFICES ASSUME SigningInv, [Next]_vars
                 PROVE  \/ Ceremony!CeremonyNext
                        \/ UNCHANGED Ceremony!ceremony
      OBVIOUS
    <2>1. RowStep /\ TypeOK'
      BY RowSteps, NextType DEF SigningInv
    <2> QED
      BY <2>1, CeremonyGoesOn DEF Ceremony!ceremony, HaveSigned, Orders
  <1> QED
    BY <1>1, InitInv, NextInv, CeremonyStarts, PTL
       DEF Spec, CeremonyKept, Ceremony!CeremonySpec
=============================================================================
