---------------------------- MODULE SigningProofs ----------------------------
(* Proofs about Signing, for any signers, request slots and bounds. *)
EXTENDS Signing, TLAPS

\* An idle slot is a legal value of the locals: there is at least one signer.
LEMMA IdleTokType == IdleTok \in TokState
  BY StoreAssumption DEF IdleTok, TokState, FirstText, Texts, Edits, Signers

LEMMA TokNextType ==
  ASSUME TypeOK, NEW r \in TokenReqs,
         \/ \E s \in Signers : TokRequest(r, s)
         \/ TokStep(r)
         \/ TokFail(r)
  PROVE  StoreTypeOK' /\ TokTypeOK'
PROOF
  <1> USE StoreAssumption, IdleTokType DEF TypeOK, StoreTypeOK, TokTypeOK
  <1>1. \A f \in [TokenReqs -> TokState] : \A t \in TokState :
           [f EXCEPT ![r] = t] \in [TokenReqs -> TokState]
    OBVIOUS
  <1>2. tok[r] \in TokState /\ tok[r].by \in Signers
    BY DEF TokState
  <1>3. ASSUME NEW s \in Signers, TokRequest(r, s)  PROVE StoreTypeOK' /\ TokTypeOK'
    BY <1>3 DEF TokRequest, VerifyRead, SignRead, DeclineRead, Begin, TokState, SignSteps,
       DeclineSteps, storeVars
  <1>4. CASE VerifyWrite(r)
    <2>1. signer' \in [Signers -> SignerRow]
      BY <1>2, <1>4 DEF VerifyWrite, SignerRow
    <2> QED
      BY <1>4, <2>1 DEF VerifyWrite, UnchangedButSigner, TokDone
  <1>5. CASE SignFill(r)
    <2> DEFINE filled == [tok[r].text EXCEPT !.fields = @ \cup {tok[r].by}]
    <2>1. filled \in Texts
      BY <1>2 DEF TokState, Texts
    <2>2. text' = filled
          /\ tok' = [tok EXCEPT ![r].pc = "claim", ![r].text = filled]
      BY <1>5 DEF SignFill
    <2> HIDE DEF filled
    <2> HIDE DEF TypeOK, StoreTypeOK
    <2>3. tok' \in [TokenReqs -> TokState]
      <3> DEFINE new == [tok[r] EXCEPT !.pc = "claim", !.text = filled]
      <3>1. new \in TokState
        BY <1>2, <2>1 DEF TokState, SignSteps
      <3>2. tok' = [tok EXCEPT ![r] = new]
        BY <2>2
      <3> HIDE DEF new
      <3> QED
        BY <1>1, <3>1, <3>2 DEF TypeOK
    <2>4. text' \in Texts
      BY <2>1, <2>2
    <2>5. UNCHANGED <<status, pdf, edits, versions, signer, mails, charges,
                      archivedFrom, signedLog, final>>
      BY <1>5 DEF SignFill
    <2> QED
      BY <2>3, <2>4, <2>5 DEF TypeOK, StoreTypeOK
  <1>6. CASE SignClaim(r)
    <2>1. signer' \in [Signers -> SignerRow]
      BY <1>2, <1>6 DEF SignClaim, SignerRow, SignerStatus
    <2>2. tok' \in [TokenReqs -> TokState]
      <3>1. CASE Tok(r, "log")
        BY <3>1 DEF Tok, TokState, SignSteps
      <3>2. CASE TokDone(r)
        BY <1>1, <3>2 DEF TokDone
      <3> QED
        BY <1>6, <3>1, <3>2 DEF SignClaim
    <2> QED
      BY <1>6, <2>1, <2>2 DEF SignClaim, UnchangedButSigner
  <1>7. CASE SignLog(r)
    BY <1>7 DEF SignLog, Tok, TokState, SignSteps
  <1>8. CASE SignCollect(r)
    <2>1. CurrentLinks(NextInOrder(Present, signer[tok[r].by].order))
             \subseteq Signers \X Nat
      BY DEF CurrentLinks, NextInOrder, Pending, Present, SignerRow
    <2>2. Present \subseteq Signers
      BY DEF Present
    <2> QED
      <3>1. PICK pc \in SignSteps, seen \in SUBSET Signers,
                 next \in SUBSET (Signers \X Nat) :
               tok' = [tok EXCEPT ![r].pc = pc, ![r].seen = seen,
                                  ![r].next = next]
        BY <1>8, <2>1, <2>2 DEF SignCollect, SignSteps
      <3>2. tok' \in [TokenReqs -> TokState]
        BY <1>2, <3>1 DEF TokState
      <3> QED
        BY <1>8, <3>2 DEF SignCollect, storeVars
  <1>9. CASE SignUpload(r) \/ SignStamp(r)
    <2>1. tok' \in [TokenReqs -> TokState]
      BY <1>9 DEF SignUpload, SignStamp, Tok, TokState, SignSteps
    <2>2. final' \in FinalPdf
      <3>1. tok[r].seen \subseteq Signers /\ tok[r].text \in Texts
        BY <1>2 DEF TokState
      <3>2. [stored |-> TRUE, names |-> tok[r].seen, text |-> tok[r].text] \in FinalPdf
        BY <3>1 DEF FinalPdf
      <3> QED
        BY <1>9, <3>2 DEF SignUpload, SignStamp, PutFinal, storeVars
    <2>3. UNCHANGED <<status, text, pdf, edits, versions, signer, mails,
                      charges, archivedFrom, signedLog>>
      BY <1>9 DEF SignUpload, SignStamp, PutFinal, storeVars
    <2> QED
      BY <2>1, <2>2, <2>3
  <1>10. CASE SignComplete(r)
    BY <1>10 DEF SignComplete, TokDone, ContractStatus
  <1>11. CASE SignPartial(r)
    BY <1>11 DEF SignPartial, Tok, UnchangedButStatus, ContractStatus, TokState, SignSteps
  <1>12. CASE SignInvite(r)
    BY <1>12 DEF SignInvite, TokDone, TokState
  <1>13. CASE DeclineSigner(r)
    <2>1. signer' \in [Signers -> SignerRow]
      BY <1>2, <1>13 DEF DeclineSigner, SetSignerStatus, SignerRow, SignerStatus
    <2> QED
      BY <1>13, <2>1
         DEF DeclineSigner, Tok, UnchangedButSigner, TokState, DeclineSteps
  <1>14. CASE DeclineContract(r)
    BY <1>14 DEF DeclineContract, TokDone, UnchangedButStatus, ContractStatus
  <1>15. CASE TokFail(r)
    BY <1>15 DEF TokFail, TokDone, storeVars
  <1> QED
    BY <1>3, <1>4, <1>5, <1>6, <1>7, <1>8, <1>9, <1>10, <1>11, <1>12, <1>13, <1>14, <1>15
       DEF TokStep

LEMMA OwnNextType ==
  ASSUME TypeOK, NEW o \in OwnerReqs,
         OwnRequest(o) \/ OwnStep(o) \/ OwnFail(o)
  PROVE  StoreTypeOK' /\ OwnTypeOK'
PROOF
  <1> USE StoreAssumption DEF TypeOK, StoreTypeOK, OwnTypeOK
  <1>1. IdleOwn \in OwnState
    BY DEF IdleOwn, OwnState, ContractStatus, Edits
  <1>2. own[o] \in OwnState
    OBVIOUS
  <1>3. CurrentLinks(Present) \subseteq Signers \X Nat
    BY DEF CurrentLinks, Present, SignerRow
  <1>4. CASE SendRead(o)
    <2>1. PICK m \in SUBSET (Signers \X Nat) :
             own' = [own EXCEPT ![o].pc = "charge", ![o].mail = m]
      BY <1>3, <1>4 DEF SendRead, CurrentLinks
    <2>2. own' \in [OwnerReqs -> OwnState]
      BY <1>2, <2>1 DEF OwnState, SendSteps
    <2> QED
      BY <1>4, <2>2 DEF SendRead, storeVars
  <1>5. CASE EditRead(o) \/ ArchiveRead(o) \/ UnarchiveRead(o)
    BY <1>5 DEF EditRead, ArchiveRead, UnarchiveRead, OwnerReads, OwnState,
                EditSteps, OtherSteps, storeVars
  <1>6. ASSUME CancelRead(o) \/ \E new \in SettableStatus : SetStatusRead(o, new)
        PROVE  StoreTypeOK' /\ OwnTypeOK'
    BY <1>6 DEF CancelRead, SetStatusRead, SettableStatus, ContractStatus,
                OwnState, OtherSteps, storeVars
  <1>7. CASE JoinRead(o)
    <2>1. PICK n \in 0 .. MaxOrder :
             own' = [own EXCEPT ![o].pc = "join", ![o].order = n]
      <3>1. 1 .. MaxOrder \subseteq 0 .. MaxOrder
        OBVIOUS
      <3> QED
        BY <1>7, <3>1 DEF JoinRead
    <2>2. own' \in [OwnerReqs -> OwnState]
      BY <1>2, <2>1 DEF OwnState, OtherSteps
    <2> QED
      BY <1>7, <2>2 DEF JoinRead, storeVars
  <1>8. CASE SendCharge(o)
    BY <1>8 DEF SendCharge, Own, OwnState, SendSteps
  <1>9. CASE SendMail(o)
    BY <1>2, <1>9 DEF SendMail, Own, OwnState, SendSteps
  <1>10. CASE SendMark(o)
    BY <1>1, <1>10 DEF SendMark, PutStatus, OwnDone, ContractStatus
  <1>11. CASE EditNumber(o)
    <2>1. edits + 1 \in Edits
      BY <1>11 DEF EditNumber, Edits
    <2>2. {0} \cup {v.version : v \in versions} \subseteq Nat
      BY DEF VersionRow
    <2> QED
      <3>1. PICK v \in Nat :
               own' = [own EXCEPT ![o].pc = "addVersion", ![o].edit = edits + 1,
                                  ![o].version = v]
        <4>1. PICK n \in {0} \cup {v.version : v \in versions} :
               own' = [own EXCEPT ![o].pc = "addVersion", ![o].edit = edits + 1,
                                  ![o].version = n + 1]
          BY <1>11 DEF EditNumber
        <4>2. n + 1 \in Nat
          BY <2>2
        <4> QED
          BY <4>1, <4>2
      <3>2. own' \in [OwnerReqs -> OwnState]
        BY <1>2, <2>1, <3>1 DEF OwnState, EditSteps
      <3> QED
        BY <1>11, <2>1, <3>2 DEF EditNumber
  <1>12. CASE EditAddVersion(o)
    BY <1>2, <1>12 DEF EditAddVersion, Own, OwnState, EditSteps, VersionRow
  <1>13. CASE EditPutText(o)
    <2>1. Pending \subseteq Signers
      BY DEF Pending
    <2>2. text' \in Texts
      BY <1>2, <1>13 DEF EditPutText, OwnState, Texts
    <2> QED
      BY <1>2, <1>13, <2>1, <2>2 DEF EditPutText, OwnState, EditSteps
  <1>14. CASE EditRenew(o)
    <2>1. PICK s \in Signers :
             \/ /\ signer' = [signer EXCEPT ![s].link = @ + 1, ![s].live = TRUE]
                /\ own' = [own EXCEPT ![o].pc = "mailRenewed",
                             ![o].renew = @ \ {s},
                             ![o].mail = {<<s, signer[s].link + 1>>}]
             \/ signer' = signer /\ OwnDone(o)
      BY <1>2, <1>14, IdleTokType DEF EditRenew, OwnState, IdleTok, TokState
    <2>2. signer' \in [Signers -> SignerRow]
      BY <2>1 DEF SignerRow
    <2>3. own' \in [OwnerReqs -> OwnState]
      BY <1>1, <1>2, <2>1 DEF OwnState, EditSteps, OwnDone, SignerRow
    <2> QED
      BY <1>14, <2>2, <2>3 DEF EditRenew
  <1>15. CASE EditMail(o)
    BY <1>2, <1>15 DEF EditMail, OwnState, EditSteps
  <1>16. CASE SetStatus(o)
    BY <1>1, <1>2, <1>16 DEF SetStatus, PutStatus, OwnDone, OwnState
  <1>17. CASE Archive(o)
    BY <1>17 DEF Archive, PutStatus, Own, OwnState, OtherSteps, ContractStatus
  <1>18. CASE ArchiveLog(o)
    BY <1>1, <1>2, <1>18 DEF ArchiveLog, OwnDone, OwnState
  <1>19. CASE UnarchiveFind(o)
    <2>1. PICK new \in ContractStatus :
             own' = [own EXCEPT ![o].pc = "setStatus", ![o].status = new]
      BY <1>19 DEF UnarchiveFind, ContractStatus
    <2>2. own' \in [OwnerReqs -> OwnState]
      BY <1>2, <2>1 DEF OwnState, OtherSteps
    <2> QED
      BY <1>19, <2>2 DEF UnarchiveFind, storeVars
  <1>20. CASE Join(o)
    <2>1. signer' \in [Signers -> SignerRow]
      <3>1. PICK s \in Signers :
               signer' = [signer EXCEPT ![s] = NewSigner(own[o].order)]
        BY <1>20 DEF Join, Signers
      <3>2. NewSigner(own[o].order) \in SignerRow
        BY <1>2 DEF NewSigner, OwnState, SignerRow, SignerStatus
      <3> QED
        BY <3>1, <3>2
    <2> QED
      BY <1>1, <1>20, <2>1 DEF Join, OwnDone
  <1>21. CASE OwnFail(o)
    BY <1>1, <1>21 DEF OwnFail, OwnDone, storeVars
  <1> QED
    BY <1>4, <1>5, <1>6, <1>7, <1>8, <1>9, <1>10, <1>11, <1>12, <1>13, <1>14,
       <1>15, <1>16, <1>17, <1>18, <1>19, <1>20, <1>21 DEF OwnRequest, OwnStep

LEMMA JobNextType ==
  ASSUME TypeOK, JobNext
  PROVE  StoreTypeOK' /\ JobTypeOK'
PROOF
  <1> USE DEF TypeOK, StoreTypeOK, JobTypeOK
  <1>1. IdleJob \in JobState
    BY DEF IdleJob, JobState
  <1>2. CASE JobFind
    BY <1>2 DEF JobFind, JobState, Pending, storeVars
  <1>3. CASE JobExpireSigners
    BY <1>3 DEF JobExpireSigners, JobState, SignerRow, SignerStatus
  <1>4. CASE JobReview
    BY <1>1, <1>4 DEF JobReview, JobState, storeVars
  <1>5. CASE JobExpireContract
    BY <1>1, <1>5 DEF JobExpireContract, ContractStatus
  <1>6. CASE JobFail
    BY <1>1, <1>6 DEF JobFail, storeVars
  <1> QED
    BY <1>2, <1>3, <1>4, <1>5, <1>6 DEF JobNext, JobStep

LEMMA InitType == Init => TypeOK
PROOF
  <1> SUFFICES ASSUME Init PROVE TypeOK
    OBVIOUS
  <1>1. StoreTypeOK
    <2>1. signer \in [Signers -> SignerRow]
      BY StoreAssumption DEF Init, StoreInit, NewSigner, NoSigner, Signers, SignerRow,
         SignerStatus
    <2> QED
      BY <2>1, StoreAssumption DEF Init, StoreInit, StoreTypeOK, ContractStatus,
         Edits, VersionRow, FinalPdf, FirstText, Texts
  <1>2. TokTypeOK
    BY IdleTokType DEF Init, TokInit, TokTypeOK
  <1>3. OwnTypeOK
    BY StoreAssumption DEF Init, OwnInit, OwnTypeOK, IdleOwn, OwnState,
       ContractStatus, Edits
  <1>4. JobTypeOK
    BY DEF Init, JobInit, JobTypeOK, IdleJob, JobState
  <1> QED
    BY <1>1, <1>2, <1>3, <1>4 DEF TypeOK

LEMMA NextType == TypeOK /\ [Next]_vars => TypeOK'
PROOF
  <1> SUFFICES ASSUME TypeOK, [Next]_vars PROVE TypeOK'
    OBVIOUS
  <1>1. CASE TokNext /\ UNCHANGED <<own, job>>
    BY <1>1, TokNextType DEF TokNext, TypeOK, OwnTypeOK, JobTypeOK
  <1>2. CASE OwnNext /\ UNCHANGED <<tok, job>>
    BY <1>2, OwnNextType DEF OwnNext, TypeOK, TokTypeOK, JobTypeOK
  <1>3. CASE JobNext /\ UNCHANGED <<tok, own>>
    BY <1>3, JobNextType DEF TypeOK, TokTypeOK, OwnTypeOK
  <1>4. CASE Clock /\ UNCHANGED <<tok, own, job>>
    <2>1. signer' \in [Signers -> SignerRow]
      <3>1. PICK s \in Signers :
               signer' = [signer EXCEPT ![s].live = FALSE]
        BY <1>4 DEF Clock, LinkExpires
      <3> QED
        BY <3>1 DEF TypeOK, StoreTypeOK, SignerRow
    <2> QED
      BY <1>4, <2>1 DEF Clock, LinkExpires, TypeOK, StoreTypeOK, TokTypeOK,
         OwnTypeOK, JobTypeOK
  <1>5. CASE UNCHANGED vars
    BY <1>5 DEF vars, storeVars, TypeOK, StoreTypeOK, TokTypeOK, OwnTypeOK,
       JobTypeOK
  <1> QED
    BY <1>1, <1>2, <1>3, <1>4, <1>5 DEF Next

(***************************************************************************)
(* The rows and the locals of every handler keep their types: TypeOK is    *)
(* inductive by itself.                                                    *)
(***************************************************************************)
THEOREM SigningTypes == Spec => []TypeOK
  BY InitType, NextType, PTL DEF Spec
-----------------------------------------------------------------------------
(***************************************************************************)
(* No text without the version row of its edit: TextInv is inductive.      *)
(* Versions only grow; a text that a handler puts into the contract or     *)
(* the sealed PDF is made of one it read from the contract, or its version *)
(* row has just been written.                                              *)
(***************************************************************************)
LEMMA TextInitially == Init => TextInv
<1> SUFFICES ASSUME Init PROVE TextInv  OBVIOUS
<1>1. 0 \in Versioned  BY DEF Init, StoreInit, Versioned
<1>2. text.edit = 0 /\ final.text.edit = 0  BY DEF Init, StoreInit, FirstText
<1>3. \A r \in TokenReqs : tok[r].text.edit = 0
  BY DEF Init, TokInit, IdleTok, FirstText
<1>4. \A o \in OwnerReqs : own[o].pc = "idle"  BY DEF Init, OwnInit, IdleOwn
<1> QED  BY <1>1, <1>2, <1>3, <1>4 DEF TextInv

\* What the invariant needs of a step.
LEMMA TextStep ==
    ASSUME TextInv, Versioned \subseteq Versioned',
           text'.edit \in Versioned', final'.text.edit \in Versioned',
           \A r \in TokenReqs : tok'[r].text.edit \in Versioned',
           \A o \in OwnerReqs :
               own'[o].pc = "putText" => own'[o].edit \in Versioned'
    PROVE  TextInv'
BY DEF TextInv

\* A request with a signing link: the text it has in hand is one it has read.
LEMMA TokTexts ==
    ASSUME TypeOK, TextInv, NEW r \in TokenReqs,
           \/ \E s \in Signers : TokRequest(r, s)
           \/ TokStep(r)
           \/ TokFail(r)
    PROVE  /\ Versioned' = Versioned
           /\ text'.edit \in Versioned /\ final'.text.edit \in Versioned
           /\ \A q \in TokenReqs : tok'[q].text.edit \in Versioned
<1> USE DEF TypeOK, StoreTypeOK, TokTypeOK, TokState
<1>0. /\ text.edit \in Versioned /\ final.text.edit \in Versioned /\ 0 \in Versioned
      /\ \A q \in TokenReqs : tok[q].text.edit \in Versioned
  BY DEF TextInv
<1>1. CASE \E s \in Signers : TokRequest(r, s)
  BY <1>0, <1>1 DEF TokRequest, VerifyRead, SignRead, DeclineRead, Begin,
     storeVars, Versioned
<1>2. CASE SignFill(r)
  <2> DEFINE filled == [tok[r].text EXCEPT !.fields = @ \cup {tok[r].by}]
  <2>1. filled.edit = tok[r].text.edit
    BY DEF Texts
  <2>2. /\ text' = filled /\ final' = final /\ versions' = versions
        /\ tok' = [tok EXCEPT ![r].pc = "claim", ![r].text = filled]
    BY <1>2 DEF SignFill
  <2> HIDE DEF filled
  <2>3. tok'[r].text = filled /\ \A q \in TokenReqs : q # r => tok'[q] = tok[q]
    BY <2>2
  <2> QED  BY <1>0, <2>1, <2>2, <2>3 DEF Versioned
<1>3. CASE SignUpload(r) \/ SignStamp(r)
  <2>1. /\ final'.text \in {final.text, tok[r].text}
        /\ text' = text /\ versions' = versions
        /\ \A q \in TokenReqs : tok'[q].text = tok[q].text
    BY <1>3 DEF SignUpload, SignStamp, PutFinal, Tok, storeVars
  <2> QED  BY <1>0, <2>1 DEF Versioned
<1>4. CASE SignClaim(r)
  BY <1>0, <1>4 DEF SignClaim, Tok, TokDone, IdleTok, FirstText, UnchangedButSigner,
     Versioned
<1>5. CASE SignLog(r) \/ SignPartial(r)
  BY <1>0, <1>5 DEF SignLog, SignPartial, Tok, UnchangedButStatus, Versioned
<1>6. CASE SignCollect(r)
  BY <1>0, <1>6 DEF SignCollect, storeVars, Versioned
<1>7. CASE SignComplete(r) \/ VerifyWrite(r) \/ DeclineContract(r) \/ TokFail(r)
  BY <1>0, <1>7 DEF SignComplete, VerifyWrite, DeclineContract, TokFail,
     TokDone, IdleTok, FirstText, UnchangedButSigner, UnchangedButStatus, storeVars,
     Versioned
<1>8. CASE SignInvite(r)
  BY <1>0, <1>8 DEF SignInvite, TokDone, IdleTok, FirstText, Versioned
<1>9. CASE DeclineSigner(r)
  BY <1>0, <1>9 DEF DeclineSigner, Tok, UnchangedButSigner, Versioned
<1> QED
  BY <1>1, <1>2, <1>3, <1>4, <1>5, <1>6, <1>7, <1>8, <1>9 DEF TokStep
-----------------------------------------------------------------------------
\* The locals of the owner's other requests stay; this one is nowhere near
\* storing a text.
OwnText(o) ==
    /\ \A q \in OwnerReqs \ {o} : own'[q] = own[q]
    /\ own'[o].pc = "putText" => own'[o].edit \in Versioned'

LEMMA OwnTexts ==
    ASSUME TypeOK, TextInv, NEW o \in OwnerReqs,
           OwnRequest(o) \/ OwnStep(o) \/ OwnFail(o)
    PROVE  /\ Versioned \subseteq Versioned'
           /\ text'.edit \in Versioned' /\ final' = final
           /\ OwnText(o)
<1> USE DEF TypeOK, StoreTypeOK, OwnTypeOK, OwnState
<1>0. /\ text.edit \in Versioned
      /\ own[o].pc = "putText" => own[o].edit \in Versioned
  BY DEF TextInv
<1>1. CASE EditAddVersion(o)
  <2>1. /\ versions \subseteq versions'
        /\ [version |-> own[o].version, edit |-> own[o].edit] \in versions'
        /\ text' = text /\ final' = final
    BY <1>1 DEF EditAddVersion
  <2>2. /\ \A q \in OwnerReqs \ {o} : own'[q] = own[q]
        /\ own'[o].edit = own[o].edit
    BY <1>1 DEF EditAddVersion, Own
  <2>3. own[o].edit \in Versioned' /\ Versioned \subseteq Versioned'
    BY <2>1 DEF Versioned
  <2> QED  BY <1>0, <2>1, <2>2, <2>3 DEF OwnText
<1>2. CASE EditPutText(o)
  <2>1. text'.edit = own[o].edit /\ versions' = versions /\ final' = final
        /\ own[o].pc = "putText"
    BY <1>2 DEF EditPutText
  <2>2. OwnText(o)  BY <1>2 DEF EditPutText, OwnText
  <2> QED  BY <1>0, <2>1, <2>2 DEF Versioned
<1>3. ASSUME OwnRequest(o) \/ OwnFail(o)
      PROVE  versions' = versions /\ text' = text /\ final' = final /\ OwnText(o)
  BY <1>3 DEF OwnRequest, SendRead, EditRead, CancelRead, ArchiveRead,
     UnarchiveRead, JoinRead, SetStatusRead, OwnerReads, OwnFail, OwnDone,
     IdleOwn, storeVars, OwnText
<1>4. ASSUME SendCharge(o) \/ SendMail(o) \/ SendMark(o)
      PROVE  versions' = versions /\ text' = text /\ final' = final /\ OwnText(o)
  BY <1>4 DEF SendCharge, SendMail, SendMark, PutStatus, Own, OwnDone,
     IdleOwn, OwnText
<1>5. ASSUME EditNumber(o) \/ EditRenew(o) \/ EditMail(o)
      PROVE  versions' = versions /\ text' = text /\ final' = final /\ OwnText(o)
  <2>1. CASE EditNumber(o)
    BY <2>1 DEF EditNumber, OwnText
  <2>2. CASE EditRenew(o)
    <3>1. versions' = versions /\ text' = text /\ final' = final
      BY <2>2 DEF EditRenew
    <3>2. CASE OwnDone(o)
      BY <3>1, <3>2 DEF OwnDone, IdleOwn, OwnText
    <3>3. ASSUME NEW s \in own[o].renew,
                 own' = [own EXCEPT ![o].pc = "mailRenewed",
                           ![o].renew = @ \ {s},
                           ![o].mail = {<<s, signer[s].link + 1>>}]
          PROVE  OwnText(o)
      <4>1. own'[o].pc = "mailRenewed"
            /\ \A q \in OwnerReqs \ {o} : own'[q] = own[q]
        BY <3>3
      <4> QED  BY <4>1 DEF OwnText
    <3> QED  BY <2>2, <3>1, <3>2, <3>3 DEF EditRenew
  <2>3. CASE EditMail(o)
    BY <2>3 DEF EditMail, OwnText
  <2> QED  BY <1>5, <2>1, <2>2, <2>3
<1>6. ASSUME \/ SetStatus(o) \/ Archive(o) \/ ArchiveLog(o)
             \/ UnarchiveFind(o) \/ Join(o)
      PROVE  versions' = versions /\ text' = text /\ final' = final /\ OwnText(o)
  BY <1>6 DEF SetStatus, Archive, ArchiveLog, UnarchiveFind, Join, PutStatus,
     Own, OwnDone, IdleOwn, storeVars, OwnText
<1> QED
  BY <1>0, <1>1, <1>2, <1>3, <1>4, <1>5, <1>6 DEF OwnStep, Versioned
-----------------------------------------------------------------------------
LEMMA TextInvNext == TypeOK /\ TextInv /\ [Next]_vars => TextInv'
<1> SUFFICES ASSUME TypeOK, TextInv, [Next]_vars PROVE TextInv'  OBVIOUS
<1>0. /\ text.edit \in Versioned /\ final.text.edit \in Versioned
      /\ \A r \in TokenReqs : tok[r].text.edit \in Versioned
      /\ \A o \in OwnerReqs : own[o].pc = "putText" => own[o].edit \in Versioned
  BY DEF TextInv
<1>1. CASE TokNext /\ UNCHANGED <<own, job>>
  <2>1. PICK r \in TokenReqs : \/ \E s \in Signers : TokRequest(r, s)
                               \/ TokStep(r)
                               \/ TokFail(r)
    BY <1>1 DEF TokNext
  <2>2. /\ Versioned' = Versioned
        /\ text'.edit \in Versioned /\ final'.text.edit \in Versioned
        /\ \A q \in TokenReqs : tok'[q].text.edit \in Versioned
    BY <2>1, TokTexts
  <2>3. own' = own  BY <1>1
  <2> QED  BY <1>0, <2>2, <2>3, TextStep
<1>2. CASE OwnNext /\ UNCHANGED <<tok, job>>
  <2>1. PICK o \in OwnerReqs : OwnRequest(o) \/ OwnStep(o) \/ OwnFail(o)
    BY <1>2 DEF OwnNext
  <2>2. /\ Versioned \subseteq Versioned'
        /\ text'.edit \in Versioned' /\ final' = final /\ OwnText(o)
    BY <2>1, OwnTexts
  <2>3. tok' = tok  BY <1>2
  <2> QED  BY <1>0, <2>2, <2>3, TextStep DEF OwnText
<1>3. CASE \/ JobNext /\ UNCHANGED <<tok, own>>
           \/ Clock /\ UNCHANGED <<tok, own, job>>
           \/ UNCHANGED vars
  <2>1. /\ text' = text /\ final' = final /\ versions' = versions
        /\ tok' = tok /\ own' = own
    BY <1>3 DEF JobNext, JobFind, JobStep, JobExpireSigners, JobReview,
       JobExpireContract, JobFail, Clock, LinkExpires, storeVars, vars
  <2> QED  BY <1>0, <2>1, TextStep DEF Versioned
<1> QED  BY <1>1, <1>2, <1>3 DEF Next

\* So every text the contract shows, and the one in the sealed PDF, is made of an edit
\* that the version history has.
LEMMA EditsInHistory == Spec => []TextInv
BY TextInitially, TextInvNext, SigningTypes, PTL DEF Spec
=============================================================================
