------------------------------ MODULE OwnerApi -------------------------------
(***************************************************************************)
(* The authenticated endpoints through which the owner handles the         *)
(* contract (ContractsService).  Each handler starts with findOneOwned,    *)
(* decides on the status it read, and then writes by id alone, so the      *)
(* owner's requests interleave with each other (two tabs, a double click,  *)
(* bulk-send) and with the signers'.                                       *)
(***************************************************************************)
EXTENDS ContractStore

CONSTANT OwnerReqs   \* owner requests that can be in progress

VARIABLE own         \* local state of each such request

SendSteps  == {"charge", "mail", "markSent"}
EditSteps  == {"number", "addVersion", "putText", "renew", "mailRenewed"}
OtherSteps == {"setStatus", "archive", "archiveLog", "findArchived", "join"}

OwnState == [pc      : {"idle"} \cup SendSteps \cup EditSteps \cup OtherSteps,
             status  : ContractStatus,   \* as read, or the one to be written
             edit    : Edits,            \* text this request has produced
             version : Nat,              \* number for its version row
             renew   : SUBSET Signers,   \* rows still to get a new link
             mail    : SUBSET (Signers \X Nat),   \* links still to be mailed
             order   : 0 .. MaxOrder]    \* order for the owner's own row

OwnTypeOK == own \in [OwnerReqs -> OwnState]

IdleOwn == [pc |-> "idle", status |-> "draft", edit |-> 0, version |-> 0,
            renew |-> {}, mail |-> {}, order |-> 0]

OwnInit == own = [o \in OwnerReqs |-> IdleOwn]

Own(o, step) == own' = [own EXCEPT ![o].pc = step]

OwnDone(o) == own' = [own EXCEPT ![o] = IdleOwn]

\* findOneOwned: the status is read and the handler goes on to step.
OwnerReads(o, step) ==
    /\ own[o].pc = "idle"
    /\ own' = [own EXCEPT ![o].pc = step, ![o].status = status]
    /\ UNCHANGED storeVars

\* contract.update({where: {id}, data: {status: new}})
PutStatus(new) ==
    /\ status' = new
    /\ UNCHANGED <<text, pdf, edits, versions, signer, mails, charges,
                   archivedFrom, signedLog, final>>

Editable == {"draft", "sent", "partially_signed"}
-----------------------------------------------------------------------------
(* sendForSigning *)

\* The signers are read here: only those of the lowest order will be mailed.
SendRead(o) ==
    LET first == {s \in Present : \A t \in Present :
                     signer[s].order <= signer[t].order}
    IN
    /\ own[o].pc = "idle"
    /\ status = "draft"
    /\ own' = [own EXCEPT ![o].pc = "charge", ![o].mail = CurrentLinks(first)]
    /\ UNCHANGED storeVars

\* deductForSend, a transaction of its own: it commits, or the request fails
\* because the balance is used up (TokFail and OwnFail stand for errors).
SendCharge(o) ==
    /\ own[o].pc = "charge"
    /\ charges < MaxCharges
    /\ charges' = charges + 1
    /\ Own(o, "mail")
    /\ UNCHANGED <<status, text, pdf, edits, versions, signer, mails,
                   archivedFrom, signedLog, final>>

SendMail(o) ==
    /\ own[o].pc = "mail"
    /\ \/ \E m \in own[o].mail :
             /\ mails' = mails \cup {m}
             /\ own' = [own EXCEPT ![o].mail = @ \ {m}]
       \/ own[o].mail = {} /\ mails' = mails /\ Own(o, "markSent")
    /\ UNCHANGED <<status, text, pdf, edits, versions, signer, charges,
                   archivedFrom, signedLog, final>>

SendMark(o) ==
    /\ own[o].pc = "markSent"
    /\ PutStatus("sent")
    /\ OwnDone(o)
-----------------------------------------------------------------------------
(* updateContent *)

EditRead(o) ==
    /\ status \in Editable
    /\ OwnerReads(o, "number")

\* The new text is rendered and stored, then the last version is looked up.
EditNumber(o) ==
    LET numbers == {0} \cup {v.version : v \in versions} IN
    /\ own[o].pc = "number"
    /\ edits < MaxEdits
    /\ edits' = edits + 1
    /\ \E n \in numbers :
          /\ \A m \in numbers : m <= n
          /\ own' = [own EXCEPT ![o].pc = "addVersion", ![o].edit = edits + 1,
                                ![o].version = n + 1]
    /\ UNCHANGED <<status, text, pdf, versions, signer, mails, charges,
                   archivedFrom, signedLog, final>>

\* Mutant of EditAddVersion: a number already taken is silently skipped.
EditAddVersionIfNew(o) ==
    /\ own[o].pc = "addVersion"
    /\ versions' = IF \E v \in versions : v.version = own[o].version
                   THEN versions
                   ELSE versions \cup
                        {[version |-> own[o].version, edit |-> own[o].edit]}
    /\ Own(o, "putText")
    /\ UNCHANGED <<status, text, pdf, edits, signer, mails, charges,
                   archivedFrom, signedLog, final>>

EditAddVersion(o) ==
    /\ own[o].pc = "addVersion"
    /\ versions' = versions \cup
          {[version |-> own[o].version, edit |-> own[o].edit]}
    /\ Own(o, "putText")
    /\ UNCHANGED <<status, text, pdf, edits, signer, mails, charges,
                   archivedFrom, signedLog, final>>

\* The update returns the signers; they get new links if the contract had been
\* sent when the request began.
EditPutText(o) ==
    /\ own[o].pc = "putText"
    /\ text' = [edit |-> own[o].edit, fields |-> {}] /\ pdf' = "rendered"
    /\ own' = [own EXCEPT ![o].pc = "renew",
                 ![o].renew = IF own[o].status = "draft" THEN {} ELSE Pending]
    /\ UNCHANGED <<status, edits, versions, signer, mails, charges,
                   archivedFrom, signedLog, final>>

\* Mutant of EditRenew: the mail carries the link that was just replaced.
EditRenewOldLink(o) ==
    /\ own[o].pc = "renew"
    /\ \/ \E s \in own[o].renew :
             /\ signer' = [signer EXCEPT ![s].link = @ + 1, ![s].live = TRUE]
             /\ own' = [own EXCEPT ![o].pc = "mailRenewed",
                          ![o].renew = @ \ {s},
                          ![o].mail = {<<s, signer[s].link>>}]
       \/ own[o].renew = {} /\ signer' = signer /\ OwnDone(o)
    /\ UNCHANGED <<status, text, pdf, edits, versions, mails, charges,
                   archivedFrom, signedLog, final>>

\* signer.update by id, whatever the row has become: a new token, seven days.
EditRenew(o) ==
    /\ own[o].pc = "renew"
    /\ \/ \E s \in own[o].renew :
             /\ signer' = [signer EXCEPT ![s].link = @ + 1, ![s].live = TRUE]
             /\ own' = [own EXCEPT ![o].pc = "mailRenewed",
                          ![o].renew = @ \ {s},
                          ![o].mail = {<<s, signer[s].link + 1>>}]
       \/ own[o].renew = {} /\ signer' = signer /\ OwnDone(o)
    /\ UNCHANGED <<status, text, pdf, edits, versions, mails, charges,
                   archivedFrom, signedLog, final>>

EditMail(o) ==
    /\ own[o].pc = "mailRenewed"
    /\ mails' = mails \cup own[o].mail
    /\ own' = [own EXCEPT ![o].pc = "renew", ![o].mail = {}]
    /\ UNCHANGED <<status, text, pdf, edits, versions, signer, charges,
                   archivedFrom, signedLog, final>>
-----------------------------------------------------------------------------
(* updateStatus, cancel, archive, unarchive *)

SettableStatus == {"draft", "sent", "partially_signed", "completed",
                   "declined", "cancelled"}

\* The owner's choice replaces the status that was read, unless completed.
SetStatusRead(o, new) ==
    /\ own[o].pc = "idle"
    /\ new \in SettableStatus \ {status}
    /\ status # "completed"
    /\ own' = [own EXCEPT ![o].pc = "setStatus", ![o].status = new]
    /\ UNCHANGED storeVars

CancelRead(o) ==
    /\ own[o].pc = "idle"
    /\ status # "completed"
    /\ own' = [own EXCEPT ![o].pc = "setStatus", ![o].status = "cancelled"]
    /\ UNCHANGED storeVars

SetStatus(o) ==
    /\ own[o].pc = "setStatus"
    /\ PutStatus(own[o].status)
    /\ OwnDone(o)

ArchiveRead(o) == OwnerReads(o, "archive")

Archive(o) ==
    /\ own[o].pc = "archive"
    /\ PutStatus("archived")
    /\ Own(o, "archiveLog")

\* The audit entry remembers the status as it was read, before the update.
ArchiveLog(o) ==
    /\ own[o].pc = "archiveLog"
    /\ archivedFrom' = own[o].status
    /\ OwnDone(o)
    /\ UNCHANGED <<status, text, pdf, edits, versions, signer, mails, charges,
                   signedLog, final>>

UnarchiveRead(o) == OwnerReads(o, "findArchived")

\* Mutant of UnarchiveFind: no default when there is no such entry.
UnarchiveFindRaw(o) ==
    /\ own[o].pc = "findArchived"
    /\ own' = [own EXCEPT ![o].pc = "setStatus", ![o].status = archivedFrom]
    /\ UNCHANGED storeVars

\* The latest contract_archived entry tells what to go back to; without one,
\* or when it cannot be read, the contract becomes a draft.
UnarchiveFind(o) ==
    /\ own[o].pc = "findArchived"
    /\ \E found \in {archivedFrom, "none"} :
          own' = [own EXCEPT ![o].pc = "setStatus",
                    ![o].status = IF found \in {"none", "archived"}
                                  THEN "draft" ELSE found]
    /\ UNCHANGED storeVars
-----------------------------------------------------------------------------
(* addSelfAsSigner *)

\* Mutant of JoinRead: the orders are taken to be 1, 2, 3 without gaps.
JoinReadByCount(o) ==
    LET n == Cardinality(Present) + 1 IN
    /\ own[o].pc = "idle"
    /\ status \in Editable
    /\ Present \cap Selves = {}
    /\ own' = [own EXCEPT ![o].pc = "join", ![o].order = n]
    /\ UNCHANGED storeVars

\* The owner is no signer yet, by email; he will come after everyone read.
JoinRead(o) ==
    /\ own[o].pc = "idle"
    /\ status \in Editable
    /\ Present \cap Selves = {}
    /\ \E n \in 1 .. MaxOrder :
          /\ \A s \in Present : signer[s].order < n
          /\ n = 1 \/ \E s \in Present : signer[s].order = n - 1
          /\ own' = [own EXCEPT ![o].pc = "join", ![o].order = n]
    /\ UNCHANGED storeVars

Join(o) ==
    /\ own[o].pc = "join"
    /\ \E s \in Selves \ Present :
          signer' = [signer EXCEPT ![s] = NewSigner(own[o].order)]
    /\ OwnDone(o)
    /\ UNCHANGED <<status, text, pdf, edits, versions, mails, charges,
                   archivedFrom, signedLog, final>>
-----------------------------------------------------------------------------
\* An awaited call rejects, or the process stops: the rest never happens.
OwnFail(o) ==
    /\ own[o].pc # "idle"
    /\ OwnDone(o)
    /\ UNCHANGED storeVars

\* What the server does next for a request it has accepted.
OwnStep(o) ==
    \/ SendCharge(o) \/ SendMail(o) \/ SendMark(o)
    \/ EditNumber(o) \/ EditAddVersion(o) \/ EditPutText(o)
    \/ EditRenew(o) \/ EditMail(o)
    \/ SetStatus(o) \/ Archive(o) \/ ArchiveLog(o) \/ UnarchiveFind(o)
    \/ Join(o)

OwnRequest(o) ==
    \/ SendRead(o) \/ EditRead(o) \/ CancelRead(o) \/ ArchiveRead(o)
    \/ UnarchiveRead(o) \/ JoinRead(o)
    \/ \E new \in SettableStatus : SetStatusRead(o, new)

OwnNext == \E o \in OwnerReqs : OwnRequest(o) \/ OwnStep(o) \/ OwnFail(o)
=============================================================================
