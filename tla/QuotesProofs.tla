----------------------------- MODULE QuotesProofs -----------------------------
(***************************************************************************)
(* What is invoiced was accepted, and an issued invoice has its document,  *)
(* for any number of requests, edits, invoices and documents.              *)
(***************************************************************************)
EXTENDS Quotes, TLAPS

ClientStep(c) ==
    \/ AcceptRead(c) \/ AcceptExpire(c) \/ AcceptWrite(c)
    \/ AcceptBill(c) \/ AcceptCall(c) \/ AcceptRecord(c)
    \/ DeclineRead(c) \/ DeclineWrite(c) \/ ClientFail(c)

DeskStep(d) ==
    \/ EditDelete(d) \/ EditCommit(d)
    \/ SendRead(d) \/ ResendRead(d) \/ SendWrite(d)
    \/ (\E new \in {"accepted", "declined"} : UpdateStatus(d, new))
    \/ Delete(d) \/ ConvertRead(d) \/ ConvertCreate(d) \/ DeskFail(d)

RetryStep(r) ==
    /\ \/ \E i \in Rows : RetryRead(r, i)
       \/ RetryCall(r) \/ RetryRecord(r) \/ RetryFail(r)
    /\ UNCHANGED <<quote, items, edits, client, desk, accepted, contracts>>

\* The disjuncts of the next-state relation, by who takes the step.
LEMMA SalesSteps ==
    ASSUME [SalesNext]_salesVars
    PROVE  \/ \E c \in ClientReqs : ClientStep(c)
           \/ \E d \in DeskReqs : DeskStep(d)
           \/ \E r \in RetryReqs : RetryStep(r)
           \/ ExpireQuotes \/ RunOut \/ UNCHANGED salesVars
BY DEF SalesNext, RetryNext, ClientStep, DeskStep, RetryStep
-----------------------------------------------------------------------------
\* The local state of a request between two calls.
LEMMA IdleTypes ==
    IdleClient \in ClientState /\ IdleDesk \in DeskState /\ IdleRetry \in RetryState
<1>1. 0 \in Numbers /\ 0 \in 0 .. MaxInvoices
  BY InvoicingAssumption DEF Numbers
<1>2. {} \in Offers
  BY DEF Offers
<1> QED  BY <1>1, <1>2 DEF IdleClient, ClientState, IdleDesk, DeskState, IdleRetry, RetryState

\* What a provider call leaves is well typed.
LEMMA IssueTypes ==
    ASSUME BillingTypeOK, NEW i \in Rows, NEW its \in Offers,
           NEW ok \in BOOLEAN, NEW n \in Numbers, IssueDocument(i, its, ok, n)
    PROVE  /\ documents' \subseteq Document
           /\ lastNumber' \in Numbers
           /\ documents \subseteq documents'
           /\ ok => \E p \in documents' : /\ p.row = i /\ p.items = its
                                         /\ n \in {0, p.number}
<1> USE InvoicingAssumption DEF BillingTypeOK, Numbers
<1>1. CASE ~ok /\ UNCHANGED <<documents, lastNumber>>
  BY <1>1
<1>2. CASE /\ lastNumber < MaxDocuments /\ lastNumber' = lastNumber + 1
           /\ documents' = documents \cup
                 {[row |-> i, items |-> its, number |-> lastNumber + 1]}
  <2> DEFINE new == [row |-> i, items |-> its, number |-> lastNumber + 1]
  <2>1. lastNumber + 1 \in Numbers /\ new \in Document
    BY <1>2 DEF Document
  <2>2. new.row = i /\ new.items = its /\ n \in {0, new.number}
    BY DEF IssueDocument, Answer
  <2>3. new \in documents'
    BY <1>2
  <2> HIDE DEF new
  <2> QED  BY <1>2, <2>1, <2>2, <2>3 DEF new
<1> QED  BY <1>1, <1>2 DEF IssueDocument

\* What a recorded success leaves of the row.
LEMMA IssuedRow ==
    ASSUME NEW row \in InvoiceRow, NEW n \in Numbers
    PROVE  /\ IssuedAs(row, n) \in InvoiceRow
           /\ IssuedAs(row, n).status = "issued"
           /\ IssuedAs(row, n).items = row.items
           /\ IssuedAs(row, n).number = IF n = 0 THEN row.number ELSE n
BY DEF IssuedAs, InvoiceRow

LEMMA ClientTypes ==
    ASSUME SalesTypeOK, BillingInv, NEW c \in ClientReqs, ClientStep(c)
    PROVE  SalesTypeOK'
<1> USE InvoicingAssumption
<1> USE DEF SalesTypeOK, BillingTypeOK, ClientDone, OnlyClient, PutQuote, billing
<1>1. CASE AcceptRead(c) \/ DeclineRead(c)
  BY <1>1 DEF AcceptRead, DeclineRead, ClientState
<1>2. CASE AcceptExpire(c) \/ DeclineWrite(c) \/ ClientFail(c)
  <2>1. client' \in [ClientReqs -> ClientState]
    BY <1>2, IdleTypes DEF AcceptExpire, DeclineWrite, ClientFail
  <2>2. quote' \in QuoteRow
    BY <1>2 DEF AcceptExpire, DeclineWrite, ClientFail, QuoteRow, QuoteStatus
  <2> QED  BY <1>2, <2>1, <2>2 DEF AcceptExpire, DeclineWrite, ClientFail
<1>3. CASE AcceptWrite(c)
  BY <1>3 DEF AcceptWrite, ClientState, QuoteRow, QuoteStatus
<1>4. CASE AcceptBill(c)
  <2>1. client' \in [ClientReqs -> ClientState]
    <3>1. CASE client' = [client EXCEPT ![c] = IdleClient]
      BY <3>1, IdleTypes
    <3>2. ASSUME NEW i \in Rows, client' = [client EXCEPT ![c].pc = "call", ![c].row = i]
          PROVE  client' \in [ClientReqs -> ClientState]
      <4>1. i \in 0 .. MaxInvoices
        BY DEF Rows
      <4> QED  BY <3>2, <4>1 DEF ClientState
    <3> QED  BY <1>4, <3>1, <3>2 DEF AcceptBill
  <2>2. invoice' \in [Rows -> InvoiceRow]
    BY <1>4 DEF AcceptBill, ClientState, InvoiceRow, Numbers
  <2> QED  BY <1>4, <2>1, <2>2 DEF AcceptBill
<1>5. CASE AcceptCall(c)
  <2>1. client[c].row \in Rows /\ client[c].items \in Offers
    BY <1>5 DEF AcceptCall, BillingInv, ClientHolds, ClientState
  <2>2. PICK ok \in BOOLEAN, n \in Numbers :
             /\ IssueDocument(client[c].row, client[c].items, ok, n)
             /\ client' = [client EXCEPT ![c].pc = "record", ![c].ok = ok,
                                      ![c].number = n]
    BY <1>5 DEF AcceptCall
  <2>3. client' \in [ClientReqs -> ClientState]
    <3> DEFINE new == [client[c] EXCEPT !.pc = "record", !.ok = ok, !.number = n]
    <3>1. new \in ClientState
      BY DEF ClientState
    <3>2. client' = [client EXCEPT ![c] = new]
      BY <2>2
    <3> HIDE DEF new
    <3> QED  BY <3>1, <3>2
  <2>4. documents' \subseteq Document /\ lastNumber' \in Numbers
    <3>1. BillingTypeOK /\ IssueDocument(client[c].row, client[c].items, ok, n)
      BY <2>2
    <3> HIDE DEF BillingTypeOK
    <3> QED  BY <2>1, <3>1, IssueTypes
  <2> QED  BY <1>5, <2>3, <2>4 DEF AcceptCall
<1>6. CASE AcceptRecord(c)
  <2>1. client' \in [ClientReqs -> ClientState]
    BY <1>6, IdleTypes DEF AcceptRecord
  <2>2. invoice' \in [Rows -> InvoiceRow]
    <3>1. client[c].number \in Numbers /\ client[c].row \in Rows
      BY <1>6 DEF AcceptRecord, BillingInv, ClientHolds, ClientState
    <3>2. IssuedAs(invoice[client[c].row], client[c].number) \in InvoiceRow
      BY <3>1, IssuedRow
    <3>3. [invoice[client[c].row] EXCEPT !.status = "failed"] \in InvoiceRow
      BY <3>1 DEF InvoiceRow
    <3> QED  BY <1>6, <3>1, <3>2, <3>3 DEF AcceptRecord
  <2> QED  BY <1>6, <2>1, <2>2 DEF AcceptRecord
<1> QED  BY <1>1, <1>2, <1>3, <1>4, <1>5, <1>6 DEF ClientStep

LEMMA DeskTypes ==
    ASSUME SalesTypeOK, NEW d \in DeskReqs, DeskStep(d)
    PROVE  SalesTypeOK'
<1> USE InvoicingAssumption
<1> USE DEF SalesTypeOK, BillingTypeOK, DeskDone, OnlyDesk, PutQuote, billing
<1>1. CASE EditDelete(d) \/ ConvertRead(d)
  <2>1. desk' \in [DeskReqs -> DeskState]
    BY <1>1 DEF EditDelete, ConvertRead, DeskState
  <2> QED  BY <1>1, <2>1 DEF EditDelete, ConvertRead
<1>2. CASE SendRead(d) \/ ResendRead(d)
  BY <1>2 DEF SendRead, ResendRead, DeskState
<1>3. CASE DeskFail(d)
  BY <1>3, IdleTypes DEF DeskFail
<1>4. CASE EditCommit(d)
  <2>1. desk' \in [DeskReqs -> DeskState]
    BY <1>4, IdleTypes DEF EditCommit
  <2>2. edits' \in 0 .. MaxEdits /\ items' \in Offers
    BY <1>4 DEF EditCommit, Offers
  <2>3. quote' \in QuoteRow
    BY <1>4 DEF EditCommit, QuoteRow
  <2> QED  BY <1>4, <2>1, <2>2, <2>3 DEF EditCommit
<1>5. CASE SendWrite(d)
  <2>1. desk' \in [DeskReqs -> DeskState]
    BY <1>5, IdleTypes DEF SendWrite
  <2> QED  BY <1>5, <2>1 DEF SendWrite, QuoteRow, QuoteStatus
<1>6. CASE \E new \in {"accepted", "declined"} : UpdateStatus(d, new)
  BY <1>6 DEF UpdateStatus, QuoteRow, QuoteStatus
<1>7. CASE Delete(d)
  BY <1>7 DEF Delete, Offers, QuoteRow, QuoteStatus
<1>8. CASE ConvertCreate(d)
  <2>1. desk' \in [DeskReqs -> DeskState]
    BY <1>8, IdleTypes DEF ConvertCreate
  <2>2. contracts' \subseteq Offers
    BY <1>8 DEF ConvertCreate, DeskState
  <2> QED  BY <1>8, <2>1, <2>2 DEF ConvertCreate
<1> QED
  BY <1>1, <1>2, <1>3, <1>4, <1>5, <1>6, <1>7, <1>8 DEF DeskStep

LEMMA RetryTypes ==
    ASSUME SalesTypeOK, BillingInv, NEW r \in RetryReqs, RetryStep(r)
    PROVE  SalesTypeOK'
<1> USE InvoicingAssumption
<1> USE DEF SalesTypeOK, BillingTypeOK, RetryDone, RetryStep
<1>1. CASE \E i \in Rows : RetryRead(r, i)
  BY <1>1 DEF RetryRead, RetryState, InvoiceRow, Rows, Numbers
<1>2. CASE RetryCall(r)
  <2>1. retry[r].row \in Rows /\ retry[r].items \in Offers
    BY <1>2 DEF RetryCall, BillingInv, RetryHolds, RetryState
  <2>2. PICK ok \in BOOLEAN, n \in Numbers :
             /\ IssueDocument(retry[r].row, retry[r].items, ok, n)
             /\ retry' = [retry EXCEPT ![r].pc = "record", ![r].ok = ok,
                                      ![r].number = n]
    BY <1>2 DEF RetryCall
  <2>3. retry' \in [RetryReqs -> RetryState]
    BY <2>2 DEF RetryState
  <2>4. documents' \subseteq Document /\ lastNumber' \in Numbers
    BY <2>1, <2>2, IssueTypes
  <2> QED  BY <1>2, <2>3, <2>4 DEF RetryCall
<1>3. CASE RetryRecord(r) \/ RetryFail(r)
  <2>1. retry' \in [RetryReqs -> RetryState]
    BY <1>3, IdleTypes DEF RetryRecord, RetryFail
  <2>2. invoice' \in [Rows -> InvoiceRow]
    <3>1. CASE invoice' = invoice
      BY <3>1
    <3>2. CASE RetryRecord(r)
      <4>1. retry[r].number \in Numbers /\ retry[r].row \in Rows
        BY <3>2 DEF RetryRecord, BillingInv, RetryHolds, RetryState
      <4>2. IssuedAs(invoice[retry[r].row], retry[r].number) \in InvoiceRow
        BY <4>1, IssuedRow
      <4> QED  BY <3>2, <4>1, <4>2 DEF RetryRecord
    <3> QED  BY <1>3, <3>1, <3>2 DEF RetryFail
  <2> QED  BY <1>3, <2>1, <2>2 DEF RetryRecord, RetryFail
<1> QED  BY <1>1, <1>2, <1>3

LEMMA SalesTypesKept ==
    ASSUME SalesTypeOK, BillingInv, [SalesNext]_salesVars
    PROVE  SalesTypeOK'
<1>1. CASE ExpireQuotes \/ RunOut \/ UNCHANGED salesVars
  BY <1>1 DEF ExpireQuotes, RunOut, salesVars, PutQuote, SalesTypeOK, BillingTypeOK,
     billing, QuoteRow, QuoteStatus
<1> QED  BY <1>1, SalesSteps, ClientTypes, DeskTypes, RetryTypes
-----------------------------------------------------------------------------
\* Whoever looks at the items of a quote that exists finds some.
LEMMA ItemsKeptAlways ==
    ASSUME OfferInv, [SalesNext]_salesVars
    PROVE  ItemsKept' /\ NothingEmptyAgreed'
<1> USE DEF OfferInv, ItemsKept, NothingEmptyAgreed, Exists
<1>1. ASSUME NEW c \in ClientReqs, ClientStep(c)
      PROVE  ItemsKept' /\ NothingEmptyAgreed'
  <2> USE <1>1 DEF PutQuote, OnlyClient
  <2>1. CASE AcceptWrite(c)
    BY <2>1 DEF AcceptWrite, SalesTypeOK, QuoteRow
  <2>2. CASE AcceptExpire(c) \/ DeclineWrite(c)
    BY <2>2 DEF AcceptExpire, DeclineWrite, SalesTypeOK, QuoteRow
  <2>3. CASE ~ (AcceptWrite(c) \/ AcceptExpire(c) \/ DeclineWrite(c))
    BY <2>3 DEF ClientStep, AcceptRead, AcceptBill, AcceptCall, AcceptRecord,
       DeclineRead, ClientFail
  <2> QED  BY <2>1, <2>2, <2>3
<1>2. ASSUME NEW d \in DeskReqs, DeskStep(d)
      PROVE  ItemsKept' /\ NothingEmptyAgreed'
  <2> USE DEF PutQuote, OnlyDesk, DeskDone, SalesTypeOK, DeskState, IdleDesk
  <2>1. CASE EditDelete(d) \/ SendRead(d) \/ ResendRead(d) \/ DeskFail(d)
    BY <2>1 DEF EditDelete, SendRead, ResendRead, DeskFail
  <2>2. CASE EditCommit(d)
    BY <2>2 DEF EditCommit
  <2>3. CASE SendWrite(d)
    BY <2>3 DEF SendWrite
  <2>4. CASE \E new \in {"accepted", "declined"} : UpdateStatus(d, new)
    BY <2>4 DEF UpdateStatus
  <2>5. CASE Delete(d)
    BY <2>5 DEF Delete, QuoteRow
  <2>6. CASE ConvertRead(d)
    BY <2>6 DEF ConvertRead
  <2>7. CASE ConvertCreate(d)
    BY <2>7 DEF ConvertCreate
  <2> QED  BY <1>2, <2>1, <2>2, <2>3, <2>4, <2>5, <2>6, <2>7 DEF DeskStep
<1>3. ASSUME NEW r \in RetryReqs, RetryStep(r)
      PROVE  ItemsKept' /\ NothingEmptyAgreed'
  BY <1>3 DEF RetryStep
<1>4. CASE ExpireQuotes \/ RunOut \/ UNCHANGED salesVars
  BY <1>4 DEF ExpireQuotes, RunOut, PutQuote, salesVars, SalesTypeOK, QuoteRow
<1> QED  BY <1>1, <1>2, <1>3, <1>4, SalesSteps
-----------------------------------------------------------------------------
\* A step that touches neither an invoice nor a request that has one.
LEMMA BillingApart ==
    ASSUME BillingInv, UNCHANGED <<client, accepted, billing>>
    PROVE  BillingInv'
BY DEF BillingInv, billing, InvoicedAsAccepted, IssuedHasDocument, NumbersIssued,
   RowsApart, AnswerHolds, ClientHolds, RetryHolds

LEMMA ClientKeepsBilling ==
    ASSUME SalesTypeOK, BillingInv, NEW c \in ClientReqs, ClientStep(c)
    PROVE  BillingInv'
<1> USE DEF SalesTypeOK, BillingTypeOK, BillingInv, InvoicedAsAccepted,
           IssuedHasDocument, NumbersIssued, AnswerHolds, RowsApart, ClientHolds,
           RetryHolds
<1>1. CASE \/ AcceptRead(c) \/ AcceptExpire(c) \/ DeclineRead(c) \/ DeclineWrite(c)
           \/ ClientFail(c)
  <2>1. /\ UNCHANGED <<accepted, billing>>
        /\ \A e \in ClientReqs : e # c => client'[e] = client[e]
        /\ client'[c].pc \notin {"bill", "call", "record"}
    BY <1>1 DEF AcceptRead, AcceptExpire, DeclineRead, DeclineWrite, ClientFail,
       ClientDone, IdleClient, OnlyClient, billing, ClientState
  <2> QED  BY <2>1 DEF billing
<1>2. CASE AcceptWrite(c)
  <2>1. /\ accepted \subseteq accepted' /\ UNCHANGED billing
        /\ \A e \in ClientReqs : e # c => client'[e] = client[e]
        /\ client'[c].pc = "bill" /\ client'[c].items \in accepted'
    BY <1>2 DEF AcceptWrite, ClientState
  <2> QED  BY <2>1 DEF billing
<1>3. CASE AcceptBill(c)
  <2>1. CASE ClientDone(c) /\ invoice' = invoice
    <3>1. /\ UNCHANGED <<accepted, billing>>
          /\ \A e \in ClientReqs : e # c => client'[e] = client[e]
          /\ client'[c].pc = "idle"
      BY <1>3, <2>1 DEF AcceptBill, ClientDone, IdleClient, billing
    <3> QED  BY <3>1 DEF billing
  <2>2. ASSUME NEW i \in Rows, invoice[i].status = "absent",
               invoice' = [invoice EXCEPT ![i] =
                   [status |-> "pending", items |-> client[c].items, number |-> 0]],
               client' = [client EXCEPT ![c].pc = "call", ![c].row = i]
        PROVE  BillingInv'
    <3>1. /\ client[c].pc = "bill"
          /\ UNCHANGED <<accepted, documents, retry>>
      BY <1>3 DEF AcceptBill
    <3>2. /\ client'[c].pc = "call" /\ client'[c].row = i
          /\ client'[c].items = client[c].items
          /\ \A e \in ClientReqs : e # c => client'[e] = client[e]
      BY <2>2 DEF ClientState
    <3>3. /\ invoice'[i].status = "pending" /\ invoice'[i].items = client[c].items
          /\ invoice'[i].number = 0
          /\ \A j \in Rows : j # i => invoice'[j] = invoice[j]
      BY <2>2
    <3>4. InvoicedAsAccepted' /\ IssuedHasDocument' /\ NumbersIssued'
      BY <3>1, <3>3
    <3>5. \A e \in ClientReqs : client[e].pc \in {"call", "record"} => client[e].row # i
      BY <2>2
    <3>6. RowsApart'
      BY <3>2, <3>5
    <3>7. ClientHolds(c)'
      BY <3>1, <3>2, <3>3
    <3>8. ASSUME NEW e \in ClientReqs, e # c  PROVE  ClientHolds(e)'
      <4>1. client'[e] = client[e]
        BY <3>2, <3>8
      <4> QED  BY <3>1, <3>3, <3>5, <4>1
    <3>9. \A r \in RetryReqs : RetryHolds(r)'
      BY <2>2, <3>1, <3>3
    <3> QED  BY <3>4, <3>6, <3>7, <3>8, <3>9
  <2> QED  BY <1>3, <2>1, <2>2 DEF AcceptBill
<1>4. CASE AcceptCall(c)
  <2>1. client[c].pc = "call" /\ client[c].row \in Rows /\ client[c].items \in Offers
    BY <1>4 DEF AcceptCall, ClientState
  <2>2. PICK ok \in BOOLEAN, n \in Numbers :
             /\ IssueDocument(client[c].row, client[c].items, ok, n)
             /\ client' = [client EXCEPT ![c].pc = "record", ![c].ok = ok,
                                      ![c].number = n]
    BY <1>4 DEF AcceptCall
  <2>3. /\ documents \subseteq documents'
        /\ ok => \E p \in documents' : /\ p.row = client[c].row
                                      /\ p.items = client[c].items
                                      /\ n \in {0, p.number}
    BY <2>1, <2>2, IssueTypes
  <2>4. /\ client'[c] = [client[c] EXCEPT !.pc = "record", !.ok = ok, !.number = n]
        /\ client'[c].pc = "record" /\ client'[c].row = client[c].row
        /\ client'[c].items = client[c].items
        /\ client'[c].ok = ok /\ client'[c].number = n
        /\ \A e \in ClientReqs : e # c => client'[e] = client[e]
    BY <2>2 DEF ClientState
  <2>5. UNCHANGED <<accepted, invoice, retry>>
    BY <1>4 DEF AcceptCall
  <2>6. InvoicedAsAccepted' /\ IssuedHasDocument' /\ NumbersIssued'
    BY <2>3, <2>5
  <2>7. RowsApart'
    <3>1. \A e \in ClientReqs : client'[e].row = client[e].row
                 /\ (client'[e].pc \in {"call", "record"}
                         => client[e].pc \in {"call", "record"})
      BY <2>1, <2>4
    <3> QED  BY <3>1
  <2>8. ClientHolds(c)'
    <3>1. /\ client[c].items \in accepted
          /\ invoice[client[c].row].status = "pending"
          /\ invoice[client[c].row].items = client[c].items
      BY <2>1
    <3> QED  BY <2>1, <2>3, <2>4, <2>5, <3>1
  <2>9. ASSUME NEW e \in ClientReqs, e # c  PROVE  ClientHolds(e)'
    <3>1. client'[e] = client[e]
      BY <2>4, <2>9
    <3> QED  BY <2>3, <2>5, <3>1
  <2>10. \A r \in RetryReqs : RetryHolds(r)'
    BY <2>3, <2>5
  <2> QED  BY <2>6, <2>7, <2>8, <2>9, <2>10
<1>5. CASE AcceptRecord(c)
  <2> DEFINE i == client[c].row
  <2>1. /\ client[c].pc = "record" /\ i \in Rows /\ client[c].number \in Numbers
        /\ invoice[i].status = "pending" /\ invoice[i].items = client[c].items
    BY <1>5 DEF AcceptRecord, ClientState
  <2>2. /\ invoice'[i].status \in {"failed", "issued"}
        /\ invoice'[i].status = "issued" <=> client[c].ok
        /\ invoice'[i].items = client[c].items
        /\ invoice'[i].number = IF client[c].ok THEN client[c].number ELSE 0
        /\ \A j \in Rows : j # i => invoice'[j] = invoice[j]
    <3>1. invoice[i].number = 0 /\ invoice[i] \in InvoiceRow
      BY <2>1
    <3>2. CASE client[c].ok
      <4>1. invoice' = [invoice EXCEPT ![i] = IssuedAs(invoice[i], client[c].number)]
        BY <1>5, <3>2 DEF AcceptRecord
      <4> QED  BY <2>1, <3>1, <3>2, <4>1, IssuedRow
    <3>3. CASE ~client[c].ok
      BY <1>5, <2>1, <3>1, <3>3 DEF AcceptRecord, InvoiceRow
    <3> QED  BY <3>2, <3>3
  <2>3. /\ client'[c].pc = "idle"
        /\ \A e \in ClientReqs : e # c => client'[e] = client[e]
        /\ UNCHANGED <<accepted, documents, retry>>
    BY <1>5 DEF AcceptRecord, ClientDone, IdleClient
  <2> HIDE DEF i
  <2>4. InvoicedAsAccepted' /\ IssuedHasDocument' /\ NumbersIssued'
    BY <2>1, <2>2, <2>3 DEF i
  <2>5. RowsApart'
    BY <2>3
  <2>6. \A e \in ClientReqs : ClientHolds(e)'
    BY <2>1, <2>2, <2>3 DEF i
  <2>7. \A r \in RetryReqs : RetryHolds(r)'
    BY <2>1, <2>2, <2>3
  <2> QED  BY <2>4, <2>5, <2>6, <2>7
<1> QED  BY <1>1, <1>2, <1>3, <1>4, <1>5 DEF ClientStep

LEMMA RetryKeepsBilling ==
    ASSUME SalesTypeOK, BillingInv, NEW r \in RetryReqs, RetryStep(r)
    PROVE  BillingInv'
<1> USE DEF SalesTypeOK, BillingTypeOK, BillingInv, InvoicedAsAccepted,
           IssuedHasDocument, NumbersIssued, AnswerHolds, RowsApart, ClientHolds,
           RetryHolds, RetryStep
<1>1. UNCHANGED <<client, accepted>>
  OBVIOUS
<1>2. ASSUME NEW i \in Rows, RetryRead(r, i)
      PROVE  BillingInv'
  <2>1. /\ UNCHANGED <<invoice, documents>> /\ invoice[i].status = "failed"
        /\ retry'[r].pc = "call" /\ retry'[r].row = i
        /\ retry'[r].items = invoice[i].items
        /\ \A q \in RetryReqs : q # r => retry'[q] = retry[q]
    BY <1>2 DEF RetryRead
  <2> QED  BY <1>1, <2>1
<1>3. CASE RetryCall(r)
  <2>1. retry[r].pc = "call" /\ retry[r].row \in Rows /\ retry[r].items \in Offers
    BY <1>3 DEF RetryCall, RetryState
  <2>2. PICK ok \in BOOLEAN, n \in Numbers :
             /\ IssueDocument(retry[r].row, retry[r].items, ok, n)
             /\ retry' = [retry EXCEPT ![r].pc = "record", ![r].ok = ok,
                                      ![r].number = n]
    BY <1>3 DEF RetryCall
  <2>3. /\ documents \subseteq documents'
        /\ ok => \E p \in documents' : /\ p.row = retry[r].row
                                      /\ p.items = retry[r].items
                                      /\ n \in {0, p.number}
    BY <2>1, <2>2, IssueTypes
  <2>4. /\ retry'[r].pc = "record" /\ retry'[r].row = retry[r].row
        /\ retry'[r].items = retry[r].items
        /\ retry'[r].ok = ok /\ retry'[r].number = n
        /\ \A q \in RetryReqs : q # r => retry'[q] = retry[q]
    BY <2>2 DEF RetryState
  <2>5. invoice' = invoice
    BY <1>3 DEF RetryCall
  <2>6. InvoicedAsAccepted' /\ IssuedHasDocument' /\ NumbersIssued' /\ RowsApart'
    BY <1>1, <2>3, <2>5
  <2>7. \A e \in ClientReqs : ClientHolds(e)'
    BY <1>1, <2>3, <2>5
  <2>8. RetryHolds(r)'
    BY <2>1, <2>3, <2>4, <2>5
  <2>9. ASSUME NEW q \in RetryReqs, q # r  PROVE  RetryHolds(q)'
    <3>1. retry'[q] = retry[q]
      BY <2>4, <2>9
    <3> QED  BY <2>3, <2>5, <3>1
  <2> QED  BY <2>6, <2>7, <2>8, <2>9
<1>4. CASE RetryRecord(r)
  <2> DEFINE i == retry[r].row
  <2>1. /\ retry[r].pc = "record" /\ i \in Rows
        /\ invoice[i].status \in {"failed", "issued"}
        /\ invoice[i].items = retry[r].items
    BY <1>4 DEF RetryRecord
  <2>2. /\ retry'[r].pc = "idle"
        /\ \A q \in RetryReqs : q # r => retry'[q] = retry[q]
        /\ documents' = documents
    BY <1>4 DEF RetryRecord, RetryDone, IdleRetry
  <2>3. CASE ~retry[r].ok
    <3>1. invoice' = invoice
      BY <1>4, <2>3 DEF RetryRecord
    <3> QED  BY <1>1, <2>2, <3>1
  <2>4. CASE retry[r].ok
    <3>1. /\ invoice'[i].status = "issued" /\ invoice'[i].items = retry[r].items
          /\ invoice'[i].number = IF retry[r].number = 0 THEN invoice[i].number
                                                         ELSE retry[r].number
          /\ \A j \in Rows : j # i => invoice'[j] = invoice[j]
      <4>1. invoice' = [invoice EXCEPT ![i] = IssuedAs(invoice[i], retry[r].number)]
        BY <1>4, <2>4 DEF RetryRecord
      <4>2. retry[r].number \in Numbers /\ invoice[i] \in InvoiceRow
        BY <2>1 DEF RetryState
      <4> QED  BY <2>1, <4>1, <4>2, IssuedRow
    <3> HIDE DEF i
    <3>2. InvoicedAsAccepted' /\ IssuedHasDocument' /\ NumbersIssued'
      BY <1>1, <2>1, <2>2, <2>4, <3>1 DEF i
    <3>3. (\A e \in ClientReqs : ClientHolds(e)') /\ RowsApart'
      BY <1>1, <2>1, <2>2, <3>1
    <3>4. \A q \in RetryReqs : RetryHolds(q)'
      BY <2>1, <2>2, <3>1 DEF i
    <3> QED  BY <3>2, <3>3, <3>4
  <2> QED  BY <2>3, <2>4
<1>5. CASE RetryFail(r)
  <2>1. /\ UNCHANGED <<invoice, documents>> /\ retry'[r].pc = "idle"
        /\ \A q \in RetryReqs : q # r => retry'[q] = retry[q]
    BY <1>5 DEF RetryFail, RetryDone, IdleRetry
  <2> QED  BY <1>1, <2>1
<1> QED  BY <1>2, <1>3, <1>4, <1>5
-----------------------------------------------------------------------------
LEMMA SalesStart == SalesInit => OfferInv /\ BillingInv
<1> SUFFICES ASSUME SalesInit  PROVE OfferInv /\ BillingInv
  OBVIOUS
<1> USE InvoicingAssumption DEF SalesInit, BillingInit
<1>1. SalesTypeOK
  <2>1. 0 \in Numbers /\ {0} \in Offers /\ {} \in Offers /\ 0 \in 0 .. MaxEdits
    BY DEF Numbers, Offers
  <2>2. NoInvoice \in InvoiceRow
    BY <2>1 DEF NoInvoice, InvoiceRow
  <2>3. BillingTypeOK
    BY <2>1, <2>2, IdleTypes DEF BillingTypeOK
  <2> QED  BY <2>1, <2>3, IdleTypes DEF SalesTypeOK, QuoteRow, QuoteStatus
<1>2. ItemsKept /\ NothingEmptyAgreed
  BY DEF ItemsKept, NothingEmptyAgreed, IdleDesk
<1>3. BillingInv
  BY DEF BillingInv, InvoicedAsAccepted, IssuedHasDocument, NumbersIssued, RowsApart,
     AnswerHolds, ClientHolds, RetryHolds, NoInvoice, IdleClient, IdleRetry
<1> QED  BY <1>1, <1>2, <1>3 DEF OfferInv

LEMMA SalesKept ==
    ASSUME OfferInv, BillingInv, [SalesNext]_salesVars
    PROVE  OfferInv' /\ BillingInv'
<1>1. OfferInv'
  BY SalesTypesKept, ItemsKeptAlways DEF OfferInv
<1>2. BillingInv'
  <2>1. ASSUME NEW d \in DeskReqs, DeskStep(d)
        PROVE  UNCHANGED <<client, accepted, billing>>
    BY <2>1 DEF DeskStep, EditDelete, EditCommit, SendRead, ResendRead, SendWrite,
       UpdateStatus, Delete, ConvertRead, ConvertCreate, DeskFail, OnlyDesk
  <2>2. ASSUME ExpireQuotes \/ RunOut \/ UNCHANGED salesVars
        PROVE  UNCHANGED <<client, accepted, billing>>
    BY <2>2 DEF ExpireQuotes, RunOut, salesVars, billing
  <2> QED  BY <2>1, <2>2, SalesSteps, BillingApart, ClientKeepsBilling,
              RetryKeepsBilling DEF OfferInv
<1> QED  BY <1>1, <1>2

LEMMA SalesInvariant == SalesSpec => [](OfferInv /\ BillingInv)
BY SalesStart, SalesKept, PTL DEF SalesSpec

(***************************************************************************)
(* Every reachable state is of the declared types: in particular, a call   *)
(* to the provider is always for a row that exists.                        *)
(***************************************************************************)
THEOREM SalesTypes == SalesSpec => []SalesTypeOK
BY SalesInvariant, PTL DEF OfferInv

(***************************************************************************)
(* No acceptance and no contract catches the quote between the deletion of *)
(* its old items and the creation of the new ones.                         *)
(***************************************************************************)
THEOREM NeverEmpty == SalesSpec => []NothingEmptyAgreed
BY SalesInvariant, PTL DEF OfferInv

\* Whatever edits and second acceptances run meanwhile, an invoice is for an offer that
\* was accepted.
THEOREM InvoicesAgreed == SalesSpec => []InvoicedAsAccepted
BY SalesInvariant, PTL DEF BillingInv

\* For an issued invoice a document was issued, and the number it shows is that one's,
\* whoever recorded it: the acceptance that made the row or one of overlapping retries.
THEOREM InvoicesHaveDocuments == SalesSpec => []IssuedHasDocument
BY SalesInvariant, PTL DEF BillingInv

(***************************************************************************)
(* No late answer of the provider takes an issued invoice back: the first  *)
(* attempt reports to a row that is still pending, and a retry that failed *)
(* writes no status.                                                       *)
(***************************************************************************)
THEOREM IssuedStays == SalesSpec => IssuedStands
<1> DEFINE Stands == \A i \in Rows :
               invoice[i].status = "issued" => invoice'[i].status = "issued"
<1>1. ASSUME OfferInv, BillingInv, [SalesNext]_salesVars
      PROVE  Stands
  <2> USE DEF OfferInv, SalesTypeOK, BillingTypeOK
  <2>1. ASSUME NEW c \in ClientReqs, ClientStep(c)  PROVE Stands
    <3>1. CASE AcceptBill(c)
      <4>1. CASE invoice' = invoice
        BY <4>1
      <4>2. ASSUME NEW i \in Rows, invoice[i].status = "absent",
                   invoice' = [invoice EXCEPT ![i] =
                     [status |-> "pending", items |-> client[c].items, number |-> 0]]
            PROVE  Stands
        BY <1>1, <4>2
      <4> QED  BY <3>1, <4>1, <4>2 DEF AcceptBill
    <3>2. CASE AcceptRecord(c)
      <4>1. /\ client[c].row \in Rows /\ invoice[client[c].row].status = "pending"
            /\ \A j \in Rows : j # client[c].row => invoice'[j] = invoice[j]
        BY <1>1, <3>2 DEF AcceptRecord, BillingInv, ClientHolds
      <4> QED  BY <4>1
    <3>3. CASE ~ (AcceptBill(c) \/ AcceptRecord(c))
      BY <2>1, <3>3 DEF ClientStep, AcceptRead, AcceptExpire, AcceptWrite, AcceptCall,
         DeclineRead, DeclineWrite, ClientFail, OnlyClient, billing
    <3> QED  BY <3>1, <3>2, <3>3
  <2>2. ASSUME NEW r \in RetryReqs, RetryStep(r)  PROVE Stands
    <3>1. CASE RetryRecord(r)
      <4>1. CASE ~retry[r].ok
        BY <3>1, <4>1 DEF RetryRecord
      <4>2. CASE retry[r].ok
        <5>1. retry[r].row \in Rows /\ retry[r].number \in Numbers
          BY <1>1, <3>1 DEF RetryRecord, BillingInv, RetryHolds, RetryState
        <5> QED  BY <1>1, <3>1, <4>2, <5>1, IssuedRow DEF RetryRecord
      <4> QED  BY <4>1, <4>2
    <3>2. CASE ~ RetryRecord(r)
      BY <2>2, <3>2 DEF RetryStep, RetryRead, RetryCall, RetryFail
    <3> QED  BY <3>1, <3>2
  <2>3. ASSUME NEW d \in DeskReqs, DeskStep(d)  PROVE Stands
    BY <2>3 DEF DeskStep, EditDelete, EditCommit, SendRead, ResendRead, SendWrite,
       UpdateStatus, Delete, ConvertRead, ConvertCreate, DeskFail, OnlyDesk, billing
  <2>4. CASE ExpireQuotes \/ RunOut \/ UNCHANGED salesVars
    BY <2>4 DEF ExpireQuotes, RunOut, salesVars, billing
  <2> QED  BY <1>1, <2>1, <2>2, <2>3, <2>4, SalesSteps
<1>2. SalesSpec => [][Stands]_salesVars
  BY <1>1, SalesInvariant, PTL DEF SalesSpec
<1> QED  BY <1>2 DEF IssuedStands
-----------------------------------------------------------------------------
(* The refinement of Settlement. *)

\* A provider call leaves the documents as they are or adds one, with the next number.
LEMMA NumbersGrow ==
    ASSUME BillingTypeOK, NumbersUsed,
           NEW i \in Rows, NEW its \in Offers,
           NEW ok \in BOOLEAN, NEW n \in Numbers, IssueDocument(i, its, ok, n)
    PROVE  /\ NumbersUsed'
           /\ \/ documents' = documents
              \/ \E m \in Numbers :
                    /\ m # 0 /\ \A p \in documents : p.number < m
                    /\ documents' = documents \cup
                           {[row |-> i, items |-> its, number |-> m]}
<1> USE InvoicingAssumption DEF BillingTypeOK, Numbers, Document, NumbersUsed
<1>1. CASE UNCHANGED <<documents, lastNumber>>
  BY <1>1
<1>2. CASE ~ UNCHANGED <<documents, lastNumber>>
  <2> DEFINE new == [row |-> i, items |-> its, number |-> lastNumber + 1]
  <2>1. /\ lastNumber < MaxDocuments /\ lastNumber' = lastNumber + 1
        /\ documents' = documents \cup {new}
    BY <1>2 DEF IssueDocument
  <2>2. /\ lastNumber + 1 \in Numbers /\ lastNumber + 1 # 0
        /\ \A p \in documents : p.number < lastNumber + 1
    BY <2>1
  <2>3. NumbersUsed'
    BY <2>1, <2>2
  <2> QED  BY <2>1, <2>2, <2>3
<1> QED  BY <1>1, <1>2

\* The row a provider call is for is billed with the items the call is for.
LEMMA CallsAreBilled ==
    ASSUME OfferInv, BillingInv
    PROVE  /\ \A c \in ClientReqs : client[c].pc \in {"call", "record"} =>
                 /\ client[c].row \in Rows
                 /\ Billed[client[c].row] = client[c].items
           /\ \A r \in RetryReqs : retry[r].pc # "idle" =>
                 /\ retry[r].row \in Rows
                 /\ Billed[retry[r].row] = retry[r].items
           /\ \A i \in Rows : invoice[i].status # "absent" => Billed[i] # {}
BY DEF OfferInv, NothingEmptyAgreed, BillingInv, ClientHolds, RetryHolds,
   InvoicedAsAccepted, Billed

\* A call for a billed row is a document made out for it, or nothing.
LEMMA CallIssues ==
    ASSUME OfferInv, BillingInv, NumbersUsed, UNCHANGED <<accepted, invoice>>,
           NEW i \in Rows, invoice[i].status # "absent",
           NEW ok \in BOOLEAN, NEW n \in Numbers, IssueDocument(i, Billed[i], ok, n)
    PROVE  /\ NumbersUsed'
           /\ Sale!SettlementNext \/ UNCHANGED Sale!settlement
<1>1. Billed[i] \in Offers /\ Billed[i] # {}
  BY CallsAreBilled DEF OfferInv, SalesTypeOK, BillingTypeOK, InvoiceRow, Billed
<1>2. UNCHANGED <<Billed, Issued, Shown>>
  BY DEF Billed, Issued, Shown
<1>3. CASE documents' = documents
  BY <1>1, <1>2, <1>3, NumbersGrow DEF OfferInv, SalesTypeOK, Sale!settlement
<1>4. ASSUME NEW m \in Numbers, m # 0, \A p \in documents : p.number < m,
             documents' = documents \cup
                 {[row |-> i, items |-> Billed[i], number |-> m]}
      PROVE  Sale!SettlementNext
  <2>1. Sale!MayIssue(i, m)
    BY <1>1, <1>2, <1>4 DEF Sale!MayIssue
  <2> QED  BY <2>1 DEF Sale!SettlementNext
<1> QED  BY <1>1, <1>3, <1>4, NumbersGrow DEF OfferInv, SalesTypeOK

\* A success settles the row by the document it stands for.
LEMMA AnswerSettles ==
    ASSUME OfferInv, BillingInv, UNCHANGED <<accepted, documents>>,
           NEW i \in Rows, NEW n \in Numbers, invoice[i].status # "absent",
           \E p \in documents : /\ p.row = i /\ p.items = invoice[i].items
                                /\ n \in {0, p.number},
           invoice' = [invoice EXCEPT ![i] = IssuedAs(invoice[i], n)]
    PROVE  Sale!SettlementNext
<1>1. /\ invoice'[i].status = "issued" /\ invoice'[i].items = invoice[i].items
      /\ invoice'[i].number = IF n = 0 THEN invoice[i].number ELSE n
      /\ \A j \in Rows : j # i => invoice'[j] = invoice[j]
  BY IssuedRow DEF OfferInv, SalesTypeOK, BillingTypeOK
<1>2. Billed' = Billed
  <2>1. ASSUME NEW j \in Rows
        PROVE  Billed'[j] = Billed[j]
    <3>1. /\ invoice'[j].items = invoice[j].items
          /\ invoice'[j].status = "absent" <=> invoice[j].status = "absent"
      BY <1>1
    <3> QED  BY <3>1 DEF Billed
  <2> QED  BY <2>1 DEF Billed
<1>3. Issued' = Issued \cup {i}
  BY <1>1 DEF Issued
<1>4. PICK p \in documents : /\ p.row = i /\ p.items = invoice[i].items
                             /\ n \in {0, p.number}
  OBVIOUS
<1>5. Shown' \in {Shown, [Shown EXCEPT ![i] = p.number]}
  <2>1. CASE n = 0
    <3>1. ASSUME NEW j \in Rows  PROVE Shown'[j] = Shown[j]
      BY <1>1, <2>1 DEF Shown
    <3> QED  BY <3>1 DEF Shown
  <2>2. CASE n # 0
    <3>1. ASSUME NEW j \in Rows
          PROVE  Shown'[j] = IF j = i THEN p.number ELSE Shown[j]
      BY <1>1, <1>4, <2>2 DEF Shown
    <3> QED  BY <3>1 DEF Shown
  <2> QED  BY <2>1, <2>2
<1>6. p \in Sale!PapersOf(i)
  BY <1>4 DEF Sale!PapersOf, Billed
<1>7. Sale!MaySettle(i)
  BY <1>2, <1>3, <1>5, <1>6 DEF Sale!MaySettle
<1> QED  BY <1>7 DEF Sale!SettlementNext

\* A step that touches no row, no agreement and no document is none of the settlement's.
LEMMA SettlementApart ==
    ASSUME NumbersUsed, UNCHANGED <<accepted, invoice, documents, lastNumber>>
    PROVE  NumbersUsed' /\ UNCHANGED Sale!settlement
BY DEF NumbersUsed, Sale!settlement, Billed, Issued, Shown

LEMMA ClientSettles ==
    ASSUME OfferInv, BillingInv, NumbersUsed, NEW c \in ClientReqs, ClientStep(c)
    PROVE  /\ NumbersUsed'
           /\ Sale!SettlementNext \/ UNCHANGED Sale!settlement
<1> USE DEF OfferInv, SalesTypeOK, BillingTypeOK
<1>1. CASE \/ AcceptRead(c) \/ AcceptExpire(c) \/ DeclineRead(c) \/ DeclineWrite(c)
           \/ ClientFail(c)
  <2>1. UNCHANGED <<accepted, invoice, documents, lastNumber>>
    BY <1>1 DEF AcceptRead, AcceptExpire, DeclineRead, DeclineWrite, ClientFail,
       OnlyClient, billing
  <2> QED  BY <2>1, SettlementApart
<1>2. CASE AcceptWrite(c)
  <2>1. /\ accepted' = accepted \cup {items} /\ items # {}
        /\ UNCHANGED <<invoice, documents, lastNumber>>
    BY <1>2 DEF AcceptWrite, PutQuote, ItemsKept, billing
  <2>2. NumbersUsed' /\ UNCHANGED <<Billed, Issued, Shown>>
    BY <2>1 DEF NumbersUsed, Billed, Issued, Shown
  <2>3. Sale!MayAgree(items)
    BY <2>1, <2>2 DEF Sale!MayAgree
  <2> QED  BY <2>2, <2>3 DEF Sale!SettlementNext
<1>3. CASE AcceptBill(c)
  <2>1. UNCHANGED <<accepted, documents, lastNumber>>
    BY <1>3 DEF AcceptBill
  <2>2. CASE invoice' = invoice
    BY <2>1, <2>2, SettlementApart
  <2>3. ASSUME NEW i \in Rows, invoice[i].status = "absent",
               invoice' = [invoice EXCEPT ![i] =
                   [status |-> "pending", items |-> client[c].items, number |-> 0]]
        PROVE  NumbersUsed' /\ Sale!SettlementNext
    <3>1. client[c].items \in accepted
      BY <1>3 DEF AcceptBill, BillingInv, ClientHolds
    <3>2. Billed' = [Billed EXCEPT ![i] = client[c].items]
      <4>1. ASSUME NEW j \in Rows
            PROVE  Billed'[j] = IF j = i THEN client[c].items ELSE Billed[j]
        BY <2>3, <4>1 DEF Billed
      <4> QED  BY <4>1 DEF Billed
    <3>3. Issued' = Issued /\ Shown' = Shown
      <4>1. invoice[i].number = 0
        BY <2>3 DEF BillingInv, NumbersIssued
      <4>2. ASSUME NEW j \in Rows
            PROVE  Shown'[j] = Shown[j]
        BY <2>3, <4>1 DEF Shown
      <4>3. Issued' = Issued
        BY <2>3 DEF Issued
      <4> QED  BY <4>2, <4>3 DEF Shown
    <3>4. Billed[i] = {}
      BY <2>3 DEF Billed
    <3>5. Sale!MayBill(i, client[c].items)
      BY <2>1, <3>1, <3>2, <3>3, <3>4 DEF Sale!MayBill
    <3> QED  BY <2>1, <3>1, <3>5 DEF NumbersUsed, Sale!SettlementNext
  <2> QED  BY <1>3, <2>2, <2>3 DEF AcceptBill
<1>4. CASE AcceptCall(c)
  <2>1. PICK ok \in BOOLEAN, n \in Numbers :
             IssueDocument(client[c].row, client[c].items, ok, n)
    BY <1>4 DEF AcceptCall
  <2>2. /\ client[c].row \in Rows /\ invoice[client[c].row].status # "absent"
        /\ Billed[client[c].row] = client[c].items
        /\ UNCHANGED <<accepted, invoice>>
    BY <1>4, CallsAreBilled DEF AcceptCall, BillingInv, ClientHolds
  <2> QED  BY <2>1, <2>2, CallIssues
<1>5. CASE AcceptRecord(c)
  <2> DEFINE i == client[c].row
             n == client[c].number
  <2>1. /\ i \in Rows /\ invoice[i].status = "pending" /\ n \in Numbers
        /\ client[c].ok => \E p \in documents :
               p.row = i /\ p.items = invoice[i].items /\ n \in {0, p.number}
        /\ UNCHANGED <<accepted, documents, lastNumber>>
    BY <1>5 DEF AcceptRecord, BillingInv, ClientHolds, AnswerHolds, ClientState
  <2>2. CASE ~client[c].ok
    <3>1. /\ invoice'[i].status = "failed" /\ invoice'[i].items = invoice[i].items
          /\ invoice'[i].number = invoice[i].number
          /\ \A j \in Rows : j # i => invoice'[j] = invoice[j]
      BY <1>5, <2>1, <2>2 DEF AcceptRecord, InvoiceRow
    <3>2. ASSUME NEW j \in Rows
          PROVE  Billed'[j] = Billed[j] /\ Shown'[j] = Shown[j]
      BY <2>1, <3>1 DEF Billed, Shown
    <3>3. Issued' = Issued
      BY <2>1, <3>1 DEF Issued
    <3>4. UNCHANGED <<Billed, Issued, Shown>>
      BY <3>2, <3>3 DEF Billed, Shown
    <3> QED  BY <2>1, <3>4 DEF NumbersUsed, Sale!settlement
  <2>3. CASE client[c].ok
    <3>1. invoice' = [invoice EXCEPT ![i] = IssuedAs(invoice[i], n)]
      BY <1>5, <2>3 DEF AcceptRecord
    <3> HIDE DEF i, n
    <3>2. Sale!SettlementNext
      BY <2>1, <2>3, <3>1, AnswerSettles
    <3> QED  BY <2>1, <3>2 DEF NumbersUsed
  <2> QED  BY <2>2, <2>3
<1> QED  BY <1>1, <1>2, <1>3, <1>4, <1>5 DEF ClientStep

LEMMA RetrySettles ==
    ASSUME OfferInv, BillingInv, NumbersUsed, NEW r \in RetryReqs, RetryStep(r)
    PROVE  /\ NumbersUsed'
           /\ Sale!SettlementNext \/ UNCHANGED Sale!settlement
<1>1. accepted' = accepted
  BY DEF RetryStep
<1>2. CASE (\E i \in Rows : RetryRead(r, i)) \/ RetryFail(r)
  BY <1>1, <1>2, SettlementApart DEF RetryRead, RetryFail
<1>3. CASE RetryCall(r)
  <2>1. PICK ok \in BOOLEAN, n \in Numbers :
             IssueDocument(retry[r].row, retry[r].items, ok, n)
    BY <1>3 DEF RetryCall
  <2>2. /\ retry[r].row \in Rows /\ invoice[retry[r].row].status # "absent"
        /\ Billed[retry[r].row] = retry[r].items
        /\ invoice' = invoice
    BY <1>3, CallsAreBilled DEF RetryCall, BillingInv, RetryHolds
  <2> QED  BY <1>1, <2>1, <2>2, CallIssues
<1>4. CASE RetryRecord(r)
  <2> DEFINE i == retry[r].row
             n == retry[r].number
  <2>1. /\ i \in Rows /\ invoice[i].status # "absent" /\ n \in Numbers
        /\ retry[r].ok => \E p \in documents :
               p.row = i /\ p.items = invoice[i].items /\ n \in {0, p.number}
        /\ UNCHANGED <<documents, lastNumber>>
    BY <1>4 DEF RetryRecord, BillingInv, RetryHolds, AnswerHolds, OfferInv, SalesTypeOK,
       BillingTypeOK, RetryState
  <2>2. CASE ~retry[r].ok
    <3>1. invoice' = invoice
      BY <1>4, <2>2 DEF RetryRecord
    <3> QED  BY <1>1, <2>1, <3>1, SettlementApart
  <2>3. CASE retry[r].ok
    <3>1. invoice' = [invoice EXCEPT ![i] = IssuedAs(invoice[i], n)]
      BY <1>4, <2>3 DEF RetryRecord
    <3> HIDE DEF i, n
    <3>2. Sale!SettlementNext
      BY <1>1, <2>1, <2>3, <3>1, AnswerSettles
    <3> QED  BY <2>1, <3>2 DEF NumbersUsed
  <2> QED  BY <2>2, <2>3
<1> QED  BY <1>2, <1>3, <1>4 DEF RetryStep

LEMMA SettlementGoesOn ==
    ASSUME OfferInv, BillingInv, NumbersUsed, [SalesNext]_salesVars
    PROVE  /\ NumbersUsed'
           /\ Sale!SettlementNext \/ UNCHANGED Sale!settlement
<1>1. ASSUME NEW d \in DeskReqs, DeskStep(d)
      PROVE  UNCHANGED <<accepted, invoice, documents, lastNumber>>
  BY <1>1 DEF DeskStep, EditDelete, EditCommit, SendRead, ResendRead, SendWrite,
     UpdateStatus, Delete, ConvertRead, ConvertCreate, DeskFail, OnlyDesk, billing
<1>2. ASSUME ExpireQuotes \/ RunOut \/ UNCHANGED salesVars
      PROVE  UNCHANGED <<accepted, invoice, documents, lastNumber>>
  BY <1>2 DEF ExpireQuotes, RunOut, salesVars, billing
<1> QED  BY <1>1, <1>2, SalesSteps, SettlementApart, ClientSettles, RetrySettles

LEMMA SettlementStarts == SalesInit => Sale!SettlementInit /\ NumbersUsed
BY DEF SalesInit, BillingInit, NoInvoice, Sale!SettlementInit, Billed, Issued, Shown,
   NumbersUsed

(***************************************************************************)
(* Accepting, billing and retrying, interleaved and failing as they may,   *)
(* implement the settlement: every step of a handler is one of its steps   *)
(* or none.  A row keeps its items, its documents are made out for them,   *)
(* and what it shows as issued has one of them.                                   *)
(***************************************************************************)
THEOREM SalesImplementSettlement == SalesSpec => SettlementKept
<1>1. OfferInv /\ BillingInv /\ NumbersUsed /\ [SalesNext]_salesVars
        => NumbersUsed' /\ [Sale!SettlementNext]_(Sale!settlement)
  BY SettlementGoesOn
<1> QED
  BY <1>1, SettlementStarts, SalesInvariant, PTL
     DEF SalesSpec, SettlementKept, Sale!SettlementSpec
=============================================================================
