------------------------------ MODULE Invoicing ------------------------------
(***************************************************************************)
(* The invoices of one quote (InvoicingService) and the provider, Billingo *)
(* or szamlazz.hu, that issues the documents.  A provider call that throws *)
(* counts as a failed one, so a document may exist although the call       *)
(* failed; numbers are the provider's own, and an answer of success may    *)
(* come without one.                                                       *)
(***************************************************************************)
EXTENDS Naturals

CONSTANTS
    RetryReqs,     \* requests to retry a failed invoice that can be in progress
    MaxEdits,      \* bound: number of times the quote is rewritten
    MaxInvoices,   \* bound: rows of invoices
    MaxDocuments   \* bound: documents issued by the provider

ASSUME InvoicingAssumption ==
    /\ MaxEdits \in Nat /\ MaxInvoices \in Nat /\ MaxDocuments \in Nat

VARIABLES
    invoice,       \* rows of invoices
    documents,     \* what the provider has issued
    lastNumber,    \* number of the provider's latest document
    retry          \* local state of each retry

billing == <<invoice, documents, lastNumber, retry>>

\* What a quote can offer: the items of one edit, or of several.  Edits that
\* leave it without any item are left out.
Offers == SUBSET (0 .. MaxEdits)

Rows == 1 .. MaxInvoices

Numbers == 0 .. MaxDocuments   \* 0 is no number

InvoiceRow == [status : {"absent", "pending", "issued", "failed"},
               items  : Offers,    \* amount, as computed from these items
               number : Numbers]   \* invoiceNumber, 0 for null

Document == [row : Rows, items : Offers, number : Numbers]

RetryState == [pc : {"idle", "call", "record"},
               row : 0 .. MaxInvoices,
               items : Offers,
               ok : BOOLEAN,       \* result.success
               number : Numbers]   \* result.invoiceNumber, 0 for undefined

BillingTypeOK ==
    /\ invoice \in [Rows -> InvoiceRow]
    /\ documents \subseteq Document
    /\ lastNumber \in Numbers
    /\ retry \in [RetryReqs -> RetryState]

NoInvoice == [status |-> "absent", items |-> {}, number |-> 0]

IdleRetry == [pc |-> "idle", row |-> 0, items |-> {}, ok |-> FALSE, number |-> 0]

BillingInit ==
    /\ invoice = [i \in Rows |-> NoInvoice]
    /\ documents = {} /\ lastNumber = 0
    /\ retry = [r \in RetryReqs |-> IdleRetry]

RetryDone(r) == retry' = [retry EXCEPT ![r] = IdleRetry]

\* What a caller can be told: success, with or without a number, or failure.
Answer(ok, n) == n \in {0, lastNumber + 1} /\ (n # 0 => ok)

\* Mutant of IssueDocument: success is announced before there is a document.
IssueDocumentSoon(i, items, ok, n) ==
    /\ Answer(ok, n)
    /\ lastNumber < MaxDocuments
    /\ UNCHANGED <<documents, lastNumber>>

\* The provider's part of a call, and what the caller gets.  Success means a document,
\* but its number may not be in the answer; a failure may mean one or none.
IssueDocument(i, items, ok, n) ==
    /\ Answer(ok, n)
    /\ \/ ~ok /\ UNCHANGED <<documents, lastNumber>>
       \/ /\ lastNumber < MaxDocuments
          /\ lastNumber' = lastNumber + 1
          /\ documents' = documents \cup
                {[row |-> i, items |-> items, number |-> lastNumber + 1]}

\* What a success writes: a number that is undefined leaves the column as it was.
IssuedAs(row, n) ==
    [row EXCEPT !.status = "issued", !.number = IF n = 0 THEN row.number ELSE n]
-----------------------------------------------------------------------------
(* retryInvoice *)

RetryRead(r, i) ==
    /\ retry[r].pc = "idle"
    /\ invoice[i].status = "failed"
    /\ retry' = [retry EXCEPT ![r] = [pc |-> "call", row |-> i, ok |-> FALSE,
                                      items |-> invoice[i].items, number |-> 0]]
    /\ UNCHANGED <<invoice, documents, lastNumber>>

RetryCall(r) ==
    /\ retry[r].pc = "call"
    /\ \E ok \in BOOLEAN, n \in Numbers :
          /\ IssueDocument(retry[r].row, retry[r].items, ok, n)
          /\ retry' = [retry EXCEPT ![r].pc = "record", ![r].ok = ok, ![r].number = n]
    /\ invoice' = invoice

\* Mutant of RetryRecord: a failure is recorded the way it is the first time.
RetryRecordBoth(r) ==
    LET row == invoice[retry[r].row] IN
    /\ retry[r].pc = "record"
    /\ invoice' = [invoice EXCEPT ![retry[r].row] =
           IF retry[r].ok THEN IssuedAs(row, retry[r].number)
                          ELSE [row EXCEPT !.status = "failed"]]
    /\ RetryDone(r)
    /\ UNCHANGED <<documents, lastNumber>>

\* invoice.update by id: issued, or only the error message.
RetryRecord(r) ==
    LET row == invoice[retry[r].row] IN
    /\ retry[r].pc = "record"
    /\ invoice' = IF retry[r].ok
                  THEN [invoice EXCEPT ![retry[r].row] = IssuedAs(row, retry[r].number)]
                  ELSE invoice
    /\ RetryDone(r)
    /\ UNCHANGED <<documents, lastNumber>>

\* A database call rejects, or the process stops.
RetryFail(r) ==
    /\ retry[r].pc # "idle"
    /\ RetryDone(r)
    /\ UNCHANGED <<invoice, documents, lastNumber>>

RetryNext == \E r \in RetryReqs :
    \/ \E i \in Rows : RetryRead(r, i)
    \/ RetryCall(r) \/ RetryRecord(r) \/ RetryFail(r)
=============================================================================
