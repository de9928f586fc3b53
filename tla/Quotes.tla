-------------------------------- MODULE Quotes --------------------------------
(***************************************************************************)
(* The life of ONE quote (QuotesService): the owner edits and sends it,    *)
(* the client accepts or declines it by its link, an hourly job closes it  *)
(* when it has run out, and an acceptance causes an invoice.  Handlers     *)
(* check the status they read and write by id; only the rewriting of the   *)
(* items is a transaction.  Mails and webhook events are left out.         *)
(***************************************************************************)
EXTENDS Invoicing

CONSTANTS
    ClientReqs,   \* requests with the link that can be in progress
    DeskReqs      \* requests of the owner that can be in progress

VARIABLES
    quote,     \* the row; status "deleted" once it is gone
    items,     \* the edits whose items the quote has
    edits,     \* number of edits so far
    client,    \* local state of each request with the link
    desk,      \* local state of each request of the owner
    accepted,  \* every offer as it was when the client's acceptance was stored
    contracts  \* offers turned into contracts by convertToContract

salesVars == <<quote, items, edits, client, desk, accepted, contracts,
               invoice, documents, lastNumber, retry>>

QuoteStatus == {"draft", "sent", "accepted", "declined", "expired", "deleted"}

QuoteRow == [status : QuoteStatus,
             linked : BOOLEAN,   \* viewToken is set
             live   : BOOLEAN]   \* validUntil is not past

ClientState == [pc : {"idle", "expire", "accept", "bill", "call", "record",
                      "decline"},
                items  : Offers,             \* as returned by the update
                row    : 0 .. MaxInvoices,   \* its invoice
                ok     : BOOLEAN,            \* result.success
                number : Numbers]            \* result.invoiceNumber, 0 for undefined

DeskState == [pc : {"idle", "edit", "send", "convert"}, items : Offers]

SalesTypeOK ==
    /\ BillingTypeOK
    /\ quote \in QuoteRow
    /\ items \in Offers /\ edits \in 0 .. MaxEdits
    /\ client \in [ClientReqs -> ClientState]
    /\ desk \in [DeskReqs -> DeskState]
    /\ accepted \subseteq Offers /\ contracts \subseteq Offers

IdleClient == [pc |-> "idle", items |-> {}, row |-> 0, ok |-> FALSE, number |-> 0]

IdleDesk == [pc |-> "idle", items |-> {}]

SalesInit ==
    /\ BillingInit
    /\ \E live \in BOOLEAN :
          quote = [status |-> "draft", linked |-> FALSE, live |-> live]
    /\ items = {0} /\ edits = 0
    /\ client = [c \in ClientReqs |-> IdleClient]
    /\ desk = [d \in DeskReqs |-> IdleDesk]
    /\ accepted = {} /\ contracts = {}

Exists == quote.status # "deleted"

ClientDone(c) == client' = [client EXCEPT ![c] = IdleClient]

DeskDone(d) == desk' = [desk EXCEPT ![d] = IdleDesk]

\* quote.update by id: rejected if the row has been deleted meanwhile.
PutQuote(new) == Exists /\ quote' = [quote EXCEPT !.status = new]

OnlyClient == UNCHANGED <<quote, items, edits, desk, accepted, contracts,
                          invoice, documents, lastNumber, retry>>
OnlyDesk == UNCHANGED <<quote, items, edits, client, accepted, contracts, billing>>
-----------------------------------------------------------------------------
(* acceptQuoteByToken and tryAutoInvoice *)

\* The link finds the quote as sent; has it run out?
AcceptRead(c) ==
    /\ client[c].pc = "idle"
    /\ quote.status = "sent" /\ quote.linked
    /\ client' = [client EXCEPT
          ![c].pc = IF quote.live THEN "accept" ELSE "expire"]
    /\ OnlyClient

AcceptExpire(c) ==
    /\ client[c].pc = "expire"
    /\ PutQuote("expired")
    /\ ClientDone(c)
    /\ UNCHANGED <<items, edits, desk, accepted, contracts, billing>>

\* The update returns the items as they are now.
AcceptWrite(c) ==
    /\ client[c].pc = "accept"
    /\ PutQuote("accepted")
    /\ accepted' = accepted \cup {items}
    /\ client' = [client EXCEPT ![c].pc = "bill", ![c].items = items]
    /\ UNCHANGED <<items, edits, desk, contracts, billing>>

\* Mutant of AcceptBill: the items are looked up once more for the invoice.
AcceptBillAnew(c) ==
    /\ client[c].pc = "bill"
    /\ \/ ClientDone(c) /\ invoice' = invoice
       \/ \E i \in Rows :
             /\ invoice[i].status = "absent"
             /\ invoice' = [invoice EXCEPT ![i] =
                   [status |-> "pending", items |-> items, number |-> 0]]
             /\ client' = [client EXCEPT ![c].pc = "call", ![c].row = i]
    /\ UNCHANGED <<quote, items, edits, desk, accepted, contracts,
                   documents, lastNumber, retry>>

\* Mutant of AcceptBill: the provider is called although there is no row.
AcceptBillAlways(c) ==
    /\ client[c].pc = "bill"
    /\ client' = [client EXCEPT ![c].pc = "call"]
    /\ UNCHANGED <<quote, items, edits, desk, accepted, contracts, billing>>

\* The row comes first, if the owner wants automatic invoices at this moment.
AcceptBill(c) ==
    /\ client[c].pc = "bill"
    /\ \/ ClientDone(c) /\ invoice' = invoice
       \/ \E i \in Rows :
             /\ invoice[i].status = "absent"
             /\ invoice' = [invoice EXCEPT ![i] =
                   [status |-> "pending", items |-> client[c].items, number |-> 0]]
             /\ client' = [client EXCEPT ![c].pc = "call", ![c].row = i]
    /\ UNCHANGED <<quote, items, edits, desk, accepted, contracts,
                   documents, lastNumber, retry>>

AcceptCall(c) ==
    /\ client[c].pc = "call"
    /\ \E ok \in BOOLEAN, n \in Numbers :
          /\ IssueDocument(client[c].row, client[c].items, ok, n)
          /\ client' = [client EXCEPT ![c].pc = "record", ![c].ok = ok, ![c].number = n]
    /\ UNCHANGED <<quote, items, edits, desk, accepted, contracts, invoice, retry>>

AcceptRecord(c) ==
    LET row == invoice[client[c].row] IN
    /\ client[c].pc = "record"
    /\ invoice' = [invoice EXCEPT ![client[c].row] =
           IF client[c].ok THEN IssuedAs(row, client[c].number)
                           ELSE [row EXCEPT !.status = "failed"]]
    /\ ClientDone(c)
    /\ UNCHANGED <<quote, items, edits, desk, accepted, contracts,
                   documents, lastNumber, retry>>
-----------------------------------------------------------------------------
(* declineQuoteByToken; it does not look at validUntil. *)

DeclineRead(c) ==
    /\ client[c].pc = "idle"
    /\ quote.status = "sent" /\ quote.linked
    /\ client' = [client EXCEPT ![c].pc = "decline"]
    /\ OnlyClient

DeclineWrite(c) ==
    /\ client[c].pc = "decline"
    /\ PutQuote("declined")
    /\ ClientDone(c)
    /\ UNCHANGED <<items, edits, desk, accepted, contracts, billing>>

\* A call rejects, or the process stops.
ClientFail(c) == client[c].pc # "idle" /\ ClientDone(c) /\ OnlyClient
-----------------------------------------------------------------------------
(* update: whatever the status; the old items are deleted and the new ones  *)
(* created in one transaction at READ COMMITTED, where deleteMany does not  *)
(* see what another transaction is about to add.                            *)

\* Mutant of EditDelete: no transaction around the two.
EditDeleteAtOnce(d) ==
    /\ desk[d].pc = "idle" /\ Exists
    /\ desk' = [desk EXCEPT ![d] = [pc |-> "edit", items |-> items]]
    /\ items' = {}
    /\ UNCHANGED <<quote, edits, client, accepted, contracts, billing>>

EditDelete(d) ==
    /\ desk[d].pc = "idle" /\ Exists
    /\ desk' = [desk EXCEPT ![d] = [pc |-> "edit", items |-> items]]
    /\ OnlyDesk

\* The transaction commits; validUntil is set anew.
EditCommit(d) ==
    /\ desk[d].pc = "edit"
    /\ Exists
    /\ edits < MaxEdits
    /\ edits' = edits + 1
    /\ items' = (items \ desk[d].items) \cup {edits + 1}
    /\ \E live \in BOOLEAN : quote' = [quote EXCEPT !.live = live]
    /\ DeskDone(d)
    /\ UNCHANGED <<client, accepted, contracts, billing>>
-----------------------------------------------------------------------------
(* sendQuote, resendQuote, updateStatus, delete, convertToContract *)

SendRead(d) ==
    /\ desk[d].pc = "idle" /\ quote.status = "draft"
    /\ desk' = [desk EXCEPT ![d].pc = "send"]
    /\ OnlyDesk

ResendRead(d) ==
    /\ desk[d].pc = "idle" /\ quote.status \in {"sent", "declined", "expired"}
    /\ desk' = [desk EXCEPT ![d].pc = "send"]
    /\ OnlyDesk

\* Both write 'sent' and a fresh link.
SendWrite(d) ==
    /\ desk[d].pc = "send"
    /\ Exists
    /\ quote' = [quote EXCEPT !.status = "sent", !.linked = TRUE]
    /\ DeskDone(d)
    /\ UNCHANGED <<items, edits, client, accepted, contracts, billing>>

\* The owner decides for the client, whatever the status; nothing is billed.
UpdateStatus(d, new) ==
    /\ desk[d].pc = "idle"
    /\ PutQuote(new)
    /\ UNCHANGED <<items, edits, client, desk, accepted, contracts, billing>>

Delete(d) ==
    /\ desk[d].pc = "idle"
    /\ PutQuote("deleted")
    /\ items' = {}
    /\ UNCHANGED <<edits, client, desk, accepted, contracts, billing>>

ConvertRead(d) ==
    /\ desk[d].pc = "idle" /\ quote.status = "accepted"
    /\ desk' = [desk EXCEPT ![d] = [pc |-> "convert", items |-> items]]
    /\ OnlyDesk

ConvertCreate(d) ==
    /\ desk[d].pc = "convert"
    /\ contracts' = contracts \cup {desk[d].items}
    /\ DeskDone(d)
    /\ UNCHANGED <<quote, items, edits, client, accepted, billing>>

\* A call rejects, or the process stops; a transaction rolls back.
DeskFail(d) == desk[d].pc # "idle" /\ DeskDone(d) /\ OnlyDesk
-----------------------------------------------------------------------------
\* The job's updateMany names the status, so it is one step.
ExpireQuotes ==
    /\ quote.status = "sent" /\ ~quote.live
    /\ PutQuote("expired")
    /\ UNCHANGED <<items, edits, client, desk, accepted, contracts, billing>>

\* validUntil passes.
RunOut ==
    /\ quote.live
    /\ quote' = [quote EXCEPT !.live = FALSE]
    /\ UNCHANGED <<items, edits, client, desk, accepted, contracts, billing>>

SalesNext ==
    \/ \E c \in ClientReqs :
          \/ AcceptRead(c) \/ AcceptExpire(c) \/ AcceptWrite(c)
          \/ AcceptBill(c) \/ AcceptCall(c) \/ AcceptRecord(c)
          \/ DeclineRead(c) \/ DeclineWrite(c) \/ ClientFail(c)
    \/ \E d \in DeskReqs :
          \/ EditDelete(d) \/ EditCommit(d)
          \/ SendRead(d) \/ ResendRead(d) \/ SendWrite(d)
          \/ (\E new \in {"accepted", "declined"} : UpdateStatus(d, new))
          \/ Delete(d) \/ ConvertRead(d) \/ ConvertCreate(d) \/ DeskFail(d)
    \/ RetryNext /\ UNCHANGED <<quote, items, edits, client, desk, accepted, contracts>>
    \/ ExpireQuotes \/ RunOut

SalesSpec == SalesInit /\ [][SalesNext]_salesVars
-----------------------------------------------------------------------------
(***************************************************************************)
(* Every invoice is for an offer as it was when the client's acceptance    *)
(* was stored, although the owner may edit the quote before, during and    *)
(* after acceptance, and the client may accept twice at once.              *)
(***************************************************************************)
InvoicedAsAccepted ==
    \A i \in Rows : invoice[i].status # "absent" => invoice[i].items \in accepted

(***************************************************************************)
(* No acceptance, so no invoice, and no conversion into a contract finds   *)
(* the quote without items while an edit is replacing them.                *)
(***************************************************************************)
NothingEmptyAgreed == {} \notin accepted \cup contracts

(***************************************************************************)
(* An invoice once issued stays issued: neither the first attempt nor a    *)
(* retry that failed reports after a retry that succeeded.                 *)
(***************************************************************************)
IssuedStands ==
    [][\A i \in Rows : invoice[i].status = "issued" =>
                       invoice'[i].status = "issued"]_salesVars

(***************************************************************************)
(* For an issued invoice the provider has issued a document, for this very *)
(* invoice and its items, and the number it shows, if the provider told    *)
(* one, is that document's, whichever retry wrote it.                      *)
(***************************************************************************)
IssuedHasDocument ==
    \A i \in Rows : invoice[i].status = "issued" =>
        \E p \in documents : /\ p.row = i /\ p.items = invoice[i].items
                             /\ invoice[i].number \in {0, p.number}

(***************************************************************************)
(* The rows, the client's agreement and the provider's documents are a     *)
(* settlement: the handlers bill only what was agreed and each row once,   *)
(* whatever is edited meanwhile; a document is for a row there is, with    *)
(* its items; and a row is settled after a document of its own, for good.  *)
(***************************************************************************)
Billed == [i \in Rows |-> IF invoice[i].status = "absent" THEN {}
                                                          ELSE invoice[i].items]

Issued == {i \in Rows : invoice[i].status = "issued"}

Shown == [i \in Rows |-> invoice[i].number]

Sale == INSTANCE Settlement WITH
    Bills   <- Rows,
    Goods   <- Offers,
    Serials <- Numbers,
    agreed  <- accepted,
    billed  <- Billed,
    papers  <- documents,
    settled <- Issued,
    serial  <- Shown

SettlementKept == Sale!SettlementSpec

(***************************************************************************)
(* Why these hold: what the handlers have in hand (QuotesProofs).          *)
(***************************************************************************)
\* An answer of success to h has a document, that of the number if there is one.
AnswerHolds(h) ==
    h.ok => \E p \in documents : /\ p.row = h.row /\ p.items = h.items
                                 /\ h.number \in {0, p.number}

\* Only an issued invoice has a number.
NumbersIssued ==
    \A i \in Rows : invoice[i].status # "issued" => invoice[i].number = 0

\* An accepted offer stays with its request; the row it made is its alone until
\* it records the answer, since a retry wants a row that has failed.
ClientHolds(c) ==
    LET h == client[c] IN
    /\ h.pc \in {"bill", "call", "record"} => h.items \in accepted
    /\ h.pc \in {"call", "record"} =>
          h.row \in Rows /\ invoice[h.row].status = "pending"
                        /\ invoice[h.row].items = h.items
    /\ h.pc = "record" => AnswerHolds(h)

RetryHolds(r) ==
    LET h == retry[r] IN
    /\ h.pc # "idle" =>
          h.row \in Rows /\ invoice[h.row].status \in {"failed", "issued"}
                        /\ invoice[h.row].items = h.items
    /\ h.pc = "record" => AnswerHolds(h)

RowsApart == \A c, e \in ClientReqs :
    c # e /\ client[c].pc \in {"call", "record"} /\ client[e].pc \in {"call", "record"}
        => client[c].row # client[e].row

ItemsKept ==
    /\ Exists => items # {}
    /\ \A d \in DeskReqs : desk[d].pc = "convert" => desk[d].items # {}

OfferInv == SalesTypeOK /\ ItemsKept /\ NothingEmptyAgreed

BillingInv ==
    /\ InvoicedAsAccepted /\ IssuedHasDocument /\ NumbersIssued /\ RowsApart
    /\ \A c \in ClientReqs : ClientHolds(c)
    /\ \A r \in RetryReqs : RetryHolds(r)

\* The provider's next number is above those of all its documents.
NumbersUsed == \A p \in documents : p.number <= lastNumber
=============================================================================
