SPECIFICATION SalesSpec
CONSTANTS
    ClientReqs = {c1, c2}
    DeskReqs = {d1}
    RetryReqs = {r1, r2}
    MaxEdits = 1
    MaxInvoices = 1
    MaxDocuments = 2
SYMMETRY SalesSlots
INVARIANTS SalesTypeOK InvoicedAsAccepted NothingEmptyAgreed IssuedHasDocument
PROPERTIES SettlementKept
CHECK_DEADLOCK FALSE
