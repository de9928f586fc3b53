------------------------------ MODULE TierLimits ------------------------------
(***************************************************************************)
(* The monthly limits of the tier of ONE user of role 'user': contracts    *)
(* made by ContractsService.create, QuotesService.convertToContract and    *)
(* ContractsService.duplicate, quotes made by QuotesService.create and     *)
(* duplicate.  Each request reads the tier, counts the rows of the month,  *)
(* and creates its row a PDF, an upload and other calls later; nothing     *)
(* keeps the count from changing in between.                               *)
(***************************************************************************)
EXTENDS Tiers

CONSTANTS
    MakeReqs,  \* requests that make rows and can be in progress
    Limit,     \* contractLimits, contractTierLimits and quoteTierLimits
    MaxRows    \* bound: rows of a kind in a month

Ops == {"contract", "convert", "quote"}

Kinds == {"contract", "quote"}

\* What the request makes, and counts.
Kind(op) == IF op = "quote" THEN "quote" ELSE "contract"

ASSUME LimitAssumption ==
    /\ Limit \in [Ops -> [TierNames -> Nat \ {0}]]
    /\ MaxRows \in Nat
    /\ IsFiniteSet(MakeReqs)

VARIABLES
    made,    \* rows of each kind made this month by a request that counted
    copies,  \* contracts duplicated this month, which counts nothing
    maker,   \* local state of each request
    allowed  \* limits the user had this month, or had read in a request still going on

limitVars == <<made, copies, maker, allowed>>

MakerState == [pc : {"idle", "count", "create"}, op : Ops, max : Nat]

LimitTypeOK ==
    /\ made \in [Kinds -> Nat] /\ copies \in Nat
    /\ maker \in [MakeReqs -> MakerState]
    /\ allowed \in [Kinds -> SUBSET Nat]

IdleMaker == [pc |-> "idle", op |-> "quote", max |-> 0]

\* The limits a tier gives.
LimitsOf(t) == [k \in Kinds |-> {Limit[op][t] : op \in {o \in Ops : Kind(o) = k}}]

LimitInit ==
    /\ made = [k \in Kinds |-> 0] /\ copies = 0
    /\ maker = [r \in MakeReqs |-> IdleMaker]
    /\ allowed = LimitsOf(tier)

MakerDone(r) == maker' = [maker EXCEPT ![r] = IdleMaker]

\* The user row with its tier is read.
MakeRead(r, op) ==
    /\ maker[r].pc = "idle"
    /\ maker' = [maker EXCEPT ![r] = [pc |-> "count", op |-> op, max |-> Limit[op][tier]]]
    /\ UNCHANGED <<made, copies, allowed>>

\* Rows with createdAt in this month.
Counted(k) == made[k] + (IF k = "contract" THEN copies ELSE 0)

\* Mutant of WithinLimit: one row too many.
WithinLimitOver(r) == Counted(Kind(maker[r].op)) <= maker[r].max

WithinLimit(r) == Counted(Kind(maker[r].op)) < maker[r].max

MakeCount(r) ==
    /\ maker[r].pc = "count"
    /\ IF WithinLimit(r)
       THEN maker' = [maker EXCEPT ![r].pc = "create"]
       ELSE MakerDone(r)
    /\ UNCHANGED <<made, copies, allowed>>

\* The row, after everything else the request does.
MakeCreate(r) ==
    LET k == Kind(maker[r].op)
    IN  /\ maker[r].pc = "create" /\ made[k] < MaxRows
        /\ made' = [made EXCEPT ![k] = @ + 1]
        /\ MakerDone(r)
        /\ UNCHANGED <<copies, allowed>>

MakeFail(r) ==
    /\ maker[r].pc # "idle"
    /\ MakerDone(r)
    /\ UNCHANGED <<made, copies, allowed>>

\* ContractsService.duplicate
CopyContract ==
    /\ copies < MaxRows
    /\ copies' = copies + 1
    /\ UNCHANGED <<made, maker, allowed>>

\* Mutant of DeleteQuote: a quote of an earlier month is taken off too.
DeleteQuoteOld ==
    /\ made' = [made EXCEPT !["quote"] = @ - 1]
    /\ UNCHANGED <<copies, maker, allowed>>

\* QuotesService.delete of a quote of this month
DeleteQuote ==
    /\ made["quote"] > 0
    /\ made' = [made EXCEPT !["quote"] = @ - 1]
    /\ UNCHANGED <<copies, maker, allowed>>

\* The first of the month: only requests still going on remember the old limits.
MonthBegins ==
    /\ made' = [k \in Kinds |-> 0] /\ copies' = 0
    /\ allowed' = [k \in Kinds |-> LimitsOf(tier)[k] \cup
                      {maker[r].max : r \in {q \in MakeReqs : /\ maker[q].pc # "idle"
                                                              /\ Kind(maker[q].op) = k}}]
    /\ UNCHANGED maker

LimitStep ==
    \/ \E r \in MakeReqs :
          \/ \E op \in Ops : MakeRead(r, op)
          \/ MakeCount(r) \/ MakeCreate(r) \/ MakeFail(r)
    \/ CopyContract \/ DeleteQuote \/ MonthBegins

\* A change of tier brings its limits with it.
NewLimits ==
    /\ allowed' = [k \in Kinds |-> allowed[k] \cup LimitsOf(tier')[k]]
    /\ UNCHANGED <<made, copies, maker>>

LimitNext ==
    \/ LimitStep /\ UNCHANGED tierVars
    \/ TierNext /\ NewLimits

LimitSpec == TierInit /\ LimitInit /\ [][LimitNext]_<<tierVars, limitVars>>
-----------------------------------------------------------------------------
\* Requests that passed the test for a kind and have not made their row yet.
Passed(k) == {r \in MakeReqs : maker[r].pc = "create" /\ Kind(maker[r].op) = k}

\* The rows a user makes in a month stay within a limit his tier gave him that month, but
\* for the requests that were tested at the same time: together they may exceed it by
\* one less than their number, and no sequence of calls by more.
MonthlyLimitHeld ==
    \A k \in Kinds : \E m \in allowed[k] :
        made[k] + Cardinality(Passed(k)) <= m + Cardinality(MakeReqs) - 1

\* Why this holds: every limit a request has read is one that was allowed (ServicesProofs).
LimitInv ==
    /\ LimitTypeOK /\ MonthlyLimitHeld
    /\ \A k \in Kinds : LimitsOf(tier)[k] \subseteq allowed[k]
    /\ \A r \in MakeReqs : maker[r].pc # "idle" => maker[r].max \in allowed[Kind(maker[r].op)]
=============================================================================
