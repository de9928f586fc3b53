------------------------------- MODULE Credits -------------------------------
(***************************************************************************)
(* The sending credits of ONE user (users.sendCredits): CreditsService,    *)
(* the bonus of ReferralsService.applyReferral and the monthly job of      *)
(* SchedulerService.  A balance is read, computed in the process and       *)
(* written back as an absolute number.  The transactions around it run at  *)
(* PostgreSQL's default, READ COMMITTED: they make the writes atomic but   *)
(* keep nobody from changing what was read.                                *)
(***************************************************************************)
EXTENDS Integers

CONSTANTS
    CreditReqs,     \* requests about this user's credits that can be in progress
    Amounts,        \* amounts an administrator grants, negative ones included
    MonthlyAmounts, \* TIER_MONTHLY_CREDITS
    Bonus,          \* credits for a referral, 5 in the code
    MaxEver         \* bound: credits ever given to the user, and his debt

ASSUME CreditAssumption ==
    /\ Amounts \subseteq Int
    /\ MonthlyAmounts \subseteq Nat \ {0}
    /\ Bonus \in Nat \ {0}
    /\ MaxEver \in Nat

VARIABLES
    credits,  \* users.sendCredits
    latest,   \* balance in the latest row of credit_transactions
    referral, \* this user's referral row: referredId is null ("open") or set
    cred,     \* local state of each request
    month,    \* local state of the monthly job
    ever,     \* all credits ever given to the user
    sends     \* rows of type 'usage': contracts sent

creditVars == <<credits, latest, referral, cred, month, ever, sends>>

\* What the bound leaves of Int.
Balances == -MaxEver .. MaxEver

CredState == [pc : {"idle", "deduct", "grant", "take", "bonus"},
              seen : Balances,      \* sendCredits as read
              amount : Int]         \* to be added to it

MonthState == [pc : {"idle", "find", "update", "row"},
               left : SUBSET MonthlyAmounts,  \* tiers still to be treated
               seen : Balances, amount : Int]

CreditTypeOK ==
    /\ credits \in Balances
    /\ latest \in Balances
    /\ referral \in {"open", "taken"}
    /\ cred \in [CreditReqs -> CredState]
    /\ month \in MonthState
    /\ ever \in 0 .. MaxEver
    /\ sends \in Nat

IdleCred == [pc |-> "idle", seen |-> 0, amount |-> 0]
IdleMonth == [pc |-> "idle", left |-> {}, seen |-> 0, amount |-> 0]

CreditInit ==
    /\ credits = 0 /\ latest = 0 /\ ever = 0 /\ sends = 0
    /\ referral = "open"
    /\ cred = [r \in CreditReqs |-> IdleCred]
    /\ month = IdleMonth

CredDone(r) == cred' = [cred EXCEPT ![r] = IdleCred]

Gain(n) == IF n > 0 THEN n ELSE 0

\* The balance read when a transaction began, for amount to be added to it.
ReadBalance(r, step, amount) ==
    /\ cred[r].pc = "idle"
    /\ cred' = [cred EXCEPT ![r] = [pc |-> step, seen |-> credits, amount |-> amount]]
    /\ UNCHANGED <<credits, latest, referral, month, ever, sends>>
-----------------------------------------------------------------------------
(* deductForSend, for an owner of role 'user' *)

CanSend == credits >= 1

DeductRead(r) == CanSend /\ ReadBalance(r, "deduct", -1)

\* The transaction commits: the balance and the 'usage' row.
DeductCommit(r) ==
    /\ cred[r].pc = "deduct"
    /\ credits' = cred[r].seen - 1
    /\ latest' = cred[r].seen - 1
    /\ sends' = sends + 1
    /\ CredDone(r)
    /\ UNCHANGED <<referral, month, ever>>
-----------------------------------------------------------------------------
(* adminGrant; nothing checks the sign of the amount. *)

GrantRead(r, amount) == ReadBalance(r, "grant", amount)

\* Mutant of GrantCommit: {increment: newBalance}.
GrantCommitTwice(r) ==
    LET new == credits + cred[r].seen + cred[r].amount IN
    /\ cred[r].pc = "grant"
    /\ ever + Gain(cred[r].amount) <= MaxEver /\ new >= -MaxEver
    /\ credits' = new /\ latest' = new
    /\ ever' = ever + Gain(cred[r].amount)
    /\ CredDone(r)
    /\ UNCHANGED <<referral, month, sends>>

GrantCommit(r) ==
    LET new == cred[r].seen + cred[r].amount IN
    /\ cred[r].pc = "grant"
    /\ ever + Gain(cred[r].amount) <= MaxEver /\ new >= -MaxEver
    /\ credits' = new /\ latest' = new
    /\ ever' = ever + Gain(cred[r].amount)
    /\ CredDone(r)
    /\ UNCHANGED <<referral, month, sends>>
-----------------------------------------------------------------------------
(* applyReferral: the row is read, taken by its id, and only then paid for. *)

ReferralRead(r) == referral = "open" /\ ReadBalance(r, "take", Bonus)

ReferralTake(r) ==
    /\ cred[r].pc = "take"
    /\ referral' = "taken"
    /\ cred' = [cred EXCEPT ![r].pc = "bonus"]
    /\ UNCHANGED <<credits, latest, month, ever, sends>>

\* {increment: 5}, with no row in credit_transactions.
ReferralBonus(r) ==
    /\ cred[r].pc = "bonus"
    /\ ever + Bonus <= MaxEver
    /\ credits' = credits + Bonus
    /\ ever' = ever + Bonus
    /\ CredDone(r)
    /\ UNCHANGED <<latest, referral, month, sends>>
-----------------------------------------------------------------------------
(* grantMonthlyCredits: the tiers one after the other.  The user's tier is  *)
(* other modules' business and may change at any time, so it is a choice   *)
(* whether he is found in a tier.                                          *)

MonthStart ==
    /\ month.pc = "idle"
    /\ month' = [month EXCEPT !.pc = "find", !.left = MonthlyAmounts]
    /\ UNCHANGED <<credits, latest, referral, cred, ever, sends>>

MonthFind ==
    /\ month.pc = "find"
    /\ \/ \E a \in month.left :
             /\ \A b \in month.left : a <= b
             /\ \/ month' = [month EXCEPT !.left = @ \ {a}]
                \/ month' = [pc |-> "update", left |-> month.left \ {a},
                             seen |-> credits, amount |-> a]
       \/ month.left = {} /\ month' = IdleMonth
    /\ UNCHANGED <<credits, latest, referral, cred, ever, sends>>

MonthUpdate ==
    /\ month.pc = "update"
    /\ ever + month.amount <= MaxEver
    /\ credits' = month.seen + month.amount
    /\ ever' = ever + month.amount
    /\ month' = [month EXCEPT !.pc = "row"]
    /\ UNCHANGED <<latest, referral, cred, sends>>

MonthRow ==
    /\ month.pc = "row"
    /\ latest' = month.seen + month.amount
    /\ month' = [month EXCEPT !.pc = "find"]
    /\ UNCHANGED <<credits, referral, cred, ever, sends>>

\* A call for this user rejects; the loop goes on with the next tier.
MonthSkip ==
    /\ month.pc \in {"update", "row"}
    /\ month' = [month EXCEPT !.pc = "find"]
    /\ UNCHANGED <<credits, latest, referral, cred, ever, sends>>
-----------------------------------------------------------------------------
\* A request's call rejects (its transaction rolls back) or the process stops.
CredFail(r) ==
    /\ cred[r].pc # "idle"
    /\ CredDone(r)
    /\ UNCHANGED <<credits, latest, referral, month, ever, sends>>

CreditNext ==
    \/ \E r \in CreditReqs :
          \/ DeductRead(r) \/ DeductCommit(r)
          \/ (\E a \in Amounts : GrantRead(r, a)) \/ GrantCommit(r)
          \/ ReferralRead(r) \/ ReferralTake(r) \/ ReferralBonus(r)
          \/ CredFail(r)
    \/ MonthStart \/ MonthFind \/ MonthUpdate \/ MonthRow \/ MonthSkip

CreditSpec == CreditInit /\ [][CreditNext]_creditVars
-----------------------------------------------------------------------------
(***************************************************************************)
(* Overlapping requests and the monthly job overwrite each other's         *)
(* balances, and what was spent may come back that way; but no overlap     *)
(* yields more than was ever given, in the balance or in the ledger row.   *)
(***************************************************************************)
CreditsBacked == credits <= ever /\ latest <= ever

(***************************************************************************)
(* "Deduct 1 credit when sending a contract.  Throws if insufficient       *)
(* credits" (credits.service.ts:50): no more contracts sent than credits   *)
(* ever given.                                                             *)
(***************************************************************************)
SendsCovered == sends <= ever

(***************************************************************************)
(* Why credits are backed: every balance a handler still has in hand was   *)
(* once backed, and what was given is never taken from ever.               *)
(***************************************************************************)
HandsBacked ==
    /\ \A r \in CreditReqs :
          /\ cred[r].seen <= ever
          /\ cred[r].pc = "deduct" => cred[r].seen >= 1
    /\ month.seen <= ever
    /\ month.pc \in {"update", "row"} => month.amount > 0
    /\ month.pc = "row" => month.seen + month.amount <= ever

CreditInv == CreditTypeOK /\ CreditsBacked /\ HandsBacked
=============================================================================
