--------------------------------- MODULE Tiers ---------------------------------
(***************************************************************************)
(* The tier of ONE user (users.subscriptionTier).  Stripe reports what     *)
(* happens to the subscription in events that arrive late, twice and in    *)
(* any order (BillingService.handleWebhook); a nightly job ends trials     *)
(* (SchedulerService.downgradeExpiredTrials); administrators and promo     *)
(* codes give tiers (AdminService).  Each of them writes the one field by  *)
(* the id of the user, whatever is in it by then.                          *)
(***************************************************************************)
EXTENDS Integers, FiniteSets

CONSTANTS
    Plans,       \* tiers that are sold
    StripeReqs,  \* events that can be in handling
    MaxEvents    \* bound: changes of the subscription

ASSUME TierAssumption ==
    /\ {"free", "pro_trial", "unlisted", "none"} \cap Plans = {}
    /\ MaxEvents \in Nat

TierNames == Plans \cup {"free", "pro_trial"}

\* A checkout takes any price of the shop, whether priceMap lists it or not.
Prices == Plans \cup {"unlisted"}

VARIABLES
    tier,      \* users.subscriptionTier
    trialOver, \* trialEndsAt is past
    plan,      \* price of each subscription at Stripe, numbered by the change that began it
    running,   \* the subscriptions not cancelled
    events,    \* what Stripe has reported
    changes,   \* number of changes so far
    handler,   \* local state of each event in handling
    trialJob,  \* local state of downgradeExpiredTrials
    given      \* tiers given by administrators and promo codes

tierVars == <<tier, trialOver, plan, running, events, changes, handler, trialJob, given>>

Subscriptions == 1 .. MaxEvents

StripeEvent == [type : {"completed", "updated", "deleted"},
                sub  : Subscriptions,
                plan : Prices]

HandlerState == [pc   : {"idle", "retrieve", "write"},
                 sub  : Subscriptions \cup {0},   \* to be retrieved
                 tier : TierNames]                \* to be written

TierTypeOK ==
    /\ tier \in TierNames
    /\ trialOver \in BOOLEAN
    /\ plan \in [Subscriptions -> Prices \cup {"none"}]
    /\ running \subseteq Subscriptions
    /\ events \subseteq StripeEvent /\ changes \in 0 .. MaxEvents
    /\ handler \in [StripeReqs -> HandlerState]
    /\ trialJob \in {"idle", "found"}
    /\ given \subseteq Plans \cup {"free"}

IdleHandler == [pc |-> "idle", sub |-> 0, tier |-> "free"]

\* register gives fourteen days of trial.
TierInit ==
    /\ tier = "pro_trial" /\ trialOver = FALSE
    /\ plan = [n \in Subscriptions |-> "none"]
    /\ running = {} /\ events = {} /\ changes = 0
    /\ handler = [r \in StripeReqs |-> IdleHandler]
    /\ trialJob = "idle" /\ given = {}

\* Mutant of MapPriceToTier: what is not listed is taken for a plan.
MapPriceToTierAny(p) == IF p \in Plans THEN p ELSE CHOOSE q \in Plans : TRUE

MapPriceToTier(p) == IF p \in Plans THEN p ELSE "free"

\* A subscription changes at Stripe, and Stripe reports it.
StripeReports(type, n, p) ==
    /\ changes < MaxEvents
    /\ changes' = changes + 1
    /\ plan' = [plan EXCEPT ![n] = p]
    /\ events' = events \cup {[type |-> type, sub |-> n, plan |-> p]}
    /\ UNCHANGED <<tier, trialOver, handler, trialJob, given>>

\* The user pays at a checkout of createCheckoutSession, which may be his second.
Subscribe(p) ==
    /\ StripeReports("completed", changes + 1, p)
    /\ running' = running \cup {changes + 1}

\* He changes the plan, or cancels, in the portal of createPortalSession.
ChangePlan(n, p) ==
    /\ n \in running /\ p # plan[n]
    /\ StripeReports("updated", n, p)
    /\ UNCHANGED running

CancelPlan(n) ==
    /\ n \in running
    /\ StripeReports("deleted", n, plan[n])
    /\ running' = running \ {n}
-----------------------------------------------------------------------------
(* handleWebhook.  An event stays in events: Stripe sends it until it gets *)
(* an answer, and possibly again.                                          *)

OnlyHandler == UNCHANGED <<trialOver, plan, running, events, changes, trialJob, given>>

Writing(t) == [pc |-> "write", sub |-> 0, tier |-> t]

\* The first call of the handler: the subscription at Stripe, or the row of the user.
StripeArrives(r) ==
    /\ handler[r].pc = "idle"
    /\ \E e \in events :
          handler' = [handler EXCEPT ![r] =
              CASE e.type = "completed" -> [pc |-> "retrieve", sub |-> e.sub, tier |-> "free"]
                [] e.type = "updated"   -> Writing(MapPriceToTier(e.plan))
                [] e.type = "deleted"   -> Writing("free")]
    /\ UNCHANGED tier /\ OnlyHandler

\* The price of the subscription as Stripe has it now, cancelled or not.
StripeRetrieve(r) ==
    /\ handler[r].pc = "retrieve"
    /\ handler' = [handler EXCEPT ![r] = Writing(MapPriceToTier(plan[handler[r].sub]))]
    /\ UNCHANGED tier /\ OnlyHandler

StripeWrite(r) ==
    /\ handler[r].pc = "write"
    /\ tier' = handler[r].tier
    /\ handler' = [handler EXCEPT ![r] = IdleHandler]
    /\ OnlyHandler

\* A call fails; Stripe gets no 2xx and sends the event again.
StripeFail(r) ==
    /\ handler[r].pc # "idle"
    /\ handler' = [handler EXCEPT ![r] = IdleHandler]
    /\ UNCHANGED tier /\ OnlyHandler
-----------------------------------------------------------------------------
(* The nightly job, and tiers that are given *)

TrialEnds ==
    /\ ~trialOver
    /\ trialOver' = TRUE
    /\ UNCHANGED <<tier, plan, running, events, changes, handler, trialJob, given>>

OnlyJob == UNCHANGED <<trialOver, plan, running, events, changes, handler, given>>

TrialFind ==
    /\ trialJob = "idle" /\ tier = "pro_trial" /\ trialOver
    /\ trialJob' = "found"
    /\ UNCHANGED tier /\ OnlyJob

\* The users found are set to 'free' by their ids.
TrialWrite ==
    /\ trialJob = "found"
    /\ tier' = "free" /\ trialJob' = "idle"
    /\ OnlyJob

TrialFail ==
    /\ trialJob = "found" /\ trialJob' = "idle"
    /\ UNCHANGED tier /\ OnlyJob

\* updateUser of an administrator, or a promo code with a targetTier.
GiveTier(new) ==
    /\ tier' = new /\ given' = given \cup {new}
    /\ UNCHANGED <<trialOver, plan, running, events, changes, handler, trialJob>>

TierNext ==
    \/ \E p \in Prices : Subscribe(p) \/ \E n \in Subscriptions : ChangePlan(n, p)
    \/ \E n \in Subscriptions : CancelPlan(n)
    \/ \E r \in StripeReqs :
          StripeArrives(r) \/ StripeRetrieve(r) \/ StripeWrite(r) \/ StripeFail(r)
    \/ TrialEnds \/ TrialFind \/ TrialWrite \/ TrialFail
    \/ \E new \in Plans \cup {"free"} : GiveTier(new)
-----------------------------------------------------------------------------
\* Plans the user has ever paid for.
Bought == {e.plan : e \in events}

\* Whatever order events come in and however often, a paid tier is one the user has
\* paid for or was given at some time.
TierEarned == tier \in Plans => tier \in Bought \cup given

\* Why this holds: it is true of every tier about to be written, and of every price a
\* subscription has at Stripe (ServicesProofs).
TierInv ==
    /\ TierTypeOK /\ TierEarned
    /\ \A n \in running : plan[n] \in Prices
    /\ \A n \in Subscriptions : plan[n] \in Plans => plan[n] \in Bought
    /\ \A r \in StripeReqs :
          /\ handler[r].pc = "retrieve" => handler[r].sub \in Subscriptions
          /\ handler[r].tier \in Plans => handler[r].tier \in Bought \cup given
=============================================================================
