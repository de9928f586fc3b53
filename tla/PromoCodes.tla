------------------------------ MODULE PromoCodes ------------------------------
(***************************************************************************)
(* ONE promo code and the users who redeem it (AdminService): the test of  *)
(* usedCount, the tier, the usage row and the increment of usedCount are   *)
(* calls of their own, and administrators change the code meanwhile.       *)
(***************************************************************************)
EXTENDS Integers, FiniteSets

CONSTANTS
    Users,      \* users who may redeem the code
    PromoReqs,  \* requests that redeem it and can be in progress
    MaxUses     \* values an administrator gives maxUses; 0 stands for none

ASSUME PromoAssumption ==
    /\ MaxUses \subseteq Nat
    /\ IsFiniteSet(Users) /\ IsFiniteSet(PromoReqs)

VARIABLES
    promo,   \* the row of promo_codes
    usages,  \* users with a row in promo_code_usages, unique per user
    redeem,  \* local state of each request
    maxes,   \* every value maxUses has had
    lost     \* increments that failed after their usage row was made

promoVars == <<promo, usages, redeem, maxes, lost>>

PromoRow == [present : BOOLEAN,
             usable  : BOOLEAN,    \* active, and validUntil is not past
             used    : Nat,        \* usedCount
             max     : MaxUses]    \* maxUses

RedeemState == [pc   : {"idle", "lookup", "upgrade", "record", "count"},
                user : Users \cup {"none"}]

PromoTypeOK ==
    /\ promo \in PromoRow
    /\ usages \subseteq Users
    /\ redeem \in [PromoReqs -> RedeemState]
    /\ maxes \subseteq MaxUses
    /\ lost \in Nat

IdleRedeem == [pc |-> "idle", user |-> "none"]

\* createPromoCode
PromoInit ==
    /\ \E m \in MaxUses :
          /\ promo = [present |-> TRUE, usable |-> TRUE, used |-> 0, max |-> m]
          /\ maxes = {m}
    /\ usages = {} /\ lost = 0
    /\ redeem = [r \in PromoReqs |-> IdleRedeem]

RedeemDone(r) == redeem' = [redeem EXCEPT ![r] = IdleRedeem]

RedeemGoto(r, step) == redeem' = [redeem EXCEPT ![r].pc = step]

OnlyRedeem == UNCHANGED <<promo, usages, maxes, lost>>

\* Mutant of UsesLeft: the limit itself is let through.
UsesLeftOver == promo.max = 0 \/ promo.used <= promo.max

\* maxUses null or 0 is no limit.
UsesLeft == promo.max = 0 \/ promo.used < promo.max
-----------------------------------------------------------------------------
(* applyPromoCode *)

RedeemRead(r, u) ==
    /\ redeem[r].pc = "idle"
    /\ promo.present /\ promo.usable /\ UsesLeft
    /\ redeem' = [redeem EXCEPT ![r] = [pc |-> "lookup", user |-> u]]
    /\ OnlyRedeem

\* Has this user redeemed the code?
RedeemLookup(r) ==
    /\ redeem[r].pc = "lookup"
    /\ IF redeem[r].user \in usages THEN RedeemDone(r) ELSE RedeemGoto(r, "upgrade")
    /\ OnlyRedeem

\* The tier of a 'tier_upgrade' code, which Tiers!GiveTier models.
RedeemUpgrade(r) ==
    /\ redeem[r].pc = "upgrade"
    /\ RedeemGoto(r, "record")
    /\ OnlyRedeem

\* Mutant of RedeemRecord: the row is upserted.
RedeemRecordAgain(r) ==
    /\ redeem[r].pc = "record" /\ promo.present
    /\ usages' = usages \cup {redeem[r].user}
    /\ RedeemGoto(r, "count")
    /\ UNCHANGED <<promo, maxes, lost>>

\* The usage row, which the unique index and the foreign key may refuse.
RedeemRecord(r) ==
    /\ redeem[r].pc = "record"
    /\ promo.present /\ redeem[r].user \notin usages
    /\ usages' = usages \cup {redeem[r].user}
    /\ RedeemGoto(r, "count")
    /\ UNCHANGED <<promo, maxes, lost>>

\* The increment is made by the database, so none is lost to another.
RedeemCount(r) ==
    /\ redeem[r].pc = "count" /\ promo.present
    /\ promo' = [promo EXCEPT !.used = @ + 1]
    /\ RedeemDone(r)
    /\ UNCHANGED <<usages, maxes, lost>>

\* A call fails, or is refused; what was written stays.
RedeemFail(r) ==
    /\ redeem[r].pc # "idle"
    /\ lost' = IF redeem[r].pc = "count" THEN lost + 1 ELSE lost
    /\ RedeemDone(r)
    /\ UNCHANGED <<promo, usages, maxes>>
-----------------------------------------------------------------------------
(* Administrators *)

\* updatePromoCode, and the passing of validUntil
UpdatePromo(usable, m) ==
    /\ promo.present
    /\ promo' = [promo EXCEPT !.usable = usable, !.max = m]
    /\ maxes' = maxes \cup {m}
    /\ UNCHANGED <<usages, redeem, lost>>

\* deletePromoCode: the usages go with the row.
DeletePromo ==
    /\ promo.present
    /\ promo' = [promo EXCEPT !.present = FALSE]
    /\ usages' = {}
    /\ UNCHANGED <<redeem, maxes, lost>>

PromoNext ==
    \/ \E r \in PromoReqs :
          \/ \E u \in Users : RedeemRead(r, u)
          \/ RedeemLookup(r) \/ RedeemUpgrade(r) \/ RedeemRecord(r)
          \/ RedeemCount(r) \/ RedeemFail(r)
    \/ \E usable \in BOOLEAN, m \in MaxUses : UpdatePromo(usable, m)
    \/ DeletePromo

PromoSpec == PromoInit /\ [][PromoNext]_promoVars
-----------------------------------------------------------------------------
\* Requests that passed the test of usedCount and have not made their row yet, and those
\* that have not counted it.
Redeeming == {r \in PromoReqs : redeem[r].pc \in {"lookup", "upgrade", "record"}}
Counting == {r \in PromoReqs : redeem[r].pc = "count"}

\* usedCount is the number of users who redeemed the code, but for requests still at it
\* and increments that failed.
UsesCounted ==
    promo.present => Cardinality(usages) = promo.used + Cardinality(Counting) + lost

\* A code with a limit is redeemed by no more users than that, but for requests tested
\* at the same time and increments that failed.
UsesLimited ==
    promo.present /\ 0 \notin maxes =>
        \E m \in maxes :
            Cardinality(usages) + Cardinality(Redeeming)
                <= m + Cardinality(PromoReqs) - 1 + lost

\* Why these hold: the first is needed for the second (ServicesProofs).
PromoInv ==
    /\ PromoTypeOK /\ UsesCounted /\ UsesLimited
    /\ promo.max \in maxes
    /\ \A r \in PromoReqs : redeem[r].pc # "idle" => redeem[r].user \in Users
=============================================================================
