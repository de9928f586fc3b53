----------------------------- MODULE MCServices -----------------------------
(***************************************************************************)
(* Seven parts of the back end on small instances.  They share no          *)
(* variable, so that a state of all of them that breaks a property of one  *)
(* is reached with the others at rest: a behaviour is one of one part.     *)
(* The tier is two of the choices, the events that change it and the       *)
(* limits that depend on it.                                               *)
(***************************************************************************)
EXTENDS TierLimits, PromoCodes, AuditChain, MaintenanceCache, PartnerMonitor,
        SignerOtp, Credits

VARIABLE part

accountVars == <<tierVars, limitVars>>

\* Amounts granted by hand: a correction downwards and a gift.
SomeAmounts == {-1, 1}

\* A table in which tiers differ, and one operation from the others that count the same.
Table == [op \in Ops |-> [t \in TierNames |->
            IF t \in Plans \/ (t = "pro_trial" /\ op = "convert") THEN 2 ELSE 1]]

ServicesInit ==
    /\ part \in {"tier", "limits", "promo", "audit", "maintenance", "monitor",
                 "otp", "credits"}
    /\ TierInit /\ LimitInit /\ PromoInit /\ ChainInit /\ MaintenanceInit /\ MonitorInit
    /\ OtpInit /\ CreditInit
    /\ part # "promo" => promo.max = 0

\* What changes the tier while requests count; one plan stands for all of them.
SomePlan == {p \in Plans : p = CHOOSE q \in Plans : TRUE}

SomeTierStep ==
    \/ TrialEnds \/ TrialFind \/ TrialWrite
    \/ \E new \in SomePlan \cup {"free"} : GiveTier(new)

\* The account is at rest while neither of its two choices is the part.
AccountStep ==
    \/ part = "tier" /\ TierNext /\ NewLimits
    \/ part = "limits" /\ LimitStep /\ UNCHANGED tierVars
    \/ part = "limits" /\ SomeTierStep /\ NewLimits
    \/ part \notin {"tier", "limits"} /\ UNCHANGED accountVars

ServicesNext ==
    /\ part' = part
    /\ AccountStep
    /\ IF part = "promo" THEN PromoNext ELSE UNCHANGED promoVars
    /\ IF part = "audit" THEN ChainNext ELSE UNCHANGED chainVars
    /\ IF part = "maintenance" THEN MaintenanceNext ELSE UNCHANGED maintenanceVars
    /\ IF part = "monitor" THEN MonitorNext ELSE UNCHANGED monitorVars
    /\ IF part = "otp" THEN OtpNext ELSE UNCHANGED otpVars
    /\ IF part = "credits" THEN CreditNext ELSE UNCHANGED creditVars

servicesVars == <<part, accountVars, promoVars, chainVars, maintenanceVars, monitorVars,
                  otpVars, creditVars>>

ServicesSpec == ServicesInit /\ [][ServicesNext]_servicesVars

\* The type invariants of the parts.
ServicesTypeOK ==
    /\ TierTypeOK /\ LimitTypeOK /\ PromoTypeOK
    /\ ChainTypeOK /\ MaintenanceTypeOK /\ MonitorTypeOK
    /\ OtpTypeOK /\ CreditTypeOK
=============================================================================
