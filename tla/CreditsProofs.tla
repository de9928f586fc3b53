---------------------------- MODULE CreditsProofs ----------------------------
(***************************************************************************)
(* Overlapping requests never turn into more credits than were given, for  *)
(* any number of requests and any amounts: CreditInv is inductive.         *)
(***************************************************************************)
EXTENDS Credits, TLAPS

\* What the steps below use of the locals' types.
LEMMA HandTypes ==
    ASSUME CreditInv
    PROVE  /\ MaxEver \in Nat /\ Balances \subseteq Int
           /\ \A n \in Int : n \in Balances <=> -MaxEver <= n /\ n <= MaxEver
           /\ credits \in Int /\ latest \in Int /\ ever \in Nat
           /\ ever <= MaxEver
           /\ sends \in Nat
           /\ \A r \in CreditReqs : cred[r].seen \in Int /\ cred[r].amount \in Int
           /\ month.seen \in Int /\ month.amount \in Int
BY CreditAssumption DEF CreditInv, CreditTypeOK, CredState, MonthState, Balances

LEMMA CreditInitially == CreditInit => CreditInv
BY CreditAssumption DEF CreditInit, CreditInv, CreditTypeOK, CredState,
   MonthState, IdleCred, IdleMonth, CreditsBacked, HandsBacked, Balances

\* A request reads the balance.
LEMMA ReadKeeps ==
    ASSUME CreditInv, NEW r \in CreditReqs, NEW amount \in Int,
           NEW step \in {"deduct", "grant", "take"},
           step = "deduct" => CanSend,
           ReadBalance(r, step, amount)
    PROVE  CreditInv'
<1>1. CreditTypeOK'
  BY HandTypes DEF ReadBalance, CreditInv, CreditTypeOK, CredState
<1>2. CreditsBacked'
  BY DEF ReadBalance, CreditInv, CreditsBacked
<1>3. HandsBacked'
  BY DEF ReadBalance, CreditInv, CreditTypeOK, CreditsBacked, HandsBacked, CanSend
<1> QED  BY <1>1, <1>2, <1>3 DEF CreditInv

\* A request is over and has left ever as it was, or raised it.
LEMMA DoneKeepsHands ==
    ASSUME CreditInv, NEW r \in CreditReqs, CredDone(r),
           ever' \in Nat, ever' >= ever, month' = month
    PROVE  HandsBacked' /\ cred' \in [CreditReqs -> CredState]
<1>1. cred' \in [CreditReqs -> CredState]
  BY HandTypes DEF CredDone, CreditInv, CreditTypeOK, CredState, IdleCred
<1>2. \A q \in CreditReqs : cred'[q] = IF q = r THEN IdleCred ELSE cred[q]
  BY DEF CredDone, CreditInv, CreditTypeOK
<1>3. HandsBacked'
  BY <1>2, HandTypes DEF CreditInv, HandsBacked, IdleCred
<1> QED  BY <1>1, <1>3

LEMMA CommitKeeps ==
    ASSUME CreditInv, NEW r \in CreditReqs,
           DeductCommit(r) \/ GrantCommit(r) \/ ReferralBonus(r)
    PROVE  CreditInv'
<1>1. CASE DeductCommit(r)
  <2>1. HandsBacked' /\ cred' \in [CreditReqs -> CredState]
    BY <1>1, HandTypes, DoneKeepsHands DEF DeductCommit
  <2>2. CreditTypeOK'
    BY <1>1, <2>1, HandTypes DEF DeductCommit, CreditInv, CreditTypeOK, HandsBacked
  <2>3. CreditsBacked'
    BY <1>1, HandTypes DEF DeductCommit, CreditInv, CreditsBacked, HandsBacked
  <2> QED  BY <2>1, <2>2, <2>3 DEF CreditInv
<1>2. CASE GrantCommit(r)
  <2>0. ever' \in Nat /\ ever' >= ever /\ ever' >= ever + cred[r].amount
    BY <1>2, HandTypes DEF GrantCommit, Gain
  <2>1. HandsBacked' /\ cred' \in [CreditReqs -> CredState]
    BY <1>2, <2>0, DoneKeepsHands DEF GrantCommit
  <2>2. cred[r].seen <= ever
    BY DEF CreditInv, HandsBacked
  <2>3. CreditsBacked'
    BY <1>2, <2>0, <2>2, HandTypes DEF GrantCommit, CreditsBacked
  <2>4. ever' <= MaxEver /\ -MaxEver <= credits' /\ latest' = credits'
        /\ credits' \in Int
    BY <1>2, <2>0, HandTypes DEF GrantCommit, Gain
  <2>5. credits' \in Balances /\ latest' \in Balances
    BY <2>0, <2>3, <2>4, HandTypes DEF CreditsBacked
  <2>6. CreditTypeOK'
    BY <1>2, <2>0, <2>1, <2>4, <2>5, HandTypes
       DEF GrantCommit, CreditInv, CreditTypeOK
  <2> QED  BY <2>1, <2>3, <2>6 DEF CreditInv
<1>3. CASE ReferralBonus(r)
  <2>0. ever' \in Nat /\ ever' >= ever
    BY <1>3, HandTypes, CreditAssumption DEF ReferralBonus
  <2>1. HandsBacked' /\ cred' \in [CreditReqs -> CredState]
    BY <1>3, <2>0, DoneKeepsHands DEF ReferralBonus
  <2>2. CreditsBacked'
    BY <1>3, HandTypes, CreditAssumption
       DEF ReferralBonus, CreditInv, CreditsBacked
  <2>3. ever' <= MaxEver /\ credits' \in Int /\ -MaxEver <= credits'
    BY <1>3, HandTypes, CreditAssumption
       DEF ReferralBonus, CreditInv, CreditTypeOK
  <2>4. credits' \in Balances
    BY <2>0, <2>2, <2>3, HandTypes DEF CreditsBacked
  <2>5. CreditTypeOK'
    BY <1>3, <2>0, <2>1, <2>3, <2>4, HandTypes
       DEF ReferralBonus, CreditInv, CreditTypeOK
  <2> QED  BY <2>1, <2>2, <2>5 DEF CreditInv
<1> QED  BY <1>1, <1>2, <1>3

LEMMA MonthKeeps ==
    ASSUME CreditInv,
           MonthStart \/ MonthFind \/ MonthUpdate \/ MonthRow \/ MonthSkip
    PROVE  CreditInv'
<1> USE DEF CreditInv, CreditTypeOK, CreditsBacked, HandsBacked, MonthState
<1>1. CASE MonthStart  BY <1>1 DEF MonthStart
<1>2. CASE MonthFind
  <2>1. \A a \in month.left : a \in Nat /\ a > 0 /\ a \in Int
    BY CreditAssumption
  <2> QED  BY <1>2, <2>1, HandTypes DEF MonthFind, IdleMonth
<1>3. CASE MonthUpdate
  <2>1. ever' \in Nat /\ ever' >= ever /\ ever' <= MaxEver
        /\ -MaxEver <= credits' /\ credits' <= ever'
    BY <1>3, HandTypes DEF MonthUpdate
  <2> QED  BY <1>3, <2>1, HandTypes DEF MonthUpdate
<1>4. CASE MonthRow  BY <1>4, HandTypes DEF MonthRow
<1>5. CASE MonthSkip  BY <1>5 DEF MonthSkip
<1> QED  BY <1>1, <1>2, <1>3, <1>4, <1>5
-----------------------------------------------------------------------------
LEMMA CreditInvNext == CreditInv /\ [CreditNext]_creditVars => CreditInv'
<1> SUFFICES ASSUME CreditInv, [CreditNext]_creditVars PROVE CreditInv'
  OBVIOUS
<1>1. ASSUME NEW r \in CreditReqs,
             \/ DeductRead(r) \/ ReferralRead(r)
             \/ \E a \in Amounts : GrantRead(r, a)
      PROVE  CreditInv'
  BY <1>1, ReadKeeps, CreditAssumption
     DEF DeductRead, ReferralRead, GrantRead
<1>2. ASSUME NEW r \in CreditReqs,
             DeductCommit(r) \/ GrantCommit(r) \/ ReferralBonus(r)
      PROVE  CreditInv'
  BY <1>2, CommitKeeps
<1>3. ASSUME NEW r \in CreditReqs, ReferralTake(r) PROVE CreditInv'
  BY <1>3 DEF ReferralTake, CreditInv, CreditTypeOK, CredState,
              CreditsBacked, HandsBacked
<1>4. ASSUME NEW r \in CreditReqs, CredFail(r) PROVE CreditInv'
  <2>1. HandsBacked' /\ cred' \in [CreditReqs -> CredState]
    BY <1>4, HandTypes, DoneKeepsHands DEF CredFail
  <2> QED
    BY <1>4, <2>1 DEF CredFail, CreditInv, CreditTypeOK, CreditsBacked
<1>5. CASE MonthStart \/ MonthFind \/ MonthUpdate \/ MonthRow \/ MonthSkip
  BY <1>5, MonthKeeps
<1>6. CASE UNCHANGED creditVars
  BY <1>6 DEF creditVars, CreditInv, CreditTypeOK, CreditsBacked, HandsBacked
<1> QED  BY <1>1, <1>2, <1>3, <1>4, <1>5, <1>6 DEF CreditNext

\* Every reachable state of the balance, of what handlers have read of it and of the
\* monthly job is well typed, although each computes the balance it writes.
THEOREM CreditsWellTyped == CreditSpec => []CreditTypeOK
BY CreditInitially, CreditInvNext, PTL DEF CreditSpec, CreditInv

(***************************************************************************)
(* deductForSend, adminGrant, applyReferral and the monthly job may         *)
(* overwrite each other's balance, but never yield more than was given.    *)
(***************************************************************************)
THEOREM CreditsAreBacked == CreditSpec => []CreditsBacked
<1>1. CreditInv => CreditsBacked  BY DEF CreditInv
<1> QED  BY <1>1, CreditInitially, CreditInvNext, PTL DEF CreditSpec
=============================================================================
