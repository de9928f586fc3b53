---------------------------- MODULE WebhooksProofs ----------------------------
(***************************************************************************)
(* The failure counter and the tries of a hook, for any number of          *)
(* overlapping deliveries, keys, retries and events: HookInv of Webhooks   *)
(* is inductive.                                                           *)
(***************************************************************************)
EXTENDS Webhooks, TLAPS

\* What the proofs below use of the types.
LEMMA HookTypes ==
    ASSUME HookInv
    PROVE  /\ hook \in HookRow /\ hook.failed \in Nat
           /\ recent \subseteq Keys
           /\ delivery \in [Deliveries -> DeliveryState]
           /\ \A d \in Deliveries : /\ delivery[d].seen \in Nat
                                    /\ delivery[d].try \in 0 .. MaxRetries
                                    /\ delivery[d].key \in Keys \cup {"none"}
           /\ sent \in 0 .. MaxEvents
           /\ exhausted \in Nat /\ streak \in Nat
BY DEF HookInv, HookTypeOK, HookRow, DeliveryState

LEMMA IdleTyped == IdleDelivery \in DeliveryState
BY WebhookAssumption DEF IdleDelivery, DeliveryState

LEMMA HookInitially == HookInit => HookInv
<1> SUFFICES ASSUME HookInit PROVE HookInv  OBVIOUS
<1>1. HookTypeOK
  BY WebhookAssumption, IdleTyped DEF HookInit, HookTypeOK, HookRow
<1>2. HonestCounter /\ NotSwitchedOffEarly
  BY DEF HookInit, HonestCounter, NotSwitchedOffEarly, IdleDelivery
<1>3. KeysGiven
  BY DEF HookInit, KeysGiven, AtStep, IdleDelivery
<1> QED  BY <1>1, <1>2, <1>3 DEF HookInv

\* A delivery that goes on as before, or ends, disturbs nothing: it carries the count it
\* had, and is not about to begin.
LEMMA QuietDelivery ==
    ASSUME HookInv, NEW d \in Deliveries, NEW new \in DeliveryState,
           delivery' = [delivery EXCEPT ![d] = new],
           new.seen <= delivery[d].seen, new.pc # "begin",
           UNCHANGED <<hook, recent, sent, exhausted, streak>>
    PROVE  HookInv'
<1> USE HookTypes
<1>1. HookTypeOK'  BY DEF HookInv, HookTypeOK
<1>2. HonestCounter'
  <2>1. new.seen <= exhausted  BY DEF HookInv, HonestCounter, DeliveryState
  <2> QED  BY <2>1 DEF HookInv, HonestCounter
<1>3. NotSwitchedOffEarly'  BY DEF HookInv, NotSwitchedOffEarly
<1>4. KeysGiven'  BY DEF HookInv, KeysGiven, AtStep
<1> QED  BY <1>1, <1>2, <1>3, <1>4 DEF HookInv

LEMMA GotoIsQuiet ==
    ASSUME HookInv, NEW d \in Deliveries, NEW step \in {"post", "clear", "count"},
           Goto(d, step), UNCHANGED <<hook, recent, sent, exhausted, streak>>
    PROVE  HookInv'
<1> DEFINE new == [delivery[d] EXCEPT !.pc = step]
<1>1. new \in DeliveryState /\ new.seen = delivery[d].seen /\ new.pc = step
  BY HookTypes DEF DeliveryState
<1>2. delivery' = [delivery EXCEPT ![d] = new]  BY DEF Goto
<1>3. new.seen <= delivery[d].seen  BY <1>1, HookTypes
<1> HIDE DEF new
<1> QED  BY <1>1, <1>2, <1>3, QuietDelivery

LEMMA DoneIsQuiet ==
    ASSUME HookInv, NEW d \in Deliveries,
           HookDone(d), UNCHANGED <<hook, recent, sent, exhausted, streak>>
    PROVE  HookInv'
<1>1. IdleDelivery.seen <= delivery[d].seen /\ IdleDelivery.pc # "begin"
  BY HookTypes DEF IdleDelivery
<1> QED  BY <1>1, IdleTyped, QuietDelivery DEF HookDone

LEMMA NextTryIsQuiet ==
    ASSUME HookInv, NEW d \in Deliveries,
           NextTry(d), UNCHANGED <<hook, recent, sent, exhausted, streak>>
    PROVE  HookInv'
<1>1. CASE delivery[d].try < MaxRetries
  <2> DEFINE new == [delivery[d] EXCEPT !.pc = "post", !.try = @ + 1]
  <2>1. delivery[d] \in DeliveryState /\ delivery[d].try + 1 \in 0 .. MaxRetries
    BY <1>1, HookTypes, WebhookAssumption
  <2>2. new \in DeliveryState /\ new.seen = delivery[d].seen /\ new.pc = "post"
    BY <2>1 DEF DeliveryState
  <2>3. delivery' = [delivery EXCEPT ![d] = new]  BY <1>1 DEF NextTry
  <2>4. new.seen <= delivery[d].seen  BY <2>2, HookTypes
  <2> HIDE DEF new
  <2> QED  BY <2>2, <2>3, <2>4, QuietDelivery
<1>2. CASE ~(delivery[d].try < MaxRetries)
  BY <1>2, GotoIsQuiet DEF NextTry
<1> QED  BY <1>1, <1>2
-----------------------------------------------------------------------------
(* The steps of a delivery *)

LEMMA ReadHooksKeeps ==
    ASSUME HookInv, NEW d \in Deliveries, NEW k \in Keys, ReadHooks(d, k)
    PROVE  HookInv'
<1> USE HookTypes
<1> DEFINE new == [pc |-> "begin", key |-> k, seen |-> hook.failed, try |-> 0]
<1>1. new \in DeliveryState  BY WebhookAssumption DEF DeliveryState
<1>2. /\ delivery' = [delivery EXCEPT ![d] = new]
      /\ UNCHANGED <<hook, recent, exhausted, streak>>
  BY DEF ReadHooks
<1>3. sent' \in 0 .. MaxEvents  BY WebhookAssumption DEF ReadHooks
<1>4. HookTypeOK'  BY <1>1, <1>2, <1>3 DEF HookInv, HookTypeOK
<1>5. HonestCounter'  BY <1>2 DEF HookInv, HonestCounter
<1>6. NotSwitchedOffEarly'  BY <1>2 DEF HookInv, NotSwitchedOffEarly
<1>7. KeysGiven'  BY <1>2 DEF HookInv, KeysGiven, AtStep
<1> QED  BY <1>4, <1>5, <1>6, <1>7 DEF HookInv

\* A delivery that begins has a key to remember.
LEMMA BeginKeeps ==
    ASSUME HookInv, NEW d \in Deliveries, Begin(d) PROVE HookInv'
<1> USE HookTypes
<1> DEFINE k == delivery[d].key
<1>1. /\ k \in Keys /\ recent' \in {recent, recent \cup {k}}
      /\ UNCHANGED <<hook, sent, exhausted, streak>>
      /\ Goto(d, "post") \/ HookDone(d)
  BY DEF Begin, HookInv, KeysGiven
<1>2. PICK new \in DeliveryState :
         /\ delivery' = [delivery EXCEPT ![d] = new]
         /\ new.seen \in {0, delivery[d].seen} /\ new.pc # "begin"
  <2>1. CASE Goto(d, "post")
    <3> DEFINE h == [delivery[d] EXCEPT !.pc = "post"]
    <3>1. h \in DeliveryState /\ h.seen = delivery[d].seen /\ h.pc = "post"
      BY DEF DeliveryState
    <3> QED  BY <2>1, <3>1 DEF Goto
  <2>2. CASE HookDone(d)
    BY <2>2, IdleTyped DEF HookDone, IdleDelivery
  <2> QED  BY <1>1, <2>1, <2>2
<1>3. HookTypeOK'  BY <1>1, <1>2 DEF HookInv, HookTypeOK
<1>4. HonestCounter'  BY <1>1, <1>2 DEF HookInv, HonestCounter
<1>5. NotSwitchedOffEarly'  BY <1>1 DEF HookInv, NotSwitchedOffEarly
<1>6. KeysGiven'  BY <1>2 DEF HookInv, KeysGiven, AtStep
<1> QED  BY <1>3, <1>4, <1>5, <1>6 DEF HookInv

\* One more delivery has used up its tries than when the counter was read.
LEMMA RecordFailureKeeps ==
    ASSUME HookInv, NEW d \in Deliveries, RecordFailure(d) PROVE HookInv'
<1> USE HookTypes
<1> DEFINE n == FailedCount(d)
<1>1. n \in Nat /\ n <= exhausted + 1
  BY DEF FailedCount, HookInv, HonestCounter
<1>2. /\ exhausted' = exhausted + 1 /\ streak' = streak + 1
      /\ HookDone(d)
      /\ UNCHANGED <<recent, sent>>
      /\ hook' = [hook EXCEPT !.failed = n, !.active = hook.active /\ ~(n >= Threshold),
                              !.error = IF n >= Threshold THEN "disabled" ELSE "failed"]
  BY DEF RecordFailure
<1> HIDE DEF n
<1>3. /\ hook' \in HookRow /\ hook'.failed = n
      /\ hook'.error = "disabled" => n >= Threshold
  BY <1>1, <1>2 DEF HookRow
<1>4. HookTypeOK'
  BY <1>2, <1>3, IdleTyped DEF HookInv, HookTypeOK, HookDone
<1>5. HonestCounter'
  BY <1>1, <1>2, <1>3 DEF HookInv, HonestCounter, HookDone, IdleDelivery
<1>6. NotSwitchedOffEarly'
  BY <1>1, <1>2, <1>3, WebhookAssumption DEF NotSwitchedOffEarly
<1>7. KeysGiven'
  BY <1>2 DEF HookInv, KeysGiven, HookDone, AtStep, IdleDelivery
<1> QED  BY <1>4, <1>5, <1>6, <1>7 DEF HookInv

LEMMA RecordSuccessKeeps ==
    ASSUME HookInv, NEW d \in Deliveries, RecordSuccess(d) PROVE HookInv'
<1> USE HookTypes
<1>1. /\ hook' = [hook EXCEPT !.failed = 0, !.error = "none"]
      /\ HookDone(d) /\ streak' = 0 /\ UNCHANGED <<recent, sent, exhausted>>
  BY DEF RecordSuccess
<1>2. hook' \in HookRow /\ hook'.failed = 0 /\ hook'.error = "none"
  BY <1>1 DEF HookRow
<1>3. HookTypeOK'  BY <1>1, <1>2, IdleTyped DEF HookInv, HookTypeOK, HookDone
<1>4. HonestCounter'
  BY <1>1, <1>2 DEF HookInv, HonestCounter, HookDone, IdleDelivery
<1>5. NotSwitchedOffEarly'  BY <1>2 DEF NotSwitchedOffEarly
<1>6. KeysGiven'
  BY <1>1 DEF HookInv, KeysGiven, HookDone, AtStep, IdleDelivery
<1> QED  BY <1>3, <1>4, <1>5, <1>6 DEF HookInv

LEMMA FailureLostKeeps ==
    ASSUME HookInv, NEW d \in Deliveries, FailureLost(d) PROVE HookInv'
<1> USE HookTypes
<1>1. /\ exhausted' = exhausted + 1 /\ streak' = streak + 1
      /\ HookDone(d) /\ UNCHANGED <<hook, recent, sent>>
  BY DEF FailureLost
<1>2. HookTypeOK'  BY <1>1, IdleTyped DEF HookInv, HookTypeOK, HookDone
<1>3. HonestCounter'
  BY <1>1 DEF HookInv, HonestCounter, HookDone, IdleDelivery
<1>4. NotSwitchedOffEarly'
  BY <1>1, WebhookAssumption DEF HookInv, NotSwitchedOffEarly
<1>5. KeysGiven'
  BY <1>1 DEF HookInv, KeysGiven, HookDone, AtStep, IdleDelivery
<1> QED  BY <1>2, <1>3, <1>4, <1>5 DEF HookInv

LEMMA DeliveryKeeps ==
    ASSUME HookInv, NEW d \in Deliveries, DeliveryStep(d) \/ ReadLost(d)
    PROVE  HookInv'
<1>1. CASE Begin(d)          BY <1>1, BeginKeeps
<1>2. CASE Post(d)           BY <1>2, GotoIsQuiet, NextTryIsQuiet DEF Post
<1>3. CASE RecordSuccess(d)  BY <1>3, RecordSuccessKeeps
<1>4. CASE SuccessLost(d)    BY <1>4, NextTryIsQuiet DEF SuccessLost
<1>5. CASE RecordFailure(d)  BY <1>5, RecordFailureKeeps
<1>6. CASE FailureLost(d)    BY <1>6, FailureLostKeeps
<1>7. CASE ReadLost(d)       BY <1>7, DoneIsQuiet DEF ReadLost
<1> QED  BY <1>1, <1>2, <1>3, <1>4, <1>5, <1>6, <1>7 DEF DeliveryStep
-----------------------------------------------------------------------------
(* The owner and the process *)

LEMMA OwnerKeeps ==
    ASSUME HookInv, DeleteHook \/ \E on \in BOOLEAN : SwitchHook(on)
    PROVE  HookInv'
<1> USE HookTypes
<1>1. /\ UNCHANGED <<recent, delivery, sent, exhausted, streak>>
      /\ hook' \in HookRow
      /\ hook'.failed = hook.failed /\ hook'.error = hook.error
  BY DEF DeleteHook, SwitchHook, HookRow
<1>2. HookTypeOK'  BY <1>1 DEF HookInv, HookTypeOK
<1>3. HonestCounter' /\ NotSwitchedOffEarly'
  BY <1>1 DEF HookInv, HonestCounter, NotSwitchedOffEarly
<1>4. KeysGiven'  BY <1>1 DEF HookInv, KeysGiven, AtStep
<1> QED  BY <1>2, <1>3, <1>4 DEF HookInv

LEMMA ForgetKeeps ==
    ASSUME HookInv, NEW k \in Keys, Forget(k) PROVE HookInv'
<1> USE HookTypes DEF Forget
<1>1. HookTypeOK'  BY DEF HookInv, HookTypeOK
<1>2. HonestCounter' /\ NotSwitchedOffEarly'
  BY DEF HookInv, HonestCounter, NotSwitchedOffEarly
<1>3. KeysGiven'  BY DEF HookInv, KeysGiven, AtStep
<1> QED  BY <1>1, <1>2, <1>3 DEF HookInv

LEMMA RestartKeeps == ASSUME HookInv, Restart PROVE HookInv'
<1> USE HookTypes DEF Restart
<1>1. HookTypeOK'  BY IdleTyped DEF HookInv, HookTypeOK
<1>2. HonestCounter' /\ NotSwitchedOffEarly'
  BY DEF HookInv, HonestCounter, NotSwitchedOffEarly, IdleDelivery
<1>3. KeysGiven'  BY DEF KeysGiven, AtStep, IdleDelivery
<1> QED  BY <1>1, <1>2, <1>3 DEF HookInv

LEMMA HookStep == HookInv /\ [HookNext]_hookVars => HookInv'
<1> SUFFICES ASSUME HookInv, [HookNext]_hookVars PROVE HookInv'  OBVIOUS
<1>1. CASE \E d \in Deliveries : DeliveryStep(d) \/ ReadLost(d)
  BY <1>1, DeliveryKeeps
<1>2. CASE \E d \in Deliveries, k \in Keys : ReadHooks(d, k)
  BY <1>2, ReadHooksKeeps
<1>3. CASE \E k \in Keys : Forget(k)  BY <1>3, ForgetKeeps
<1>4. CASE DeleteHook \/ \E on \in BOOLEAN : SwitchHook(on)
  BY <1>4, OwnerKeeps
<1>5. CASE Restart  BY <1>5, RestartKeeps
<1>6. CASE UNCHANGED hookVars
  BY <1>6 DEF hookVars, HookInv, HookTypeOK, HonestCounter, NotSwitchedOffEarly,
              KeysGiven, AtStep
<1> QED  BY <1>1, <1>2, <1>3, <1>4, <1>5, <1>6 DEF HookNext

LEMMA HookInvariant == HookSpec => []HookInv
BY HookInitially, HookStep, PTL DEF HookSpec
-----------------------------------------------------------------------------
\* failedCount never exceeds the deliveries that used up their tries, however many
\* deliveries overlap.
THEOREM CounterIsHonest == HookSpec => []HonestCounter
<1>1. HookInv => HonestCounter  BY DEF HookInv
<1> QED  BY <1>1, HookInvariant, PTL

\* The code switches a hook off only after Threshold such deliveries.
THEOREM SwitchedOffForCause == HookSpec => []NotSwitchedOffEarly
<1>1. HookInv => NotSwitchedOffEarly  BY DEF HookInv
<1> QED  BY <1>1, HookInvariant, PTL

\* The row, the Map and every delivery are well typed: no delivery makes more than
\* MaxRetries + 1 tries.
THEOREM HookTypesHold == HookSpec => []HookTypeOK
<1>1. HookInv => HookTypeOK  BY DEF HookInv
<1> QED  BY <1>1, HookInvariant, PTL
-----------------------------------------------------------------------------
\* CallsLeft of a delivery, by its local state.
LEMMA CallsLeftAre ==
    ASSUME NEW h \in DeliveryState
    PROVE  /\ h.try \in 0 .. MaxRetries
           /\ CallsLeft(h) \in Nat /\ CallsLeft(h) <= 2 * MaxRetries + 4
           /\ CallsLeft(h) = 0 <=> h.pc = "idle"
           /\ h.pc = "begin" => CallsLeft(h) = 2 * (MaxRetries - h.try) + 4
           /\ h.pc = "post" => CallsLeft(h) = 2 * (MaxRetries - h.try) + 3
           /\ h.pc = "clear" => CallsLeft(h) = 2 * (MaxRetries - h.try) + 2
           /\ h.pc = "count" => CallsLeft(h) = 1
<1>1. h.pc \in {"idle", "begin", "post", "clear", "count"} /\ h.try \in 0 .. MaxRetries
  BY DEF DeliveryState
<1> QED  BY <1>1, WebhookAssumption DEF CallsLeft

\* A delivery that has used up its tries, or has succeeded, is over.
LEMMA DoneUsesUp ==
    ASSUME HookInv, NEW d \in Deliveries, HookDone(d), ~AtStep(d, "idle")
    PROVE  CallsLeft(delivery'[d]) < CallsLeft(delivery[d])
<1>1. delivery'[d] = IdleDelivery
  BY HookTypes DEF HookDone
<1>2. CallsLeft(IdleDelivery) = 0
  BY CallsLeftAre, IdleTyped DEF IdleDelivery
<1>3. CallsLeft(delivery[d]) \in Nat \ {0}
  BY CallsLeftAre, HookTypes DEF AtStep
<1> QED  BY <1>1, <1>2, <1>3

\* A delivery that goes on to a later step without another try.
LEMMA GotoUsesUp ==
    ASSUME HookInv, NEW d \in Deliveries, NEW step \in {"post", "clear", "count"},
           Goto(d, step),
           \/ AtStep(d, "begin") /\ step = "post"
           \/ AtStep(d, "post") /\ step \in {"clear", "count"}
           \/ AtStep(d, "clear") /\ step = "count"
    PROVE  CallsLeft(delivery'[d]) < CallsLeft(delivery[d])
<1>1. delivery[d] \in DeliveryState
  BY HookTypes
<1>2. delivery'[d] = [delivery[d] EXCEPT !.pc = step]
  BY HookTypes DEF Goto
<1>3. /\ delivery'[d] \in DeliveryState
      /\ delivery'[d].pc = step /\ delivery'[d].try = delivery[d].try
  BY <1>1, <1>2 DEF DeliveryState
<1> QED  BY <1>1, <1>3, CallsLeftAre, WebhookAssumption DEF AtStep

\* Each of the two ways a call can fail uses up the try it was.
LEMMA NextTryUsesUp ==
    ASSUME HookInv, NEW d \in Deliveries, NextTry(d),
           AtStep(d, "post") \/ AtStep(d, "clear")
    PROVE  CallsLeft(delivery'[d]) < CallsLeft(delivery[d])
<1>1. CASE delivery[d].try < MaxRetries
  <2>1. delivery[d] \in DeliveryState
    BY HookTypes
  <2> DEFINE mid == [delivery EXCEPT ![d].pc = "post"]
  <2>2. delivery' = [mid EXCEPT ![d].try = mid[d].try + 1]
    BY <1>1 DEF NextTry
  <2>3. /\ mid \in [Deliveries -> DeliveryState]
        /\ mid[d].pc = "post" /\ mid[d].try = delivery[d].try
    BY <2>1, HookTypes DEF DeliveryState
  <2> HIDE DEF mid
  <2>4. /\ delivery'[d] \in DeliveryState
        /\ delivery'[d].pc = "post" /\ delivery'[d].try = delivery[d].try + 1
    BY <1>1, <2>1, <2>2, <2>3, WebhookAssumption DEF DeliveryState
  <2> QED  BY <2>1, <2>4, CallsLeftAre, WebhookAssumption DEF AtStep
<1>2. CASE ~(delivery[d].try < MaxRetries)
  BY <1>2, GotoUsesUp DEF NextTry
<1> QED  BY <1>1, <1>2

LEMMA StepUsesUp ==
    ASSUME HookInv, NEW d \in Deliveries, DeliveryStep(d)
    PROVE  CallsLeft(delivery'[d]) < CallsLeft(delivery[d])
<1>1. CASE Begin(d)
  <2>1. AtStep(d, "begin") /\ ~AtStep(d, "idle")
    BY <1>1 DEF Begin, AtStep
  <2> QED  BY <1>1, <2>1, DoneUsesUp, GotoUsesUp DEF Begin
<1>2. CASE Post(d)
  BY <1>2, GotoUsesUp, NextTryUsesUp DEF Post
<1>3. CASE RecordSuccess(d) \/ RecordFailure(d) \/ FailureLost(d)
  BY <1>3, DoneUsesUp DEF RecordSuccess, RecordFailure, FailureLost, AtStep
<1>4. CASE SuccessLost(d)
  BY <1>4, NextTryUsesUp DEF SuccessLost
<1> QED  BY <1>1, <1>2, <1>3, <1>4 DEF DeliveryStep

\* The steps of others leave a delivery alone, but for a restart, which ends it.
LEMMA OthersLeaveIt ==
    ASSUME HookInv, [HookNext]_hookVars, NEW d \in Deliveries,
           ~AtStep(d, "idle"), ~DeliveryStep(d)
    PROVE  delivery'[d] \in {delivery[d], IdleDelivery}
<1> USE HookTypes
<1>1. ASSUME NEW e \in Deliveries, DeliveryStep(e)
      PROVE  delivery'[d] = delivery[d]
  <2>1. e # d
    BY <1>1
  <2> QED  BY <1>1, <2>1 DEF DeliveryStep, Begin, Post, RecordSuccess, SuccessLost,
           RecordFailure, FailureLost, NextTry, Goto, HookDone
<1>2. ASSUME NEW e \in Deliveries, ReadLost(e)
      PROVE  delivery'[d] \in {delivery[d], IdleDelivery}
  BY <1>2 DEF ReadLost, HookDone
<1>3. ASSUME NEW e \in Deliveries, NEW k \in Keys, ReadHooks(e, k)
      PROVE  delivery'[d] = delivery[d]
  BY <1>3 DEF ReadHooks, AtStep
<1>4. CASE Restart
  BY <1>4 DEF Restart
<1>5. CASE UNCHANGED delivery
  BY <1>5
<1> QED
  BY <1>1, <1>2, <1>3, <1>4, <1>5 DEF HookNext, Forget, SwitchHook, DeleteHook, hookVars

(***************************************************************************)
(* A delivery comes nearer to its end with each of its steps, whatever the *)
(* receiver and the database answer, and nobody else's step takes it back: *)
(* it makes at most 2 * MaxRetries + 4 steps.                              *)
(***************************************************************************)
THEOREM TriesAreUsedUp == HookSpec => TriesRunOut
<1> DEFINE RunsOut == \A d \in Deliveries :
              /\ ~AtStep(d, "idle") => CallsLeft(delivery'[d]) <= CallsLeft(delivery[d])
              /\ DeliveryStep(d) => CallsLeft(delivery'[d]) < CallsLeft(delivery[d])
<1>1. ASSUME HookInv, [HookNext]_hookVars
      PROVE  RunsOut
  <2> SUFFICES ASSUME NEW d \in Deliveries, ~AtStep(d, "idle"), ~DeliveryStep(d)
               PROVE  CallsLeft(delivery'[d]) <= CallsLeft(delivery[d])
    <3>1. ASSUME NEW d \in Deliveries, DeliveryStep(d)
          PROVE  /\ CallsLeft(delivery'[d]) < CallsLeft(delivery[d])
                 /\ CallsLeft(delivery'[d]) <= CallsLeft(delivery[d])
      <4>1. /\ CallsLeft(delivery'[d]) < CallsLeft(delivery[d])
            /\ HookInv'
        BY <1>1, <3>1, StepUsesUp, HookStep
      <4>2. /\ CallsLeft(delivery[d]) \in Nat /\ CallsLeft(delivery'[d]) \in Nat
        BY <1>1, <4>1, CallsLeftAre DEF HookInv, HookTypeOK
      <4> QED  BY <4>1, <4>2
    <3> QED  BY <3>1
  <2>1. delivery'[d] \in {delivery[d], IdleDelivery}
    BY <1>1, OthersLeaveIt
  <2>2. CallsLeft(delivery[d]) \in Nat /\ CallsLeft(IdleDelivery) = 0
    BY <1>1, CallsLeftAre, HookTypes, IdleTyped DEF IdleDelivery
  <2> QED  BY <2>1, <2>2
<1>2. HookSpec => [][RunsOut]_hookVars
  BY <1>1, HookInvariant, PTL DEF HookSpec
<1> QED  BY <1>2 DEF TriesRunOut
=============================================================================
