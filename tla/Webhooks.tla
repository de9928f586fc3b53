------------------------------- MODULE Webhooks -------------------------------
(***************************************************************************)
(* ONE row of webhooks and the events sent to it (WebhooksService).  A     *)
(* delivery goes on in the background for up to four tries with growing    *)
(* pauses, long after the request that caused it; it ends by writing the   *)
(* row it read at the start.  Recent events are remembered in a Map of the *)
(* process.  Left out: the body, its signature and redaction, and the      *)
(* delivery log, which nothing reads back.                                 *)
(***************************************************************************)
EXTENDS Integers, FiniteSets

CONSTANTS
    Deliveries,  \* deliveries that can be in progress
    Keys,        \* event and entity of an event, the key of recentEventIds
    MaxRetries,  \* MAX_RETRIES, 3 in the code
    Threshold,   \* AUTO_DISABLE_THRESHOLD, 5 in the code
    MaxEvents    \* bound: events sent in all

ASSUME WebhookAssumption ==
    /\ MaxRetries \in Nat
    /\ Threshold \in Nat \ {0}
    /\ MaxEvents \in Nat

VARIABLES
    hook,       \* the row
    recent,     \* keys in recentEventIds younger than DEDUP_WINDOW_MS
    delivery,   \* local state of each delivery
    sent,       \* events for which the hook was chosen
    exhausted,  \* deliveries that ended after their last try
    streak      \* of them, those since the last success was recorded

hookVars == <<hook, recent, delivery, sent, exhausted, streak>>

HookRow == [present : BOOLEAN,
            active  : BOOLEAN,
            failed  : Nat,                                   \* failedCount
            error   : {"none", "failed", "disabled"}]        \* lastError

DeliveryState == [pc   : {"idle", "begin", "post", "clear", "count"},
                  key  : Keys \cup {"none"},
                  seen : Nat,                  \* failedCount as read
                  try  : 0 .. MaxRetries]

HookTypeOK ==
    /\ hook \in HookRow
    /\ recent \subseteq Keys
    /\ delivery \in [Deliveries -> DeliveryState]
    /\ sent \in 0 .. MaxEvents
    /\ exhausted \in Nat /\ streak \in Nat

IdleDelivery == [pc |-> "idle", key |-> "none", seen |-> 0, try |-> 0]

\* A hook just created.
HookInit ==
    /\ hook = [present |-> TRUE, active |-> TRUE, failed |-> 0, error |-> "none"]
    /\ recent = {}
    /\ delivery = [d \in Deliveries |-> IdleDelivery]
    /\ sent = 0 /\ exhausted = 0 /\ streak = 0

AtStep(d, step) == delivery[d].pc = step

Goto(d, step) == delivery' = [delivery EXCEPT ![d].pc = step]

HookDone(d) == delivery' = [delivery EXCEPT ![d] = IdleDelivery]
-----------------------------------------------------------------------------
(* triggerWebhooks *)

\* The active hooks of the user are read, this one with its counter.
ReadHooks(d, k) ==
    /\ AtStep(d, "idle") /\ sent < MaxEvents
    /\ hook.present /\ hook.active
    /\ delivery' = [delivery EXCEPT ![d] =
           [pc |-> "begin", key |-> k, seen |-> hook.failed, try |-> 0]]
    /\ sent' = sent + 1
    /\ UNCHANGED <<hook, recent, exhausted, streak>>

IsDuplicate(d) == delivery[d].key \in recent

\* The test and the entry are one synchronous call, so no other event is in between.  The
\* delivery starts, unless the secret cannot be decrypted: that error is dropped before
\* any try, with the event remembered and nothing counted.
Begin(d) ==
    /\ AtStep(d, "begin")
    /\ \/ IsDuplicate(d) /\ HookDone(d) /\ UNCHANGED recent
       \/ /\ ~IsDuplicate(d)
          /\ recent' = recent \cup {delivery[d].key}
          /\ Goto(d, "post") \/ HookDone(d)
    /\ UNCHANGED <<hook, sent, exhausted, streak>>

\* Five minutes have passed; eviction removes only such entries.
Forget(k) ==
    /\ k \in recent
    /\ recent' = recent \ {k}
    /\ UNCHANGED <<hook, delivery, sent, exhausted, streak>>
-----------------------------------------------------------------------------
(* deliverWithRetry *)

\* Mutants of NextTry: the counter of tries is not advanced; one try too many.
NextTrySame(d) == Goto(d, "post")
NextTryOver(d) ==
    IF delivery[d].try <= MaxRetries
    THEN delivery' = [delivery EXCEPT ![d].pc = "post", ![d].try = @ + 1]
    ELSE Goto(d, "count")

\* A pause and another try, or the end of the loop.
NextTry(d) ==
    IF delivery[d].try < MaxRetries
    THEN delivery' = [delivery EXCEPT ![d].pc = "post", ![d].try = @ + 1]
    ELSE Goto(d, "count")

\* The receiver answers 2xx; or another status, or not within ten seconds.
Post(d) ==
    /\ AtStep(d, "post")
    /\ Goto(d, "clear") \/ NextTry(d)
    /\ UNCHANGED <<hook, recent, sent, exhausted, streak>>

RecordSuccess(d) ==
    /\ AtStep(d, "clear") /\ hook.present
    /\ hook' = [hook EXCEPT !.failed = 0, !.error = "none"]
    /\ streak' = 0
    /\ HookDone(d)
    /\ UNCHANGED <<recent, sent, exhausted>>

\* The row is gone or the update fails: the catch around the call makes this a failed
\* try, and the event is sent again to a receiver that has it.
SuccessLost(d) ==
    /\ AtStep(d, "clear")
    /\ NextTry(d)
    /\ UNCHANGED <<hook, recent, sent, exhausted, streak>>

\* Mutant of FailedCount: every try counts.
FailedCountTries(d) == delivery[d].seen + delivery[d].try + 1

\* The counter of the row as read before the first try, plus one.
FailedCount(d) == delivery[d].seen + 1

RecordFailure(d) ==
    LET off == FailedCount(d) >= Threshold
    IN  /\ AtStep(d, "count") /\ hook.present
        /\ hook' = [hook EXCEPT !.failed = FailedCount(d),
                                !.active = hook.active /\ ~off,
                                !.error = IF off THEN "disabled" ELSE "failed"]
        /\ exhausted' = exhausted + 1 /\ streak' = streak + 1
        /\ HookDone(d)
        /\ UNCHANGED <<recent, sent>>

\* The last update fails too; triggerWebhooks drops the error.
FailureLost(d) ==
    /\ AtStep(d, "count")
    /\ exhausted' = exhausted + 1 /\ streak' = streak + 1
    /\ HookDone(d)
    /\ UNCHANGED <<hook, recent, sent>>

\* The read of the hooks fails.
ReadLost(d) ==
    /\ AtStep(d, "begin")
    /\ HookDone(d)
    /\ UNCHANGED <<hook, recent, sent, exhausted, streak>>

DeliveryStep(d) ==
    \/ Begin(d) \/ Post(d)
    \/ RecordSuccess(d) \/ SuccessLost(d) \/ RecordFailure(d) \/ FailureLost(d)
-----------------------------------------------------------------------------
(* The owner, and the process *)

\* update: switches the hook on or off and leaves the counter and the error as they are.
SwitchHook(on) ==
    /\ hook.present
    /\ hook' = [hook EXCEPT !.active = on]
    /\ UNCHANGED <<recent, delivery, sent, exhausted, streak>>

\* delete: deliveries in progress go on with the row they have read.
DeleteHook ==
    /\ hook.present
    /\ hook' = [hook EXCEPT !.present = FALSE]
    /\ UNCHANGED <<recent, delivery, sent, exhausted, streak>>

\* The process stops and starts: deliveries and the Map are gone.
Restart ==
    /\ recent' = {}
    /\ delivery' = [d \in Deliveries |-> IdleDelivery]
    /\ UNCHANGED <<hook, sent, exhausted, streak>>

HookNext ==
    \/ \E d \in Deliveries :
          \/ DeliveryStep(d) \/ ReadLost(d)
          \/ \E k \in Keys : ReadHooks(d, k)
    \/ \E k \in Keys : Forget(k)
    \/ \E on \in BOOLEAN : SwitchHook(on)
    \/ DeleteHook \/ Restart

\* Timers fire, fetch is aborted after ten seconds and database calls return.
HookFairness == \A d \in Deliveries : WF_hookVars(DeliveryStep(d))

HookSpec == HookInit /\ [][HookNext]_hookVars /\ HookFairness
-----------------------------------------------------------------------------
\* However deliveries overlap and overwrite each other's counts, failedCount never
\* exceeds the deliveries that really used up their tries, nor does a delivery carry
\* a count that does.
HonestCounter ==
    /\ hook.failed <= exhausted
    /\ \A d \in Deliveries : delivery[d].seen <= exhausted

\* A hook switched off by the code has failed Threshold deliveries, not fewer, though not
\* always one after the other (see SwitchedOffConsecutive).
NotSwitchedOffEarly == hook.error = "disabled" => exhausted >= Threshold

\* What lastError and the log say of a hook switched off, "... egymást követő hiba után"
\* (after so many errors that follow each other) and "consecutive failures": no delivery
\* was recorded as successful between them.  A count read before that success and written
\* after it goes on from the failures before.
SwitchedOffConsecutive == hook.error = "disabled" => streak >= Threshold

\* Used by the proofs: a delivery that is about to begin has a key.
KeysGiven == \A d \in Deliveries : AtStep(d, "begin") => delivery[d].key \in Keys

HookInv == HookTypeOK /\ HonestCounter /\ NotSwitchedOffEarly /\ KeysGiven

\* Every delivery comes to an end, also when the receiver stays down, the row is
\* deleted or the database refuses the result.
DeliverySettles == \A d \in Deliveries : [](AtStep(d, "post") => <>AtStep(d, "idle"))

\* Why it does: the calls a delivery can still make.  A success that is not recorded
\* is a failed try, so neither call may give a try back (WebhooksProofs).
CallsLeft(h) ==
    LET tries == 2 * (MaxRetries - h.try) IN
    CASE h.pc = "idle"  -> 0
      [] h.pc = "begin" -> tries + 4
      [] h.pc = "post"  -> tries + 3
      [] h.pc = "clear" -> tries + 2
      [] h.pc = "count" -> 1

TriesRunOut ==
    [][\A d \in Deliveries :
          /\ ~AtStep(d, "idle") => CallsLeft(delivery'[d]) <= CallsLeft(delivery[d])
          /\ DeliveryStep(d) => CallsLeft(delivery'[d]) < CallsLeft(delivery[d])]_hookVars
=============================================================================
