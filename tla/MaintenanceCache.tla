--------------------------- MODULE MaintenanceCache ---------------------------
(***************************************************************************)
(* Maintenance mode: a setting in the database, cached by the middleware   *)
(* for CACHE_TTL_MS (common/maintenance.middleware) and cleared when an    *)
(* administrator changes it (AdminService.setMaintenanceMode).  A request  *)
(* that was reading the setting then fills the cache again with what it    *)
(* read.  Requests of administrators and of bypassed paths are let through *)
(* in any case and are left out.                                           *)
(***************************************************************************)
EXTENDS Integers

CONSTANTS
    Guards,   \* requests that can be in the middleware
    Ttl,      \* CACHE_TTL_MS
    MaxTime   \* bound on the clock

ASSUME MaintenanceAssumption == Ttl \in Nat /\ MaxTime \in Nat

VARIABLES
    time,     \* Date.now()
    setting,  \* system_settings: maintenance_mode is 'true'
    cache,    \* cachedStatus
    guard,    \* local state of each request
    toggle,   \* local state of setMaintenanceMode
    heldAt    \* when the setting last had each value

maintenanceVars == <<time, setting, cache, guard, toggle, heldAt>>

CachedStatus == [filled : BOOLEAN, enabled : BOOLEAN, fetchedAt : 0 .. MaxTime]

GuardState == [pc        : {"idle", "query", "fill"},
               fetchedAt : 0 .. MaxTime,   \* now, taken before the query
               enabled   : BOOLEAN]        \* as read

MaintenanceTypeOK ==
    /\ time \in 0 .. MaxTime
    /\ setting \in BOOLEAN
    /\ cache \in CachedStatus
    /\ guard \in [Guards -> GuardState]
    /\ toggle \in {"idle", "clear"}
    /\ heldAt \in [BOOLEAN -> 0 .. MaxTime]

IdleGuard == [pc |-> "idle", fetchedAt |-> 0, enabled |-> FALSE]

\* The process has just started.
MaintenanceInit ==
    /\ time = 0 /\ setting = FALSE
    /\ cache = [filled |-> FALSE, enabled |-> FALSE, fetchedAt |-> 0]
    /\ guard = [g \in Guards |-> IdleGuard]
    /\ toggle = "idle"
    /\ heldAt = [v \in BOOLEAN |-> 0]

\* The test of getMaintenanceStatus.
Fresh == cache.filled /\ time - cache.fetchedAt < Ttl

Pass ==
    /\ time < MaxTime /\ time' = time + 1
    /\ heldAt' = [heldAt EXCEPT ![setting] = time + 1]
    /\ UNCHANGED <<setting, cache, guard, toggle>>
-----------------------------------------------------------------------------
(* MaintenanceMiddleware.use *)

OnlyGuard == UNCHANGED <<time, setting, cache, toggle, heldAt>>

\* No fresh status; one that is fresh answers the request and changes nothing.
GuardMiss(g) ==
    /\ guard[g].pc = "idle" /\ ~Fresh
    /\ guard' = [guard EXCEPT ![g] =
           [pc |-> "query", fetchedAt |-> time, enabled |-> FALSE]]
    /\ OnlyGuard

\* The database reads the setting.
GuardQuery(g) ==
    /\ guard[g].pc = "query"
    /\ guard' = [guard EXCEPT ![g].pc = "fill", ![g].enabled = setting]
    /\ OnlyGuard

\* Mutant of GuardFill: the status counts from when the answer came.
GuardFillNow(g) ==
    /\ guard[g].pc = "fill"
    /\ cache' = [filled |-> TRUE, enabled |-> guard[g].enabled, fetchedAt |-> time]
    /\ guard' = [guard EXCEPT ![g] = IdleGuard]
    /\ UNCHANGED <<time, setting, toggle, heldAt>>

\* Its answer fills the cache, with the time before the query, and serves the request.
GuardFill(g) ==
    /\ guard[g].pc = "fill"
    /\ cache' = [filled |-> TRUE, enabled |-> guard[g].enabled,
                 fetchedAt |-> guard[g].fetchedAt]
    /\ guard' = [guard EXCEPT ![g] = IdleGuard]
    /\ UNCHANGED <<time, setting, toggle, heldAt>>

\* The query fails, and the request with it.
GuardFail(g) ==
    /\ guard[g].pc # "idle"
    /\ guard' = [guard EXCEPT ![g] = IdleGuard]
    /\ OnlyGuard
-----------------------------------------------------------------------------
(* setMaintenanceMode, and a restart *)

ToggleWrite ==
    /\ toggle = "idle"
    /\ setting' = ~setting /\ toggle' = "clear"
    /\ heldAt' = [heldAt EXCEPT ![setting'] = time]
    /\ UNCHANGED <<time, cache, guard>>

\* clearMaintenanceCache
ToggleClear ==
    /\ toggle = "clear" /\ toggle' = "idle"
    /\ cache' = [cache EXCEPT !.filled = FALSE]
    /\ UNCHANGED <<time, setting, guard, heldAt>>

\* The write of the message before it failed: the cache is left as it was.
ToggleFail ==
    /\ toggle = "clear" /\ toggle' = "idle"
    /\ UNCHANGED <<time, setting, cache, guard, heldAt>>

ProcessRestart ==
    /\ cache' = [cache EXCEPT !.filled = FALSE]
    /\ guard' = [g \in Guards |-> IdleGuard] /\ toggle' = "idle"
    /\ UNCHANGED <<time, setting, heldAt>>

MaintenanceNext ==
    \/ Pass \/ ToggleWrite \/ ToggleClear \/ ToggleFail \/ ProcessRestart
    \/ \E g \in Guards :
          GuardMiss(g) \/ GuardQuery(g) \/ GuardFill(g) \/ GuardFail(g)

MaintenanceSpec == MaintenanceInit /\ [][MaintenanceNext]_maintenanceVars
-----------------------------------------------------------------------------
\* Whatever slow read fills the cache after it was cleared, a request is never answered
\* from it by a value the setting last had Ttl ago or longer.
StatusIsRecent == Fresh => time - heldAt[cache.enabled] < Ttl

\* What the comment in setMaintenanceMode says: once the cache was cleared, requests are
\* answered by the new value.  A request that read the setting before the change fills the
\* cache after the clear.
PickedUpImmediately == toggle = "idle" /\ Fresh => cache.enabled = setting

\* Why StatusIsRecent holds: a status was the setting's value at fetchedAt or later (ServicesProofs).
MaintenanceInv ==
    /\ MaintenanceTypeOK
    /\ heldAt[setting] = time /\ \A v \in BOOLEAN : heldAt[v] <= time
    /\ cache.filled => cache.fetchedAt <= heldAt[cache.enabled]
    /\ \A g \in Guards :
          /\ guard[g].fetchedAt <= time
          /\ guard[g].pc = "fill" => guard[g].fetchedAt <= heldAt[guard[g].enabled]
=============================================================================
