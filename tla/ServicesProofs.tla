---------------------------- MODULE ServicesProofs ----------------------------
(***************************************************************************)
(* The invariants of the audit chain, the maintenance cache, the partner   *)
(* monitor, the tiers with their limits, and the promo codes, for any      *)
(* number of overlapping requests and every bound, and at the end those of *)
(* all of them side by side, with the one-time codes and the credits.      *)
(***************************************************************************)
EXTENDS MCServices, SignerOtpProofs, CreditsProofs, FiniteSetTheorems, TLAPS

-----------------------------------------------------------------------------
(* AuditChain *)

LEMMA ChainInitially == ChainInit => ChainInv
<1> SUFFICES ASSUME ChainInit PROVE ChainInv  OBVIOUS
<1>1. NoEntry \in Entry
  BY ChainAssumption DEF NoEntry, Entry, Ids, GENESIS
<1>2. ChainTypeOK
  BY <1>1, ChainAssumption DEF ChainInit, ChainTypeOK, LoggerState
<1>3. Written = {}  BY DEF ChainInit, Written
<1> QED  BY <1>2, <1>3 DEF ChainInit, ChainInv

\* What the proofs below use of the types.
LEMMA ChainTypes ==
    ASSUME ChainInv
    PROVE  /\ clock \in Nat /\ entries \in Nat /\ entries <= MaxEntries
           /\ MaxEntries \in Nat /\ Written \subseteq Ids
           /\ log \in [Ids -> Entry] /\ logger \in [Loggers -> LoggerState]
           /\ \A i \in Ids : log[i].at \in Nat /\ log[i].readAt \in Nat
           /\ \A l \in Loggers : logger[l].entry \in Entry
           /\ NoEntry \in Entry
<1> USE ChainAssumption DEF ChainInv, ChainTypeOK
<1>1. \A e \in Entry : e.at \in Nat /\ e.readAt \in Nat  BY DEF Entry
<1>2. NoEntry \in Entry  BY DEF NoEntry, Entry, Ids, GENESIS
<1>3. \A l \in Loggers : logger[l].entry \in Entry  BY DEF LoggerState
<1> QED  BY <1>1, <1>2, <1>3 DEF Written, Ids

\* Steps of a call that leave the log alone need to be looked at for that call only.
LEMMA LoggerAlone ==
    ASSUME ChainInv, NEW l \in Loggers, NEW new \in LoggerState,
           logger' = [logger EXCEPT ![l] = new],
           UNCHANGED <<clock, entries, log>>,
           new.pc # "idle" => StillLatest(new.entry),
           new.pc = "create" => Follows(new.entry)
    PROVE  ChainInv'
<1> USE ChainTypes
<1>1. \A e : (StillLatest(e) <=> StillLatest(e)') /\ (Follows(e) <=> Follows(e)')
  BY DEF StillLatest, LatestOf, Follows
<1>2. ChainTypeOK'  BY DEF ChainInv, ChainTypeOK
<1>3. \A i \in Written' : StillLatest(log[i])' /\ Follows(log[i])' /\ log'[i].readAt < i
  BY DEF ChainInv, Written, StillLatest, LatestOf, Follows
<1>4. ASSUME NEW k \in Loggers
      PROVE  /\ logger'[k].pc # "idle" => StillLatest(logger[k].entry)'
             /\ logger'[k].pc = "create" => Follows(logger[k].entry)'
  BY DEF ChainInv, StillLatest, LatestOf, Follows
<1> QED  BY <1>2, <1>3, <1>4 DEF ChainInv

LEMMA LogReadKeeps ==
    ASSUME ChainInv, NEW l \in Loggers, LogRead(l) PROVE ChainInv'
<1> USE ChainTypes
<1>1. PICK p \in Ids \cup {GENESIS} :
         /\ Link(p)
         /\ logger' = [logger EXCEPT ![l] =
                [pc |-> "stamp", entry |-> [hashed |-> TRUE, previous |-> p, at |-> 0,
                                            readAt |-> entries]]]
  BY DEF LogRead
<1> DEFINE e == [hashed |-> TRUE, previous |-> p, at |-> 0, readAt |-> entries]
           new == [pc |-> "stamp", entry |-> e]
<1>2. e \in Entry /\ new \in LoggerState
  BY ChainAssumption DEF Entry, LoggerState
<1>3. StillLatest(e)
  <2>1. CASE entries = 0  BY <1>1, <2>1 DEF Link, StillLatest, GENESIS
  <2>2. CASE entries # 0
    <3>1. PICK i \in Ids : Latest(i) /\ p = IF log[i].hashed THEN i ELSE GENESIS
      BY <1>1, <2>2 DEF Link
    <3>2. LatestOf(i, entries) /\ i # GENESIS
      BY <3>1 DEF Latest, LatestOf, Written, Ids, GENESIS
    <3> QED  BY <3>1, <3>2 DEF StillLatest, LatestOf
  <2> QED  BY <2>1, <2>2
<1>4. UNCHANGED <<clock, entries, log>>  BY DEF LogRead
<1> QED  BY <1>1, <1>2, <1>3, <1>4, LoggerAlone

LEMMA LogStampKeeps ==
    ASSUME ChainInv, NEW l \in Loggers, LogStamp(l) PROVE ChainInv'
<1> USE ChainTypes
<1> DEFINE e == [logger[l].entry EXCEPT !.at = clock]
           new == [logger[l] EXCEPT !.pc = "create", !.entry = e]
<1>1. /\ e \in Entry /\ e.at = clock
      /\ e.previous = logger[l].entry.previous /\ e.readAt = logger[l].entry.readAt
      /\ e.hashed = logger[l].entry.hashed
  BY DEF ChainInv, ChainTypeOK, Entry
<1>2. new \in LoggerState /\ new.pc = "create" /\ new.entry = e
  BY <1>1 DEF LoggerState
<1>3. logger' = [logger EXCEPT ![l] = new] /\ UNCHANGED <<clock, entries, log>>
  BY DEF LogStamp
<1>4. StillLatest(logger[l].entry)  BY DEF LogStamp, ChainInv
<1>5. StillLatest(e)  BY <1>1, <1>4 DEF StillLatest, LatestOf
<1>6. Follows(e)
  <2>1. e.previous # GENESIS => e.previous \in Written
    BY <1>1, <1>4, <1>5 DEF StillLatest, LatestOf, Written, Entry
  <2>2. \A i \in Written : log[i].at <= clock  BY DEF ChainInv, Follows
  <2> QED  BY <1>1, <2>1, <2>2 DEF Follows
<1> HIDE DEF e, new
<1> QED  BY <1>2, <1>3, <1>5, <1>6, LoggerAlone

\* A bounced mail has read nothing.
LEMMA BounceKeeps ==
    ASSUME ChainInv, NEW l \in Loggers, Bounce(l) PROVE ChainInv'
<1> USE ChainTypes
<1> DEFINE e == [NoEntry EXCEPT !.at = clock]
           new == [pc |-> "create", entry |-> e]
<1>1. e \in Entry /\ e.at = clock /\ e.previous = GENESIS /\ e.readAt = 0
  BY DEF NoEntry, Entry, ChainInv, ChainTypeOK
<1>2. new \in LoggerState /\ new.entry = e  BY <1>1 DEF LoggerState
<1>3. StillLatest(e) /\ Follows(e)  BY <1>1 DEF StillLatest, LatestOf, Follows
<1>4. logger' = [logger EXCEPT ![l] = new] /\ UNCHANGED <<clock, entries, log>>
  BY DEF Bounce
<1> HIDE DEF e, new
<1> QED  BY <1>2, <1>3, <1>4, LoggerAlone

\* The log grows at its end, so that what others have read of it stays.
LEMMA LogCreateKeeps ==
    ASSUME ChainInv, NEW l \in Loggers, LogCreate(l) PROVE ChainInv'
<1> USE ChainTypes
<1> DEFINE e == logger[l].entry
           n == entries + 1
<1>1. /\ n \in Ids /\ n \notin Written /\ e \in Entry
      /\ entries' = n /\ log' = [log EXCEPT ![n] = e] /\ clock' = clock
      /\ logger' = [logger EXCEPT ![l] = [pc |-> "idle", entry |-> NoEntry]]
      /\ StillLatest(e) /\ Follows(e)
  BY DEF LogCreate, ChainInv, Ids, Written
<1>2. \A i \in Written : log'[i] = log[i]  BY <1>1
<1>3. Written' = Written \cup {n}  BY <1>1 DEF Written
<1>4. ASSUME NEW f \in Entry, StillLatest(f) PROVE StillLatest(f)'
  <2>1. f.readAt \in Nat /\ f.readAt <= n  BY <1>1, <1>4 DEF StillLatest, LatestOf, Entry
  <2>2. \A j \in 1 .. f.readAt : j \in Written
    BY <1>4, <2>1 DEF StillLatest, LatestOf, Written
  <2> QED  BY <1>1, <1>2, <1>4, <2>1, <2>2 DEF StillLatest, LatestOf
<1>5. ASSUME NEW f \in Entry, StillLatest(f), Follows(f) PROVE Follows(f)'
  <2>1. f.previous # GENESIS => f.previous \in Written
    BY <1>5 DEF StillLatest, LatestOf, Written, Entry
  <2> QED  BY <1>1, <1>2, <1>5, <2>1 DEF Follows
<1>6. ChainTypeOK'
  <2>1. [pc |-> "idle", entry |-> NoEntry] \in LoggerState  BY DEF LoggerState
  <2>2. n \in 0 .. MaxEntries  BY <1>1 DEF Ids
  <2> QED  BY <1>1, <2>1, <2>2 DEF ChainInv, ChainTypeOK
<1>7. ASSUME NEW i \in Written'
      PROVE  StillLatest(log[i])' /\ Follows(log[i])' /\ log'[i].readAt < i
  <2>1. CASE i \in Written
    <3>1. log[i] \in Entry /\ StillLatest(log[i]) /\ Follows(log[i]) /\ log[i].readAt < i
      BY <2>1 DEF ChainInv
    <3>2. log'[i] = log[i]  BY <1>2, <2>1
    <3>3. \A f \in Entry : StillLatest(f) /\ Follows(f) => StillLatest(f)' /\ Follows(f)'
      BY <1>4, <1>5
    <3> QED  BY <3>1, <3>2, <3>3 DEF StillLatest, LatestOf, Follows
  <2>2. CASE i = n
    <3>1. log'[i] = e  BY <1>1, <2>2
    <3>2. e.readAt < n  BY <1>1 DEF StillLatest, LatestOf, Entry
    <3>3. \A f \in Entry : StillLatest(f) /\ Follows(f) => StillLatest(f)' /\ Follows(f)'
      BY <1>4, <1>5
    <3> QED  BY <1>1, <2>2, <3>1, <3>2, <3>3 DEF StillLatest, LatestOf, Follows
  <2> QED  BY <1>3, <2>1, <2>2
<1>8. ASSUME NEW k \in Loggers
      PROVE  /\ logger'[k].pc # "idle" => StillLatest(logger[k].entry)'
             /\ logger'[k].pc = "create" => Follows(logger[k].entry)'
  <2>1. CASE k = l  BY <1>1, <2>1
  <2>2. CASE k # l
    <3>1. logger'[k] = logger[k] /\ logger[k].entry \in Entry  BY <1>1, <2>2
    <3>2. \A f \in Entry : /\ StillLatest(f) => StillLatest(f)'
                           /\ StillLatest(f) /\ Follows(f) => Follows(f)'
      BY <1>4, <1>5
    <3> QED  BY <3>1, <3>2 DEF ChainInv, StillLatest, Follows
  <2> QED  BY <2>1, <2>2
<1> QED  BY <1>6, <1>7, <1>8 DEF ChainInv

LEMMA TickKeeps == ASSUME ChainInv, Tick PROVE ChainInv'
<1> USE ChainTypes
<1>1. ChainTypeOK'
  BY ChainAssumption DEF Tick, ChainInv, ChainTypeOK
<1>2. \A i \in Written' : StillLatest(log[i])' /\ Follows(log[i])' /\ log'[i].readAt < i
  BY DEF Tick, ChainInv, Written, StillLatest, LatestOf, Follows
<1>3. ASSUME NEW k \in Loggers
      PROVE  /\ logger'[k].pc # "idle" => StillLatest(logger[k].entry)'
             /\ logger'[k].pc = "create" => Follows(logger[k].entry)'
  BY DEF Tick, ChainInv, StillLatest, LatestOf, Follows, Entry
<1> QED  BY <1>1, <1>2, <1>3 DEF ChainInv

LEMMA ChainStep == ChainInv /\ [ChainNext]_chainVars => ChainInv'
<1> SUFFICES ASSUME ChainInv, [ChainNext]_chainVars PROVE ChainInv'  OBVIOUS
<1>1. CASE Tick  BY <1>1, TickKeeps
<1>2. ASSUME NEW l \in Loggers, LogFail(l) PROVE ChainInv'
  <2> DEFINE new == [pc |-> "idle", entry |-> NoEntry]
  <2>1. new \in LoggerState  BY ChainTypes DEF LoggerState
  <2> QED  BY <1>2, <2>1, LoggerAlone DEF LogFail
<1>3. CASE UNCHANGED chainVars
  BY <1>3 DEF chainVars, ChainInv, ChainTypeOK, Written, StillLatest, LatestOf, Follows
<1> QED  BY <1>1, <1>2, <1>3, LogReadKeeps, LogStampKeeps, BounceKeeps, LogCreateKeeps
      DEF ChainNext

LEMMA ChainInvariant == ChainSpec => []ChainInv
BY ChainInitially, ChainStep, PTL DEF ChainSpec

\* Every hashed entry of the log leads back to a beginning through older hashed entries.
THEOREM EntriesLinkBack == ChainSpec => []LinksGoBack
<1>1. ASSUME ChainInv PROVE LinksGoBack
  <2> SUFFICES ASSUME NEW i \in Written, log[i].hashed, log[i].previous # GENESIS
               PROVE  /\ log[i].previous < i /\ log[log[i].previous].hashed
                      /\ log[log[i].previous].at <= log[i].at
    BY DEF LinksGoBack
  <2>1. i \in Nat /\ log[i] \in Entry /\ StillLatest(log[i]) /\ Follows(log[i])
        /\ log[i].readAt < i
    BY <1>1, ChainTypes DEF ChainInv, Written
  <2>2. /\ log[i].previous \in 1 .. log[i].readAt /\ log[i].readAt \in Nat
        /\ log[log[i].previous].hashed
    BY <2>1 DEF StillLatest, LatestOf, Entry
  <2> QED  BY <2>1, <2>2 DEF Follows
<1> QED  BY <1>1, ChainInvariant, PTL

\* Two entries follow the same one only if their calls overlapped, and the chain begins
\* again only then or after a bounced mail.
THEOREM ForksAreExplained == ChainSpec => []ForksExplained
<1>1. ASSUME ChainInv PROVE ForksExplained
  <2> SUFFICES ASSUME NEW i \in Written, NEW j \in Written, i < j,
                      log[j].previous = log[i].previous,
                      \/ log[i].previous = GENESIS
                      \/ log[i].at # log[log[i].previous].at
               PROVE  \/ log[j].readAt < i
                      \/ log[i].previous = GENESIS /\ Cut(i, log[j].readAt)
    BY DEF ForksExplained
  <2> DEFINE p == log[i].previous
             n == log[j].readAt
  <2>1. /\ i \in Nat /\ i > 0 /\ log[i].at \in Nat /\ n \in Nat
        /\ log[i] \in Entry /\ StillLatest(log[i]) /\ Follows(log[i])
        /\ StillLatest(log[j])
    BY <1>1, ChainTypes DEF ChainInv, Written
  <2>2. CASE n < i  BY <2>2
  <2>3. CASE n >= i /\ p = GENESIS
    <3>1. i \in 1 .. n  BY <2>1, <2>3
    <3>2. PICK u \in 1 .. n : LatestOf(u, n) /\ ~log[u].hashed
      BY <2>1, <2>3, <3>1 DEF StillLatest
    <3>3. u \in Ids /\ log[u].at \in Nat
      BY <1>1, <2>1, ChainTypes DEF StillLatest, Ids
    <3>4. log[i].at <= log[u].at  BY <3>1, <3>2 DEF LatestOf
    <3> QED  BY <2>1, <2>3, <3>2, <3>3, <3>4 DEF Cut
  <2>4. CASE n >= i /\ p # GENESIS
    <3>1. i \in 1 .. n  BY <2>1, <2>4
    <3>2. log[i].at <= log[p].at  BY <2>1, <2>4, <3>1 DEF StillLatest, LatestOf
    <3>3. log[p].at <= log[i].at  BY <2>1, <2>4 DEF Follows
    <3>4. p \in Ids  BY <2>1, <2>4 DEF Entry
    <3>5. log[p].at \in Nat  BY <1>1, <3>4, ChainTypes
    <3> QED  BY <2>1, <2>4, <3>2, <3>3, <3>5
  <2> QED  BY <2>1, <2>2, <2>3, <2>4
<1> QED  BY <1>1, ChainInvariant, PTL
-----------------------------------------------------------------------------
(* MaintenanceCache *)

LEMMA MaintenanceInitially == MaintenanceInit => MaintenanceInv
<1> SUFFICES ASSUME MaintenanceInit PROVE MaintenanceInv  OBVIOUS
<1>1. IdleGuard \in GuardState /\ IdleGuard.pc = "idle"
  BY MaintenanceAssumption DEF IdleGuard, GuardState
<1>2. MaintenanceTypeOK
  <2>1. setting \in BOOLEAN  BY DEF MaintenanceInit
  <2>2. cache \in CachedStatus
    BY MaintenanceAssumption DEF MaintenanceInit, CachedStatus
  <2>3. heldAt \in [BOOLEAN -> 0 .. MaxTime] /\ time \in 0 .. MaxTime
    BY MaintenanceAssumption DEF MaintenanceInit
  <2>4. guard \in [Guards -> GuardState] /\ toggle \in {"idle", "clear"}
    BY <1>1 DEF MaintenanceInit
  <2> QED  BY <2>1, <2>2, <2>3, <2>4 DEF MaintenanceTypeOK
<1>3. heldAt[setting] = time /\ \A v \in BOOLEAN : heldAt[v] <= time
  <2>1. setting \in BOOLEAN /\ time = 0  BY DEF MaintenanceInit
  <2>2. \A v \in BOOLEAN : heldAt[v] = 0  BY DEF MaintenanceInit
  <2> QED  BY <2>1, <2>2
<1>4. ~cache.filled /\ \A g \in Guards : guard[g].pc = "idle" /\ guard[g].fetchedAt = 0
  BY <1>1 DEF MaintenanceInit, IdleGuard
<1>5. 0 <= time  BY DEF MaintenanceInit
<1> QED  BY <1>2, <1>3, <1>4, <1>5 DEF MaintenanceInv

LEMMA MaintenanceTypes ==
    ASSUME MaintenanceInv
    PROVE  /\ time \in 0 .. MaxTime /\ time \in Nat /\ MaxTime \in Nat
           /\ setting \in BOOLEAN /\ cache \in CachedStatus
           /\ cache.enabled \in BOOLEAN /\ cache.fetchedAt \in Nat
           /\ guard \in [Guards -> GuardState]
           /\ \A g \in Guards : /\ guard[g].enabled \in BOOLEAN
                                /\ guard[g].fetchedAt \in 0 .. MaxTime
                                /\ guard[g].fetchedAt \in Nat
           /\ toggle \in {"idle", "clear"}
           /\ heldAt \in [BOOLEAN -> 0 .. MaxTime]
           /\ \A v \in BOOLEAN : heldAt[v] \in Nat
           /\ IdleGuard \in GuardState
           /\ IdleGuard.pc = "idle" /\ IdleGuard.fetchedAt = 0
BY MaintenanceAssumption
DEF MaintenanceInv, MaintenanceTypeOK, CachedStatus, GuardState, IdleGuard

\* The clock and the administrator: a value's heldAt only grows.
LEMMA SettingKeeps ==
    ASSUME MaintenanceInv, Pass \/ ToggleWrite PROVE MaintenanceInv'
<1> USE MaintenanceTypes
<1>1. /\ heldAt' = [heldAt EXCEPT ![setting'] = time']
      /\ setting' \in BOOLEAN /\ time' \in 0 .. MaxTime /\ time <= time'
      /\ UNCHANGED <<cache, guard>> /\ toggle' \in {"idle", "clear"}
  <2>1. CASE Pass
    <3>1. /\ heldAt' = [heldAt EXCEPT ![setting] = time + 1]
          /\ time' = time + 1 /\ time + 1 \in 0 .. MaxTime
          /\ setting' = setting /\ UNCHANGED <<cache, guard, toggle>>
      BY <2>1 DEF Pass
    <3>2. heldAt' = [heldAt EXCEPT ![setting'] = time']  BY <3>1
    <3> QED  BY <3>1, <3>2
  <2>2. CASE ToggleWrite
    <3>1. setting' \in BOOLEAN  BY <2>2 DEF ToggleWrite
    <3>2. /\ heldAt' = [heldAt EXCEPT ![setting'] = time'] /\ toggle' = "clear"
          /\ UNCHANGED <<time, cache, guard>>
      BY <2>2 DEF ToggleWrite
    <3> QED  BY <3>1, <3>2
  <2> QED  BY <2>1, <2>2
<1>2. /\ heldAt' \in [BOOLEAN -> 0 .. MaxTime]
      /\ heldAt'[setting'] = time'
      /\ \A u \in BOOLEAN : u # setting' => heldAt'[u] = heldAt[u]
  BY <1>1
<1>3. /\ \A u \in BOOLEAN : /\ heldAt'[u] \in Nat
                            /\ heldAt[u] <= heldAt'[u] /\ heldAt'[u] <= time'
      /\ time' \in Nat
  <2>1. \A u \in BOOLEAN : heldAt[u] <= time  BY DEF MaintenanceInv
  <2> QED  BY <1>1, <1>2, <2>1
<1>4. MaintenanceTypeOK'
  BY <1>1, <1>2 DEF MaintenanceInv, MaintenanceTypeOK
<1>5. (cache.filled => cache.fetchedAt <= heldAt[cache.enabled])'
  BY <1>1, <1>3 DEF MaintenanceInv
<1>6. \A g \in Guards : /\ guard'[g].fetchedAt <= time'
                        /\ guard'[g].pc = "fill" =>
                              guard'[g].fetchedAt <= heldAt'[guard'[g].enabled]
  BY <1>1, <1>3 DEF MaintenanceInv
<1> QED  BY <1>2, <1>3, <1>4, <1>5, <1>6 DEF MaintenanceInv

\* A request that leaves the setting alone.
LEMMA GuardKeeps ==
    ASSUME MaintenanceInv, NEW g \in Guards,
           GuardMiss(g) \/ GuardQuery(g) \/ GuardFill(g) \/ GuardFail(g)
    PROVE  MaintenanceInv'
<1> USE MaintenanceTypes
<1>1. CASE GuardMiss(g)
  <2>1. [pc |-> "query", fetchedAt |-> time, enabled |-> FALSE] \in GuardState
    BY DEF GuardState
  <2>2. MaintenanceTypeOK'
    BY <1>1, <2>1 DEF GuardMiss, OnlyGuard, MaintenanceInv, MaintenanceTypeOK
  <2> QED  BY <1>1, <2>2 DEF GuardMiss, OnlyGuard, MaintenanceInv
<1>2. CASE GuardQuery(g)
  <2> DEFINE new == [guard[g] EXCEPT !.pc = "fill", !.enabled = setting]
  <2>1. /\ new \in GuardState /\ new.fetchedAt = guard[g].fetchedAt
        /\ new.enabled = setting
    BY DEF GuardState
  <2>2. guard' = [guard EXCEPT ![g] = new] /\ OnlyGuard  BY <1>2 DEF GuardQuery
  <2>3. MaintenanceTypeOK'
    BY <2>1, <2>2 DEF OnlyGuard, MaintenanceInv, MaintenanceTypeOK
  <2>4. guard[g].fetchedAt <= time /\ heldAt[setting] = time
    BY <1>2 DEF GuardQuery, MaintenanceInv
  <2> HIDE DEF new
  <2> QED  BY <2>1, <2>2, <2>3, <2>4 DEF OnlyGuard, MaintenanceInv
<1>3. CASE GuardFill(g)
  <2>1. cache' \in CachedStatus  BY <1>3 DEF GuardFill, CachedStatus
  <2>2. MaintenanceTypeOK'
    BY <1>3, <2>1 DEF GuardFill, MaintenanceInv, MaintenanceTypeOK
  <2> QED  BY <1>3, <2>2 DEF GuardFill, MaintenanceInv
<1>4. CASE GuardFail(g)
  <2>1. MaintenanceTypeOK'
    BY <1>4 DEF GuardFail, OnlyGuard, MaintenanceInv, MaintenanceTypeOK
  <2> QED  BY <1>4, <2>1 DEF GuardFail, OnlyGuard, MaintenanceInv
<1> QED  BY <1>1, <1>2, <1>3, <1>4

LEMMA ClearKeeps ==
    ASSUME MaintenanceInv, ToggleClear \/ ToggleFail \/ ProcessRestart PROVE MaintenanceInv'
<1> USE MaintenanceTypes
<1>1. /\ cache' \in {cache, [cache EXCEPT !.filled = FALSE]}
      /\ guard' \in {guard, [q \in Guards |-> IdleGuard]}
      /\ toggle' = "idle" /\ UNCHANGED <<time, setting, heldAt>>
  BY DEF ToggleClear, ToggleFail, ProcessRestart
<1>2. /\ cache' \in CachedStatus
      /\ cache'.filled => cache' = cache
  BY <1>1 DEF CachedStatus
<1>3. MaintenanceTypeOK'
  BY <1>1, <1>2 DEF MaintenanceInv, MaintenanceTypeOK
<1> QED  BY <1>1, <1>2, <1>3 DEF MaintenanceInv

LEMMA MaintenanceStep ==
    MaintenanceInv /\ [MaintenanceNext]_maintenanceVars => MaintenanceInv'
<1> SUFFICES ASSUME MaintenanceInv, [MaintenanceNext]_maintenanceVars
             PROVE  MaintenanceInv'
  OBVIOUS
<1>1. CASE UNCHANGED maintenanceVars
  BY <1>1 DEF maintenanceVars, MaintenanceInv, MaintenanceTypeOK
<1> QED  BY <1>1, SettingKeeps, GuardKeeps, ClearKeeps DEF MaintenanceNext

\* No request is answered from the cache by a value the setting last had Ttl ago.
THEOREM CacheIsRecent == MaintenanceSpec => []StatusIsRecent
<1>1. ASSUME MaintenanceInv PROVE StatusIsRecent
  <2>1. heldAt[cache.enabled] \in Nat /\ cache.fetchedAt \in Nat /\ time \in Nat
    BY <1>1, MaintenanceTypes
  <2> QED  BY <1>1, <2>1, MaintenanceAssumption DEF MaintenanceInv, StatusIsRecent, Fresh
<1> QED  BY <1>1, MaintenanceInitially, MaintenanceStep, PTL DEF MaintenanceSpec
-----------------------------------------------------------------------------
(* PartnerMonitor *)

LEMMA MonitorInitially == MonitorInit => MonitorInv
<1> SUFFICES ASSUME MonitorInit PROVE MonitorInv  OBVIOUS
<1>1. MonitorTypeOK
  BY DEF MonitorInit, MonitorTypeOK, ListingRow, ScanState, DigestState,
         IdleScan, IdleDigest
<1> QED  BY <1>1 DEF MonitorInit, MonitorInv, NotifiedWasMailed, IdleScan, IdleDigest

\* What the proofs below use of the types.
LEMMA MonitorTypes ==
    ASSUME MonitorInv
    PROVE  /\ listing \in [Urls -> ListingRow]
           /\ scan \in [Scans -> ScanState]
           /\ digest \in DigestState /\ digest.chosen \subseteq Urls
           /\ announced \subseteq Urls
           /\ IdleScan \in ScanState /\ IdleScan.pc = "idle"
           /\ IdleDigest \in DigestState /\ IdleDigest.pc = "idle"
BY DEF MonitorInv, MonitorTypeOK, DigestState, ScanState, IdleScan, IdleDigest

\* A scan that only moves on.
LEMMA ScanAlone ==
    ASSUME MonitorInv, NEW s \in Scans, NEW new \in ScanState,
           scan' = [scan EXCEPT ![s] = new], OnlyScan,
           new.pc = "save" => new.url \in Urls
    PROVE  MonitorInv'
<1> USE MonitorTypes DEF OnlyScan
<1>1. MonitorTypeOK'  BY DEF MonitorInv, MonitorTypeOK
<1>2. NotifiedWasMailed'  BY DEF MonitorInv, NotifiedWasMailed
<1> QED  BY <1>1, <1>2 DEF MonitorInv

LEMMA ScanMovesOn ==
    ASSUME MonitorInv, NEW s \in Scans,
           \/ ScanStart(s) \/ ScanWebsite(s) \/ ScanError(s)
           \/ \E u \in Urls : ScanLookup(s, u)
    PROVE  MonitorInv'
<1> USE MonitorTypes
<1>0. scan[s] \in ScanState  OBVIOUS
<1>1. CASE ScanStart(s)
  <2> DEFINE new == [scan[s] EXCEPT !.pc = "results"]
  <2>1. new \in ScanState /\ new.pc = "results"  BY <1>0 DEF ScanState
  <2>2. scan' = [scan EXCEPT ![s] = new] /\ OnlyScan  BY <1>1 DEF ScanStart
  <2> HIDE DEF new
  <2> QED  BY <2>1, <2>2, ScanAlone
<1>2. CASE ScanWebsite(s)
  <2> DEFINE new == [scan[s] EXCEPT !.source = "website"]
  <2>1. new \in ScanState /\ new.pc = "results"
    BY <1>0, <1>2 DEF ScanState, ScanWebsite
  <2>2. scan' = [scan EXCEPT ![s] = new] /\ OnlyScan  BY <1>2 DEF ScanWebsite
  <2> HIDE DEF new
  <2> QED  BY <2>1, <2>2, ScanAlone
<1>3. CASE ScanError(s)
  <2> DEFINE new == [scan[s] EXCEPT !.pc = "results", !.source = "over",
                        !.url = "none", !.known = FALSE, !.found = FALSE]
  <2>1. new \in ScanState /\ new.pc = "results"  BY <1>0 DEF ScanState
  <2>2. scan' = [scan EXCEPT ![s] = new] /\ OnlyScan  BY <1>3 DEF ScanError
  <2> HIDE DEF new
  <2> QED  BY <2>1, <2>2, ScanAlone
<1>4. ASSUME NEW u \in Urls, ScanLookup(s, u) PROVE MonitorInv'
  <2> DEFINE new == [scan[s] EXCEPT !.pc = "save", !.url = u,
                        !.known = listing[u].status # "none"]
  <2>1. new \in ScanState /\ new.url = u
    BY <1>0 DEF ScanState
  <2>2. scan' = [scan EXCEPT ![s] = new] /\ OnlyScan  BY <1>4 DEF ScanLookup
  <2> HIDE DEF new
  <2> QED  BY <2>1, <2>2, ScanAlone
<1> QED  BY <1>1, <1>2, <1>3, <1>4

\* What a scan records was notified before, or is not notified.
LEMMA ScanSaveKeeps ==
    ASSUME MonitorInv, NEW s \in Scans, ScanSave(s) PROVE MonitorInv'
<1> USE MonitorTypes
<1> DEFINE u == scan[s].url
<1>1. u \in Urls /\ listing[u] \in ListingRow  BY DEF ScanSave, MonitorInv
<1>2. PICK row \in ListingRow :
         /\ listing' = [listing EXCEPT ![u] = row]
         /\ row.notified => listing[u].notified
  <2>1. Row("active", listing[u].notified) \in ListingRow
    BY <1>1 DEF Row, ListingRow
  <2>2. Row("new", FALSE) \in ListingRow  BY DEF Row, ListingRow
  <2> QED  BY <2>1, <2>2 DEF ScanSave, Row
<1>3. /\ UNCHANGED <<digest, announced>>
      /\ scan' \in [Scans -> ScanState]
      /\ scan'[s].pc = "results" /\ \A t \in Scans \ {s} : scan'[t] = scan[t]
  <2> DEFINE web == scan[s].source = "website"
             seen == IF web THEN scan[s].seen \cup {u} ELSE scan[s].seen
             found == scan[s].found \/ (web /\ ~scan[s].known)
             fresh == scan[s].fresh \/ (~web /\ ~scan[s].known)
             new == [scan[s] EXCEPT !.pc = "results", !.url = "none", !.known = FALSE,
                        !.seen = seen, !.found = found, !.fresh = fresh]
  <2>1. scan[s] \in ScanState  OBVIOUS
  <2>2. seen \in SUBSET Urls /\ found \in BOOLEAN /\ fresh \in BOOLEAN
    BY <1>1, <2>1 DEF ScanState
  <2>3. scan' = [scan EXCEPT ![s] = new] /\ UNCHANGED <<digest, announced>>
    BY DEF ScanSave
  <2> HIDE DEF seen, found, fresh
  <2>4. new \in ScanState /\ new.pc = "results"  BY <2>1, <2>2 DEF ScanState
  <2> HIDE DEF new
  <2> QED  BY <2>3, <2>4
<1>4. MonitorTypeOK'  BY <1>1, <1>2, <1>3 DEF MonitorInv, MonitorTypeOK
<1>5. NotifiedWasMailed'
  BY <1>1, <1>2, <1>3 DEF MonitorInv, NotifiedWasMailed
<1> QED  BY <1>3, <1>4, <1>5 DEF MonitorInv

\* Rows change, but none becomes notified; the digest at most begins.
LEMMA RowsAge ==
    ASSUME MonitorInv, NEW s \in Scans,
           ScanEnd(s) \/ ScanUnlisted(s) \/ \E u \in Urls : GrowStale(u)
    PROVE  MonitorInv'
<1> USE MonitorTypes
<1>1. /\ listing' \in [Urls -> ListingRow]
      /\ \A v \in Urls : listing'[v].notified = listing[v].notified
      /\ announced' = announced
  <2>1. \A v \in Urls : listing[v] \in ListingRow  OBVIOUS
  <2>2. \A row \in ListingRow :
           /\ [row EXCEPT !.status = "expired"] \in ListingRow
           /\ [row EXCEPT !.status = "expired"].notified = row.notified
           /\ [row EXCEPT !.stale = TRUE] \in ListingRow
           /\ [row EXCEPT !.stale = TRUE].notified = row.notified
    BY DEF ListingRow
  <2>3. CASE ScanEnd(s)
    <3>1. Expire({u \in Urls : listing[u].stale}) /\ UNCHANGED announced
      BY <2>3 DEF ScanEnd
    <3> QED  BY <2>1, <2>2, <3>1 DEF Expire
  <2>5. CASE ScanUnlisted(s)
    <3>1. Expire(Urls \ scan[s].seen) /\ UNCHANGED announced
      BY <2>5 DEF ScanUnlisted
    <3> QED  BY <2>1, <2>2, <3>1 DEF Expire
  <2>4. CASE \E u \in Urls : GrowStale(u)
    <3>1. PICK u \in Urls : GrowStale(u)  BY <2>4
    <3>2. listing' = [listing EXCEPT ![u] = [listing[u] EXCEPT !.stale = TRUE]]
      BY <3>1 DEF GrowStale
    <3>3. UNCHANGED <<scan, digest, announced>>  BY <3>1 DEF GrowStale
    <3> QED  BY <2>1, <2>2, <3>2, <3>3
  <2> QED  BY <2>3, <2>4, <2>5
<1>2. /\ scan' \in [Scans -> ScanState]
      /\ \A t \in Scans : scan'[t] = scan[t] \/ scan'[t].pc # "save"
  <2>1. CASE ScanUnlisted(s)
    <3> DEFINE new == [scan[s] EXCEPT !.source = "over"]
    <3>1. new \in ScanState /\ new.pc = "results"
      BY <2>1 DEF ScanUnlisted, ScanState
    <3>2. scan' = [scan EXCEPT ![s] = new]  BY <2>1 DEF ScanUnlisted
    <3> HIDE DEF new
    <3> QED  BY <3>1, <3>2
  <2> QED  BY <2>1 DEF ScanEnd, ScanDone, GrowStale
<1>3. /\ digest' \in DigestState
      /\ digest' = digest \/ digest'.pc = "read"
  <2>1. [digest EXCEPT !.pc = "read"] \in DigestState
        /\ [digest EXCEPT !.pc = "read"].pc = "read"
    BY DEF DigestState
  <2> QED  BY <2>1 DEF ScanEnd, ScanUnlisted, GrowStale
<1>4. MonitorTypeOK'  BY <1>1, <1>2, <1>3 DEF MonitorTypeOK
<1>5. NotifiedWasMailed'  BY <1>1 DEF MonitorInv, NotifiedWasMailed
<1> QED  BY <1>1, <1>2, <1>3, <1>4, <1>5 DEF MonitorInv

LEMMA DigestKeeps ==
    ASSUME MonitorInv, DigestRead \/ DigestMail \/ DigestFail PROVE MonitorInv'
<1> USE MonitorTypes
<1>1. /\ digest' \in DigestState /\ UNCHANGED <<listing, scan>>
      /\ announced \subseteq announced' /\ announced' \subseteq Urls
      /\ digest'.pc = "mark" => digest'.chosen \subseteq announced'
  <2>1. CASE DigestRead
    <3>1. [pc |-> "mail", chosen |-> Unannounced] \in DigestState
      BY DEF DigestState, Unannounced
    <3> QED  BY <2>1, <3>1 DEF DigestRead
  <2>2. CASE DigestMail
    <3>1. digest' = [digest EXCEPT !.pc = "mark"]
          /\ announced' = announced \cup digest.chosen /\ UNCHANGED <<listing, scan>>
      BY <2>2 DEF DigestMail
    <3>2. digest' \in DigestState /\ digest'.chosen = digest.chosen
      BY <3>1 DEF DigestState
    <3> QED  BY <3>1, <3>2
  <2>3. CASE DigestFail  BY <2>3 DEF DigestFail
  <2> QED  BY <2>1, <2>2, <2>3
<1>2. MonitorTypeOK'  BY <1>1 DEF MonitorInv, MonitorTypeOK
<1>3. NotifiedWasMailed'  BY <1>1 DEF MonitorInv, NotifiedWasMailed
<1> QED  BY <1>1, <1>2, <1>3 DEF MonitorInv

LEMMA DigestMarkKeeps == ASSUME MonitorInv, DigestMark PROVE MonitorInv'
<1> USE MonitorTypes
<1> DEFINE Told(row) == [row EXCEPT !.status = "active", !.notified = TRUE]
<1>1. /\ listing' = [u \in Urls |-> IF u \in digest.chosen THEN Told(listing[u])
                                    ELSE listing[u]]
      /\ digest' = IdleDigest /\ UNCHANGED <<scan, announced>>
      /\ digest.chosen \subseteq announced
  BY DEF DigestMark, Marked, MonitorInv
<1>2. \A row \in ListingRow : Told(row) \in ListingRow  BY DEF ListingRow
<1> HIDE DEF Told
<1>3. MonitorTypeOK'  BY <1>1, <1>2 DEF MonitorInv, MonitorTypeOK
<1>4. NotifiedWasMailed'  BY <1>1 DEF MonitorInv, NotifiedWasMailed
<1> QED  BY <1>1, <1>3, <1>4 DEF MonitorInv

LEMMA MonitorStep == MonitorInv /\ [MonitorNext]_monitorVars => MonitorInv'
<1> SUFFICES ASSUME MonitorInv, [MonitorNext]_monitorVars PROVE MonitorInv'  OBVIOUS
<1>1. CASE UNCHANGED monitorVars
  BY <1>1 DEF monitorVars, MonitorInv, MonitorTypeOK, NotifiedWasMailed
<1>2. CASE \E u \in Urls : GrowStale(u)
  BY <1>2, RowsAge, MonitorAssumption
<1> QED  BY <1>1, <1>2, ScanMovesOn, ScanSaveKeeps, RowsAge, DigestKeeps, DigestMarkKeeps
         DEF MonitorNext

\* A listing marked as notified was in a digest that was mailed.
THEOREM MarkedWasMailed == MonitorSpec => []NotifiedWasMailed
<1>1. MonitorInv => NotifiedWasMailed  BY DEF MonitorInv
<1> QED  BY <1>1, MonitorInitially, MonitorStep, PTL DEF MonitorSpec
-----------------------------------------------------------------------------
(* Tiers *)

LEMMA IdleHandlerTyped ==
    /\ IdleHandler \in HandlerState
    /\ IdleHandler.tier \notin Plans /\ IdleHandler.pc = "idle"
    /\ "free" \in TierNames /\ "free" \notin Plans
    /\ "pro_trial" \in TierNames /\ "pro_trial" \notin Plans
    /\ "none" \notin Plans
    /\ Plans \subseteq TierNames /\ Plans \subseteq Prices
BY TierAssumption DEF IdleHandler, HandlerState, TierNames, Prices

\* What the proofs below use of the types.
LEMMA TierTypes ==
    ASSUME TierInv
    PROVE  /\ tier \in TierNames
           /\ plan \in [Subscriptions -> Prices \cup {"none"}]
           /\ running \subseteq Subscriptions
           /\ events \subseteq StripeEvent
           /\ changes \in 0 .. MaxEvents
           /\ handler \in [StripeReqs -> HandlerState]
           /\ \A r \in StripeReqs : handler[r].tier \in TierNames
BY DEF TierInv, TierTypeOK, HandlerState

\* An unlisted price gives no plan.
LEMMA PriceGives ==
    ASSUME NEW p
    PROVE  /\ MapPriceToTier(p) \in TierNames
           /\ MapPriceToTier(p) \in Plans => MapPriceToTier(p) = p
BY IdleHandlerTyped DEF MapPriceToTier

LEMMA TierInitially == TierInit => TierInv
<1> SUFFICES ASSUME TierInit PROVE TierInv  OBVIOUS
<1>1. TierTypeOK
  <2>1. /\ tier \in TierNames /\ trialOver \in BOOLEAN
        /\ plan \in [Subscriptions -> Prices \cup {"none"}]
    BY IdleHandlerTyped DEF TierInit
  <2>2. /\ running \subseteq Subscriptions /\ events \subseteq StripeEvent
        /\ changes \in 0 .. MaxEvents /\ given \subseteq Plans \cup {"free"}
    BY TierAssumption DEF TierInit
  <2>3. handler \in [StripeReqs -> HandlerState] /\ trialJob \in {"idle", "found"}
    BY IdleHandlerTyped DEF TierInit
  <2> QED  BY <2>1, <2>2, <2>3 DEF TierTypeOK
<1>2. TierEarned  BY IdleHandlerTyped DEF TierInit, TierEarned
<1>3. \A n \in Subscriptions : plan[n] \notin Plans
  BY IdleHandlerTyped DEF TierInit
<1> QED  BY <1>1, <1>2, <1>3, IdleHandlerTyped DEF TierInit, TierInv

\* A change at Stripe is reported, so whatever price a subscription has was bought.
LEMMA ReportKeeps ==
    ASSUME TierInv, NEW type \in {"completed", "updated", "deleted"},
           NEW n \in Subscriptions, NEW p \in Prices,
           StripeReports(type, n, p), running' \subseteq running \cup {n}
    PROVE  TierInv'
<1> USE TierTypes
<1> DEFINE e == [type |-> type, sub |-> n, plan |-> p]
<1>1. /\ plan' = [plan EXCEPT ![n] = p] /\ events' = events \cup {e}
      /\ changes' \in 0 .. MaxEvents
      /\ UNCHANGED <<tier, trialOver, handler, trialJob, given>>
  BY TierAssumption DEF StripeReports
<1>2. e \in StripeEvent /\ e.plan = p  BY DEF StripeEvent
<1> HIDE DEF e
<1>3. Bought \subseteq Bought' /\ p \in Bought'
  BY <1>1, <1>2 DEF Bought
<1>4. TierTypeOK'  BY <1>1, <1>2 DEF TierInv, TierTypeOK
<1>5. TierEarned'  BY <1>1, <1>3 DEF TierInv, TierEarned
<1>6. \A m \in running' : plan'[m] \in Prices  BY <1>1 DEF TierInv
<1>7. \A m \in Subscriptions : plan'[m] \in Plans => plan'[m] \in Bought'
  BY <1>1, <1>3 DEF TierInv
<1>8. \A r \in StripeReqs :
         /\ handler'[r].pc = "retrieve" => handler'[r].sub \in Subscriptions
         /\ handler'[r].tier \in Plans => handler'[r].tier \in Bought' \cup given'
  BY <1>1, <1>3 DEF TierInv
<1> QED  BY <1>4, <1>5, <1>6, <1>7, <1>8 DEF TierInv

LEMMA SubscriberKeeps ==
    ASSUME TierInv,
           \/ \E p \in Prices : Subscribe(p) \/ \E n \in Subscriptions : ChangePlan(n, p)
           \/ \E n \in Subscriptions : CancelPlan(n)
    PROVE  TierInv'
<1> USE TierTypes
<1>1. ASSUME NEW p \in Prices, Subscribe(p) PROVE TierInv'
  <2>1. changes + 1 \in Subscriptions
    BY <1>1, TierAssumption DEF Subscribe, StripeReports, Subscriptions
  <2> QED  BY <1>1, <2>1, ReportKeeps DEF Subscribe
<1>2. ASSUME NEW p \in Prices, NEW n \in Subscriptions, ChangePlan(n, p) PROVE TierInv'
  BY <1>2, ReportKeeps DEF ChangePlan
<1>3. ASSUME NEW n \in Subscriptions, CancelPlan(n) PROVE TierInv'
  <2>1. plan[n] \in Prices /\ running' \subseteq running \cup {n}
        /\ StripeReports("deleted", n, plan[n])
    BY <1>3 DEF CancelPlan, TierInv
  <2> QED  BY <2>1, ReportKeeps
<1> QED  BY <1>1, <1>2, <1>3

\* A handler that only moves on.
LEMMA HandlerAlone ==
    ASSUME TierInv, NEW r \in StripeReqs, NEW new \in HandlerState,
           handler' = [handler EXCEPT ![r] = new], OnlyHandler,
           new.tier \in Plans => new.tier \in Bought \cup given,
           new.pc = "retrieve" => new.sub \in Subscriptions,
           tier' \in {tier, handler[r].tier}
    PROVE  TierInv'
<1> USE TierTypes DEF OnlyHandler
<1>1. Bought' = Bought  BY DEF Bought
<1>2. TierTypeOK'  BY DEF TierInv, TierTypeOK
<1>3. TierEarned'  BY <1>1 DEF TierInv, TierEarned
<1>4. \A q \in StripeReqs :
         /\ handler'[q].pc = "retrieve" => handler'[q].sub \in Subscriptions
         /\ handler'[q].tier \in Plans => handler'[q].tier \in Bought' \cup given'
  BY <1>1 DEF TierInv
<1> QED  BY <1>1, <1>2, <1>3, <1>4 DEF TierInv

LEMMA WritingTyped ==
    ASSUME NEW t \in TierNames
    PROVE  /\ Writing(t) \in HandlerState
           /\ Writing(t).tier = t /\ Writing(t).pc = "write"
BY DEF Writing, HandlerState

LEMMA HandlerKeeps ==
    ASSUME TierInv, NEW r \in StripeReqs,
           StripeArrives(r) \/ StripeRetrieve(r) \/ StripeWrite(r) \/ StripeFail(r)
    PROVE  TierInv'
<1> USE TierTypes, IdleHandlerTyped
<1>1. CASE StripeArrives(r)
  <2>1. PICK e \in events :
           handler' = [handler EXCEPT ![r] =
              CASE e.type = "completed" -> [pc |-> "retrieve", sub |-> e.sub, tier |-> "free"]
                [] e.type = "updated"   -> Writing(MapPriceToTier(e.plan))
                [] e.type = "deleted"   -> Writing("free")]
    BY <1>1 DEF StripeArrives
  <2>2. /\ e.type \in {"completed", "updated", "deleted"}
        /\ e.sub \in Subscriptions /\ e.plan \in Bought
    BY DEF StripeEvent, Bought
  <2>3. tier' = tier /\ OnlyHandler  BY <1>1 DEF StripeArrives
  <2>4. CASE e.type = "completed"
    <3> DEFINE new == [pc |-> "retrieve", sub |-> e.sub, tier |-> "free"]
    <3>1. new \in HandlerState /\ new.tier \notin Plans
          /\ new.sub \in Subscriptions
      BY <2>2 DEF HandlerState
    <3>2. handler' = [handler EXCEPT ![r] = new]  BY <2>1, <2>4
    <3> HIDE DEF new
    <3> QED  BY <2>3, <3>1, <3>2, HandlerAlone
  <2>5. CASE e.type = "updated"
    <3> DEFINE t == MapPriceToTier(e.plan)
    <3>1. t \in TierNames /\ (t \in Plans => t \in Bought)  BY <2>2, PriceGives
    <3>2. handler' = [handler EXCEPT ![r] = Writing(t)]  BY <2>1, <2>5
    <3> HIDE DEF t
    <3> QED  BY <2>3, <3>1, <3>2, WritingTyped, HandlerAlone
  <2>6. CASE e.type = "deleted"
    <3>1. handler' = [handler EXCEPT ![r] = Writing("free")]  BY <2>1, <2>6
    <3> QED  BY <2>3, <3>1, WritingTyped, HandlerAlone
  <2> QED  BY <2>2, <2>4, <2>5, <2>6
<1>2. CASE StripeRetrieve(r)
  <2> DEFINE n == handler[r].sub
             t == MapPriceToTier(plan[n])
  <2>1. handler[r] \in HandlerState  OBVIOUS
  <2>2. t \in TierNames /\ (t \in Plans => t = plan[n])  BY PriceGives
  <2>3. handler' = [handler EXCEPT ![r] = Writing(t)] /\ tier' = tier /\ OnlyHandler
    BY <1>2 DEF StripeRetrieve
  <2>4. n \in Subscriptions  BY <1>2 DEF StripeRetrieve, TierInv
  <2>5. t \in Plans => t \in Bought  BY <2>2, <2>4 DEF TierInv
  <2> HIDE DEF t
  <2> QED  BY <2>2, <2>3, <2>5, WritingTyped, HandlerAlone
<1>3. CASE StripeWrite(r)
  BY <1>3, HandlerAlone DEF StripeWrite
<1>4. CASE StripeFail(r)
  BY <1>4, HandlerAlone DEF StripeFail
<1> QED  BY <1>1, <1>2, <1>3, <1>4

LEMMA JobKeeps ==
    ASSUME TierInv, TrialEnds \/ TrialFind \/ TrialWrite \/ TrialFail
    PROVE  TierInv'
<1> USE TierTypes, IdleHandlerTyped
<1>1. /\ UNCHANGED <<plan, running, events, changes, handler, given>>
      /\ trialOver' \in BOOLEAN /\ trialJob' \in {"idle", "found"}
      /\ tier' \in {tier, "free"}
  BY DEF TrialEnds, TrialFind, TrialWrite, TrialFail, OnlyJob, TierInv, TierTypeOK
<1>2. Bought' = Bought  BY <1>1 DEF Bought
<1>3. TierTypeOK'  BY <1>1 DEF TierInv, TierTypeOK
<1>4. TierEarned'  BY <1>1, <1>2 DEF TierInv, TierEarned
<1> QED  BY <1>1, <1>2, <1>3, <1>4 DEF TierInv

LEMMA GiveKeeps ==
    ASSUME TierInv, NEW new \in Plans \cup {"free"}, GiveTier(new) PROVE TierInv'
<1> USE TierTypes, IdleHandlerTyped
<1>1. /\ UNCHANGED <<trialOver, plan, running, events, changes, handler, trialJob>>
      /\ tier' = new /\ given' = given \cup {new}
  BY DEF GiveTier
<1>2. Bought' = Bought  BY <1>1 DEF Bought
<1>3. TierTypeOK'  BY <1>1 DEF TierInv, TierTypeOK
<1>4. TierEarned'  BY <1>1 DEF TierEarned
<1>5. \A r \in StripeReqs :
         handler'[r].tier \in Plans => handler'[r].tier \in Bought' \cup given'
  BY <1>1, <1>2 DEF TierInv
<1> QED  BY <1>1, <1>2, <1>3, <1>4, <1>5 DEF TierInv

LEMMA TierStep == TierInv /\ [TierNext]_tierVars => TierInv'
<1> SUFFICES ASSUME TierInv, [TierNext]_tierVars PROVE TierInv'  OBVIOUS
<1>1. CASE UNCHANGED tierVars
  <2>1. Bought' = Bought  BY <1>1 DEF tierVars, Bought
  <2> QED  BY <1>1, <2>1 DEF tierVars, TierInv, TierTypeOK, TierEarned
<1>2. CASE TierNext
  BY <1>2, SubscriberKeeps, HandlerKeeps, JobKeeps, GiveKeeps DEF TierNext
<1> QED  BY <1>1, <1>2
-----------------------------------------------------------------------------
(* TierLimits *)

\* Sets of requests are finite, and the smaller has the smaller size.
LEMMA MakerSets ==
    /\ Cardinality(MakeReqs) \in Nat
    /\ \A T \in SUBSET MakeReqs :
          /\ Cardinality(T) \in Nat /\ Cardinality(T) <= Cardinality(MakeReqs)
          /\ \A S \in SUBSET T : Cardinality(S) <= Cardinality(T)
          /\ \A r \in T : Cardinality(T \ {r}) = Cardinality(T) - 1
<1>1. IsFiniteSet(MakeReqs)  BY LimitAssumption
<1>2. \A T \in SUBSET MakeReqs : IsFiniteSet(T)  BY <1>1, FS_Subset
<1> QED  BY <1>1, <1>2, FS_Subset, FS_CardinalityType, FS_RemoveElement

LEMMA LimitTypes ==
    ASSUME LimitInv
    PROVE  /\ made \in [Kinds -> Nat] /\ copies \in Nat
           /\ maker \in [MakeReqs -> MakerState]
           /\ allowed \in [Kinds -> SUBSET Nat]
           /\ \A r \in MakeReqs : /\ maker[r].op \in Ops /\ Kind(maker[r].op) \in Kinds
                                  /\ maker[r].max \in Nat
           /\ \A k : Passed(k) \in SUBSET MakeReqs
BY DEF LimitInv, LimitTypeOK, MakerState, Kind, Kinds, Ops, Passed

\* Every tier has a limit for each kind, and none is zero.
LEMMA LimitsTyped ==
    ASSUME NEW t \in TierNames
    PROVE  /\ \A k \in Kinds : /\ LimitsOf(t)[k] \subseteq Nat \ {0}
                               /\ LimitsOf(t)[k] # {}
           /\ \A op \in Ops : /\ Limit[op][t] \in Nat
                              /\ Kind(op) \in Kinds
                              /\ Limit[op][t] \in LimitsOf(t)[Kind(op)]
           /\ LimitsOf(t) \in [Kinds -> SUBSET Nat]
<1>1. \A op \in Ops : Limit[op][t] \in Nat \ {0}  BY LimitAssumption
<1>2. \A op \in Ops : Kind(op) \in Kinds  BY DEF Kind, Kinds
<1>3. /\ "quote" \in Ops /\ Kind("quote") = "quote"
      /\ "contract" \in Ops /\ Kind("contract") = "contract"
  BY DEF Ops, Kind
<1>4. \A k \in Kinds : \E op \in Ops : Kind(op) = k  BY <1>3 DEF Kinds
<1> QED  BY <1>1, <1>2, <1>4 DEF LimitsOf

LEMMA LimitInitially == TierInit /\ LimitInit => TierInv /\ LimitInv
<1> SUFFICES ASSUME TierInit, LimitInit PROVE LimitInv  BY TierInitially
<1>1. tier \in TierNames  BY TierInitially, TierTypes
<1>2. IdleMaker \in MakerState /\ IdleMaker.pc = "idle"
  BY DEF IdleMaker, MakerState, Ops
<1>3. LimitTypeOK
  BY <1>1, <1>2, LimitsTyped DEF LimitInit, LimitTypeOK
<1>4. \A k : Passed(k) = {}  BY <1>2 DEF LimitInit, Passed
<1>5. MonthlyLimitHeld
  <2> SUFFICES ASSUME NEW k \in Kinds
               PROVE  \E m \in allowed[k] :
                  made[k] + Cardinality(Passed(k)) <= m + Cardinality(MakeReqs) - 1
    BY DEF MonthlyLimitHeld
  <2>1. PICK m \in allowed[k] : m \in Nat \ {0}
    BY <1>1, LimitsTyped DEF LimitInit
  <2>2. made[k] = 0 /\ Cardinality(Passed(k)) = 0
    BY <1>4, FS_EmptySet DEF LimitInit
  <2> QED  BY <2>1, <2>2, MakerSets
<1> QED  BY <1>2, <1>3, <1>5 DEF LimitInit, LimitInv

\* A step of one request or of the rows, with the tier and the limits as they are, has to
\* leave room for the requests that passed.
LEMMA RowsLeaveRoom ==
    ASSUME TierInv, LimitInv, UNCHANGED <<tierVars, allowed>>,
           made' \in [Kinds -> Nat], copies' \in Nat,
           maker' \in [MakeReqs -> MakerState],
           \A r \in MakeReqs :
              maker'[r].pc # "idle" => maker'[r].max \in allowed[Kind(maker'[r].op)],
           \A k \in Kinds : \E m \in allowed[k] :
              made'[k] + Cardinality(Passed(k)') <= m + Cardinality(MakeReqs) - 1
    PROVE  LimitInv'
<1> USE LimitTypes
<1>1. LimitTypeOK'  BY DEF LimitTypeOK
<1>2. MonthlyLimitHeld'  BY DEF MonthlyLimitHeld
<1>3. \A k \in Kinds : LimitsOf(tier')[k] \subseteq allowed'[k]
  BY DEF LimitInv, tierVars
<1> QED  BY <1>1, <1>2, <1>3 DEF LimitInv

\* With no more rows and no more requests that passed there is room.
LEMMA StillRoom ==
    ASSUME LimitInv, made' \in [Kinds -> Nat], NEW k \in Kinds,
           made'[k] <= made[k], Passed(k)' \subseteq Passed(k)
    PROVE  \E m \in allowed[k] :
              made'[k] + Cardinality(Passed(k)') <= m + Cardinality(MakeReqs) - 1
<1>1. PICK m \in allowed[k] :
         made[k] + Cardinality(Passed(k)) <= m + Cardinality(MakeReqs) - 1
  BY DEF LimitInv, MonthlyLimitHeld
<1>2. /\ m \in Nat /\ made[k] \in Nat /\ made'[k] \in Nat
      /\ Passed(k) \in SUBSET MakeReqs
  BY LimitTypes
<1>3. /\ Cardinality(Passed(k)') <= Cardinality(Passed(k))
      /\ Cardinality(Passed(k)') \in Nat /\ Cardinality(Passed(k)) \in Nat
  BY <1>2, MakerSets
<1> QED  BY <1>1, <1>2, <1>3, MakerSets

LEMMA IdleMakerTyped == IdleMaker \in MakerState /\ IdleMaker.pc = "idle"
BY DEF IdleMaker, MakerState, Ops

LEMMA MakerDoneKeeps ==
    ASSUME TierInv, LimitInv, NEW r \in MakeReqs, MakerDone(r),
           UNCHANGED <<tierVars, made, copies, allowed>>
    PROVE  LimitInv'
<1> USE LimitTypes, IdleMakerTyped DEF MakerDone
<1>1. \A k \in Kinds : Passed(k)' \subseteq Passed(k) /\ made'[k] <= made[k]
  BY DEF Passed
<1>2. maker' \in [MakeReqs -> MakerState] /\ made' \in [Kinds -> Nat] /\ copies' \in Nat
  OBVIOUS
<1>3. \A q \in MakeReqs :
         maker'[q].pc # "idle" => maker'[q].max \in allowed[Kind(maker'[q].op)]
  BY DEF LimitInv
<1> QED  BY <1>1, <1>2, <1>3, StillRoom, RowsLeaveRoom

LEMMA MakeReadKeeps ==
    ASSUME TierInv, LimitInv, NEW r \in MakeReqs, NEW op \in Ops, MakeRead(r, op),
           UNCHANGED tierVars
    PROVE  LimitInv'
<1> USE LimitTypes
<1> DEFINE new == [pc |-> "count", op |-> op, max |-> Limit[op][tier]]
<1>1. tier \in TierNames  BY TierTypes
<1>2. new \in MakerState /\ new.max \in allowed[Kind(new.op)]
  BY <1>1, LimitsTyped DEF MakerState, LimitInv
<1>3. maker' = [maker EXCEPT ![r] = new] /\ UNCHANGED <<made, copies, allowed>>
  BY DEF MakeRead
<1>4. new.pc = "count"  OBVIOUS
<1> HIDE DEF new
<1>5. \A k \in Kinds : Passed(k)' \subseteq Passed(k) /\ made'[k] <= made[k]
  BY <1>3, <1>4 DEF Passed
<1>6. maker' \in [MakeReqs -> MakerState] /\ made' \in [Kinds -> Nat] /\ copies' \in Nat
  BY <1>2, <1>3
<1>7. \A q \in MakeReqs :
         maker'[q].pc # "idle" => maker'[q].max \in allowed[Kind(maker'[q].op)]
  BY <1>2, <1>3 DEF LimitInv
<1> QED  BY <1>3, <1>5, <1>6, <1>7, StillRoom, RowsLeaveRoom

\* Whoever passes has seen less than his limit, which was allowed: with all requests
\* passed, the rows are one less than their number above it.
LEMMA MakeCountKeeps ==
    ASSUME TierInv, LimitInv, NEW r \in MakeReqs, MakeCount(r), UNCHANGED tierVars
    PROVE  LimitInv'
<1> USE LimitTypes
<1>1. CASE ~WithinLimit(r)
  BY <1>1, MakerDoneKeeps DEF MakeCount
<1>2. CASE WithinLimit(r)
  <2> DEFINE new == [maker[r] EXCEPT !.pc = "create"]
             h == Kind(maker[r].op)
  <2>1. /\ maker' = [maker EXCEPT ![r] = new] /\ UNCHANGED <<made, copies, allowed>>
        /\ maker[r].pc = "count"
    BY <1>2 DEF MakeCount
  <2>2. /\ new \in MakerState /\ new.pc = "create"
        /\ new.op = maker[r].op /\ new.max = maker[r].max
    BY DEF MakerState
  <2>3. maker[r].max \in allowed[h] /\ h \in Kinds /\ made[h] < maker[r].max
    BY <1>2, <2>1 DEF WithinLimit, Counted, LimitInv
  <2> HIDE DEF new, h
  <2>4. maker' \in [MakeReqs -> MakerState] /\ made' \in [Kinds -> Nat] /\ copies' \in Nat
    BY <2>1, <2>2
  <2>5. \A q \in MakeReqs :
           maker'[q].pc # "idle" => maker'[q].max \in allowed[Kind(maker'[q].op)]
    BY <2>1, <2>2, <2>3 DEF LimitInv, h
  <2>6. ASSUME NEW k \in Kinds
        PROVE  \E m \in allowed[k] :
                  made'[k] + Cardinality(Passed(k)') <= m + Cardinality(MakeReqs) - 1
    <3>1. CASE k = h
      <4>1. Passed(k)' \in SUBSET MakeReqs  BY DEF Passed
      <4>2. /\ Cardinality(Passed(k)') \in Nat /\ Cardinality(MakeReqs) \in Nat
            /\ Cardinality(Passed(k)') <= Cardinality(MakeReqs)
        BY <4>1, MakerSets
      <4>3. made'[k] = made[h] /\ made[h] \in Nat /\ maker[r].max \in Nat
        BY <2>1, <2>3, <3>1
      <4> QED  BY <2>3, <3>1, <4>2, <4>3
    <3>2. CASE k # h
      <4>1. Passed(k)' \subseteq Passed(k) /\ made'[k] <= made[k]
        BY <2>1, <2>2, <3>2 DEF Passed, h
      <4> QED  BY <2>4, <4>1, StillRoom
    <3> QED  BY <3>1, <3>2
  <2> QED  BY <2>1, <2>4, <2>5, <2>6, RowsLeaveRoom
<1> QED  BY <1>1, <1>2

\* A request that passed becomes a row.
LEMMA MakeCreateKeeps ==
    ASSUME TierInv, LimitInv, NEW r \in MakeReqs, MakeCreate(r), UNCHANGED tierVars
    PROVE  LimitInv'
<1> USE LimitTypes, IdleMakerTyped
<1> DEFINE h == Kind(maker[r].op)
<1>1. /\ maker' = [maker EXCEPT ![r] = IdleMaker] /\ maker[r].pc = "create"
      /\ h \in Kinds /\ made' = [made EXCEPT ![h] = @ + 1]
      /\ UNCHANGED <<copies, allowed>>
  BY DEF MakeCreate, MakerDone
<1>2. r \in Passed(h)  BY <1>1 DEF Passed
<1> HIDE DEF h
<1>3. maker' \in [MakeReqs -> MakerState] /\ made' \in [Kinds -> Nat] /\ copies' \in Nat
  BY <1>1
<1>4. \A q \in MakeReqs :
         maker'[q].pc # "idle" => maker'[q].max \in allowed[Kind(maker'[q].op)]
  BY <1>1 DEF LimitInv
<1>5. ASSUME NEW k \in Kinds
      PROVE  \E m \in allowed[k] :
                made'[k] + Cardinality(Passed(k)') <= m + Cardinality(MakeReqs) - 1
  <2>1. CASE k = h
    <3>1. Passed(k)' = Passed(k) \ {r}  BY <1>1, <2>1 DEF Passed
    <3>2. /\ Cardinality(Passed(k)') = Cardinality(Passed(k)) - 1
          /\ Cardinality(Passed(k)) \in Nat /\ Cardinality(MakeReqs) \in Nat
      BY <1>2, <2>1, <3>1, MakerSets
    <3>3. PICK m \in allowed[k] :
             made[k] + Cardinality(Passed(k)) <= m + Cardinality(MakeReqs) - 1
      BY DEF LimitInv, MonthlyLimitHeld
    <3>4. m \in Nat /\ made[k] \in Nat /\ made'[k] = made[k] + 1  BY <1>1, <2>1
    <3> QED  BY <3>2, <3>3, <3>4
  <2>2. CASE k # h
    <3>1. Passed(k)' \subseteq Passed(k) /\ made'[k] <= made[k]
      BY <1>1, <2>2 DEF Passed
    <3> QED  BY <1>3, <3>1, StillRoom
  <2> QED  BY <2>1, <2>2
<1> QED  BY <1>1, <1>3, <1>4, <1>5, RowsLeaveRoom

LEMMA RowsChangeKeeps ==
    ASSUME TierInv, LimitInv, CopyContract \/ DeleteQuote, UNCHANGED tierVars
    PROVE  LimitInv'
<1> USE LimitTypes
<1>1. /\ UNCHANGED <<maker, allowed>> /\ copies' \in Nat
      /\ made' \in [Kinds -> Nat] /\ \A k \in Kinds : made'[k] <= made[k]
  BY DEF CopyContract, DeleteQuote, Kinds
<1>2. \A k \in Kinds : Passed(k)' \subseteq Passed(k)  BY <1>1 DEF Passed
<1>3. \A q \in MakeReqs :
         maker'[q].pc # "idle" => maker'[q].max \in allowed[Kind(maker'[q].op)]
  BY <1>1 DEF LimitInv
<1> QED  BY <1>1, <1>2, <1>3, StillRoom, RowsLeaveRoom

\* A new month starts with no rows, and forgets the limits that nobody has any more.
LEMMA MonthBeginKeeps ==
    ASSUME TierInv, LimitInv, MonthBegins, UNCHANGED tierVars PROVE LimitInv'
<1> USE LimitTypes
<1> DEFINE InUse(k) == {maker[r].max : r \in {q \in MakeReqs : /\ maker[q].pc # "idle"
                                                              /\ Kind(maker[q].op) = k}}
<1>1. /\ made' = [k \in Kinds |-> 0] /\ copies' = 0 /\ maker' = maker
      /\ allowed' = [k \in Kinds |-> LimitsOf(tier)[k] \cup InUse(k)]
      /\ tier' = tier
  BY DEF MonthBegins, tierVars
<1>2. \A k : InUse(k) \subseteq Nat  OBVIOUS
<1>3. \A r \in MakeReqs : maker[r].pc # "idle" => maker[r].max \in InUse(Kind(maker[r].op))
  OBVIOUS
<1> HIDE DEF InUse
<1>4. tier \in TierNames  BY TierTypes
<1>5. LimitTypeOK'  BY <1>1, <1>2, <1>4, LimitsTyped DEF LimitTypeOK
<1>6. MonthlyLimitHeld'
  <2> SUFFICES ASSUME NEW k \in Kinds
               PROVE  \E m \in allowed'[k] :
                  made'[k] + Cardinality(Passed(k)') <= m + Cardinality(MakeReqs) - 1
    BY DEF MonthlyLimitHeld
  <2>1. PICK m \in allowed'[k] : m \in Nat \ {0}  BY <1>1, <1>4, LimitsTyped
  <2>2. Passed(k)' \in SUBSET MakeReqs  BY DEF Passed
  <2>3. /\ Cardinality(Passed(k)') \in Nat /\ Cardinality(MakeReqs) \in Nat
        /\ Cardinality(Passed(k)') <= Cardinality(MakeReqs)
    BY <2>2, MakerSets
  <2> QED  BY <1>1, <2>1, <2>3
<1> QED  BY <1>1, <1>3, <1>5, <1>6 DEF LimitInv

\* A change of tier only adds limits.
LEMMA NewLimitsKeep ==
    ASSUME TierInv, LimitInv, TierInv', NewLimits PROVE LimitInv'
<1> USE LimitTypes
<1>1. /\ allowed' = [k \in Kinds |-> allowed[k] \cup LimitsOf(tier')[k]]
      /\ UNCHANGED <<made, copies, maker>>
  BY DEF NewLimits
<1>2. tier' \in TierNames  BY DEF TierInv, TierTypeOK
<1>3. \A k \in Kinds : allowed[k] \subseteq allowed'[k] /\ allowed'[k] \subseteq Nat
                       /\ LimitsOf(tier')[k] \subseteq allowed'[k]
  BY <1>1, <1>2, LimitsTyped
<1>4. LimitTypeOK'  BY <1>1, <1>3 DEF LimitTypeOK
<1>5. \A k : Passed(k)' = Passed(k)  BY <1>1 DEF Passed
<1>6. MonthlyLimitHeld'  BY <1>1, <1>3, <1>5 DEF LimitInv, MonthlyLimitHeld
<1> QED  BY <1>1, <1>3, <1>4, <1>6 DEF LimitInv

LEMMA LimitStepKeeps ==
    TierInv /\ LimitInv /\ [LimitNext]_<<tierVars, limitVars>> => TierInv' /\ LimitInv'
<1> SUFFICES ASSUME TierInv, LimitInv, [LimitNext]_<<tierVars, limitVars>>
             PROVE  TierInv' /\ LimitInv'
  OBVIOUS
<1>1. TierInv'  BY TierStep DEF LimitNext
<1>2. CASE LimitStep /\ UNCHANGED tierVars
  <2>1. ASSUME NEW r \in MakeReqs, MakeFail(r) PROVE LimitInv'
    BY <1>2, <2>1, MakerDoneKeeps DEF MakeFail
  <2> QED  BY <1>1, <1>2, <2>1, MakeReadKeeps, MakeCountKeeps, MakeCreateKeeps,
              RowsChangeKeeps, MonthBeginKeeps DEF LimitStep
<1>3. CASE TierNext /\ NewLimits  BY <1>1, <1>3, NewLimitsKeep
<1>4. CASE UNCHANGED <<tierVars, limitVars>>
  <2>1. \A k : Passed(k)' = Passed(k)  BY <1>4 DEF limitVars, Passed
  <2> QED  BY <1>1, <1>4, <2>1
           DEF tierVars, limitVars, LimitInv, LimitTypeOK, MonthlyLimitHeld
<1> QED  BY <1>1, <1>2, <1>3, <1>4 DEF LimitNext

LEMMA LimitInvariant == LimitSpec => [](TierInv /\ LimitInv)
BY LimitInitially, LimitStepKeeps, PTL DEF LimitSpec

\* A paid tier was paid for or given at some time, in whatever order events arrive.
THEOREM PaidTierEarned == LimitSpec => []TierEarned
<1>1. TierInv => TierEarned  BY DEF TierInv
<1> QED  BY <1>1, LimitInvariant, PTL

\* Overlapping requests exceed a monthly limit by one less than their number at most.
THEOREM MonthlyLimitsHold == LimitSpec => []MonthlyLimitHeld
<1>1. LimitInv => MonthlyLimitHeld  BY DEF LimitInv
<1> QED  BY <1>1, LimitInvariant, PTL
-----------------------------------------------------------------------------
(* PromoCodes *)

\* Sizes of sets of requests and of users.
LEMMA PromoSets ==
    /\ Cardinality(PromoReqs) \in Nat
    /\ \A T \in SUBSET PromoReqs :
          /\ Cardinality(T) \in Nat
          /\ \A S \in SUBSET T : Cardinality(S) <= Cardinality(T)
          /\ \A r \in T : Cardinality(T \ {r}) = Cardinality(T) - 1
          /\ \A r : r \notin T => Cardinality(T \cup {r}) = Cardinality(T) + 1
          /\ \A S \in SUBSET PromoReqs :
                S \cap T = {} => Cardinality(S) + Cardinality(T) <= Cardinality(PromoReqs)
    /\ \A U \in SUBSET Users :
          /\ Cardinality(U) \in Nat
          /\ \A u : u \notin U => Cardinality(U \cup {u}) = Cardinality(U) + 1
<1>1. IsFiniteSet(PromoReqs) /\ IsFiniteSet(Users)  BY PromoAssumption
<1>2. /\ \A T \in SUBSET PromoReqs : IsFiniteSet(T)
      /\ \A U \in SUBSET Users : IsFiniteSet(U)
  BY <1>1, FS_Subset
<1>3. ASSUME NEW T \in SUBSET PromoReqs, NEW S \in SUBSET PromoReqs, S \cap T = {}
      PROVE  Cardinality(S) + Cardinality(T) <= Cardinality(PromoReqs)
  <2>1. IsFiniteSet(S) /\ IsFiniteSet(T)  BY <1>2
  <2>2. Cardinality(S \cup T) = Cardinality(S) + Cardinality(T) - Cardinality(S \cap T)
    BY <2>1, FS_Union
  <2>3. Cardinality(S \cap T) = 0  BY <1>3, FS_EmptySet
  <2>4. S \cup T \in SUBSET PromoReqs  OBVIOUS
  <2>5. Cardinality(S \cup T) <= Cardinality(PromoReqs)  BY <1>1, <2>4, FS_Subset
  <2>6. Cardinality(S) \in Nat /\ Cardinality(T) \in Nat  BY <2>1, FS_CardinalityType
  <2> QED  BY <2>2, <2>3, <2>5, <2>6
<1>4. \A T \in SUBSET PromoReqs :
         /\ Cardinality(T) \in Nat
         /\ \A S \in SUBSET T : Cardinality(S) <= Cardinality(T)
         /\ \A r \in T : Cardinality(T \ {r}) = Cardinality(T) - 1
         /\ \A r : r \notin T => Cardinality(T \cup {r}) = Cardinality(T) + 1
  BY <1>2, FS_Subset, FS_CardinalityType, FS_AddElement, FS_RemoveElement
<1>5. \A U \in SUBSET Users :
         /\ Cardinality(U) \in Nat
         /\ \A u : u \notin U => Cardinality(U \cup {u}) = Cardinality(U) + 1
  BY <1>2, FS_CardinalityType, FS_AddElement
<1> QED  BY <1>1, <1>3, <1>4, <1>5, FS_CardinalityType

LEMMA PromoTypes ==
    ASSUME PromoInv
    PROVE  /\ promo \in PromoRow /\ promo.used \in Nat
           /\ promo.max \in Nat /\ promo.max \in maxes
           /\ usages \in SUBSET Users /\ maxes \subseteq Nat /\ lost \in Nat
           /\ redeem \in [PromoReqs -> RedeemState]
           /\ Counting \in SUBSET PromoReqs /\ Redeeming \in SUBSET PromoReqs
           /\ Counting \cap Redeeming = {}
           /\ IdleRedeem \in RedeemState /\ IdleRedeem.pc = "idle"
BY PromoAssumption
DEF PromoInv, PromoTypeOK, PromoRow, RedeemState, IdleRedeem, Counting, Redeeming

LEMMA PromoInitially == PromoInit => PromoInv
<1> SUFFICES ASSUME PromoInit PROVE PromoInv  OBVIOUS
<1>1. IdleRedeem \in RedeemState /\ IdleRedeem.pc = "idle"
  BY DEF IdleRedeem, RedeemState
<1>2. PICK m \in MaxUses :
         /\ promo = [present |-> TRUE, usable |-> TRUE, used |-> 0, max |-> m]
         /\ maxes = {m}
  BY DEF PromoInit
<1>3. PromoTypeOK
  <2>1. promo \in PromoRow /\ maxes \subseteq MaxUses  BY <1>2 DEF PromoRow
  <2>2. usages \subseteq Users /\ lost \in Nat /\ redeem \in [PromoReqs -> RedeemState]
    BY <1>1 DEF PromoInit
  <2> QED  BY <2>1, <2>2 DEF PromoTypeOK
<1>4. /\ Counting = {} /\ Redeeming = {} /\ usages = {} /\ lost = 0
      /\ Cardinality({}) = 0
  BY <1>1, FS_EmptySet DEF PromoInit, Counting, Redeeming
<1>5. UsesCounted  BY <1>2, <1>4 DEF UsesCounted
<1>6. UsesLimited
  <2> SUFFICES ASSUME 0 \notin maxes
               PROVE  0 + 0 <= m + Cardinality(PromoReqs) - 1 + 0
    BY <1>2, <1>4 DEF UsesLimited
  <2>1. m \in Nat \ {0}  BY <1>2, PromoAssumption
  <2> QED  BY <2>1, PromoSets
<1>7. /\ promo.max \in maxes
      /\ \A r \in PromoReqs : redeem[r].pc = "idle"
  BY <1>1, <1>2 DEF PromoInit
<1> QED  BY <1>3, <1>5, <1>6, <1>7 DEF PromoInv

\* A request that only moves on, or is refused, before its row is made.
LEMMA RedeemAlone ==
    ASSUME PromoInv, NEW r \in PromoReqs, NEW new \in RedeemState,
           redeem' = [redeem EXCEPT ![r] = new], OnlyRedeem,
           redeem[r].pc # "count", new.pc # "count",
           new.pc \in {"lookup", "upgrade", "record"} => r \in Redeeming,
           new.pc # "idle" => new.user \in Users
    PROVE  PromoInv'
<1> USE PromoTypes DEF OnlyRedeem
<1>1. Counting' = Counting  BY DEF Counting
<1>2. Redeeming' \in SUBSET Redeeming  BY DEF Redeeming
<1>3. PromoTypeOK'  BY DEF PromoInv, PromoTypeOK
<1>4. UsesCounted'  BY <1>1 DEF PromoInv, UsesCounted
<1>5. UsesLimited'
  <2> SUFFICES ASSUME promo.present, 0 \notin maxes
               PROVE  \E m \in maxes : Cardinality(usages) + Cardinality(Redeeming')
                                          <= m + Cardinality(PromoReqs) - 1 + lost
    BY DEF UsesLimited
  <2>1. PICK m \in maxes : Cardinality(usages) + Cardinality(Redeeming)
                              <= m + Cardinality(PromoReqs) - 1 + lost
    BY DEF PromoInv, UsesLimited
  <2>2. /\ Cardinality(Redeeming') <= Cardinality(Redeeming)
        /\ Cardinality(Redeeming') \in Nat /\ Cardinality(Redeeming) \in Nat
    BY <1>2, PromoSets
  <2>3. m \in Nat  OBVIOUS
  <2> QED  BY <2>1, <2>2, <2>3, PromoSets
<1> QED  BY <1>3, <1>4, <1>5 DEF PromoInv

\* Whoever passes has seen fewer uses than the limit, and whoever is counted or counting
\* is another request or a use.
LEMMA RedeemReadKeeps ==
    ASSUME PromoInv, NEW r \in PromoReqs, NEW u \in Users, RedeemRead(r, u)
    PROVE  PromoInv'
<1> USE PromoTypes DEF OnlyRedeem
<1> DEFINE new == [pc |-> "lookup", user |-> u]
<1>1. new \in RedeemState /\ new.pc = "lookup" /\ new.user = u
  BY DEF RedeemState
<1>2. /\ redeem' = [redeem EXCEPT ![r] = new] /\ redeem[r].pc = "idle"
      /\ UNCHANGED <<promo, usages, maxes, lost>>
      /\ promo.present /\ (promo.max = 0 \/ promo.used < promo.max)
  BY DEF RedeemRead, UsesLeft
<1> HIDE DEF new
<1>3. Counting' = Counting  BY <1>1, <1>2 DEF Counting
<1>4. Redeeming' \in SUBSET PromoReqs /\ Redeeming' \cap Counting = {}
  BY <1>1, <1>2 DEF Redeeming, Counting
<1>5. PromoTypeOK'  BY <1>1, <1>2 DEF PromoInv, PromoTypeOK
<1>6. UsesCounted'  BY <1>2, <1>3 DEF PromoInv, UsesCounted
<1>7. UsesLimited'
  <2> SUFFICES ASSUME 0 \notin maxes
               PROVE  Cardinality(usages) + Cardinality(Redeeming')
                         <= promo.max + Cardinality(PromoReqs) - 1 + lost
    BY <1>2 DEF UsesLimited
  <2>1. promo.used < promo.max  BY <1>2
  <2>2. Cardinality(usages) = promo.used + Cardinality(Counting) + lost
    BY <1>2 DEF PromoInv, UsesCounted
  <2>3. /\ Cardinality(Redeeming') + Cardinality(Counting) <= Cardinality(PromoReqs)
        /\ Cardinality(Redeeming') \in Nat /\ Cardinality(Counting) \in Nat
    BY <1>4, PromoSets
  <2> QED  BY <2>1, <2>2, <2>3, PromoSets
<1> QED  BY <1>1, <1>2, <1>5, <1>6, <1>7 DEF PromoInv

\* A request whose row is made counts no more as redeeming, and its user does.
LEMMA RedeemRecordKeeps ==
    ASSUME PromoInv, NEW r \in PromoReqs, RedeemRecord(r) PROVE PromoInv'
<1> USE PromoTypes
<1> DEFINE u == redeem[r].user
           new == [redeem[r] EXCEPT !.pc = "count"]
<1>1. /\ redeem' = [redeem EXCEPT ![r] = new] /\ redeem[r].pc = "record"
      /\ usages' = usages \cup {u} /\ u \notin usages
      /\ UNCHANGED <<promo, maxes, lost>>
  BY DEF RedeemRecord, RedeemGoto
<1>2. /\ new \in RedeemState /\ new.pc = "count" /\ new.user = u /\ u \in Users
  BY <1>1 DEF RedeemState, PromoInv
<1> HIDE DEF new
<1>3. Counting' = Counting \cup {r} /\ r \notin Counting
  BY <1>1, <1>2 DEF Counting
<1>4. Redeeming' = Redeeming \ {r} /\ r \in Redeeming
  BY <1>1, <1>2 DEF Redeeming
<1>5. /\ Cardinality(usages') = Cardinality(usages) + 1
      /\ Cardinality(Counting') = Cardinality(Counting) + 1
      /\ Cardinality(Redeeming') = Cardinality(Redeeming) - 1
      /\ Cardinality(usages) \in Nat /\ Cardinality(Counting) \in Nat
      /\ Cardinality(Redeeming) \in Nat
  BY <1>1, <1>3, <1>4, PromoSets
<1>6. PromoTypeOK'  BY <1>1, <1>2 DEF PromoInv, PromoTypeOK
<1>7. UsesCounted'  BY <1>1, <1>5 DEF PromoInv, UsesCounted
<1>8. UsesLimited'  BY <1>1, <1>5 DEF PromoInv, UsesLimited
<1> QED  BY <1>1, <1>2, <1>6, <1>7, <1>8 DEF PromoInv

\* A request that counted its use is done.
LEMMA RedeemCountKeeps ==
    ASSUME PromoInv, NEW r \in PromoReqs,
           \/ RedeemCount(r)
           \/ RedeemFail(r) /\ redeem[r].pc = "count"
    PROVE  PromoInv'
<1> USE PromoTypes
<1>1. /\ redeem' = [redeem EXCEPT ![r] = IdleRedeem] /\ redeem[r].pc = "count"
      /\ UNCHANGED <<usages, maxes>>
      /\ promo' \in PromoRow /\ promo'.max = promo.max /\ promo'.present = promo.present
      /\ lost' \in Nat /\ lost' >= lost /\ promo'.used + lost' = promo.used + lost + 1
  <2>1. CASE RedeemCount(r)
    <3>1. promo' = [promo EXCEPT !.used = promo.used + 1] /\ lost' = lost
      BY <2>1 DEF RedeemCount
    <3>2. /\ promo' \in PromoRow /\ promo'.used = promo.used + 1
          /\ promo'.max = promo.max /\ promo'.present = promo.present
      BY <3>1 DEF PromoRow
    <3>3. redeem' = [redeem EXCEPT ![r] = IdleRedeem] /\ redeem[r].pc = "count"
          /\ UNCHANGED <<usages, maxes>>
      BY <2>1 DEF RedeemCount, RedeemDone
    <3>4. promo'.used + lost' = promo.used + lost + 1 /\ lost' >= lost  BY <3>1, <3>2
    <3> QED  BY <3>1, <3>2, <3>3, <3>4
  <2>2. CASE RedeemFail(r) /\ redeem[r].pc = "count"
    BY <2>2 DEF RedeemFail, RedeemDone
  <2> QED  BY <2>1, <2>2
<1>2. Counting' = Counting \ {r} /\ r \in Counting  BY <1>1 DEF Counting
<1>3. Redeeming' = Redeeming  BY <1>1 DEF Redeeming
<1>4. /\ Cardinality(Counting') = Cardinality(Counting) - 1
      /\ Cardinality(Counting) \in Nat /\ Cardinality(usages) \in Nat
      /\ Cardinality(Redeeming) \in Nat /\ promo'.used \in Nat
  BY <1>1, <1>2, PromoSets DEF PromoRow
<1>5. PromoTypeOK'  BY <1>1 DEF PromoInv, PromoTypeOK
<1>6. UsesCounted'  BY <1>1, <1>4 DEF PromoInv, UsesCounted
<1>7. UsesLimited'
  <2> SUFFICES ASSUME promo.present, 0 \notin maxes
               PROVE  \E m \in maxes : Cardinality(usages) + Cardinality(Redeeming)
                                          <= m + Cardinality(PromoReqs) - 1 + lost'
    BY <1>1, <1>3 DEF UsesLimited
  <2>1. PICK m \in maxes : Cardinality(usages) + Cardinality(Redeeming)
                              <= m + Cardinality(PromoReqs) - 1 + lost
    BY DEF PromoInv, UsesLimited
  <2>2. m \in Nat  OBVIOUS
  <2> QED  BY <1>1, <1>4, <2>1, <2>2, PromoSets
<1> QED  BY <1>1, <1>5, <1>6, <1>7 DEF PromoInv

LEMMA RedeemMovesOn ==
    ASSUME PromoInv, NEW r \in PromoReqs,
           \/ RedeemLookup(r) \/ RedeemUpgrade(r)
           \/ RedeemFail(r) /\ redeem[r].pc # "count"
    PROVE  PromoInv'
<1> USE PromoTypes
<1>1. ASSUME NEW step \in {"upgrade", "record"}, RedeemGoto(r, step), OnlyRedeem,
             redeem[r].pc \in {"lookup", "upgrade"}
      PROVE  PromoInv'
  <2> DEFINE new == [redeem[r] EXCEPT !.pc = step]
  <2>1. /\ new \in RedeemState /\ new.pc = step /\ new.user = redeem[r].user
        /\ new.user \in Users /\ r \in Redeeming
    BY <1>1 DEF RedeemState, PromoInv, Redeeming
  <2>2. redeem' = [redeem EXCEPT ![r] = new]  BY <1>1 DEF RedeemGoto
  <2> HIDE DEF new
  <2> QED  BY <1>1, <2>1, <2>2, RedeemAlone
<1>2. ASSUME RedeemDone(r), OnlyRedeem, redeem[r].pc # "count" PROVE PromoInv'
  BY <1>2, RedeemAlone DEF RedeemDone
<1>3. CASE RedeemLookup(r)  BY <1>1, <1>2, <1>3 DEF RedeemLookup
<1>4. CASE RedeemUpgrade(r)  BY <1>1, <1>4 DEF RedeemUpgrade
<1>5. CASE RedeemFail(r) /\ redeem[r].pc # "count"
  BY <1>2, <1>5 DEF RedeemFail, OnlyRedeem
<1> QED  BY <1>3, <1>4, <1>5

LEMMA AdminKeeps ==
    ASSUME PromoInv,
           \/ \E usable \in BOOLEAN, m \in MaxUses : UpdatePromo(usable, m)
           \/ DeletePromo
    PROVE  PromoInv'
<1> USE PromoTypes
<1>1. ASSUME NEW usable \in BOOLEAN, NEW m \in MaxUses, UpdatePromo(usable, m)
      PROVE  PromoInv'
  <2>1. /\ promo' = [promo EXCEPT !.usable = usable, !.max = m] /\ maxes' = maxes \cup {m}
        /\ UNCHANGED <<usages, redeem, lost>>
    BY <1>1 DEF UpdatePromo
  <2>2. /\ promo' \in PromoRow /\ promo'.max = m /\ promo'.used = promo.used
        /\ promo'.present = promo.present
    BY <2>1 DEF PromoRow
  <2>3. Counting' = Counting /\ Redeeming' = Redeeming
    BY <2>1 DEF Counting, Redeeming
  <2>4. PromoTypeOK'  BY <2>1, <2>2 DEF PromoInv, PromoTypeOK
  <2>5. UsesCounted'  BY <2>1, <2>2, <2>3 DEF PromoInv, UsesCounted
  <2>6. UsesLimited'  BY <2>1, <2>2, <2>3 DEF PromoInv, UsesLimited
  <2> QED  BY <2>1, <2>2, <2>4, <2>5, <2>6 DEF PromoInv
<1>2. CASE DeletePromo
  <2>1. /\ promo' = [promo EXCEPT !.present = FALSE] /\ usages' = {}
        /\ UNCHANGED <<redeem, maxes, lost>>
    BY <1>2 DEF DeletePromo
  <2>2. promo' \in PromoRow /\ ~promo'.present /\ promo'.max = promo.max
    BY <2>1 DEF PromoRow
  <2>3. PromoTypeOK'  BY <2>1, <2>2 DEF PromoInv, PromoTypeOK
  <2> QED  BY <2>1, <2>2, <2>3 DEF PromoInv, UsesCounted, UsesLimited
<1> QED  BY <1>1, <1>2

LEMMA PromoStep == PromoInv /\ [PromoNext]_promoVars => PromoInv'
<1> SUFFICES ASSUME PromoInv, [PromoNext]_promoVars PROVE PromoInv'  OBVIOUS
<1>1. CASE UNCHANGED promoVars
  <2>1. Counting' = Counting /\ Redeeming' = Redeeming
    BY <1>1 DEF promoVars, Counting, Redeeming
  <2> QED  BY <1>1, <2>1
           DEF promoVars, PromoInv, PromoTypeOK, UsesCounted, UsesLimited
<1> QED  BY <1>1, RedeemReadKeeps, RedeemMovesOn, RedeemRecordKeeps, RedeemCountKeeps,
            AdminKeeps DEF PromoNext

LEMMA PromoInvariant == PromoSpec => []PromoInv
BY PromoInitially, PromoStep, PTL DEF PromoSpec

\* usedCount is the number of users who redeemed the code, up to requests still at it
\* and increments that failed.
THEOREM UsesAreCounted == PromoSpec => []UsesCounted
<1>1. PromoInv => UsesCounted  BY DEF PromoInv
<1> QED  BY <1>1, PromoInvariant, PTL

\* Overlapping requests exceed the limit of a code by one less than their number at most.
THEOREM UsesAreLimited == PromoSpec => []UsesLimited
<1>1. PromoInv => UsesLimited  BY DEF PromoInv
<1> QED  BY <1>1, PromoInvariant, PTL
-----------------------------------------------------------------------------
(* The parts side by side *)

AccountInv == TierInv /\ LimitInv

ServicesInv ==
    /\ AccountInv /\ PromoInv /\ ChainInv /\ MaintenanceInv /\ MonitorInv
    /\ OtpInv /\ CreditInv

\* Either part of the account takes steps that the tier and its limits take together.
LEMMA AccountKeeps ==
    ASSUME AccountInv, AccountStep \/ UNCHANGED accountVars PROVE AccountInv'
<1>1. SomeTierStep => TierNext
  <2>1. SomePlan \subseteq Plans  BY DEF SomePlan
  <2> QED  BY <2>1 DEF SomeTierStep, TierNext
<1>2. LimitNext \/ UNCHANGED <<tierVars, limitVars>>
  BY <1>1 DEF AccountStep, LimitNext, accountVars
<1> QED  BY <1>2, LimitStepKeeps DEF AccountInv

LEMMA ServicesStep == ServicesInv /\ [ServicesNext]_servicesVars => ServicesInv'
<1> SUFFICES ASSUME ServicesInv, [ServicesNext]_servicesVars PROVE ServicesInv'
  OBVIOUS
<1> USE DEF ServicesInv
<1>1. AccountInv'
  BY AccountKeeps DEF ServicesNext, servicesVars
<1>2. PromoInv'
  BY PromoStep DEF ServicesNext, servicesVars
<1>3. ChainInv'
  BY ChainStep DEF ServicesNext, servicesVars
<1>4. MaintenanceInv'
  BY MaintenanceStep DEF ServicesNext, servicesVars
<1>5. MonitorInv'
  BY MonitorStep DEF ServicesNext, servicesVars
<1>6. OtpInv'
  BY OtpInductive DEF ServicesNext, servicesVars
<1>7. CreditInv'
  BY CreditInvNext DEF ServicesNext, servicesVars
<1> QED  BY <1>1, <1>2, <1>3, <1>4, <1>5, <1>6, <1>7

LEMMA ServicesInvariant == ServicesSpec => []ServicesInv
<1>1. ServicesInit => ServicesInv
  BY LimitInitially, PromoInitially, ChainInitially, MaintenanceInitially,
     MonitorInitially, OtpInitially, CreditInitially
  DEF ServicesInit, ServicesInv, AccountInv
<1> QED  BY <1>1, ServicesStep, PTL DEF ServicesSpec

\* Every reachable row and local of the seven parts is of its type, whichever of them
\* takes the steps: counters stay counters, and no request holds an id of no row.
THEOREM ServicesAreTyped == ServicesSpec => []ServicesTypeOK
<1>1. ServicesInv => ServicesTypeOK
  BY DEF ServicesInv, AccountInv, TierInv, LimitInv, PromoInv, ChainInv,
         MaintenanceInv, MonitorInv, OtpInv, CreditInv, ServicesTypeOK
<1> QED  BY <1>1, ServicesInvariant, PTL
=============================================================================
