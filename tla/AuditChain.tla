------------------------------ MODULE AuditChain ------------------------------
(***************************************************************************)
(* The hash chain over the audit log of ONE contract (AuditService.log).   *)
(* An entry takes the hash of the latest entry by createdAt, its own time, *)
(* and is created in another call; entries of one contract are written by  *)
(* requests, background calls and jobs at once.  A bounced mail writes an  *)
(* entry without hashes (ResendWebhookController.handleBounced), after     *)
(* which the chain begins again.  A hash stands for the entry it is        *)
(* computed from.                                                          *)
(***************************************************************************)
EXTENDS Integers

CONSTANTS
    Loggers,    \* calls of log and handleBounced that can be in progress
    MaxClock,   \* bound: milliseconds that pass
    MaxEntries  \* bound: entries

ASSUME ChainAssumption == MaxClock \in Nat /\ MaxEntries \in Nat

VARIABLES
    clock,    \* milliseconds of the server's clock, which is not set back
    entries,  \* number of entries
    log,      \* the entries, in the order they were committed
    logger    \* local state of each call

chainVars == <<clock, entries, log, logger>>

GENESIS == 0

Ids == 1 .. MaxEntries

Entry == [hashed   : BOOLEAN,              \* integrityHash is not null
          previous : Ids \cup {GENESIS},  \* previousHash
          at       : 0 .. MaxClock,       \* createdAt
          readAt   : 0 .. MaxEntries]     \* entries there were when the latest was read

LoggerState == [pc : {"idle", "stamp", "create"}, entry : Entry]

ChainTypeOK ==
    /\ clock \in 0 .. MaxClock
    /\ entries \in 0 .. MaxEntries
    /\ log \in [Ids -> Entry]
    /\ logger \in [Loggers -> LoggerState]

NoEntry == [hashed |-> FALSE, previous |-> GENESIS, at |-> 0, readAt |-> 0]

ChainInit ==
    /\ clock = 0 /\ entries = 0
    /\ log = [i \in Ids |-> NoEntry]
    /\ logger = [l \in Loggers |-> [pc |-> "idle", entry |-> NoEntry]]

Tick ==
    /\ clock < MaxClock /\ clock' = clock + 1
    /\ UNCHANGED <<entries, log, logger>>

Written == 1 .. entries

\* Mutant of Latest: the first entry found.
LatestAny(i) == i \in Written

\* The query orders by createdAt; of entries of one millisecond it returns any.
Latest(i) == i \in Written /\ \A j \in Written : log[j].at <= log[i].at

\* What an entry can take from the log as it is: with no entry, and also when the latest
\* one has no hash, the chain begins.
Link(p) ==
    IF entries = 0 THEN p = GENESIS
    ELSE \E i \in Ids : Latest(i) /\ p = IF log[i].hashed THEN i ELSE GENESIS

LogRead(l) ==
    /\ logger[l].pc = "idle"
    /\ \E p \in Ids \cup {GENESIS} :
          /\ Link(p)
          /\ logger' = [logger EXCEPT ![l] =
                 [pc |-> "stamp", entry |-> [hashed |-> TRUE, previous |-> p, at |-> 0,
                                             readAt |-> entries]]]
    /\ UNCHANGED <<clock, entries, log>>

\* The time is taken after the read, so it is not before the entry found.
LogStamp(l) ==
    /\ logger[l].pc = "stamp"
    /\ logger' = [logger EXCEPT ![l].pc = "create", ![l].entry.at = clock]
    /\ UNCHANGED <<clock, entries, log>>

\* A bounced mail: an entry of the present time that the chain passes over, created as
\* the others are.
Bounce(l) ==
    /\ logger[l].pc = "idle"
    /\ logger' = [logger EXCEPT ![l] =
           [pc |-> "create", entry |-> [NoEntry EXCEPT !.at = clock]]]
    /\ UNCHANGED <<clock, entries, log>>

\* Mutant of LogCreate: the latest entry is read again, after the time was taken.
LogCreateRelinked(l) ==
    /\ logger[l].pc = "create" /\ entries < MaxEntries
    /\ entries' = entries + 1
    /\ \E p \in Ids \cup {GENESIS} :
          /\ Link(p)
          /\ log' = [log EXCEPT ![entries + 1] = [logger[l].entry EXCEPT !.previous = p]]
    /\ logger' = [logger EXCEPT ![l] = [pc |-> "idle", entry |-> NoEntry]]
    /\ UNCHANGED clock

LogCreate(l) ==
    /\ logger[l].pc = "create" /\ entries < MaxEntries
    /\ entries' = entries + 1
    /\ log' = [log EXCEPT ![entries + 1] = logger[l].entry]
    /\ logger' = [logger EXCEPT ![l] = [pc |-> "idle", entry |-> NoEntry]]
    /\ UNCHANGED clock

\* Callers that do not wait for the log drop its errors, and handleBounced catches them.
LogFail(l) ==
    /\ logger[l].pc # "idle"
    /\ logger' = [logger EXCEPT ![l] = [pc |-> "idle", entry |-> NoEntry]]
    /\ UNCHANGED <<clock, entries, log>>

ChainNext ==
    \/ Tick
    \/ \E l \in Loggers :
          LogRead(l) \/ LogStamp(l) \/ Bounce(l) \/ LogCreate(l) \/ LogFail(l)

ChainSpec == ChainInit /\ [][ChainNext]_chainVars
-----------------------------------------------------------------------------
\* Every hashed entry begins the chain or follows a hashed entry that was written before
\* it and is not younger, so each leads back to a beginning, and the list ordered by
\* createdAt shows no entry before the one it follows.
LinksGoBack ==
    \A i \in Written :
        LET p == log[i].previous
        IN  log[i].hashed /\ p # GENESIS =>
                p < i /\ log[p].hashed /\ log[p].at <= log[i].at

\* An entry without hashes, not older than i, that a call could find among the first n.
Cut(i, n) == \E u \in 1 .. n : ~log[u].hashed /\ log[u].at >= log[i].at

\* The chain forks, or begins again, only where calls overlap or a bounced mail comes
\* between: of two hashed entries with the same previous one, the later was read before
\* the earlier was written, or, if both begin the chain, after such an entry.  (Entries of
\* the millisecond of the one they follow are told apart by nobody.)
ForksExplained ==
    \A i, j \in Written :
        LET p == log[i].previous
        IN  /\ i < j /\ log[i].hashed /\ log[j].hashed /\ log[j].previous = p
            /\ p = GENESIS \/ log[i].at # log[p].at
            => \/ log[j].readAt < i
               \/ p = GENESIS /\ Cut(i, log[j].readAt)

\* Why these hold: what a call has read of the log stays so, since entries are only added
\* (ServicesProofs).
LatestOf(i, n) == i \in 1 .. n /\ \A j \in 1 .. n : log[j].at <= log[i].at

StillLatest(e) ==
    /\ e.readAt <= entries
    /\ IF e.previous = GENESIS
       THEN e.readAt = 0 \/ \E u \in 1 .. e.readAt : LatestOf(u, e.readAt) /\ ~log[u].hashed
       ELSE LatestOf(e.previous, e.readAt) /\ log[e.previous].hashed

Follows(e) ==
    e.at <= clock /\ (e.previous # GENESIS => log[e.previous].at <= e.at)

ChainInv ==
    /\ ChainTypeOK
    /\ \A i \in Written : StillLatest(log[i]) /\ Follows(log[i]) /\ log[i].readAt < i
    /\ \A l \in Loggers :
          /\ logger[l].pc # "idle" => StillLatest(logger[l].entry)
          /\ logger[l].pc = "create" => Follows(logger[l].entry)
=============================================================================
