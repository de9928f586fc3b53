---------------------------- MODULE PartnerMonitor ----------------------------
(***************************************************************************)
(* The job listings of ONE partner of one user (PartnerMonitorService): a  *)
(* scan, nightly or asked for by the user, records what it finds; after a  *)
(* nightly scan that found something new the scheduler mails the listings  *)
(* not announced yet and marks them.  Left out: the fetching and parsing   *)
(* of pages, snapshots and statistics.                                     *)
(***************************************************************************)

CONSTANTS
    Urls,      \* listings there can be, by their url
    Scans,     \* scans that can be in progress, one of them the nightly job
    Nightly    \* the slot of the nightly job

ASSUME MonitorAssumption == Nightly \in Scans

VARIABLES
    listing,    \* the row of each url
    scan,       \* local state of each scan
    digest,     \* local state of sendPartnerMonitorDigest
    announced   \* listings that have been in a digest that was sent

monitorVars == <<listing, scan, digest, announced>>

ListingRow == [status   : {"none", "new", "active", "expired"},   \* "none": no row
               notified : BOOLEAN,
               stale    : BOOLEAN]     \* lastSeenAt is more than seven days ago

ScanState == [pc     : {"idle", "results", "save"},
              source : {"search", "website", "over"},
              url    : Urls \cup {"none"},
              known  : BOOLEAN,         \* findUnique has found its row
              seen   : SUBSET Urls,     \* results of the website recorded so far
              found  : BOOLEAN,         \* newListings > 0, of the website
              fresh  : BOOLEAN]         \* newListingsTotal > 0

DigestState == [pc : {"idle", "read", "mail", "mark"}, chosen : SUBSET Urls]

MonitorTypeOK ==
    /\ listing \in [Urls -> ListingRow]
    /\ scan \in [Scans -> ScanState]
    /\ digest \in DigestState
    /\ announced \subseteq Urls

IdleScan == [pc |-> "idle", source |-> "search", url |-> "none", known |-> FALSE,
             seen |-> {}, found |-> FALSE, fresh |-> FALSE]
IdleDigest == [pc |-> "idle", chosen |-> {}]

MonitorInit ==
    /\ listing = [u \in Urls |-> [status |-> "none", notified |-> FALSE, stale |-> FALSE]]
    /\ scan = [s \in Scans |-> IdleScan]
    /\ digest = IdleDigest
    /\ announced = {}

Row(status, notified) == [status |-> status, notified |-> notified, stale |-> FALSE]

ScanDone(s) == scan' = [scan EXCEPT ![s] = IdleScan]

OnlyScan == UNCHANGED <<listing, digest, announced>>
-----------------------------------------------------------------------------
(* _doScan *)

\* Asked for by the user, or by the clock once the nightly job is through.
ScanStart(s) ==
    /\ scan[s].pc = "idle"
    /\ s = Nightly => digest.pc = "idle"
    /\ scan' = [scan EXCEPT ![s].pc = "results"]
    /\ OnlyScan

\* searchProfessionHu is through, scrapeWebsiteJobs or scrapeQdiak begins.
ScanWebsite(s) ==
    /\ scan[s].pc = "results" /\ scan[s].source = "search"
    /\ scan' = [scan EXCEPT ![s].source = "website"]
    /\ OnlyScan

\* A result of the search or the website; one url may come up more than once.
ScanLookup(s, u) ==
    /\ scan[s].pc = "results" /\ scan[s].source # "over"
    /\ scan' = [scan EXCEPT ![s].pc = "save", ![s].url = u,
                            ![s].known = listing[u].status # "none"]
    /\ OnlyScan

\* A known listing becomes 'active', an unknown one is created as 'new'.
ScanSave(s) ==
    LET u == scan[s].url
        web == scan[s].source = "website"
    IN  /\ scan[s].pc = "save"
        /\ \/ /\ scan[s].known
              /\ listing' = [listing EXCEPT ![u] = Row("active", @.notified)]
           \/ /\ ~scan[s].known /\ listing[u].status = "none"
              /\ listing' = [listing EXCEPT ![u] = Row("new", FALSE)]
        /\ scan' = [scan EXCEPT ![s].pc = "results", ![s].url = "none", ![s].known = FALSE,
                                ![s].seen = IF web THEN @ \cup {u} ELSE @,
                                ![s].found = @ \/ (web /\ ~scan[s].known),
                                ![s].fresh = @ \/ (~web /\ ~scan[s].known)]
        /\ UNCHANGED <<digest, announced>>

\* A call fails, or another scan has created the row.  An error of the search skips the
\* website; one of the website is caught there, and its new listings are not counted.
ScanError(s) ==
    /\ scan[s].pc # "idle" /\ scan[s].source # "over"
    /\ scan' = [scan EXCEPT ![s].pc = "results", ![s].source = "over", ![s].url = "none",
                            ![s].known = FALSE, ![s].found = FALSE]
    /\ OnlyScan

\* The rows in gone expire.
Expire(gone) ==
    listing' = [u \in Urls |-> IF u \in gone /\ listing[u].status # "none"
                              THEN [listing[u] EXCEPT !.status = "expired"]
                              ELSE listing[u]]

\* At a portal with an API, when it has listed something: what it has not listed expires.
ScanUnlisted(s) ==
    /\ scan[s].pc = "results" /\ scan[s].source = "website" /\ scan[s].seen # {}
    /\ Expire(Urls \ scan[s].seen)
    /\ scan' = [scan EXCEPT ![s].source = "over"]
    /\ UNCHANGED <<digest, announced>>

\* Rows not seen for a week expire; the nightly job goes on to the digest if there is
\* something new.
ScanEnd(s) ==
    /\ scan[s].pc = "results" /\ scan[s].source # "search"
    /\ Expire({u \in Urls : listing[u].stale})
    /\ digest' = IF s = Nightly /\ (scan[s].fresh \/ scan[s].found)
                 THEN [digest EXCEPT !.pc = "read"] ELSE digest
    /\ ScanDone(s)
    /\ UNCHANGED announced

\* A week goes by.
GrowStale(u) ==
    /\ listing[u].status # "none" /\ ~listing[u].stale
    /\ listing' = [listing EXCEPT ![u].stale = TRUE]
    /\ UNCHANGED <<scan, digest, announced>>
-----------------------------------------------------------------------------
(* sendPartnerMonitorDigest *)

Unannounced == {u \in Urls : listing[u].status = "new" /\ ~listing[u].notified}

\* getNewUnnotifiedListings
DigestRead ==
    /\ digest.pc = "read"
    /\ digest' = IF Unannounced = {} THEN IdleDigest
                 ELSE [pc |-> "mail", chosen |-> Unannounced]
    /\ UNCHANGED <<listing, scan, announced>>

\* Mails to all recipients.
DigestMail ==
    /\ digest.pc = "mail"
    /\ digest' = [digest EXCEPT !.pc = "mark"]
    /\ announced' = announced \cup digest.chosen
    /\ UNCHANGED <<listing, scan>>

\* Mutant of Marked: every listing that waits by now.
MarkedAll == Unannounced

\* The listings that were read for the mail.
Marked == digest.chosen

\* markAsNotified
DigestMark ==
    /\ digest.pc = "mark"
    /\ listing' = [u \in Urls |-> IF u \in Marked
                                  THEN [listing[u] EXCEPT !.status = "active",
                                                          !.notified = TRUE]
                                  ELSE listing[u]]
    /\ digest' = IdleDigest
    /\ UNCHANGED <<scan, announced>>

\* A mail or a call fails, or the user has switched the digest off.
DigestFail ==
    /\ digest.pc # "idle"
    /\ digest' = IdleDigest
    /\ UNCHANGED <<listing, scan, announced>>

MonitorNext ==
    \/ \E s \in Scans :
          \/ ScanStart(s) \/ ScanWebsite(s) \/ ScanSave(s) \/ ScanError(s)
          \/ ScanUnlisted(s) \/ ScanEnd(s)
          \/ \E u \in Urls : ScanLookup(s, u)
    \/ \E u \in Urls : GrowStale(u)
    \/ DigestRead \/ DigestMail \/ DigestMark \/ DigestFail

MonitorSpec == MonitorInit /\ [][MonitorNext]_monitorVars
-----------------------------------------------------------------------------
\* A listing marked as notified has been in a digest that was mailed, whatever scans
\* recorded between the reading of the listings and the mark.
NotifiedWasMailed == \A u \in Urls : listing[u].notified => u \in announced

\* Why this holds: what is marked is what was read for the mail (ServicesProofs).
MonitorInv ==
    /\ MonitorTypeOK /\ NotifiedWasMailed
    /\ digest.pc = "mark" => digest.chosen \subseteq announced
    /\ \A s \in Scans : scan[s].pc = "save" => scan[s].url \in Urls
=============================================================================
