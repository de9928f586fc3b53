------------------------------ MODULE ExpiryJob ------------------------------
(***************************************************************************)
(* SchedulerService.expireTokens, the hourly job that closes the signers   *)
(* whose link has run out, as it treats one contract: find the rows,       *)
(* update them by their ids, look at the contract's signers again, close   *)
(* the contract if nobody is left.  Runs follow one another.               *)
(***************************************************************************)
EXTENDS ContractStore

VARIABLE job   \* local state of the run

JobState == [pc : {"idle", "expireSigners", "review", "expireContract"},
             due : SUBSET Signers]

JobTypeOK == job \in JobState

IdleJob == [pc |-> "idle", due |-> {}]

JobInit == job = IdleJob

JobFind ==
    LET due == {s \in Pending : ~signer[s].live} IN
    /\ job.pc = "idle"
    /\ due # {}
    /\ job' = [pc |-> "expireSigners", due |-> due]
    /\ UNCHANGED storeVars

\* updateMany by the ids found, with no condition on the status any more.
JobExpireSigners ==
    /\ job.pc = "expireSigners"
    /\ signer' = [s \in Signers |-> IF s \in job.due
                                    THEN [signer[s] EXCEPT !.status = "expired"]
                                    ELSE signer[s]]
    /\ job' = [pc |-> "review", due |-> {}]
    /\ UNCHANGED <<status, text, pdf, edits, versions, mails, charges,
                   archivedFrom, signedLog, final>>

JobReview ==
    /\ job.pc = "review"
    /\ job' = IF \A s \in Present : signer[s].status \in {"expired", "declined"}
              THEN [job EXCEPT !.pc = "expireContract"] ELSE IdleJob
    /\ UNCHANGED storeVars

JobExpireContract ==
    /\ job.pc = "expireContract"
    /\ status' = "expired"
    /\ job' = IdleJob
    /\ UNCHANGED <<text, pdf, edits, versions, signer, mails, charges,
                   archivedFrom, signedLog, final>>

\* A call of the job rejects, or the process stops.
JobFail ==
    /\ job.pc # "idle"
    /\ job' = IdleJob
    /\ UNCHANGED storeVars

JobStep == JobExpireSigners \/ JobReview \/ JobExpireContract

JobNext == JobFind \/ JobStep \/ JobFail
=============================================================================
