------------------------------ MODULE SignerOtp ------------------------------
(***************************************************************************)
(* The one-time code by which ONE signer proves his e-mail address         *)
(* (SignaturesService.requestOtp and verifyOtp).  Both handlers read the   *)
(* signer's row once and update it by id after that, so overlapping        *)
(* requests with the same link act on what the row was.  SignerApi holds   *)
(* what signing does with the result, otpVerified.                         *)
(***************************************************************************)
EXTENDS Naturals, FiniteSets

CONSTANTS
    OtpReqs,      \* requests for or with a code that can be in progress
    MaxAttempts,  \* OTP_MAX_ATTEMPTS
    MaxCodes      \* bound: number of codes generated

ASSUME OtpAssumption ==
    /\ IsFiniteSet(OtpReqs)
    /\ MaxAttempts \in Nat \ {0}
    /\ MaxCodes \in Nat

VARIABLES
    otp,    \* the columns of the signer's row
    req,    \* local state of each request
    issued, \* codes are numbered as they are generated; the number so far
    mailed, \* codes mailed to the signer
    wrong   \* how often "Hibás kód" was answered while a code was asked for

otpVars == <<otp, req, issued, mailed, wrong>>

Codes == 1 .. MaxCodes

OtpRow == [code     : {0} \cup Codes,  \* otpCode, 0 for null
           fresh    : BOOLEAN,         \* otpExpiresAt is still ahead
           cooling  : BOOLEAN,         \* less than 60 seconds since it was set
           attempts : Nat,             \* otpAttempts
           verified : BOOLEAN,         \* otpVerified
           pending  : BOOLEAN,         \* the signer's status is 'pending'
           live     : BOOLEAN]         \* tokenExpiresAt is still ahead

OtpState == [pc   : {"idle", "store", "mail", "miss", "match"},
             code : {0} \cup Codes,    \* code generated, or compared with
             seen : 0 .. MaxAttempts - 1]  \* otpAttempts as read

OtpTypeOK ==
    /\ otp \in OtpRow
    /\ req \in [OtpReqs -> OtpState]
    /\ issued \in {0} \cup Codes
    /\ mailed \subseteq Codes
    /\ wrong \in [Codes -> Nat]

IdleOtp == [pc |-> "idle", code |-> 0, seen |-> 0]

OtpInit ==
    /\ otp = [code |-> 0, fresh |-> FALSE, cooling |-> FALSE, attempts |-> 0,
              verified |-> FALSE, pending |-> TRUE, live |-> TRUE]
    /\ req = [r \in OtpReqs |-> IdleOtp]
    /\ issued = 0 /\ mailed = {}
    /\ wrong = [c \in Codes |-> 0]

ReqDone(r) == req' = [req EXCEPT ![r] = IdleOtp]
-----------------------------------------------------------------------------
(* requestOtp *)

RequestRead(r) ==
    /\ req[r].pc = "idle"
    /\ otp.live /\ otp.pending
    /\ ~otp.verified
    /\ ~otp.cooling
    /\ issued < MaxCodes
    /\ issued' = issued + 1
    /\ req' = [req EXCEPT ![r] = [pc |-> "store", code |-> issued + 1, seen |-> 0]]
    /\ UNCHANGED <<otp, mailed, wrong>>

RequestStore(r) ==
    /\ req[r].pc = "store"
    /\ otp' = [otp EXCEPT !.code = req[r].code, !.fresh = TRUE,
                          !.cooling = TRUE, !.attempts = 0]
    /\ req' = [req EXCEPT ![r].pc = "mail"]
    /\ UNCHANGED <<issued, mailed, wrong>>

RequestMail(r) ==
    /\ req[r].pc = "mail"
    /\ mailed' = mailed \cup {req[r].code}
    /\ ReqDone(r)
    /\ UNCHANGED <<otp, issued, wrong>>
-----------------------------------------------------------------------------
(* verifyOtp; the expiry of the link is not looked at. *)

\* Mutant of MayTry: the last attempt is granted once more.
MayTryOnceMore == otp.attempts <= MaxAttempts

MayTry == otp.attempts < MaxAttempts

VerifyRead(r, right) ==
    /\ req[r].pc = "idle"
    /\ otp.pending
    /\ ~otp.verified
    /\ MayTry
    /\ otp.code # 0 /\ otp.fresh
    /\ req' = [req EXCEPT ![r] = [pc   |-> IF right THEN "match" ELSE "miss",
                                  code |-> otp.code,
                                  seen |-> otp.attempts]]
    /\ UNCHANGED <<otp, issued, mailed, wrong>>

\* Mutant of VerifyMiss: the number read is written back, one larger.
VerifyMissStale(r) ==
    /\ req[r].pc = "miss"
    /\ otp' = [otp EXCEPT !.attempts = req[r].seen + 1]
    /\ wrong' = [wrong EXCEPT ![req[r].code] = @ + 1]
    /\ ReqDone(r)
    /\ UNCHANGED <<issued, mailed>>

\* {increment: 1} on the row, for whichever code it asks by now.
VerifyMiss(r) ==
    /\ req[r].pc = "miss"
    /\ otp' = [otp EXCEPT !.attempts = @ + 1]
    /\ wrong' = [wrong EXCEPT ![req[r].code] = @ + 1]
    /\ ReqDone(r)
    /\ UNCHANGED <<issued, mailed>>

VerifyMatch(r) ==
    /\ req[r].pc = "match"
    /\ otp' = [otp EXCEPT !.verified = TRUE, !.code = 0]
    /\ ReqDone(r)
    /\ UNCHANGED <<issued, mailed, wrong>>
-----------------------------------------------------------------------------
\* An awaited call rejects, or the process stops.
OtpFail(r) ==
    /\ req[r].pc # "idle"
    /\ ReqDone(r)
    /\ UNCHANGED <<otp, issued, mailed, wrong>>

\* A minute, ten minutes and seven days pass; the signer leaves (or signs).
OtpClock ==
    /\ \/ otp' = [otp EXCEPT !.cooling = FALSE]
       \/ otp' = [otp EXCEPT !.cooling = FALSE, !.fresh = FALSE]
       \/ otp' = [otp EXCEPT !.live = FALSE]
       \/ otp' = [otp EXCEPT !.pending = FALSE]
    /\ UNCHANGED <<req, issued, mailed, wrong>>

OtpStep(r) == RequestStore(r) \/ RequestMail(r) \/ VerifyMiss(r) \/ VerifyMatch(r)

OtpNext ==
    \/ \E r \in OtpReqs :
          \/ RequestRead(r) \/ OtpStep(r) \/ OtpFail(r)
          \/ \E right \in BOOLEAN : VerifyRead(r, right)
    \/ OtpClock

OtpSpec == OtpInit /\ [][OtpNext]_otpVars

-----------------------------------------------------------------------------
(***************************************************************************)
(* Misses are never lost: however the requests overlap, and even if a miss *)
(* of the code before is counted against the one now in force, the row     *)
(* counts every wrong answer given for its current code.                   *)
(***************************************************************************)
MissesCounted == otp.code # 0 => wrong[otp.code] <= otp.attempts

(***************************************************************************)
(* No code survives more than OTP_MAX_ATTEMPTS wrong answers, save one for *)
(* every further request that had read the row before the last of them was *)
(* counted.  (The message at signatures.service.ts:207 has the limit.)     *)
(***************************************************************************)
GuessesBounded ==
    \A c \in Codes : wrong[c] < MaxAttempts + Cardinality(OtpReqs)

\* The requests about to answer that c was missed.
Missing(c) == {r \in OtpReqs : req[r].pc = "miss" /\ req[r].code = c}

(***************************************************************************)
(* Why: a code is stored once, right after it was generated, and a request *)
(* that may still answer for it found the row with attempts to spare.      *)
(***************************************************************************)
\* A number not given out yet has left no trace.
CodesInOrder ==
    /\ otp.code <= issued
    /\ \A c \in Codes : c > issued => wrong[c] = 0 /\ Missing(c) = {}

CodesNamed == \A r \in OtpReqs : req[r].pc # "idle" => req[r].code \in Codes

\* The code a request is about to store is its own and was never in force.
StoresOwn ==
    /\ \A r \in OtpReqs : req[r].pc = "store" =>
          /\ req[r].code \in 1 .. issued
          /\ req[r].code # otp.code
          /\ wrong[req[r].code] = 0 /\ Missing(req[r].code) = {}
    /\ \A r, q \in OtpReqs :
          r # q /\ req[r].pc = "store" /\ req[q].pc = "store"
             => req[r].code # req[q].code

\* Answers given and answers still to come.
AnswersBounded ==
    \A c \in Codes :
        wrong[c] + Cardinality(Missing(c)) < MaxAttempts + Cardinality(OtpReqs)

OtpInv ==
    /\ OtpTypeOK /\ MissesCounted /\ AnswersBounded
    /\ CodesInOrder /\ CodesNamed /\ StoresOwn
=============================================================================
