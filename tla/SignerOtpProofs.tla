--------------------------- MODULE SignerOtpProofs ---------------------------
(***************************************************************************)
(* The bounds on guessing a one-time code, for any number of overlapping   *)
(* requests: OtpInv of SignerOtp is inductive.                             *)
(***************************************************************************)
EXTENDS SignerOtp, FiniteSetTheorems, TLAPS

\* The requests that may still answer "wrong" are finitely many.
LEMMA MissingFinite ==
    \A c : /\ IsFiniteSet(Missing(c))
           /\ Cardinality(Missing(c)) \in Nat
           /\ Cardinality(OtpReqs) \in Nat
           /\ Cardinality(Missing(c)) <= Cardinality(OtpReqs)
BY OtpAssumption, FS_Subset, FS_CardinalityType DEF Missing

LEMMA IdleTyped == IdleOtp \in OtpState
BY OtpAssumption DEF IdleOtp, OtpState

\* The facts about Missing a step needs when it does not touch the counters.
LEMMA OtpQuietStep ==
    ASSUME OtpInv, OtpTypeOK',
           wrong' = wrong, otp'.code = otp.code, otp'.attempts = otp.attempts,
           \A c \in Codes : Missing(c)' = Missing(c)
    PROVE  MissesCounted' /\ AnswersBounded'
<1> USE DEF OtpInv, OtpTypeOK, OtpRow
<1>1. MissesCounted'  BY DEF MissesCounted
<1>2. AnswersBounded'  BY DEF AnswersBounded
<1> QED  BY <1>1, <1>2

LEMMA OtpInitially == OtpInit => OtpInv
<1> SUFFICES ASSUME OtpInit PROVE OtpInv  OBVIOUS
<1>1. OtpTypeOK
  BY OtpAssumption DEF OtpInit, OtpTypeOK, OtpRow, OtpState, IdleOtp, Codes
<1>2. \A c : Missing(c) = {}
  BY DEF OtpInit, IdleOtp, Missing
<1>3. AnswersBounded
  <2> SUFFICES ASSUME NEW c \in Codes
               PROVE  wrong[c] + Cardinality(Missing(c))
                         < MaxAttempts + Cardinality(OtpReqs)
    BY DEF AnswersBounded
  <2>1. Cardinality(Missing(c)) = 0 /\ wrong[c] = 0
    BY <1>2, FS_EmptySet DEF OtpInit
  <2> QED  BY <2>1, OtpAssumption, MissingFinite
<1>4. MissesCounted /\ CodesInOrder /\ CodesNamed /\ StoresOwn
  BY <1>2 DEF OtpInit, MissesCounted, CodesInOrder, CodesNamed, StoresOwn,
              IdleOtp, Codes
<1> QED  BY <1>1, <1>3, <1>4 DEF OtpInv
-----------------------------------------------------------------------------
(* requestOtp *)

\* What the proofs below use of the types.
LEMMA OtpTypes ==
    ASSUME OtpInv
    PROVE  /\ otp \in OtpRow /\ otp.attempts \in Nat
           /\ otp.code \in Nat /\ issued \in Nat
           /\ otp.code # 0 => otp.code \in Codes
           /\ req \in [OtpReqs -> OtpState]
           /\ wrong \in [Codes -> Nat]
           /\ Codes \subseteq Nat /\ \A c \in Codes : c > 0
BY OtpAssumption DEF OtpInv, OtpTypeOK, OtpRow, Codes

LEMMA RequestReadKeeps ==
    ASSUME OtpInv, NEW r \in OtpReqs, RequestRead(r) PROVE OtpInv'
<1> DEFINE n == issued + 1
<1>0. OtpInv /\ n \in Codes /\ n > issued
  BY OtpAssumption DEF RequestRead, OtpInv, OtpTypeOK, Codes
<1>1. OtpTypeOK'
  <2>1. [pc |-> "store", code |-> n, seen |-> 0] \in OtpState
    BY <1>0, OtpAssumption DEF OtpState
  <2> QED  BY <1>0, <2>1 DEF RequestRead, OtpInv, OtpTypeOK
<1>2. /\ req'[r].pc = "store" /\ req'[r].code = n
      /\ \A q \in OtpReqs \ {r} : req'[q] = req[q]
  BY OtpTypes DEF RequestRead
<1>3. otp' = otp /\ wrong' = wrong /\ issued' = n  BY DEF RequestRead
<1>4. \A c : Missing(c)' = Missing(c)  BY <1>2 DEF RequestRead, Missing
<1>5. MissesCounted' /\ AnswersBounded'
  BY <1>0, <1>1, <1>3, <1>4, OtpQuietStep
<1>6. CodesInOrder'
  <2>1. \A c \in Codes : c > n => c > issued  BY OtpTypes
  <2>2. otp.code <= n  BY OtpTypes DEF OtpInv, CodesInOrder
  <2> QED  BY <1>0, <1>3, <1>4, <2>1, <2>2 DEF OtpInv, CodesInOrder
<1>7. CodesNamed'  BY <1>0, <1>2 DEF OtpInv, CodesNamed
<1>8. StoresOwn'
  <2>1. n # otp.code /\ wrong[n] = 0 /\ Missing(n) = {}
    BY <1>0, OtpTypes DEF OtpInv, CodesInOrder
  <2>2. \A q \in OtpReqs : req[q].pc = "store" =>
           req[q].code \in 1 .. issued /\ req[q].code # n
    BY OtpTypes DEF OtpInv, StoresOwn
  <2>3. n \in 1 .. n /\ \A c \in 1 .. issued : c \in 1 .. n
    BY OtpTypes
  <2> HIDE DEF n
  <2> QED  BY <1>0, <1>2, <1>3, <1>4, <2>1, <2>2, <2>3 DEF OtpInv, StoresOwn
<1> QED  BY <1>1, <1>5, <1>6, <1>7, <1>8 DEF OtpInv

LEMMA RequestStoreKeeps ==
    ASSUME OtpInv, NEW r \in OtpReqs, RequestStore(r) PROVE OtpInv'
<1> DEFINE d == req[r].code
<1>0. OtpInv /\ req[r].pc = "store" /\ d \in Codes
  BY DEF RequestStore, OtpInv, CodesNamed
<1>1. /\ otp'.code = d /\ otp'.attempts = 0 /\ otp' \in OtpRow
      /\ wrong' = wrong /\ issued' = issued /\ mailed' = mailed
  BY <1>0, OtpTypes DEF RequestStore, OtpRow
<1>2. /\ req' \in [OtpReqs -> OtpState]
      /\ req'[r].pc = "mail" /\ req'[r].code = d
      /\ \A q \in OtpReqs \ {r} : req'[q] = req[q]
  BY OtpTypes DEF RequestStore, OtpState
<1>3. \A c : Missing(c)' = Missing(c)  BY <1>0, <1>2 DEF Missing
<1>4. OtpTypeOK'  BY <1>1, <1>2 DEF OtpInv, OtpTypeOK
<1>5. /\ d \in 1 .. issued /\ wrong[d] = 0 /\ Missing(d) = {}
      /\ \A q \in OtpReqs \ {r} : req[q].pc = "store" => req[q].code # d
  BY <1>0 DEF OtpInv, StoresOwn
<1>6. MissesCounted'  BY <1>1, <1>5 DEF MissesCounted
<1>7. AnswersBounded'  BY <1>0, <1>1, <1>3 DEF OtpInv, AnswersBounded
<1>8. CodesInOrder'
  <2>1. d <= issued  BY <1>5, OtpTypes
  <2> QED  BY <1>1, <1>3, <2>1 DEF OtpInv, CodesInOrder
<1>9. CodesNamed'  BY <1>0, <1>2 DEF OtpInv, CodesNamed
<1>10. StoresOwn'
  BY <1>1, <1>2, <1>3, <1>5 DEF OtpInv, StoresOwn
<1> QED  BY <1>4, <1>6, <1>7, <1>8, <1>9, <1>10 DEF OtpInv

\* A request that ends, having answered, mailed or failed, leaves the others.
LEMMA DoneFacts ==
    ASSUME OtpInv, NEW r \in OtpReqs, ReqDone(r)
    PROVE  /\ req' \in [OtpReqs -> OtpState]
           /\ req'[r].pc = "idle"
           /\ \A q \in OtpReqs \ {r} : req'[q] = req[q]
           /\ \A c : Missing(c)' = Missing(c) \ {r}
<1>1. /\ req' \in [OtpReqs -> OtpState] /\ req'[r].pc = "idle"
      /\ \A q \in OtpReqs \ {r} : req'[q] = req[q]
  BY OtpTypes, IdleTyped DEF ReqDone, IdleOtp
<1> QED  BY <1>1 DEF Missing

\* Such a request leaves the facts about numbers given out as they are, too,
\* as long as the code in force is the same or none.
LEMMA DoneKeepsOrder ==
    ASSUME OtpInv, NEW r \in OtpReqs, ReqDone(r), issued' = issued,
           otp'.code \in {otp.code, 0},
           \A c \in Codes : wrong'[c] = wrong[c] \/ r \in Missing(c)
    PROVE  CodesInOrder' /\ CodesNamed' /\ StoresOwn'
<1>0. OtpInv /\ OtpTypeOK  BY DEF OtpInv
<1>1. CodesInOrder'
  <2>1. otp'.code <= issued  BY OtpTypes DEF OtpInv, CodesInOrder
  <2> QED  BY <2>1, DoneFacts DEF OtpInv, CodesInOrder
<1>2. CodesNamed'  BY DoneFacts DEF OtpInv, CodesNamed
<1>3. StoresOwn'
  <2>1. \A q \in OtpReqs : req'[q].pc = "store" =>
           /\ q # r /\ req'[q] = req[q]
           /\ req[q].code \in 1 .. issued /\ req[q].code \in Codes
           /\ req[q].code # otp.code /\ req[q].code # 0
           /\ wrong[req[q].code] = 0 /\ Missing(req[q].code) = {}
    BY DoneFacts, OtpTypes DEF OtpInv, StoresOwn, CodesNamed
  <2>2. \A q \in OtpReqs : req'[q].pc = "store" =>
           wrong'[req[q].code] = 0 /\ Missing(req[q].code)' = {}
    BY <2>1, DoneFacts
  <2> QED  BY <2>1, <2>2 DEF OtpInv, StoresOwn
<1> QED  BY <1>1, <1>2, <1>3

LEMMA RequestMailKeeps ==
    ASSUME OtpInv, NEW r \in OtpReqs, RequestMail(r) PROVE OtpInv'
<1>0. OtpInv /\ ReqDone(r) /\ req[r].pc = "mail" /\ req[r].code \in Codes
  BY DEF RequestMail, OtpInv, CodesNamed
<1>1. otp' = otp /\ wrong' = wrong /\ issued' = issued  BY DEF RequestMail
<1>2. OtpTypeOK'
  BY <1>0, <1>1, DoneFacts DEF RequestMail, OtpInv, OtpTypeOK
<1>3. \A c : Missing(c)' = Missing(c)  BY <1>0, DoneFacts DEF Missing
<1>4. MissesCounted' /\ AnswersBounded'  BY <1>0, <1>1, <1>2, <1>3, OtpQuietStep
<1>5. CodesInOrder' /\ CodesNamed' /\ StoresOwn'
  BY <1>0, <1>1, DoneKeepsOrder
<1> QED  BY <1>2, <1>4, <1>5 DEF OtpInv
-----------------------------------------------------------------------------
(* verifyOtp *)

LEMMA VerifyReadKeeps ==
    ASSUME OtpInv, NEW r \in OtpReqs, NEW right \in BOOLEAN, VerifyRead(r, right)
    PROVE  OtpInv'
<1> DEFINE d == otp.code
<1>0. /\ OtpInv /\ d \in Codes /\ req[r].pc = "idle" /\ otp.attempts < MaxAttempts
      /\ otp' = otp /\ wrong' = wrong /\ issued' = issued /\ mailed' = mailed
  BY OtpTypes DEF VerifyRead, MayTry
<1>1. /\ req' \in [OtpReqs -> OtpState]
      /\ req'[r].pc \in {"match", "miss"} /\ req'[r].code = d
      /\ \A q \in OtpReqs \ {r} : req'[q] = req[q]
  <2>1. [pc |-> IF right THEN "match" ELSE "miss", code |-> d,
         seen |-> otp.attempts] \in OtpState
    BY <1>0, OtpTypes, OtpAssumption DEF OtpState
  <2> QED  BY <2>1, OtpTypes DEF VerifyRead
<1>2. OtpTypeOK'  BY <1>0, <1>1 DEF OtpInv, OtpTypeOK
<1>3. \A c : c # d => Missing(c)' = Missing(c)  BY <1>0, <1>1 DEF Missing
<1>4. MissesCounted'  BY <1>0 DEF OtpInv, MissesCounted
<1>5. AnswersBounded'
  <2> SUFFICES ASSUME NEW c \in Codes
               PROVE  wrong[c] + Cardinality(Missing(c)')
                         < MaxAttempts + Cardinality(OtpReqs)
    BY <1>0 DEF AnswersBounded
  <2>1. CASE c # d  BY <2>1, <1>3 DEF OtpInv, AnswersBounded
  <2>2. CASE c = d
    <3>1. Missing(c)' \subseteq OtpReqs  BY DEF Missing
    <3>2. Cardinality(Missing(c)') \in Nat /\ Cardinality(OtpReqs) \in Nat
          /\ Cardinality(Missing(c)') <= Cardinality(OtpReqs)
      BY <3>1, OtpAssumption, FS_Subset, FS_CardinalityType
    <3>3. wrong[c] < MaxAttempts /\ wrong[c] \in Nat
      BY <2>2, <1>0, OtpTypes, OtpAssumption DEF OtpInv, MissesCounted
    <3> QED  BY <3>2, <3>3, OtpAssumption
  <2> QED  BY <2>1, <2>2
<1>6. CodesInOrder'
  <2>1. \A c \in Codes : c > issued => c # d
    BY OtpTypes DEF OtpInv, CodesInOrder
  <2> QED  BY <1>0, <1>3, <2>1 DEF OtpInv, CodesInOrder
<1>7. CodesNamed'  BY <1>0, <1>1 DEF OtpInv, CodesNamed
<1>8. StoresOwn'
  <2>1. \A q \in OtpReqs : req'[q].pc = "store" => q # r  BY <1>1
  <2> QED  BY <1>0, <1>1, <1>3, <2>1 DEF OtpInv, StoresOwn
<1> QED  BY <1>2, <1>4, <1>5, <1>6, <1>7, <1>8 DEF OtpInv

LEMMA VerifyMissKeeps ==
    ASSUME OtpInv, NEW r \in OtpReqs, VerifyMiss(r) PROVE OtpInv'
<1> DEFINE d == req[r].code
<1>0. OtpInv /\ ReqDone(r) /\ d \in Codes /\ r \in Missing(d)
  BY DEF VerifyMiss, OtpInv, CodesNamed, Missing
<1>1. /\ otp' \in OtpRow /\ otp'.code = otp.code
      /\ otp'.attempts = otp.attempts + 1
      /\ issued' = issued /\ mailed' = mailed
  BY OtpTypes DEF VerifyMiss, OtpRow
<1>2. /\ wrong' \in [Codes -> Nat] /\ wrong'[d] = wrong[d] + 1
      /\ \A c \in Codes \ {d} : wrong'[c] = wrong[c]
  BY <1>0, OtpTypes DEF VerifyMiss
<1>3. OtpTypeOK'  BY <1>0, <1>1, <1>2, DoneFacts DEF OtpInv, OtpTypeOK
<1>4. MissesCounted'
  <2>1. CASE otp.code \in Codes \ {d}
    BY <2>1, <1>1, <1>2, OtpTypes DEF OtpInv, MissesCounted
  <2>2. CASE otp.code = d
    BY <2>2, <1>0, <1>1, <1>2, OtpTypes DEF OtpInv, MissesCounted
  <2> QED  BY <2>1, <2>2, <1>1, OtpTypes DEF MissesCounted
<1>5. AnswersBounded'
  <2> SUFFICES ASSUME NEW c \in Codes
               PROVE  wrong'[c] + Cardinality(Missing(c)')
                         < MaxAttempts + Cardinality(OtpReqs)
    BY DEF AnswersBounded
  <2>1. CASE c # d
    <3>1. Missing(c)' = Missing(c)  BY <2>1, <1>0, DoneFacts DEF Missing
    <3> QED  BY <3>1, <2>1, <1>2 DEF OtpInv, AnswersBounded
  <2>2. CASE c = d
    <3>1. IsFiniteSet(Missing(c)) /\ r \in Missing(c)
      BY <2>2, <1>0, MissingFinite
    <3>2. Cardinality(Missing(c) \ {r}) = Cardinality(Missing(c)) - 1
      BY <3>1, FS_RemoveElement
    <3>3. Missing(c)' = Missing(c) \ {r}  BY <1>0, DoneFacts
    <3>4. Cardinality(Missing(c)') = Cardinality(Missing(c)) - 1
      BY <3>2, <3>3
    <3>5. wrong'[c] = wrong[c] + 1 /\ wrong[c] \in Nat
      BY <2>2, <1>0, <1>2, OtpTypes
    <3>6. wrong[c] + Cardinality(Missing(c))
            < MaxAttempts + Cardinality(OtpReqs)
      BY DEF OtpInv, AnswersBounded
    <3>7. Cardinality(Missing(c)) \in Nat /\ Cardinality(OtpReqs) \in Nat
      BY MissingFinite
    <3> QED  BY <3>4, <3>5, <3>6, <3>7, OtpAssumption
  <2> QED  BY <2>1, <2>2
<1>6. CodesInOrder' /\ CodesNamed' /\ StoresOwn'
  BY <1>0, <1>1, <1>2, DoneKeepsOrder
<1> QED  BY <1>3, <1>4, <1>5, <1>6 DEF OtpInv

LEMMA VerifyMatchKeeps ==
    ASSUME OtpInv, NEW r \in OtpReqs, VerifyMatch(r) PROVE OtpInv'
<1>0. OtpInv /\ ReqDone(r) /\ req[r].pc = "match"  BY DEF VerifyMatch
<1>1. /\ otp' \in OtpRow /\ otp'.code = 0
      /\ wrong' = wrong /\ issued' = issued /\ mailed' = mailed
  BY OtpTypes DEF VerifyMatch, OtpRow
<1>2. OtpTypeOK'  BY <1>0, <1>1, DoneFacts DEF OtpInv, OtpTypeOK
<1>3. \A c : Missing(c)' = Missing(c)  BY <1>0, DoneFacts DEF Missing
<1>4. MissesCounted' /\ AnswersBounded'
  BY <1>1, <1>3 DEF OtpInv, MissesCounted, AnswersBounded
<1>5. CodesInOrder' /\ CodesNamed' /\ StoresOwn'
  BY <1>0, <1>1, DoneKeepsOrder
<1> QED  BY <1>2, <1>4, <1>5 DEF OtpInv
-----------------------------------------------------------------------------
LEMMA OtpFailKeeps ==
    ASSUME OtpInv, NEW r \in OtpReqs, OtpFail(r) PROVE OtpInv'
<1>0. /\ OtpInv /\ ReqDone(r) /\ otp' = otp /\ wrong' = wrong
      /\ issued' = issued /\ mailed' = mailed
  BY DEF OtpFail
<1>1. OtpTypeOK'  BY <1>0, DoneFacts DEF OtpInv, OtpTypeOK
<1>2. AnswersBounded'
  <2> SUFFICES ASSUME NEW c \in Codes
               PROVE  wrong[c] + Cardinality(Missing(c)')
                         < MaxAttempts + Cardinality(OtpReqs)
    BY <1>0 DEF AnswersBounded
  <2>1. Missing(c)' \subseteq Missing(c)  BY <1>0, DoneFacts
  <2>2. Cardinality(Missing(c)') \in Nat
        /\ Cardinality(Missing(c)') <= Cardinality(Missing(c))
    BY <2>1, MissingFinite, FS_Subset, FS_CardinalityType
  <2>3. wrong[c] + Cardinality(Missing(c)) < MaxAttempts + Cardinality(OtpReqs)
    BY DEF OtpInv, AnswersBounded
  <2> QED  BY <2>2, <2>3, MissingFinite, OtpTypes, OtpAssumption
<1>3. MissesCounted'  BY <1>0 DEF OtpInv, MissesCounted
<1>4. CodesInOrder' /\ CodesNamed' /\ StoresOwn'  BY <1>0, DoneKeepsOrder
<1> QED  BY <1>1, <1>2, <1>3, <1>4 DEF OtpInv

LEMMA OtpClockKeeps ==
    ASSUME OtpInv, OtpClock \/ UNCHANGED otpVars PROVE OtpInv'
<1>1. /\ otp' \in OtpRow /\ otp'.code = otp.code
      /\ otp'.attempts = otp.attempts
      /\ req' = req /\ wrong' = wrong /\ issued' = issued /\ mailed' = mailed
  BY OtpTypes DEF OtpClock, otpVars, OtpRow
<1>2. OtpTypeOK'  BY <1>1 DEF OtpInv, OtpTypeOK
<1>3. \A c : Missing(c)' = Missing(c)  BY <1>1 DEF Missing
<1>4. MissesCounted' /\ AnswersBounded'
  BY <1>1, <1>3 DEF OtpInv, MissesCounted, AnswersBounded
<1>5. CodesInOrder' /\ CodesNamed' /\ StoresOwn'
  BY <1>1, <1>3 DEF OtpInv, CodesInOrder, CodesNamed, StoresOwn
<1> QED  BY <1>2, <1>4, <1>5 DEF OtpInv
-----------------------------------------------------------------------------
LEMMA OtpInductive == OtpInv /\ [OtpNext]_otpVars => OtpInv'
BY RequestReadKeeps, RequestStoreKeeps, RequestMailKeeps, VerifyReadKeeps,
   VerifyMissKeeps, VerifyMatchKeeps, OtpFailKeeps, OtpClockKeeps
   DEF OtpNext, OtpStep

\* AnswersBounded counts more than GuessesBounded does.
LEMMA OtpInvBounds == OtpInv => MissesCounted /\ GuessesBounded
<1> SUFFICES ASSUME OtpInv, NEW c \in Codes
             PROVE  wrong[c] < MaxAttempts + Cardinality(OtpReqs)
  BY DEF OtpInv, GuessesBounded
<1>1. wrong[c] \in Nat /\ MaxAttempts \in Nat
  BY OtpAssumption DEF OtpInv, OtpTypeOK
<1> QED  BY <1>1, MissingFinite DEF OtpInv, AnswersBounded

LEMMA OtpInvariant == OtpSpec => []OtpInv
BY OtpInitially, OtpInductive, PTL DEF OtpSpec

\* Every reachable state of the row and of the requests under way is well typed.
THEOREM OtpWellTyped == OtpSpec => []OtpTypeOK
BY OtpInvariant, PTL DEF OtpInv

\* Every wrong answer for the code in force is counted in the row (verifyOtp), however
\* many requests compare before one of them has counted.
THEOREM MissesAreCounted == OtpSpec => []MissesCounted
BY OtpInvariant, OtpInvBounds, PTL

\* No code takes more than OTP_MAX_ATTEMPTS wrong answers plus one for every other
\* request under way (requestOtp, verifyOtp).
THEOREM GuessingIsBounded == OtpSpec => []GuessesBounded
BY OtpInvariant, OtpInvBounds, PTL
=============================================================================
