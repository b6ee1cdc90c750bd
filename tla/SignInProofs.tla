---------------------------- MODULE SignInProofs ----------------------------
(***************************************************************************)
(* Who is signed in: the one-time codes and the sessions of a browser, for *)
(* any number of codes, tokens, browsers and overlapping calls.            *)
(***************************************************************************)
EXTENDS OtpSignIn, RefreshTokens, FiniteSetTheorems, TLAPS

-----------------------------------------------------------------------------
(* One-time codes *)

(* What a call and a callback hold. *)
CodeInHand ==
    /\ \A c \in OtpCalls : otpCall[c].at \notin {"idle", "create"} => otpCall[c].code \in Codes
    /\ \A c \in OtpCalls : otpCall[c].at \in {"idle", "create"} => otpCall[c].code = NoCode
    /\ otpHook # NoHook => (otpHook.code \in Codes /\ otpHook.to # "none")

SignsIn(c, k) == otpCall[c].at = "signIn" /\ otpCall[c].code = k

(* A code that was verified with nobody else about it stays VERIFIED, and  *)
(* nobody comes back to it.                                                *)
CodeIsUsedUp ==
    \A k \in Codes : raced[k] = 0 =>
      /\ signIns[k] # 0 => /\ signIns[k] = 1 /\ otpLog[k].status = "VERIFIED"
                           /\ otpHook.code # k
                           /\ \A d \in OtpCalls : otpCall[d].code # k
      /\ \A c \in OtpCalls : SignsIn(c, k) =>
           /\ signIns[k] = 0 /\ otpLog[k].status = "VERIFIED"
           /\ otpHook.code # k
           /\ \A d \in OtpCalls : otpCall[d].code = k => d = c

Guessing(k) == {c \in OtpCalls : otpCall[c].at = "wrong" /\ otpCall[c].code = k}

(* The guesses counted and those about to be. *)
GuessesBounded ==
    \A k \in Codes :
      otpLog[k].attempts + Cardinality(Guessing(k)) <= OtpMaxAttempts + MaxOtpCalls - 1

(* While the lock bars the next request, a code can be typed, is on its    *)
(* way, or the call that will give the lock back is.                       *)
LockIsForACode ==
    (phoneLock = 1 /\ undone = 0) =>
      \/ \E c \in OtpCalls : otpCall[c].at \in {"create", "unlock", "signIn"}
      \/ \E k \in Codes :
           /\ otpLog[k].fresh = 1
           /\ \/ otpLog[k].status \in {"PENDING", "SENT", "DELIVERED"}
              \/ \E c \in OtpCalls : otpCall[c].at \in {"send", "sent", "failed"} /\ otpCall[c].code = k

(* Any set of calls is as small as the calls are few. *)
LEMMA FewOtpCalls ==
    \A S \in SUBSET OtpCalls :
      IsFiniteSet(S) /\ Cardinality(S) \in Nat /\ Cardinality(S) <= MaxOtpCalls
<1>1. IsFiniteSet(OtpCalls) /\ Cardinality(OtpCalls) = MaxOtpCalls
  BY OtpAssumption, FS_Interval DEF OtpCalls
<1> QED
  BY <1>1, FS_Subset, FS_CardinalityType

(* SetStatus rewrites the status of one row and nothing else. *)
LEMMA StatusSet ==
    ASSUME OtpTypeOK, NEW k \in Codes, NEW st \in OtpStatus, SetStatus(k, st)
    PROVE  /\ otpLog' \in [Codes -> [status : OtpStatus, attempts : Nat, fresh : {0, 1}]]
           /\ \A j \in Codes : /\ otpLog'[j].attempts = otpLog[j].attempts
                               /\ otpLog'[j].fresh = otpLog[j].fresh
           /\ \A j \in Codes : otpLog'[j].status = IF j = k THEN st ELSE otpLog[j].status
  BY DEF SetStatus, OtpTypeOK

(* A call that goes on holds its step and its code, and the other calls    *)
(* are where they were.                                                    *)
LEMMA CallMoves ==
    ASSUME OtpTypeOK, NEW c \in OtpCalls, NEW step \in OtpStep, NEW k \in Codes \cup {NoCode},
           OtpGoes(c, step, k)
    PROVE  /\ otpCall' \in [OtpCalls -> [at : OtpStep, code : Codes \cup {NoCode}]]
           /\ \A d \in OtpCalls : otpCall'[d] = IF d = c THEN [at |-> step, code |-> k] ELSE otpCall[d]
  BY DEF OtpGoes, OtpTypeOK

(* A call that ends holds nothing, and the other calls are where they      *)
(* were.                                                                   *)
LEMMA CallEnds ==
    ASSUME OtpTypeOK, NEW c \in OtpCalls, OtpEnds(c)
    PROVE  /\ otpCall' \in [OtpCalls -> [at : OtpStep, code : Codes \cup {NoCode}]]
           /\ \A d \in OtpCalls : otpCall'[d] = IF d = c THEN Resting ELSE otpCall[d]
  BY DEF OtpEnds, OtpTypeOK, Resting, OtpStep

(* A step that opens no session leaves a code used up, if it takes up only *)
(* codes that are not VERIFIED and undoes VERIFIED only for a code in hand.*)
LEMMA UsedUpKept ==
    ASSUME CodeIsUsedUp, raced' = raced, signIns' = signIns,
           \A k \in Codes, d \in OtpCalls : SignsIn(d, k)' => SignsIn(d, k),
           \A k \in Codes : otpLog[k].status = "VERIFIED" =>
             /\ \A d \in OtpCalls : otpCall'[d].code = k => otpCall[d].code = k
             /\ otpHook'.code = k => otpHook.code = k
             /\ \/ otpLog'[k].status = "VERIFIED"
                \/ otpHook.code = k
                \/ \E d \in OtpCalls : otpCall[d].code = k /\ ~SignsIn(d, k)
    PROVE  CodeIsUsedUp'
  BY DEF CodeIsUsedUp

(* A step that counts no guess on a code and adds no wrong guess about it  *)
(* keeps the bound of that code.                                           *)
LEMMA GuessesKept ==
    ASSUME OtpTypeOK, GuessesBounded,
           NEW k \in Codes, otpLog'[k].attempts = otpLog[k].attempts,
           Guessing(k)' \subseteq Guessing(k)
    PROVE  otpLog'[k].attempts + Cardinality(Guessing(k)') <= OtpMaxAttempts + MaxOtpCalls - 1
<1>1. Guessing(k) \in SUBSET OtpCalls /\ Guessing(k)' \in SUBSET OtpCalls
  BY DEF Guessing
<1>2. /\ IsFiniteSet(Guessing(k)) /\ Cardinality(Guessing(k)) \in Nat
      /\ Cardinality(Guessing(k)') \in Nat
  BY <1>1, FewOtpCalls
<1>3. Cardinality(Guessing(k)') <= Cardinality(Guessing(k))
  BY <1>2, FS_Subset
<1>4. otpLog[k].attempts \in Nat
  BY DEF OtpTypeOK
<1> QED
  BY <1>2, <1>3, <1>4, OtpAssumption DEF GuessesBounded

(* Every step of requestOtp, verifyOtp and the delivery webhook keeps the  *)
(* rows, the lock and the calls to their values.                           *)
LEMMA StepOtpType == OtpTypeOK /\ CodeInHand /\ [OtpNext]_otpVars => OtpTypeOK'
<1> SUFFICES ASSUME OtpTypeOK, CodeInHand, [OtpNext]_otpVars PROVE OtpTypeOK'
  OBVIOUS
<1> USE DEF OtpTypeOK, OtpStep, OtpStatus, NoHook, NoCode, CodeInHand, OnceMore, OtpBegins,
            OtpGoes, OtpEnds, SetStatus, Resting, otpRows, otpWorld
<1>1. ASSUME NEW c \in OtpCalls, RequestOtp(c) PROVE OtpTypeOK'
  BY <1>1 DEF RequestOtp
<1>2. ASSUME NEW c \in OtpCalls, CreateLog(c) PROVE OtpTypeOK'
  BY <1>2 DEF CreateLog
<1>3. ASSUME NEW c \in OtpCalls, SendOtp(c) PROVE OtpTypeOK'
  BY <1>3 DEF SendOtp
<1>4. ASSUME NEW c \in OtpCalls, MarkSent(c) PROVE OtpTypeOK'
  <2>1. otpCall[c].code \in Codes /\ "SENT" \in OtpStatus
    BY <1>4 DEF MarkSent
  <2> QED
    BY <1>4, <2>1, StatusSet, CallEnds DEF MarkSent
<1>5. ASSUME NEW c \in OtpCalls, MarkSendFailed(c) PROVE OtpTypeOK'
  <2>1. otpCall[c].code \in Codes /\ "FAILED" \in OtpStatus /\ "unlock" \in OtpStep
    BY <1>5 DEF MarkSendFailed
  <2> QED
    BY <1>5, <2>1, StatusSet, CallMoves DEF MarkSendFailed
<1>6. ASSUME NEW c \in OtpCalls, ReleasePhone(c) PROVE OtpTypeOK'
  BY <1>6 DEF ReleasePhone
<1>7. ASSUME NEW c \in OtpCalls, VerifyStart(c) PROVE OtpTypeOK'
  BY <1>7 DEF VerifyStart
<1>8. ASSUME NEW c \in OtpCalls, VerifyWrong(c) PROVE OtpTypeOK'
  <2>1. otpLog' \in [Codes -> [status : OtpStatus, attempts : Nat, fresh : {0, 1}]]
    <3> DEFINE n == otpCall[c].code
    <3>1. n \in Codes /\ otpLog' = [otpLog EXCEPT ![n].attempts = @ + 1]
      BY <1>8 DEF VerifyWrong
    <3>2. [otpLog[n] EXCEPT !.attempts = @ + 1] \in [status : OtpStatus, attempts : Nat, fresh : {0, 1}]
      BY <3>1
    <3> HIDE DEF n
    <3> QED
      BY <3>1, <3>2
  <2>2. otpCall' \in [OtpCalls -> [at : OtpStep, code : Codes \cup {NoCode}]]
    BY <1>8, CallEnds DEF VerifyWrong
  <2> QED
    BY <1>8, <2>1, <2>2 DEF VerifyWrong
<1>9. ASSUME NEW c \in OtpCalls, VerifyRight(c) PROVE OtpTypeOK'
  <2>1. otpCall[c].code \in Codes /\ "VERIFIED" \in OtpStatus /\ "signIn" \in OtpStep
    BY <1>9 DEF VerifyRight
  <2>2. raced' \in [Codes -> {0, 1}]
    BY <1>9 DEF VerifyRight
  <2> QED
    BY <1>9, <2>1, <2>2, StatusSet, CallMoves DEF VerifyRight
<1>10. ASSUME NEW c \in OtpCalls, FinishVerify(c) PROVE OtpTypeOK'
  BY <1>10 DEF FinishVerify
<1>11. CASE StatusHookRead
  BY <1>11 DEF StatusHookRead
<1>12. CASE StatusHookWrite
  BY <1>12 DEF StatusHookWrite
<1>13. CASE PhoneLockExpires
  BY <1>13 DEF PhoneLockExpires
<1>14. CASE CodeExpires
  BY <1>14 DEF CodeExpires
<1>15. CASE OtpRestart
  BY <1>15 DEF OtpRestart
<1>16. CASE UNCHANGED otpVars
  BY <1>16 DEF otpVars
<1> QED
  BY <1>1, <1>2, <1>3, <1>4, <1>5, <1>6, <1>7, <1>8, <1>9, <1>10, <1>11, <1>12, <1>13,
     <1>14, <1>15, <1>16
  DEF OtpNext

(* A call that got past reading the row keeps the code it read until it    *)
(* ends.                                                                   *)
LEMMA StepCodeInHand == OtpTypeOK /\ CodeInHand /\ [OtpNext]_otpVars => CodeInHand'
<1> SUFFICES ASSUME OtpTypeOK, CodeInHand, [OtpNext]_otpVars PROVE CodeInHand'
  OBVIOUS
<1> USE DEF OtpTypeOK, NoHook, NoCode, CodeInHand, OtpBegins, OtpGoes, OtpEnds, SetStatus,
            Resting, otpRows, otpWorld
<1>1. ASSUME NEW c \in OtpCalls, RequestOtp(c) PROVE CodeInHand'
  BY <1>1 DEF RequestOtp
<1>2. ASSUME NEW c \in OtpCalls, CreateLog(c) PROVE CodeInHand'
  BY <1>2 DEF CreateLog
<1>3. ASSUME NEW c \in OtpCalls, SendOtp(c) PROVE CodeInHand'
  BY <1>3 DEF SendOtp
<1>4. ASSUME NEW c \in OtpCalls, MarkSent(c) PROVE CodeInHand'
  BY <1>4 DEF MarkSent
<1>5. ASSUME NEW c \in OtpCalls, MarkSendFailed(c) PROVE CodeInHand'
  BY <1>5 DEF MarkSendFailed
<1>6. ASSUME NEW c \in OtpCalls, ReleasePhone(c) PROVE CodeInHand'
  BY <1>6 DEF ReleasePhone
<1>7. ASSUME NEW c \in OtpCalls, VerifyStart(c) PROVE CodeInHand'
  BY <1>7 DEF VerifyStart
<1>8. ASSUME NEW c \in OtpCalls, VerifyWrong(c) PROVE CodeInHand'
  BY <1>8 DEF VerifyWrong
<1>9. ASSUME NEW c \in OtpCalls, VerifyRight(c) PROVE CodeInHand'
  BY <1>9 DEF VerifyRight
<1>10. ASSUME NEW c \in OtpCalls, FinishVerify(c) PROVE CodeInHand'
  BY <1>10 DEF FinishVerify
<1>11. CASE StatusHookRead
  BY <1>11 DEF StatusHookRead
<1>12. CASE StatusHookWrite
  BY <1>12 DEF StatusHookWrite
<1>13. CASE PhoneLockExpires
  BY <1>13 DEF PhoneLockExpires
<1>14. CASE CodeExpires
  BY <1>14 DEF CodeExpires
<1>15. CASE OtpRestart
  BY <1>15 DEF OtpRestart
<1>16. CASE UNCHANGED otpVars
  BY <1>16 DEF otpVars
<1> QED
  BY <1>1, <1>2, <1>3, <1>4, <1>5, <1>6, <1>7, <1>8, <1>9, <1>10, <1>11, <1>12, <1>13,
     <1>14, <1>15, <1>16
  DEF OtpNext

(* verifyOtp marks a code VERIFIED before it signs in, and no step brings  *)
(* a code back that nobody else was about: not a late send, not a delivery *)
(* report.                                                                 *)
LEMMA StepUsedUp ==
    OtpTypeOK /\ CodeInHand /\ CodeIsUsedUp /\ [OtpNext]_otpVars
      => CodeIsUsedUp'
<1> SUFFICES ASSUME OtpTypeOK, CodeInHand, CodeIsUsedUp, [OtpNext]_otpVars
             PROVE  CodeIsUsedUp'
  OBVIOUS
<1> USE DEF OtpTypeOK, NoHook, NoCode, CodeInHand, SignsIn, OnceMore, AboutCode, Newest,
            Eligible, OtpBegins, OtpGoes, OtpEnds, SetStatus, Resting, otpRows, otpWorld
<1>1. ASSUME NEW c \in OtpCalls, RequestOtp(c) PROVE CodeIsUsedUp'
  BY <1>1, UsedUpKept DEF RequestOtp
<1>2. ASSUME NEW c \in OtpCalls, CreateLog(c) PROVE CodeIsUsedUp'
  BY <1>2, UsedUpKept DEF CreateLog
<1>3. ASSUME NEW c \in OtpCalls, SendOtp(c) PROVE CodeIsUsedUp'
  BY <1>3, UsedUpKept DEF SendOtp
<1>4. ASSUME NEW c \in OtpCalls, MarkSent(c) PROVE CodeIsUsedUp'
  <2>1. otpCall[c].code \in Codes /\ ~SignsIn(c, otpCall[c].code)
    BY <1>4 DEF MarkSent
  <2>2. \A d \in OtpCalls : otpCall'[d] = IF d = c THEN Resting ELSE otpCall[d]
    BY <1>4, CallEnds DEF MarkSent
  <2>3. \A k \in Codes : otpLog'[k].status = IF k = otpCall[c].code THEN "SENT" ELSE otpLog[k].status
    BY <1>4, <2>1, StatusSet DEF MarkSent, OtpStatus
  <2>5. \A k \in Codes, d \in OtpCalls : SignsIn(d, k)' => SignsIn(d, k)
    BY <2>2
  <2>6. \A k \in Codes, d \in OtpCalls : otpCall'[d].code = k => otpCall[d].code = k
    BY <2>2 DEF Codes
  <2>7. \A k \in Codes : otpLog'[k].status = otpLog[k].status
                         \/ \E d \in OtpCalls : otpCall[d].code = k /\ ~SignsIn(d, k)
    BY <2>1, <2>3
  <2>8. otpHook' = otpHook /\ raced' = raced /\ signIns' = signIns
    BY <1>4 DEF MarkSent
  <2> HIDE DEF SignsIn
  <2> QED
    BY <2>5, <2>6, <2>7, <2>8, UsedUpKept
<1>5. ASSUME NEW c \in OtpCalls, MarkSendFailed(c) PROVE CodeIsUsedUp'
  BY <1>5, UsedUpKept DEF MarkSendFailed
<1>6. ASSUME NEW c \in OtpCalls, ReleasePhone(c) PROVE CodeIsUsedUp'
  <2>1. \A d \in OtpCalls : otpCall'[d] = IF d = c THEN Resting ELSE otpCall[d]
    BY <1>6, CallEnds DEF ReleasePhone
  <2>2. \A k \in Codes : otpLog'[k].status = otpLog[k].status
    BY <1>6 DEF ReleasePhone
  <2>5. \A k \in Codes, d \in OtpCalls : SignsIn(d, k)' => SignsIn(d, k)
    BY <2>1
  <2>6. \A k \in Codes, d \in OtpCalls : otpCall'[d].code = k => otpCall[d].code = k
    BY <2>1 DEF Codes
  <2>8. otpHook' = otpHook /\ raced' = raced /\ signIns' = signIns
    BY <1>6 DEF ReleasePhone
  <2> HIDE DEF SignsIn
  <2> QED
    BY <2>2, <2>5, <2>6, <2>8, UsedUpKept
<1>7. ASSUME NEW c \in OtpCalls, VerifyStart(c) PROVE CodeIsUsedUp'
  BY <1>7, UsedUpKept DEF VerifyStart
<1>8. ASSUME NEW c \in OtpCalls, VerifyWrong(c) PROVE CodeIsUsedUp'
  <2>1. \A d \in OtpCalls : otpCall'[d] = IF d = c THEN Resting ELSE otpCall[d]
    BY <1>8, CallEnds DEF VerifyWrong
  <2>2. \A k \in Codes : otpLog'[k].status = otpLog[k].status
    BY <1>8 DEF VerifyWrong
  <2>5. \A k \in Codes, d \in OtpCalls : SignsIn(d, k)' => SignsIn(d, k)
    BY <2>1
  <2>6. \A k \in Codes, d \in OtpCalls : otpCall'[d].code = k => otpCall[d].code = k
    BY <2>1 DEF Codes
  <2>8. otpHook' = otpHook /\ raced' = raced /\ signIns' = signIns
    BY <1>8 DEF VerifyWrong
  <2> HIDE DEF SignsIn
  <2> QED
    BY <2>2, <2>5, <2>6, <2>8, UsedUpKept
<1>9. ASSUME NEW c \in OtpCalls, VerifyRight(c) PROVE CodeIsUsedUp'
  BY <1>9 DEF VerifyRight, CodeIsUsedUp
<1>10. ASSUME NEW c \in OtpCalls, FinishVerify(c) PROVE CodeIsUsedUp'
  <2> DEFINE n == otpCall[c].code
  <2>1. /\ n \in Codes /\ SignsIn(c, n) /\ n # NoCode
        /\ otpLog' = otpLog /\ otpHook' = otpHook /\ raced' = raced
        /\ signIns' = [signIns EXCEPT ![n] = OnceMore(n)]
    BY <1>10 DEF FinishVerify, Codes
  <2>2. \A d \in OtpCalls : otpCall'[d] = IF d = c THEN Resting ELSE otpCall[d]
    BY <1>10, CallEnds DEF FinishVerify
  <2>3. \A k \in Codes, d \in OtpCalls : SignsIn(d, k)' => SignsIn(d, k)
    BY <2>2
  <2>4. \A k \in Codes, d \in OtpCalls : otpCall'[d].code = k => d # c /\ otpCall[d].code = k
    BY <2>2 DEF Codes
  <2>5. \A k \in Codes \ {n} : signIns'[k] = signIns[k] /\ ~SignsIn(c, k)
    BY <2>1
  <2>6. raced[n] = 0 => (signIns[n] = 0 /\ signIns'[n] = 1)
    BY <2>1 DEF CodeIsUsedUp, OtpTypeOK
  <2> HIDE DEF n
  <2> QED
    BY <2>1, <2>3, <2>4, <2>5, <2>6 DEF CodeIsUsedUp
<1>11. CASE StatusHookRead
  BY <1>11, UsedUpKept DEF StatusHookRead
<1>12. CASE StatusHookWrite
  <2>1. otpHook.code \in Codes
    BY <1>12 DEF StatusHookWrite
  <2>2. \A k \in Codes : otpHook.code = k \/ otpLog'[k].status = otpLog[k].status
    BY <1>12 DEF StatusHookWrite
  <2>3. /\ otpCall' = otpCall /\ raced' = raced /\ signIns' = signIns
        /\ otpHook'.code \notin Codes
    BY <1>12 DEF StatusHookWrite, Codes
  <2>4. \A k \in Codes, d \in OtpCalls : SignsIn(d, k)' => SignsIn(d, k)
    BY <2>3
  <2> HIDE DEF SignsIn
  <2> QED
    BY <2>2, <2>3, <2>4, UsedUpKept
<1>13. CASE PhoneLockExpires
  BY <1>13, UsedUpKept DEF PhoneLockExpires
<1>14. CASE CodeExpires
  BY <1>14, UsedUpKept DEF CodeExpires
<1>15. CASE OtpRestart
  <2>1. /\ \A d \in OtpCalls : otpCall'[d] = Resting
        /\ otpHook' = NoHook /\ otpLog' = otpLog /\ raced' = raced /\ signIns' = signIns
    BY <1>15 DEF OtpRestart
  <2>2. \A k \in Codes : k # NoCode
    BY DEF Codes
  <2> QED
    BY <2>1, <2>2, UsedUpKept
<1>16. CASE UNCHANGED otpVars
  BY <1>16, UsedUpKept DEF otpVars
<1> QED
  BY <1>1, <1>2, <1>3, <1>4, <1>5, <1>6, <1>7, <1>8, <1>9, <1>10, <1>11, <1>12, <1>13,
     <1>14, <1>15, <1>16
  DEF OtpNext

(* The count of wrong attempts is read before and written after the        *)
(* comparison; the calls in between are the whole of the excess.           *)
LEMMA StepGuesses ==
    OtpTypeOK /\ CodeInHand /\ GuessesBounded /\ [OtpNext]_otpVars
      => GuessesBounded'
<1> SUFFICES ASSUME OtpTypeOK, CodeInHand, GuessesBounded, [OtpNext]_otpVars
             PROVE  GuessesBounded'
  OBVIOUS
<1> USE DEF OtpTypeOK, NoHook, NoCode, CodeInHand, OtpBegins, OtpGoes, OtpEnds, SetStatus,
            Resting, otpRows, otpWorld
<1>1. ASSUME NEW c \in OtpCalls, RequestOtp(c) PROVE GuessesBounded'
  BY <1>1, GuessesKept DEF GuessesBounded, Guessing, RequestOtp
<1>2. ASSUME NEW c \in OtpCalls, CreateLog(c) PROVE GuessesBounded'
  <2>1. PICK n \in Codes : otpLog' = [otpLog EXCEPT ![n] =
                              [status |-> "PENDING", attempts |-> 0, fresh |-> 1]]
    BY <1>2 DEF CreateLog
  <2>2. \A k \in Codes : Guessing(k)' \subseteq Guessing(k)
    BY <1>2 DEF CreateLog, Guessing
  <2>3. SUFFICES ASSUME NEW k \in Codes
                 PROVE  otpLog'[k].attempts + Cardinality(Guessing(k)') <= OtpMaxAttempts + MaxOtpCalls - 1
    BY DEF GuessesBounded
  <2>4. CASE k = n
    <3>1. Guessing(k)' \in SUBSET OtpCalls
      BY DEF Guessing
    <3> QED
      BY <2>1, <2>4, <3>1, FewOtpCalls, OtpAssumption
  <2>5. CASE k # n
    BY <2>1, <2>2, <2>5, GuessesKept
  <2> QED
    BY <2>4, <2>5
<1>3. ASSUME NEW c \in OtpCalls, SendOtp(c) PROVE GuessesBounded'
  BY <1>3, GuessesKept DEF GuessesBounded, Guessing, SendOtp
<1>4. ASSUME NEW c \in OtpCalls, MarkSent(c) PROVE GuessesBounded'
  <2>1. otpCall[c].code \in Codes
    BY <1>4 DEF MarkSent
  <2>2. \A k \in Codes : otpLog'[k].attempts = otpLog[k].attempts
    BY <1>4, <2>1, StatusSet DEF MarkSent, OtpStatus
  <2>3. \A k \in Codes : Guessing(k)' \subseteq Guessing(k)
    BY <1>4 DEF MarkSent, Guessing
  <2> QED
    BY <2>2, <2>3, GuessesKept DEF GuessesBounded
<1>5. ASSUME NEW c \in OtpCalls, MarkSendFailed(c) PROVE GuessesBounded'
  <2>1. otpCall[c].code \in Codes
    BY <1>5 DEF MarkSendFailed
  <2>2. \A k \in Codes : otpLog'[k].attempts = otpLog[k].attempts
    BY <1>5, <2>1, StatusSet DEF MarkSendFailed, OtpStatus
  <2>3. \A k \in Codes : Guessing(k)' \subseteq Guessing(k)
    BY <1>5 DEF MarkSendFailed, Guessing
  <2> QED
    BY <2>2, <2>3, GuessesKept DEF GuessesBounded
<1>6. ASSUME NEW c \in OtpCalls, ReleasePhone(c) PROVE GuessesBounded'
  BY <1>6, GuessesKept DEF GuessesBounded, Guessing, ReleasePhone
<1>7. ASSUME NEW c \in OtpCalls, VerifyStart(c) PROVE GuessesBounded'
  <2>1. PICK n \in Codes : /\ otpLog[n].attempts < OtpMaxAttempts
                           /\ \E found \in {"right", "wrong"} : OtpGoes(c, found, n)
    BY <1>7 DEF VerifyStart, MayTry
  <2>2. \A k \in Codes \ {n} : Guessing(k)' \subseteq Guessing(k)
    BY <2>1 DEF Guessing
  <2>3. otpLog' = otpLog
    BY <1>7 DEF VerifyStart
  <2>4. SUFFICES ASSUME NEW k \in Codes
                 PROVE  otpLog'[k].attempts + Cardinality(Guessing(k)') <= OtpMaxAttempts + MaxOtpCalls - 1
    BY DEF GuessesBounded
  <2>5. CASE k = n
    <3>1. Guessing(k)' \in SUBSET OtpCalls
      BY DEF Guessing
    <3>2. otpLog'[k].attempts \in Nat /\ otpLog'[k].attempts < OtpMaxAttempts
      BY <2>1, <2>3, <2>5
    <3>3. Cardinality(Guessing(k)') \in Nat /\ Cardinality(Guessing(k)') <= MaxOtpCalls
      BY <3>1, FewOtpCalls
    <3> QED
      BY <3>2, <3>3, OtpAssumption
  <2>6. CASE k # n
    BY <2>2, <2>3, <2>6, GuessesKept
  <2> QED
    BY <2>5, <2>6
<1>8. ASSUME NEW c \in OtpCalls, VerifyWrong(c) PROVE GuessesBounded'
  <2> DEFINE n == otpCall[c].code
  <2>1. n \in Codes /\ otpLog' = [otpLog EXCEPT ![n].attempts = @ + 1] /\ OtpEnds(c)
    BY <1>8 DEF VerifyWrong
  <2>2. \A k \in Codes : Guessing(k)' \subseteq Guessing(k) \ {c}
    BY <2>1 DEF Guessing
  <2>3. c \in Guessing(n)
    BY <1>8 DEF VerifyWrong, Guessing
  <2> HIDE DEF n
  <2>4. SUFFICES ASSUME NEW k \in Codes
                 PROVE  otpLog'[k].attempts + Cardinality(Guessing(k)') <= OtpMaxAttempts + MaxOtpCalls - 1
    BY DEF GuessesBounded
  <2>5. CASE k = n
    <3>1. Guessing(k) \in SUBSET OtpCalls /\ Guessing(k)' \in SUBSET OtpCalls
      BY DEF Guessing
    <3>2. /\ IsFiniteSet(Guessing(k)) /\ Cardinality(Guessing(k)) \in Nat
          /\ Cardinality(Guessing(k)') \in Nat
      BY <3>1, FewOtpCalls
    <3>3. /\ IsFiniteSet(Guessing(k) \ {c})
          /\ Cardinality(Guessing(k) \ {c}) = Cardinality(Guessing(k)) - 1
      BY <2>3, <2>5, <3>2, FS_RemoveElement
    <3>4. Cardinality(Guessing(k)') <= Cardinality(Guessing(k)) - 1
      BY <2>2, <3>3, FS_Subset
    <3>5. otpLog[k].attempts \in Nat /\ otpLog'[k].attempts = otpLog[k].attempts + 1
      BY <2>1, <2>5
    <3>6. otpLog[k].attempts + Cardinality(Guessing(k)) <= OtpMaxAttempts + MaxOtpCalls - 1
      BY DEF GuessesBounded
    <3> QED
      BY <3>2, <3>4, <3>5, <3>6, OtpAssumption
  <2>6. CASE k # n
    <3>1. otpLog'[k].attempts = otpLog[k].attempts /\ Guessing(k)' \subseteq Guessing(k)
      BY <2>1, <2>2, <2>6
    <3> QED
      BY <3>1, GuessesKept
  <2> QED
    BY <2>5, <2>6
<1>9. ASSUME NEW c \in OtpCalls, VerifyRight(c) PROVE GuessesBounded'
  BY <1>9, GuessesKept DEF GuessesBounded, Guessing, VerifyRight
<1>10. ASSUME NEW c \in OtpCalls, FinishVerify(c) PROVE GuessesBounded'
  BY <1>10, GuessesKept DEF GuessesBounded, Guessing, FinishVerify
<1>11. CASE StatusHookRead
  BY <1>11, GuessesKept DEF GuessesBounded, Guessing, StatusHookRead
<1>12. CASE StatusHookWrite
  BY <1>12, GuessesKept DEF GuessesBounded, Guessing, StatusHookWrite
<1>13. CASE PhoneLockExpires
  BY <1>13, GuessesKept DEF GuessesBounded, Guessing, PhoneLockExpires
<1>14. CASE CodeExpires
  BY <1>14, GuessesKept DEF GuessesBounded, Guessing, CodeExpires
<1>15. CASE OtpRestart
  BY <1>15, GuessesKept DEF GuessesBounded, Guessing, OtpRestart
<1>16. CASE UNCHANGED otpVars
  BY <1>16, GuessesKept DEF GuessesBounded, Guessing, otpVars
<1> QED
  BY <1>1, <1>2, <1>3, <1>4, <1>5, <1>6, <1>7, <1>8, <1>9, <1>10, <1>11, <1>12, <1>13,
     <1>14, <1>15, <1>16
  DEF OtpNext

(* The phone lock is taken before the row is made, and given back by the   *)
(* call whose send failed.                                                 *)
LEMMA StepLock ==
    OtpTypeOK /\ CodeInHand /\ LockIsForACode /\ [OtpNext]_otpVars
      => LockIsForACode'
<1> SUFFICES ASSUME OtpTypeOK, CodeInHand, LockIsForACode, [OtpNext]_otpVars
             PROVE  LockIsForACode'
  OBVIOUS
<1> USE DEF OtpTypeOK, NoHook, NoCode, CodeInHand, LockIsForACode, OtpBegins, OtpGoes,
            OtpEnds, SetStatus, Resting, otpRows, otpWorld
<1>1. ASSUME NEW c \in OtpCalls, RequestOtp(c) PROVE LockIsForACode'
  BY <1>1 DEF RequestOtp
<1>2. ASSUME NEW c \in OtpCalls, CreateLog(c) PROVE LockIsForACode'
  BY <1>2 DEF CreateLog
<1>3. ASSUME NEW c \in OtpCalls, SendOtp(c) PROVE LockIsForACode'
  BY <1>3 DEF SendOtp
<1>4. ASSUME NEW c \in OtpCalls, MarkSent(c) PROVE LockIsForACode'
  BY <1>4 DEF MarkSent
<1>5. ASSUME NEW c \in OtpCalls, MarkSendFailed(c) PROVE LockIsForACode'
  BY <1>5 DEF MarkSendFailed
<1>6. ASSUME NEW c \in OtpCalls, ReleasePhone(c) PROVE LockIsForACode'
  BY <1>6 DEF ReleasePhone
<1>7. ASSUME NEW c \in OtpCalls, VerifyStart(c) PROVE LockIsForACode'
  BY <1>7 DEF VerifyStart
<1>8. ASSUME NEW c \in OtpCalls, VerifyWrong(c) PROVE LockIsForACode'
  BY <1>8 DEF VerifyWrong
<1>9. ASSUME NEW c \in OtpCalls, VerifyRight(c) PROVE LockIsForACode'
  BY <1>9 DEF VerifyRight
<1>10. ASSUME NEW c \in OtpCalls, FinishVerify(c) PROVE LockIsForACode'
  BY <1>10 DEF FinishVerify
<1>11. CASE StatusHookRead
  BY <1>11 DEF StatusHookRead
<1>12. CASE StatusHookWrite
  BY <1>12 DEF StatusHookWrite
<1>13. CASE PhoneLockExpires
  BY <1>13 DEF PhoneLockExpires
<1>14. CASE CodeExpires
  BY <1>14 DEF CodeExpires
<1>15. CASE OtpRestart
  BY <1>15 DEF OtpRestart
<1>16. CASE UNCHANGED otpVars
  BY <1>16 DEF otpVars
<1> QED
  BY <1>1, <1>2, <1>3, <1>4, <1>5, <1>6, <1>7, <1>8, <1>9, <1>10, <1>11, <1>12, <1>13,
     <1>14, <1>15, <1>16
  DEF OtpNext

(* At first there is no code and no call. *)
LEMMA InitOtp ==
    OtpInit => OtpTypeOK /\ CodeInHand /\ CodeIsUsedUp /\ GuessesBounded /\ LockIsForACode
<1> SUFFICES ASSUME OtpInit
             PROVE  OtpTypeOK /\ CodeInHand /\ CodeIsUsedUp /\ GuessesBounded /\ LockIsForACode
  OBVIOUS
<1>1. OtpTypeOK /\ CodeInHand
  BY DEF OtpInit, OtpTypeOK, CodeInHand, OtpStep, OtpStatus, Resting, NoHook, NoCode
<1>2. CodeIsUsedUp /\ LockIsForACode
  BY DEF OtpInit, CodeIsUsedUp, SignsIn, LockIsForACode, Resting
<1>3. GuessesBounded
  <2>1. \A k \in Codes : Guessing(k) \in SUBSET OtpCalls /\ otpLog[k].attempts = 0
    BY DEF OtpInit, Guessing
  <2> QED
    BY <2>1, FewOtpCalls, OtpAssumption DEF GuessesBounded
<1> QED
  BY <1>1, <1>2, <1>3

(* What sign-in promises follows: a code opens one session, the attempts   *)
(* exceed their bound only by overlapping calls, and a locked phone has a  *)
(* code that works.                                                        *)
LEMMA OtpInvImplies ==
    OtpTypeOK /\ CodeInHand /\ CodeIsUsedUp /\ GuessesBounded /\ LockIsForACode => SignInSafe
<1> SUFFICES ASSUME OtpTypeOK, CodeInHand, CodeIsUsedUp, GuessesBounded, LockIsForACode
             PROVE  SignInSafe
  OBVIOUS
<1>1. OneSignInPerCode
  BY DEF OneSignInPerCode, CodeIsUsedUp, OtpTypeOK
<1>2. AttemptsBounded
  <2>1. \A k \in Codes : Guessing(k) \in SUBSET OtpCalls /\ otpLog[k].attempts \in Nat
    BY DEF Guessing, OtpTypeOK
  <2> QED
    BY <2>1, FewOtpCalls, OtpAssumption DEF AttemptsBounded, GuessesBounded
<1>3. NotLockedOut
  <2>1. Resting.at = "idle"
    BY DEF Resting
  <2> QED
    BY <2>1 DEF NotLockedOut, LockIsForACode, Eligible, OtpTypeOK
<1> QED
  BY <1>1, <1>2, <1>3 DEF SignInSafe

OtpInv == CodeInHand /\ CodeIsUsedUp /\ GuessesBounded /\ LockIsForACode

(* The rows, the lock, the webhook and the calls keep to their values. *)
THEOREM SignInIsTyped == OtpSpec => []OtpTypeOK
  BY InitOtp, StepOtpType, StepCodeInHand, PTL DEF OtpSpec

(* However many calls of requestOtp and verifyOtp overlap with delivery    *)
(* reports, expiries and restarts: one sign-in per code that is not raced, *)
(* a bounded number of guesses, and no person locked out without a code.   *)
THEOREM SignInIsSafe == OtpSpec => []SignInSafe
<1>1. OtpTypeOK /\ OtpInv /\ [OtpNext]_otpVars => OtpTypeOK' /\ OtpInv'
  BY StepOtpType, StepCodeInHand, StepUsedUp, StepGuesses, StepLock DEF OtpInv
<1>2. OtpTypeOK /\ OtpInv => SignInSafe
  BY OtpInvImplies DEF OtpInv
<1>3. OtpInit => OtpTypeOK /\ OtpInv
  BY InitOtp DEF OtpInv
<1> QED
  BY <1>1, <1>2, <1>3, PTL DEF OtpSpec

-----------------------------------------------------------------------------
(* Sessions *)

Busy == {c \in RefreshCalls : rcall[c].at # "idle"}

(* What a request holds at each step. *)
RequestHolds ==
    /\ \A c \in RefreshCalls : rcall[c].at = "idle" <=> rcall[c] = NoRefresh
    /\ \A c \in Busy :
         /\ rcall[c].b \in Browsers /\ rcall[c].old \in Tokens
         /\ rcall[c].new # NoToken => rcall[c].at \in {"unlock", "reply"}
         /\ rcall[c].at = "reply" => rcall[c].new # NoToken

(* A token once minted stays minted; it is in one cookie, or on its way to *)
(* one, and only the browser that holds it sends it.                       *)
TokenIsHeldOnce ==
    /\ \A b \in Browsers : jar[b] # NoToken => token[jar[b]] # "unused"
    /\ \A t \in ended : token[t] # "unused"
    /\ \A b, e \in Browsers : (jar[b] # NoToken /\ jar[b] = jar[e]) => b = e
    /\ \A c \in Busy :
         /\ token[rcall[c].old] # "unused"
         /\ \A b \in Browsers : jar[b] = rcall[c].old => rcall[c].b = b
         /\ rcall[c].new # NoToken =>
              /\ token[rcall[c].new] # "unused"
              /\ \A b \in Browsers : jar[b] # rcall[c].new
              /\ \A d \in Busy : /\ rcall[d].old # rcall[c].new
                                 /\ rcall[d].new = rcall[c].new => c = d

(* Requests that carry a token at once are recorded in shared. *)
SharedIsNoted ==
    \A c, d \in Busy : (rcall[c].old = rcall[d].old /\ rcall[c].old \notin shared) => c = d

(* A token that was replaced and nothing else happened to is carried by no *)
(* request but the one that replaced it, and has left its cookie when that *)
(* request is over; what is about to be reported has a cause.              *)
ReplacedIsGone ==
    /\ \A t \in Tokens :
         (token[t] = "revoked" /\ t \notin (shared \cup lost \cup ended)) =>
           /\ \A c \in Busy : rcall[c].old = t => rcall[c].new # NoToken
           /\ \A b \in Browsers : jar[b] = t => \E c \in Busy : rcall[c].old = t
    /\ \A c \in Busy :
         /\ rcall[c].at = "revoke" => rcall[c].old \in (shared \cup lost \cup ended)
         /\ rcall[c].new # NoToken => (token[rcall[c].new] = "live" \/ rcall[c].new \in ended)

Locked(c) == rcall[c].at \in {"match", "rotate", "revoke", "unlock"}

(* The lock excludes other requests with the same token until it expires. *)
LockExcludes ==
    \A c \in RefreshCalls : (Locked(c) /\ rcall[c].old \notin expired) =>
      /\ rcall[c].old \in inflight
      /\ \A d \in RefreshCalls : (Locked(d) /\ rcall[d].old = rcall[c].old) => c = d

(* A token about to be replaced is live, or its lock or session was lost.  *)
RotatesLive ==
    \A c \in RefreshCalls : rcall[c].at = "rotate" =>
      /\ token[rcall[c].old] = "live" \/ rcall[c].old \in (expired \cup slid)
      /\ rcall[c].old \in ended => rcall[c].old \in slid

(* What a browser holds and sends names the device of its cookie.          *)
CookiesAgree ==
    /\ \A b \in Browsers : jar[b] # NoToken => did[b] \in {NoDevice, deviceId[jar[b]]}
    /\ \A c \in Busy : rcall[c].did \in {NoDevice, deviceId[rcall[c].old]}

(* Until it drops the cookie.                                              *)
DeviceStays ==
    /\ \A b \in Browsers \ dropped :
         jar[b] # NoToken => did[b] # NoDevice /\ deviceId[jar[b]] = did[b]
    /\ \A c \in Busy : rcall[c].b \notin dropped =>
         /\ did[rcall[c].b] # NoDevice /\ rcall[c].did = did[rcall[c].b]
         /\ rcall[c].new # NoToken => deviceId[rcall[c].new] = did[rcall[c].b]
    /\ \A t \in Tokens : (dropped = {} /\ deviceId[t] # NoDevice)
                            => \E b \in Browsers : did[b] = deviceId[t]

(* What ends with S: the tokens of S, and in both sets the tokens and       *)
(* successors of requests that are replacing one of them.                  *)
LEMMA EndsAdds ==
    ASSUME RefreshTypeOK, RequestHolds, NEW STATE S, S \in SUBSET Tokens, Ends(S)
    PROVE  /\ ended' \in SUBSET Tokens /\ slid' \in SUBSET Tokens
           /\ ended \subseteq ended' /\ S \subseteq ended' /\ slid \subseteq slid'
           /\ \A t \in ended' : t \notin (ended \cup S) => t \in slid'
           /\ \A t \in ended' : t \notin (ended \cup S)
                => \E c \in Busy : t # NoToken /\ t \in {rcall[c].old, rcall[c].new}
           /\ \A c \in Busy : (rcall[c].at = "rotate" /\ rcall[c].old \in S) => rcall[c].old \in slid'
<1> DEFINE onTheirWay == {c \in RefreshCalls : rcall[c].old \in S
                                                 /\ rcall[c].at \in {"rotate", "unlock", "reply"}}
           both == {rcall[c].old : c \in onTheirWay} \cup {rcall[c].new : c \in onTheirWay}
<1>1. onTheirWay \subseteq Busy /\ both \subseteq Tokens \cup {NoToken}
  BY DEF RefreshTypeOK, Busy
<1>2. \A t \in both : \E c \in Busy : t \in {rcall[c].old, rcall[c].new}
  BY <1>1
<1>3. \A c \in Busy : (rcall[c].at = "rotate" /\ rcall[c].old \in S)
                         => rcall[c].old \in both /\ rcall[c].old # NoToken
  BY DEF Busy, RequestHolds, Tokens, NoToken
<1>4. ended' = ended \cup S \cup (both \ {NoToken}) /\ slid' = slid \cup (both \ {NoToken})
  BY DEF Ends
<1>5. ended \in SUBSET Tokens /\ slid \in SUBSET Tokens
  BY DEF RefreshTypeOK
<1> HIDE DEF onTheirWay, both
<1> QED
  BY <1>1, <1>2, <1>3, <1>4, <1>5

(* Ending S revokes S: nothing that ended is live, but what slid.          *)
LEMMA EndedKept ==
    ASSUME EndedStaysEnded, NEW STATE S, slid \subseteq slid',
           \A t \in ended' : t \notin (ended \cup S) => t \in slid',
           \A t \in Tokens : /\ t \in S => token'[t] # "live"
                             /\ t \notin S => token'[t] = token[t]
    PROVE  EndedStaysEnded'
<1> SUFFICES ASSUME NEW t \in Tokens, t \in ended', token'[t] = "live" PROVE t \in slid'
  BY DEF EndedStaysEnded, Live
<1>1. t \notin S /\ token[t] = "live"
  OBVIOUS
<1>2. t \in ended => t \in slid
  BY <1>1 DEF EndedStaysEnded, Live
<1> QED
  BY <1>1, <1>2

(* signTokens moves one request on, with the token it minted; the other    *)
(* requests are where they were.                                           *)
LEMMA SignTokensMoves ==
    ASSUME RefreshTypeOK, NEW c \in RefreshCalls, NEW n \in Tokens,
           rcall' = [rcall EXCEPT ![c].at = "unlock", ![c].new = n]
    PROVE  /\ rcall' \in [RefreshCalls ->
                [at : RefreshStep, b : Browsers \cup {"none"}, old : Tokens \cup {NoToken},
                 new : Tokens \cup {NoToken}, did : Tokens \cup {NoDevice}]]
           /\ \A d \in RefreshCalls :
                rcall'[d].b = rcall[d].b /\ rcall'[d].old = rcall[d].old /\ rcall'[d].did = rcall[d].did
           /\ \A d \in RefreshCalls \ {c} : rcall'[d] = rcall[d]
           /\ rcall'[c].at = "unlock" /\ rcall'[c].new = n
<1> DEFINE r == [rcall[c] EXCEPT !.at = "unlock", !.new = n]
<1>1. rcall' = [rcall EXCEPT ![c] = r]
  OBVIOUS
<1>2. /\ r \in [at : RefreshStep, b : Browsers \cup {"none"}, old : Tokens \cup {NoToken},
                 new : Tokens \cup {NoToken}, did : Tokens \cup {NoDevice}]
      /\ r.at = "unlock" /\ r.new = n /\ r.b = rcall[c].b /\ r.old = rcall[c].old /\ r.did = rcall[c].did
  BY DEF RefreshTypeOK, RefreshStep
<1>3. rcall \in [RefreshCalls ->
                [at : RefreshStep, b : Browsers \cup {"none"}, old : Tokens \cup {NoToken},
                 new : Tokens \cup {NoToken}, did : Tokens \cup {NoDevice}]]
  BY DEF RefreshTypeOK
<1> HIDE DEF r
<1>4. rcall'[c] = r /\ \A d \in RefreshCalls \ {c} : rcall'[d] = rcall[d]
  BY <1>1, <1>3
<1>5. rcall' \in [RefreshCalls ->
                [at : RefreshStep, b : Browsers \cup {"none"}, old : Tokens \cup {NoToken},
                 new : Tokens \cup {NoToken}, did : Tokens \cup {NoDevice}]]
  BY <1>1, <1>2, <1>3
<1> QED
  BY <1>2, <1>4, <1>5


(* signTokens mints an unused token and revokes the one it replaces. *)
LEMMA SignTokensEffect ==
    ASSUME RefreshTypeOK, NEW c \in RefreshCalls, SignTokens(c)
    PROVE  \E n \in Tokens :
             /\ token[n] = "unused"
             /\ token' = [token EXCEPT ![n] = "live", ![rcall[c].old] = "revoked"]
             /\ \A d \in RefreshCalls : rcall'[d].old = rcall[d].old
             /\ \A d \in RefreshCalls \ {c} : rcall'[d] = rcall[d]
             /\ rcall'[c].at = "unlock" /\ rcall'[c].new = n
             /\ ended' \in {ended, ended \cup {n}}
<1>1. PICK n \in Tokens :
        /\ token[n] = "unused"
        /\ token' = [token EXCEPT ![n] = "live", ![rcall[c].old] = "revoked"]
        /\ rcall' = [rcall EXCEPT ![c].at = "unlock", ![c].new = n]
        /\ ended' \in {ended, ended \cup {n}}
  BY DEF SignTokens, NextToken
<1>2. /\ \A d \in RefreshCalls : rcall'[d].old = rcall[d].old
      /\ \A d \in RefreshCalls \ {c} : rcall'[d] = rcall[d]
      /\ rcall'[c].at = "unlock" /\ rcall'[c].new = n
  BY <1>1, SignTokensMoves
<1> QED
  BY <1>1, <1>2

(* Every step of sign-in, refresh, logout and revocation keeps the rows,   *)
(* cookies and requests to their values.                                   *)
LEMMA StepRefreshType ==
    RefreshTypeOK /\ RequestHolds /\ [RefreshNext]_refreshVars
      => RefreshTypeOK'
<1> SUFFICES ASSUME RefreshTypeOK, RequestHolds, [RefreshNext]_refreshVars
             PROVE  RefreshTypeOK'
  OBVIOUS
<1> USE DEF RefreshTypeOK, RefreshStep, NoToken, NoDevice, RequestHolds, Free, Proceeds,
            Answered, NextToken, RevokeLive, Live, SetCookies, ResolveDevice, Carries,
            NoRefresh, Busy, tokenRows, cookies, endings, mishaps, outcomes, sessionGhosts
<1>1. ASSUME NEW b \in Browsers, SignIn(b) PROVE RefreshTypeOK'
  BY <1>1 DEF SignIn
<1>2. ASSUME NEW b \in Browsers, CookieDropped(b) PROVE RefreshTypeOK'
  BY <1>2 DEF CookieDropped
<1>3. ASSUME NEW b \in Browsers, Logout(b) PROVE RefreshTypeOK'
  <2>1. \E S \in SUBSET Tokens : Ends(S)
    BY <1>3 DEF Logout
  <2>2. ended' \subseteq Tokens /\ slid' \subseteq Tokens
    BY <2>1, EndsAdds
  <2> QED
    BY <1>3, <2>2 DEF Logout
<1>4. ASSUME NEW b \in Browsers, RevokeAllSessions(b) PROVE RefreshTypeOK'
  <2>1. \E S \in SUBSET Tokens : Ends(S)
    BY <1>4 DEF RevokeAllSessions
  <2>2. ended' \subseteq Tokens /\ slid' \subseteq Tokens
    BY <2>1, EndsAdds
  <2> QED
    BY <1>4, <2>2 DEF RevokeAllSessions
<1>5. ASSUME NEW c \in RefreshCalls, NEW b \in Browsers, SendRefresh(c, b)
      PROVE  RefreshTypeOK'
  BY <1>5 DEF SendRefresh
<1>6. ASSUME NEW c \in RefreshCalls, RefreshLock(c) PROVE RefreshTypeOK'
  BY <1>6 DEF RefreshLock
<1>7. ASSUME NEW c \in RefreshCalls, RefreshMatch(c) PROVE RefreshTypeOK'
  BY <1>7 DEF RefreshMatch
<1>8. ASSUME NEW c \in RefreshCalls, ReuseDetected(c) PROVE RefreshTypeOK'
  <2>1. Live \in SUBSET Tokens /\ Ends(Live) /\ RevokeLive /\ Proceeds(c, "unlock")
    BY <1>8 DEF ReuseDetected
  <2>2. ended' \subseteq Tokens /\ slid' \subseteq Tokens
    BY <2>1, EndsAdds
  <2>3. /\ token' \in [Tokens -> {"unused", "live", "revoked"}]
        /\ rcall' \in [RefreshCalls ->
                [at : RefreshStep, b : Browsers \cup {"none"}, old : Tokens \cup {NoToken},
                 new : Tokens \cup {NoToken}, did : Tokens \cup {NoDevice}]]
    BY <2>1
  <2>4. reported' \subseteq Tokens
    BY <1>8 DEF ReuseDetected
  <2> QED
    BY <1>8, <2>2, <2>3, <2>4 DEF ReuseDetected
<1>9. ASSUME NEW c \in RefreshCalls, SignTokens(c) PROVE RefreshTypeOK'
  <2>1. PICK n \in Tokens :
          /\ token' = [token EXCEPT ![n] = "live", ![rcall[c].old] = "revoked"]
          /\ deviceId' = [deviceId EXCEPT ![n] = ResolveDevice(rcall[c].did, n)]
          /\ rcall' = [rcall EXCEPT ![c].at = "unlock", ![c].new = n]
          /\ ended' \in {ended, ended \cup {n}} /\ slid' \in {slid, slid \cup {n}}
    BY <1>9 DEF SignTokens
  <2>2. rcall[c].old \in Tokens
    BY <1>9 DEF SignTokens
  <2>3. forked' \subseteq Tokens
    BY <1>9, <2>2 DEF SignTokens
  <2>4. rcall' \in [RefreshCalls ->
                [at : RefreshStep, b : Browsers \cup {"none"}, old : Tokens \cup {NoToken},
                 new : Tokens \cup {NoToken}, did : Tokens \cup {NoDevice}]]
    BY <2>1, SignTokensMoves
  <2> QED
    BY <1>9, <2>1, <2>3, <2>4 DEF SignTokens
<1>10. ASSUME NEW c \in RefreshCalls, RefreshUnlock(c) PROVE RefreshTypeOK'
  BY <1>10 DEF RefreshUnlock
<1>11. ASSUME NEW c \in RefreshCalls, RefreshReply(c) PROVE RefreshTypeOK'
  BY <1>11 DEF RefreshReply
<1>12. ASSUME NEW t \in Tokens, RefreshLockExpires(t) PROVE RefreshTypeOK'
  BY <1>12 DEF RefreshLockExpires
<1>13. CASE UNCHANGED refreshVars
  BY <1>13 DEF refreshVars
<1> QED
  BY <1>1, <1>2, <1>3, <1>4, <1>5, <1>6, <1>7, <1>8, <1>9, <1>10, <1>11, <1>12, <1>13
  DEF RefreshNext

(* A request that holds a new token is past the rotation, and replies with *)
(* one.                                                                    *)
LEMMA StepRequest ==
    RefreshTypeOK /\ RequestHolds /\ [RefreshNext]_refreshVars
      => RequestHolds'
<1> SUFFICES ASSUME RefreshTypeOK, RequestHolds, [RefreshNext]_refreshVars
             PROVE  RequestHolds'
  OBVIOUS
<1> USE DEF RefreshTypeOK, NoToken, NoDevice, RequestHolds, Free, Proceeds, Answered,
            NextToken, RevokeLive, Live, SetCookies, ResolveDevice, Carries, NoRefresh,
            Busy, tokenRows, cookies, endings, mishaps, outcomes, sessionGhosts
<1>1. ASSUME NEW b \in Browsers, SignIn(b) PROVE RequestHolds'
  BY <1>1 DEF SignIn
<1>2. ASSUME NEW b \in Browsers, CookieDropped(b) PROVE RequestHolds'
  BY <1>2 DEF CookieDropped
<1>3. ASSUME NEW b \in Browsers, Logout(b) PROVE RequestHolds'
  BY <1>3 DEF Logout
<1>4. ASSUME NEW b \in Browsers, RevokeAllSessions(b) PROVE RequestHolds'
  BY <1>4 DEF RevokeAllSessions
<1>5. ASSUME NEW c \in RefreshCalls, NEW b \in Browsers, SendRefresh(c, b)
      PROVE  RequestHolds'
  BY <1>5 DEF SendRefresh
<1>6. ASSUME NEW c \in RefreshCalls, RefreshLock(c) PROVE RequestHolds'
  BY <1>6 DEF RefreshLock
<1>7. ASSUME NEW c \in RefreshCalls, RefreshMatch(c) PROVE RequestHolds'
  BY <1>7 DEF RefreshMatch
<1>8. ASSUME NEW c \in RefreshCalls, ReuseDetected(c) PROVE RequestHolds'
  BY <1>8 DEF ReuseDetected
<1>9. ASSUME NEW c \in RefreshCalls, SignTokens(c) PROVE RequestHolds'
  <2>1. PICK n \in Tokens : rcall' = [rcall EXCEPT ![c].at = "unlock", ![c].new = n]
    BY <1>9 DEF SignTokens
  <2>2. /\ \A d \in RefreshCalls : rcall'[d].b = rcall[d].b /\ rcall'[d].old = rcall[d].old
        /\ \A d \in RefreshCalls \ {c} : rcall'[d] = rcall[d]
        /\ rcall'[c].at = "unlock" /\ c \in Busy
    BY <1>9, <2>1, SignTokensMoves DEF SignTokens
  <2>3. rcall'[c] # NoRefresh
    BY <2>2
  <2> QED
    BY <2>2, <2>3
<1>10. ASSUME NEW c \in RefreshCalls, RefreshUnlock(c) PROVE RequestHolds'
  BY <1>10 DEF RefreshUnlock
<1>11. ASSUME NEW c \in RefreshCalls, RefreshReply(c) PROVE RequestHolds'
  BY <1>11 DEF RefreshReply
<1>12. ASSUME NEW t \in Tokens, RefreshLockExpires(t) PROVE RequestHolds'
  BY <1>12 DEF RefreshLockExpires
<1>13. CASE UNCHANGED refreshVars
  BY <1>13 DEF refreshVars
<1> QED
  BY <1>1, <1>2, <1>3, <1>4, <1>5, <1>6, <1>7, <1>8, <1>9, <1>10, <1>11, <1>12, <1>13
  DEF RefreshNext

(* A token is minted for one browser and reaches one jar: setCookies       *)
(* replaces the old token, and no other browser ever sends it.             *)
LEMMA StepHeld ==
    RefreshTypeOK /\ RequestHolds /\ TokenIsHeldOnce /\ [RefreshNext]_refreshVars
      => TokenIsHeldOnce'
<1> SUFFICES ASSUME RefreshTypeOK, RequestHolds, TokenIsHeldOnce, [RefreshNext]_refreshVars
             PROVE  TokenIsHeldOnce'
  OBVIOUS
<1> USE DEF RefreshTypeOK, NoToken, NoDevice, RequestHolds, TokenIsHeldOnce, Free,
            Proceeds, Answered, NextToken, RevokeLive, Live, SetCookies, ResolveDevice,
            Carries, NoRefresh, Busy, tokenRows, cookies, endings, mishaps, outcomes,
            sessionGhosts
<1>1. ASSUME NEW b \in Browsers, SignIn(b) PROVE TokenIsHeldOnce'
  BY <1>1 DEF SignIn
<1>2. ASSUME NEW b \in Browsers, CookieDropped(b) PROVE TokenIsHeldOnce'
  BY <1>2 DEF CookieDropped
<1>3. ASSUME NEW b \in Browsers, Logout(b) PROVE TokenIsHeldOnce'
  <2>1. {jar[b]} \in SUBSET Tokens /\ Ends({jar[b]}) /\ \A t \in {jar[b]} : token[t] # "unused"
    BY <1>3 DEF Logout
  <2>2. \A t \in ended' : token[t] # "unused"
    BY <2>1, EndsAdds
  <2>3. \A t \in Tokens : token[t] # "unused" => token'[t] # "unused"
    BY <1>3 DEF Logout
  <2>4. /\ rcall' = rcall /\ jar' = [jar EXCEPT ![b] = NoToken]
    BY <1>3 DEF Logout
  <2>5. ended' \subseteq Tokens
    BY <2>1, EndsAdds
  <2>6. /\ \A e \in Browsers : jar'[e] # NoToken => (e # b /\ jar'[e] = jar[e])
        /\ \A e \in Browsers, t \in Tokens : jar'[e] = t => jar[e] = t
    BY <2>4 DEF Tokens
  <2>7. \A d \in Busy : rcall[d].old \in Tokens /\ rcall[d].new \in Tokens \cup {NoToken}
    OBVIOUS
  <2>8. /\ \A e \in Browsers : jar'[e] # NoToken => token'[jar'[e]] # "unused"
        /\ \A t \in ended' : token'[t] # "unused"
        /\ \A e, f \in Browsers : (jar'[e] # NoToken /\ jar'[e] = jar'[f]) => e = f
    BY <2>2, <2>3, <2>5, <2>6
  <2> QED
    BY <2>3, <2>4, <2>6, <2>7, <2>8
<1>4. ASSUME NEW b \in Browsers, RevokeAllSessions(b) PROVE TokenIsHeldOnce'
  <2>1. Live \in SUBSET Tokens /\ Ends(Live) /\ \A t \in Live : token[t] # "unused"
    BY <1>4 DEF RevokeAllSessions
  <2>2. \A t \in ended' : token[t] # "unused"
    BY <2>1, EndsAdds
  <2>3. \A t \in Tokens : token[t] # "unused" => token'[t] # "unused"
    BY <1>4 DEF RevokeAllSessions
  <2>4. /\ rcall' = rcall /\ jar' = [jar EXCEPT ![b] = NoToken]
    BY <1>4 DEF RevokeAllSessions
  <2>5. ended' \subseteq Tokens
    BY <2>1, EndsAdds
  <2>6. /\ \A e \in Browsers : jar'[e] # NoToken => (e # b /\ jar'[e] = jar[e])
        /\ \A e \in Browsers, t \in Tokens : jar'[e] = t => jar[e] = t
    BY <2>4 DEF Tokens
  <2>7. \A d \in Busy : rcall[d].old \in Tokens /\ rcall[d].new \in Tokens \cup {NoToken}
    OBVIOUS
  <2>8. /\ \A e \in Browsers : jar'[e] # NoToken => token'[jar'[e]] # "unused"
        /\ \A t \in ended' : token'[t] # "unused"
        /\ \A e, f \in Browsers : (jar'[e] # NoToken /\ jar'[e] = jar'[f]) => e = f
    BY <2>2, <2>3, <2>5, <2>6
  <2> QED
    BY <2>3, <2>4, <2>6, <2>7, <2>8
<1>5. ASSUME NEW c \in RefreshCalls, NEW b \in Browsers, SendRefresh(c, b)
      PROVE  TokenIsHeldOnce'
  BY <1>5 DEF SendRefresh
<1>6. ASSUME NEW c \in RefreshCalls, RefreshLock(c) PROVE TokenIsHeldOnce'
  BY <1>6 DEF RefreshLock
<1>7. ASSUME NEW c \in RefreshCalls, RefreshMatch(c) PROVE TokenIsHeldOnce'
  BY <1>7 DEF RefreshMatch
<1>8. ASSUME NEW c \in RefreshCalls, ReuseDetected(c) PROVE TokenIsHeldOnce'
  <2>1. Live \in SUBSET Tokens /\ Ends(Live) /\ \A t \in Live : token[t] # "unused"
    BY <1>8 DEF ReuseDetected
  <2>2. ended' \subseteq Tokens /\ \A t \in ended' : token[t] # "unused"
    <3>1. ended' \subseteq Tokens
      BY <2>1, EndsAdds
    <3>2. \A t \in ended' : t \notin (ended \cup Live)
            => \E d \in Busy : t # NoToken /\ t \in {rcall[d].old, rcall[d].new}
      BY <2>1, EndsAdds
    <3> HIDE DEF Live
    <3> QED
      BY <2>1, <3>1, <3>2
  <2>3. \A t \in Tokens : token[t] # "unused" => token'[t] # "unused"
    BY <1>8 DEF ReuseDetected
  <2> QED
    BY <1>8, <2>2, <2>3 DEF ReuseDetected
<1>9. ASSUME NEW c \in RefreshCalls, SignTokens(c) PROVE TokenIsHeldOnce'
  BY <1>9 DEF SignTokens
<1>10. ASSUME NEW c \in RefreshCalls, RefreshUnlock(c) PROVE TokenIsHeldOnce'
  BY <1>10 DEF RefreshUnlock
<1>11. ASSUME NEW c \in RefreshCalls, RefreshReply(c) PROVE TokenIsHeldOnce'
  BY <1>11 DEF RefreshReply
<1>12. ASSUME NEW t \in Tokens, RefreshLockExpires(t) PROVE TokenIsHeldOnce'
  BY <1>12 DEF RefreshLockExpires
<1>13. CASE UNCHANGED refreshVars
  BY <1>13 DEF refreshVars
<1> QED
  BY <1>1, <1>2, <1>3, <1>4, <1>5, <1>6, <1>7, <1>8, <1>9, <1>10, <1>11, <1>12, <1>13
  DEF RefreshNext

(* A second request with the token of another one is what SendRefresh      *)
(* records.                                                                *)
LEMMA StepShared ==
    RefreshTypeOK /\ RequestHolds /\ SharedIsNoted /\ [RefreshNext]_refreshVars
      => SharedIsNoted'
<1> SUFFICES ASSUME RefreshTypeOK, RequestHolds, SharedIsNoted, [RefreshNext]_refreshVars
             PROVE  SharedIsNoted'
  OBVIOUS
<1> USE DEF RefreshTypeOK, NoToken, NoDevice, RequestHolds, SharedIsNoted, Carrying, Free,
            Proceeds, Answered, NextToken, RevokeLive, Live, SetCookies, ResolveDevice,
            Carries, NoRefresh, Busy, tokenRows, cookies, endings, mishaps, outcomes,
            sessionGhosts
<1>1. ASSUME NEW b \in Browsers, SignIn(b) PROVE SharedIsNoted'
  BY <1>1 DEF SignIn
<1>2. ASSUME NEW b \in Browsers, CookieDropped(b) PROVE SharedIsNoted'
  BY <1>2 DEF CookieDropped
<1>3. ASSUME NEW b \in Browsers, Logout(b) PROVE SharedIsNoted'
  BY <1>3 DEF Logout
<1>4. ASSUME NEW b \in Browsers, RevokeAllSessions(b) PROVE SharedIsNoted'
  BY <1>4 DEF RevokeAllSessions
<1>5. ASSUME NEW c \in RefreshCalls, NEW b \in Browsers, SendRefresh(c, b)
      PROVE  SharedIsNoted'
  BY <1>5 DEF SendRefresh
<1>6. ASSUME NEW c \in RefreshCalls, RefreshLock(c) PROVE SharedIsNoted'
  BY <1>6 DEF RefreshLock
<1>7. ASSUME NEW c \in RefreshCalls, RefreshMatch(c) PROVE SharedIsNoted'
  BY <1>7 DEF RefreshMatch
<1>8. ASSUME NEW c \in RefreshCalls, ReuseDetected(c) PROVE SharedIsNoted'
  BY <1>8 DEF ReuseDetected
<1>9. ASSUME NEW c \in RefreshCalls, SignTokens(c) PROVE SharedIsNoted'
  BY <1>9 DEF SignTokens
<1>10. ASSUME NEW c \in RefreshCalls, RefreshUnlock(c) PROVE SharedIsNoted'
  BY <1>10 DEF RefreshUnlock
<1>11. ASSUME NEW c \in RefreshCalls, RefreshReply(c) PROVE SharedIsNoted'
  BY <1>11 DEF RefreshReply
<1>12. ASSUME NEW t \in Tokens, RefreshLockExpires(t) PROVE SharedIsNoted'
  BY <1>12 DEF RefreshLockExpires
<1>13. CASE UNCHANGED refreshVars
  BY <1>13 DEF refreshVars
<1> QED
  BY <1>1, <1>2, <1>3, <1>4, <1>5, <1>6, <1>7, <1>8, <1>9, <1>10, <1>11, <1>12, <1>13
  DEF RefreshNext

(* A token that was only replaced leaves the jar with the answer: the      *)
(* request that finds it revoked later shared it, lost an answer, or its   *)
(* session ended.                                                          *)
LEMMA StepReplaced ==
    RefreshTypeOK /\ RequestHolds /\ TokenIsHeldOnce /\ SharedIsNoted /\ CookiesAgree
    /\ ReplacedIsGone /\ [RefreshNext]_refreshVars
      => ReplacedIsGone'
<1> SUFFICES ASSUME RefreshTypeOK, RequestHolds, TokenIsHeldOnce, SharedIsNoted,
                    CookiesAgree, ReplacedIsGone, [RefreshNext]_refreshVars
             PROVE  ReplacedIsGone'
  OBVIOUS
<1> USE DEF RefreshTypeOK, NoToken, NoDevice, RequestHolds, TokenIsHeldOnce, SharedIsNoted,
            CookiesAgree, ReplacedIsGone, Carrying, Free, Proceeds, Answered, NextToken,
            RevokeLive, Live, SetCookies, ResolveDevice, Carries, NoRefresh, Busy,
            tokenRows, cookies, endings, mishaps, outcomes, sessionGhosts
<1>1. ASSUME NEW b \in Browsers, SignIn(b) PROVE ReplacedIsGone'
  BY <1>1 DEF SignIn
<1>2. ASSUME NEW b \in Browsers, CookieDropped(b) PROVE ReplacedIsGone'
  BY <1>2 DEF CookieDropped
<1>3. ASSUME NEW b \in Browsers, Logout(b) PROVE ReplacedIsGone'
  <2>1. {jar[b]} \in SUBSET Tokens /\ Ends({jar[b]})
    BY <1>3 DEF Logout
  <2>2. ended \subseteq ended' /\ {jar[b]} \subseteq ended'
    BY <2>1, EndsAdds
  <2>3. \A t \in Tokens : token'[t] = token[t] \/ t \in ended'
    BY <1>3, <2>2 DEF Logout
  <2>4. /\ rcall' = rcall /\ jar' = [jar EXCEPT ![b] = NoToken]
        /\ shared' = shared /\ lost' = lost
    BY <1>3 DEF Logout
  <2>5. \A e \in Browsers, t \in Tokens : jar'[e] = t => jar[e] = t
    BY <2>4 DEF Tokens
  <2> HIDE DEF Live
  <2> QED
    BY <2>2, <2>3, <2>4, <2>5
<1>4. ASSUME NEW b \in Browsers, RevokeAllSessions(b) PROVE ReplacedIsGone'
  <2>1. Live \in SUBSET Tokens /\ Ends(Live)
    BY <1>4 DEF RevokeAllSessions
  <2>2. ended \subseteq ended' /\ Live \subseteq ended'
    BY <2>1, EndsAdds
  <2>3. \A t \in Tokens : token'[t] = token[t] \/ t \in ended'
    BY <1>4, <2>2 DEF RevokeAllSessions
  <2>4. /\ rcall' = rcall /\ jar' = [jar EXCEPT ![b] = NoToken]
        /\ shared' = shared /\ lost' = lost
    BY <1>4 DEF RevokeAllSessions
  <2>5. \A e \in Browsers, t \in Tokens : jar'[e] = t => jar[e] = t
    BY <2>4 DEF Tokens
  <2> HIDE DEF Live
  <2> QED
    BY <2>2, <2>3, <2>4, <2>5
<1>5. ASSUME NEW c \in RefreshCalls, NEW b \in Browsers, SendRefresh(c, b)
      PROVE  ReplacedIsGone'
  BY <1>5 DEF SendRefresh
<1>6. ASSUME NEW c \in RefreshCalls, RefreshLock(c) PROVE ReplacedIsGone'
  BY <1>6 DEF RefreshLock
<1>7. ASSUME NEW c \in RefreshCalls, RefreshMatch(c) PROVE ReplacedIsGone'
  <2>1. \E step \in {"rotate", "revoke"} : Proceeds(c, step)
    BY <1>7 DEF RefreshMatch
  <2>2. /\ rcall[c].at = "match" /\ c \in Busy
        /\ token' = token /\ jar' = jar /\ shared' = shared /\ lost' = lost /\ ended' = ended
    BY <1>7 DEF RefreshMatch
  <2>3. /\ \A d \in RefreshCalls : rcall'[d].old = rcall[d].old /\ rcall'[d].new = rcall[d].new
        /\ \A d \in RefreshCalls \ {c} : rcall'[d] = rcall[d]
        /\ rcall'[c].at \in {"rotate", "revoke"}
    BY <2>1
  <2>4. rcall'[c].at = "revoke" => token[rcall[c].old] # "live"
    <3>1. ~(token[rcall[c].old] = "live" /\ OtherDevice(rcall[c].old, rcall[c].did))
      BY <2>2 DEF OtherDevice
    <3> QED
      BY <1>7, <3>1 DEF RefreshMatch
  <2>5. /\ rcall[c].new = NoToken /\ rcall[c].old \in Tokens
        /\ token[rcall[c].old] \in {"live", "revoked"}
    BY <2>2
  <2>6. rcall'[c].at = "revoke" => rcall[c].old \in (shared \cup lost \cup ended)
    BY <2>2, <2>4, <2>5
  <2>7. /\ \A d \in RefreshCalls : rcall'[d].at # "idle" <=> d \in Busy
        /\ \A d \in Busy : rcall'[d].at = "revoke" => d = c \/ rcall[d].at = "revoke"
    BY <2>2, <2>3
  <2> QED
    BY <2>2, <2>3, <2>6, <2>7
<1>8. ASSUME NEW c \in RefreshCalls, ReuseDetected(c) PROVE ReplacedIsGone'
  <2>1. Live \in SUBSET Tokens /\ Ends(Live) /\ RevokeLive /\ Proceeds(c, "unlock")
    BY <1>8 DEF ReuseDetected
  <2>2. ended \subseteq ended' /\ Live \subseteq ended'
    BY <2>1, EndsAdds
  <2>3. \A t \in Tokens : token'[t] = token[t] \/ t \in ended'
    BY <2>1, <2>2
  <2>4. /\ \A d \in RefreshCalls : rcall'[d].old = rcall[d].old /\ rcall'[d].new = rcall[d].new
        /\ \A d \in RefreshCalls \ {c} : rcall'[d] = rcall[d]
        /\ rcall'[c].at = "unlock" /\ rcall[c].at = "revoke"
    BY <1>8, <2>1 DEF ReuseDetected
  <2>5. shared' = shared /\ lost' = lost /\ jar' = jar
    BY <1>8 DEF ReuseDetected
  <2> HIDE DEF RevokeLive, Live, Proceeds
  <2> QED
    BY <2>2, <2>3, <2>4, <2>5
<1>9. ASSUME NEW c \in RefreshCalls, SignTokens(c) PROVE ReplacedIsGone'
  <2>1. PICK n \in Tokens :
          /\ token[n] = "unused"
          /\ token' = [token EXCEPT ![n] = "live", ![rcall[c].old] = "revoked"]
          /\ \A d \in RefreshCalls : rcall'[d].old = rcall[d].old
          /\ \A d \in RefreshCalls \ {c} : rcall'[d] = rcall[d]
          /\ rcall'[c].at = "unlock" /\ rcall'[c].new = n
          /\ ended' \in {ended, ended \cup {n}}
    BY <1>9, SignTokensEffect
  <2>2. /\ rcall[c].at = "rotate" /\ c \in Busy /\ rcall[c].old \in Tokens
        /\ jar' = jar /\ shared' = shared /\ lost' = lost
    BY <1>9 DEF SignTokens
  <2>3. /\ \A d \in RefreshCalls : rcall'[d].old = rcall[d].old
        /\ \A d \in RefreshCalls \ {c} : rcall'[d] = rcall[d]
        /\ rcall'[c].at = "unlock" /\ rcall'[c].new = n
    BY <2>1
  <2>10. n # NoToken
    BY DEF Tokens
  <2>4. \A t \in Tokens : token'[t] = "revoked" => (t = rcall[c].old \/ token[t] = "revoked")
    BY <2>1, <2>2
  <2>5. \A d \in RefreshCalls : rcall'[d].at # "idle" <=> d \in Busy
    BY <2>2, <2>3
  <2>6. \A d \in Busy : rcall'[d].at = "revoke" => rcall'[d].old \in (shared' \cup lost' \cup ended')
    BY <2>1, <2>2, <2>3
  <2>11. \A d \in Busy : rcall'[d].new # NoToken
                         => (token'[rcall'[d].new] = "live" \/ rcall'[d].new \in ended')
    BY <2>1, <2>2, <2>3
  <2>7. SUFFICES ASSUME NEW t \in Tokens, token'[t] = "revoked", t \notin (shared' \cup lost' \cup ended')
                 PROVE  /\ \A d \in Busy : rcall'[d].old = t => rcall'[d].new # NoToken
                        /\ \A b \in Browsers : jar'[b] = t => \E d \in Busy : rcall'[d].old = t
    BY <2>5, <2>6, <2>11
  <2>8. CASE t = rcall[c].old
    BY <2>2, <2>3, <2>7, <2>8, <2>10
  <2>9. CASE t # rcall[c].old
    BY <2>1, <2>2, <2>3, <2>4, <2>7, <2>9, <2>10
  <2> QED
    BY <2>8, <2>9
<1>10. ASSUME NEW c \in RefreshCalls, RefreshUnlock(c) PROVE ReplacedIsGone'
  BY <1>10 DEF RefreshUnlock
<1>11. ASSUME NEW c \in RefreshCalls, RefreshReply(c) PROVE ReplacedIsGone'
  <2> DEFINE o == rcall[c].old
  <2>1. /\ c \in Busy /\ o \in Tokens /\ rcall[c].new # NoToken /\ rcall[c].b \in Browsers
        /\ rcall' = [rcall EXCEPT ![c] = NoRefresh]
        /\ token' = token /\ shared' = shared /\ ended' = ended /\ lost \subseteq lost'
    BY <1>11 DEF RefreshReply
  <2>2. \A d \in RefreshCalls : rcall'[d] = IF d = c THEN NoRefresh ELSE rcall[d]
    BY <2>1
  <2>3. \A d \in RefreshCalls : rcall'[d].at # "idle" => d # c /\ d \in Busy
    BY <2>2
  <2>4. (o \in lost' /\ jar' = jar) \/ jar' = [jar EXCEPT ![rcall[c].b] = rcall[c].new]
    BY <1>11 DEF RefreshReply
  <2>5. \A b \in Browsers : jar[b] = o => b = rcall[c].b
    BY <2>1
  <2>6. \A d \in Busy : d # c => (rcall[d].new # rcall[c].new /\ rcall[d].old # rcall[c].new)
    BY <2>1
  <2> HIDE DEF o
  <2>7. \A d \in Busy : rcall'[d].at = "revoke" => rcall'[d].old \in (shared' \cup lost' \cup ended')
    BY <2>1, <2>2
  <2>8. SUFFICES ASSUME NEW t \in Tokens, token[t] = "revoked", t \notin (shared \cup lost' \cup ended)
                 PROVE  /\ \A d \in Busy : d # c /\ rcall[d].old = t => rcall[d].new # NoToken
                        /\ \A b \in Browsers : jar'[b] = t => \E d \in Busy : d # c /\ rcall[d].old = t
    BY <2>1, <2>2, <2>3, <2>7
  <2>9. /\ \A d \in Busy : rcall[d].old = t => rcall[d].new # NoToken
        /\ \A b \in Browsers : jar[b] = t => \E d \in Busy : rcall[d].old = t
    BY <2>1, <2>8
  <2>10. CASE o \in lost' /\ jar' = jar
    BY <2>8, <2>9, <2>10 DEF o
  <2>11. CASE jar' = [jar EXCEPT ![rcall[c].b] = rcall[c].new]
    <3> SUFFICES ASSUME NEW b \in Browsers, jar'[b] = t
                 PROVE  \E d \in Busy : d # c /\ rcall[d].old = t
      BY <2>9
    <3>1. CASE b = rcall[c].b
      <4>1. t = rcall[c].new
        BY <2>1, <2>11, <3>1
      <4> QED
        BY <2>1, <2>8, <4>1
    <3>2. CASE b # rcall[c].b
      BY <2>5, <2>9, <2>11, <3>2 DEF o
    <3> QED
      BY <3>1, <3>2
  <2> QED
    BY <2>4, <2>10, <2>11
<1>12. ASSUME NEW t \in Tokens, RefreshLockExpires(t) PROVE ReplacedIsGone'
  BY <1>12 DEF RefreshLockExpires
<1>13. CASE UNCHANGED refreshVars
  BY <1>13 DEF refreshVars
<1> QED
  BY <1>1, <1>2, <1>3, <1>4, <1>5, <1>6, <1>7, <1>8, <1>9, <1>10, <1>11, <1>12, <1>13
  DEF RefreshNext

(* acquireRefreshLock is exclusive until its TTL passes;                   *)
(* releaseRefreshLock is the holder's.                                     *)
LEMMA StepLocked ==
    RefreshTypeOK /\ RequestHolds /\ LockExcludes /\ [RefreshNext]_refreshVars
      => LockExcludes'
<1> SUFFICES ASSUME RefreshTypeOK, RequestHolds, LockExcludes, [RefreshNext]_refreshVars
             PROVE  LockExcludes'
  OBVIOUS
<1> USE DEF RefreshTypeOK, NoToken, NoDevice, RequestHolds, LockExcludes, Locked, Free,
            Proceeds, Answered, NextToken, RevokeLive, Live, SetCookies, ResolveDevice,
            Carries, NoRefresh, Busy, tokenRows, cookies, endings, mishaps, outcomes,
            sessionGhosts
<1>1. ASSUME NEW b \in Browsers, SignIn(b) PROVE LockExcludes'
  BY <1>1 DEF SignIn
<1>2. ASSUME NEW b \in Browsers, CookieDropped(b) PROVE LockExcludes'
  BY <1>2 DEF CookieDropped
<1>3. ASSUME NEW b \in Browsers, Logout(b) PROVE LockExcludes'
  BY <1>3 DEF Logout
<1>4. ASSUME NEW b \in Browsers, RevokeAllSessions(b) PROVE LockExcludes'
  BY <1>4 DEF RevokeAllSessions
<1>5. ASSUME NEW c \in RefreshCalls, NEW b \in Browsers, SendRefresh(c, b)
      PROVE  LockExcludes'
  BY <1>5 DEF SendRefresh
<1>6. ASSUME NEW c \in RefreshCalls, RefreshLock(c) PROVE LockExcludes'
  BY <1>6 DEF RefreshLock
<1>7. ASSUME NEW c \in RefreshCalls, RefreshMatch(c) PROVE LockExcludes'
  BY <1>7 DEF RefreshMatch
<1>8. ASSUME NEW c \in RefreshCalls, ReuseDetected(c) PROVE LockExcludes'
  BY <1>8 DEF ReuseDetected
<1>9. ASSUME NEW c \in RefreshCalls, SignTokens(c) PROVE LockExcludes'
  BY <1>9 DEF SignTokens
<1>10. ASSUME NEW c \in RefreshCalls, RefreshUnlock(c) PROVE LockExcludes'
  BY <1>10 DEF RefreshUnlock
<1>11. ASSUME NEW c \in RefreshCalls, RefreshReply(c) PROVE LockExcludes'
  BY <1>11 DEF RefreshReply
<1>12. ASSUME NEW t \in Tokens, RefreshLockExpires(t) PROVE LockExcludes'
  BY <1>12 DEF RefreshLockExpires
<1>13. CASE UNCHANGED refreshVars
  BY <1>13 DEF refreshVars
<1> QED
  BY <1>1, <1>2, <1>3, <1>4, <1>5, <1>6, <1>7, <1>8, <1>9, <1>10, <1>11, <1>12, <1>13
  DEF RefreshNext

(* A request matches a token while it is live and holds its lock; what     *)
(* ends in between slid past the check, and is the only thing that comes   *)
(* back to life.                                                           *)
LEMMA StepRotates ==
    RefreshTypeOK /\ RequestHolds /\ TokenIsHeldOnce /\ LockExcludes /\ EndedStaysEnded
    /\ RotatesLive /\ [RefreshNext]_refreshVars
      => (RotatesLive /\ EndedStaysEnded)'
<1> SUFFICES ASSUME RefreshTypeOK, RequestHolds, TokenIsHeldOnce, LockExcludes,
                    EndedStaysEnded, RotatesLive, [RefreshNext]_refreshVars
             PROVE  (RotatesLive /\ EndedStaysEnded)'
  OBVIOUS
<1> USE DEF RefreshTypeOK, NoToken, NoDevice, RequestHolds, TokenIsHeldOnce, LockExcludes,
            Locked, RotatesLive, EndedStaysEnded, Free, Proceeds, Answered, NextToken,
            RevokeLive, Live, SetCookies, ResolveDevice, Carries, NoRefresh, Busy,
            tokenRows, cookies, endings, mishaps, outcomes, sessionGhosts
<1>1. ASSUME NEW b \in Browsers, SignIn(b) PROVE (RotatesLive /\ EndedStaysEnded)'
  BY <1>1 DEF SignIn
<1>2. ASSUME NEW b \in Browsers, CookieDropped(b) PROVE (RotatesLive /\ EndedStaysEnded)'
  BY <1>2 DEF CookieDropped
<1>3. ASSUME NEW b \in Browsers, Logout(b) PROVE (RotatesLive /\ EndedStaysEnded)'
  <2>1. {jar[b]} \in SUBSET Tokens /\ Ends({jar[b]})
    BY <1>3 DEF Logout
  <2>2. /\ slid \subseteq slid' /\ \A t \in ended' : t \notin (ended \cup {jar[b]}) => t \in slid'
        /\ \A d \in Busy : (rcall[d].at = "rotate" /\ rcall[d].old \in {jar[b]}) => rcall[d].old \in slid'
    BY <2>1, EndsAdds
  <2>3. \A t \in Tokens : /\ t \in {jar[b]} => token'[t] # "live"
                          /\ t \notin {jar[b]} => token'[t] = token[t]
    BY <1>3 DEF Logout
  <2>4. rcall' = rcall /\ expired' = expired
    BY <1>3 DEF Logout
  <2>5. \A d \in RefreshCalls : rcall[d].at = "rotate" => d \in Busy /\ rcall[d].old \in Tokens
    OBVIOUS
  <2>6. RotatesLive'
    BY <2>2, <2>3, <2>4, <2>5
  <2>7. EndedStaysEnded'
    BY <2>2, <2>3, EndedKept
  <2> QED
    BY <2>6, <2>7
<1>4. ASSUME NEW b \in Browsers, RevokeAllSessions(b)
      PROVE  (RotatesLive /\ EndedStaysEnded)'
  <2>1. Live \in SUBSET Tokens /\ Ends(Live)
    BY <1>4 DEF RevokeAllSessions
  <2>2. /\ slid \subseteq slid' /\ \A t \in ended' : t \notin (ended \cup Live) => t \in slid'
        /\ \A d \in Busy : (rcall[d].at = "rotate" /\ rcall[d].old \in Live) => rcall[d].old \in slid'
    BY <2>1, EndsAdds
  <2>3. \A t \in Tokens : /\ t \in Live => token'[t] # "live"
                          /\ t \notin Live => token'[t] = token[t]
    BY <1>4 DEF RevokeAllSessions
  <2>4. rcall' = rcall /\ expired' = expired
    BY <1>4 DEF RevokeAllSessions
  <2>5. \A d \in RefreshCalls : rcall[d].at = "rotate" => d \in Busy /\ rcall[d].old \in Tokens
    OBVIOUS
  <2>6. RotatesLive'
    BY <2>2, <2>3, <2>4, <2>5
  <2>7. EndedStaysEnded'
    BY <2>2, <2>3, EndedKept
  <2> QED
    BY <2>6, <2>7
<1>5. ASSUME NEW c \in RefreshCalls, NEW b \in Browsers, SendRefresh(c, b)
      PROVE  (RotatesLive /\ EndedStaysEnded)'
  BY <1>5 DEF SendRefresh
<1>6. ASSUME NEW c \in RefreshCalls, RefreshLock(c) PROVE (RotatesLive /\ EndedStaysEnded)'
  BY <1>6 DEF RefreshLock
<1>7. ASSUME NEW c \in RefreshCalls, RefreshMatch(c) PROVE (RotatesLive /\ EndedStaysEnded)'
  BY <1>7 DEF RefreshMatch
<1>8. ASSUME NEW c \in RefreshCalls, ReuseDetected(c)
      PROVE  (RotatesLive /\ EndedStaysEnded)'
  <2>1. Live \in SUBSET Tokens /\ Ends(Live) /\ RevokeLive /\ Proceeds(c, "unlock")
    BY <1>8 DEF ReuseDetected
  <2>2. /\ slid \subseteq slid' /\ \A t \in ended' : t \notin (ended \cup Live) => t \in slid'
        /\ \A d \in Busy : (rcall[d].at = "rotate" /\ rcall[d].old \in Live) => rcall[d].old \in slid'
    BY <2>1, EndsAdds
  <2>3. \A t \in Tokens : token'[t] # "live"
    BY <2>1
  <2>4. \A d \in RefreshCalls :
          rcall'[d].old = rcall[d].old /\ (rcall'[d].at = "rotate" => rcall[d].at = "rotate")
    BY <2>1
  <2>5. expired' = expired
    BY <1>8 DEF ReuseDetected
  <2>6. \A d \in RefreshCalls : rcall'[d].at = "rotate" => d \in Busy /\ rcall[d].old \in Tokens
    BY <2>4
  <2>7. RotatesLive'
    BY <2>2, <2>4, <2>5, <2>6
  <2> QED
    BY <2>3, <2>7
<1>9. ASSUME NEW c \in RefreshCalls, SignTokens(c) PROVE (RotatesLive /\ EndedStaysEnded)'
  BY <1>9 DEF SignTokens
<1>10. ASSUME NEW c \in RefreshCalls, RefreshUnlock(c)
       PROVE  (RotatesLive /\ EndedStaysEnded)'
  BY <1>10 DEF RefreshUnlock
<1>11. ASSUME NEW c \in RefreshCalls, RefreshReply(c)
       PROVE  (RotatesLive /\ EndedStaysEnded)'
  BY <1>11 DEF RefreshReply
<1>12. ASSUME NEW t \in Tokens, RefreshLockExpires(t)
       PROVE  (RotatesLive /\ EndedStaysEnded)'
  BY <1>12 DEF RefreshLockExpires
<1>13. CASE UNCHANGED refreshVars
  BY <1>13 DEF refreshVars
<1> QED
  BY <1>1, <1>2, <1>3, <1>4, <1>5, <1>6, <1>7, <1>8, <1>9, <1>10, <1>11, <1>12, <1>13
  DEF RefreshNext

(* The device id a browser sends is that of its refresh token, or none: a  *)
(* mismatch comes with a token from elsewhere.                             *)
LEMMA StepCookies ==
    RefreshTypeOK /\ RequestHolds /\ TokenIsHeldOnce /\ CookiesAgree /\ MismatchIsForeign
    /\ [RefreshNext]_refreshVars
      => (CookiesAgree /\ MismatchIsForeign)'
<1> SUFFICES ASSUME RefreshTypeOK, RequestHolds, TokenIsHeldOnce, CookiesAgree,
                    MismatchIsForeign, [RefreshNext]_refreshVars
             PROVE  (CookiesAgree /\ MismatchIsForeign)'
  OBVIOUS
<1> USE DEF RefreshTypeOK, NoToken, NoDevice, RequestHolds, TokenIsHeldOnce, CookiesAgree,
            MismatchIsForeign, OtherDevice, Free, Proceeds, Answered, NextToken,
            RevokeLive, Live, SetCookies, ResolveDevice, Carries, NoRefresh, Busy,
            tokenRows, cookies, endings, mishaps, outcomes, sessionGhosts
<1>1. ASSUME NEW b \in Browsers, SignIn(b) PROVE (CookiesAgree /\ MismatchIsForeign)'
  BY <1>1 DEF SignIn
<1>2. ASSUME NEW b \in Browsers, CookieDropped(b) PROVE (CookiesAgree /\ MismatchIsForeign)'
  BY <1>2 DEF CookieDropped
<1>3. ASSUME NEW b \in Browsers, Logout(b) PROVE (CookiesAgree /\ MismatchIsForeign)'
  BY <1>3 DEF Logout
<1>4. ASSUME NEW b \in Browsers, RevokeAllSessions(b)
      PROVE  (CookiesAgree /\ MismatchIsForeign)'
  BY <1>4 DEF RevokeAllSessions
<1>5. ASSUME NEW c \in RefreshCalls, NEW b \in Browsers, SendRefresh(c, b)
      PROVE  (CookiesAgree /\ MismatchIsForeign)'
  BY <1>5 DEF SendRefresh
<1>6. ASSUME NEW c \in RefreshCalls, RefreshLock(c)
      PROVE  (CookiesAgree /\ MismatchIsForeign)'
  BY <1>6 DEF RefreshLock
<1>7. ASSUME NEW c \in RefreshCalls, RefreshMatch(c)
      PROVE  (CookiesAgree /\ MismatchIsForeign)'
  BY <1>7 DEF RefreshMatch
<1>8. ASSUME NEW c \in RefreshCalls, ReuseDetected(c)
      PROVE  (CookiesAgree /\ MismatchIsForeign)'
  BY <1>8 DEF ReuseDetected
<1>9. ASSUME NEW c \in RefreshCalls, SignTokens(c)
      PROVE  (CookiesAgree /\ MismatchIsForeign)'
  BY <1>9 DEF SignTokens
<1>10. ASSUME NEW c \in RefreshCalls, RefreshUnlock(c)
       PROVE  (CookiesAgree /\ MismatchIsForeign)'
  BY <1>10 DEF RefreshUnlock
<1>11. ASSUME NEW c \in RefreshCalls, RefreshReply(c)
       PROVE  (CookiesAgree /\ MismatchIsForeign)'
  BY <1>11 DEF RefreshReply
<1>12. ASSUME NEW t \in Tokens, RefreshLockExpires(t)
       PROVE  (CookiesAgree /\ MismatchIsForeign)'
  BY <1>12 DEF RefreshLockExpires
<1>13. CASE UNCHANGED refreshVars
  BY <1>13 DEF refreshVars
<1> QED
  BY <1>1, <1>2, <1>3, <1>4, <1>5, <1>6, <1>7, <1>8, <1>9, <1>10, <1>11, <1>12, <1>13
  DEF RefreshNext

(* resolveDevice finds the device of the cookie again, so a browser that   *)
(* keeps its cookie keeps its device.                                      *)
LEMMA StepDevice ==
    RefreshTypeOK /\ RequestHolds /\ TokenIsHeldOnce /\ DeviceStays
    /\ [RefreshNext]_refreshVars
      => DeviceStays'
<1> SUFFICES ASSUME RefreshTypeOK, RequestHolds, TokenIsHeldOnce, DeviceStays,
                    [RefreshNext]_refreshVars
             PROVE  DeviceStays'
  OBVIOUS
<1> USE DEF RefreshTypeOK, NoToken, NoDevice, RequestHolds, TokenIsHeldOnce, DeviceStays,
            Free, Proceeds, Answered, NextToken, RevokeLive, Live, SetCookies,
            ResolveDevice, Carries, NoRefresh, Busy, tokenRows, cookies, endings, mishaps,
            outcomes, sessionGhosts
<1>1. ASSUME NEW b \in Browsers, SignIn(b) PROVE DeviceStays'
  BY <1>1 DEF SignIn
<1>2. ASSUME NEW b \in Browsers, CookieDropped(b) PROVE DeviceStays'
  BY <1>2 DEF CookieDropped
<1>3. ASSUME NEW b \in Browsers, Logout(b) PROVE DeviceStays'
  BY <1>3 DEF Logout
<1>4. ASSUME NEW b \in Browsers, RevokeAllSessions(b) PROVE DeviceStays'
  BY <1>4 DEF RevokeAllSessions
<1>5. ASSUME NEW c \in RefreshCalls, NEW b \in Browsers, SendRefresh(c, b)
      PROVE  DeviceStays'
  BY <1>5 DEF SendRefresh
<1>6. ASSUME NEW c \in RefreshCalls, RefreshLock(c) PROVE DeviceStays'
  BY <1>6 DEF RefreshLock
<1>7. ASSUME NEW c \in RefreshCalls, RefreshMatch(c) PROVE DeviceStays'
  BY <1>7 DEF RefreshMatch
<1>8. ASSUME NEW c \in RefreshCalls, ReuseDetected(c) PROVE DeviceStays'
  BY <1>8 DEF ReuseDetected
<1>9. ASSUME NEW c \in RefreshCalls, SignTokens(c) PROVE DeviceStays'
  BY <1>9 DEF SignTokens
<1>10. ASSUME NEW c \in RefreshCalls, RefreshUnlock(c) PROVE DeviceStays'
  <2>1. /\ jar' = jar /\ did' = did /\ deviceId' = deviceId /\ dropped' = dropped
        /\ rcall' \in {[rcall EXCEPT ![c] = NoRefresh], [rcall EXCEPT ![c].at = "reply"]}
    BY <1>10 DEF RefreshUnlock
  <2>2. \A d \in Busy' : /\ d \in Busy /\ rcall'[d].b = rcall[d].b
                         /\ rcall'[d].did = rcall[d].did /\ rcall'[d].new = rcall[d].new
    BY <1>10, <2>1 DEF RefreshUnlock
  <2> QED
    BY <2>1, <2>2 DEF DeviceStays
<1>11. ASSUME NEW c \in RefreshCalls, RefreshReply(c) PROVE DeviceStays'
  BY <1>11 DEF RefreshReply
<1>12. ASSUME NEW t \in Tokens, RefreshLockExpires(t) PROVE DeviceStays'
  BY <1>12 DEF RefreshLockExpires
<1>13. CASE UNCHANGED refreshVars
  BY <1>13 DEF refreshVars
<1> QED
  BY <1>1, <1>2, <1>3, <1>4, <1>5, <1>6, <1>7, <1>8, <1>9, <1>10, <1>11, <1>12, <1>13
  DEF RefreshNext

(* Reuse is reported for a token that was shared, lost or ended. *)
LEMMA StepAlarm ==
    NoFalseAlarm /\ ReplacedIsGone /\ [RefreshNext]_refreshVars
      => NoFalseAlarm'
<1> SUFFICES ASSUME NoFalseAlarm, ReplacedIsGone, [RefreshNext]_refreshVars
             PROVE  NoFalseAlarm'
  OBVIOUS
<1> USE DEF NoFalseAlarm, ReplacedIsGone, Ends, Free, Proceeds, Answered, NextToken,
            RevokeLive, Live, SetCookies, ResolveDevice, Carries, NoRefresh, Busy,
            tokenRows, cookies, endings, mishaps, outcomes, sessionGhosts
<1>1. ASSUME NEW b \in Browsers, SignIn(b) PROVE NoFalseAlarm'
  BY <1>1 DEF SignIn
<1>2. ASSUME NEW b \in Browsers, CookieDropped(b) PROVE NoFalseAlarm'
  BY <1>2 DEF CookieDropped
<1>3. ASSUME NEW b \in Browsers, Logout(b) PROVE NoFalseAlarm'
  BY <1>3 DEF Logout
<1>4. ASSUME NEW b \in Browsers, RevokeAllSessions(b) PROVE NoFalseAlarm'
  BY <1>4 DEF RevokeAllSessions
<1>5. ASSUME NEW c \in RefreshCalls, NEW b \in Browsers, SendRefresh(c, b)
      PROVE  NoFalseAlarm'
  BY <1>5 DEF SendRefresh
<1>6. ASSUME NEW c \in RefreshCalls, RefreshLock(c) PROVE NoFalseAlarm'
  BY <1>6 DEF RefreshLock
<1>7. ASSUME NEW c \in RefreshCalls, RefreshMatch(c) PROVE NoFalseAlarm'
  BY <1>7 DEF RefreshMatch
<1>8. ASSUME NEW c \in RefreshCalls, ReuseDetected(c) PROVE NoFalseAlarm'
  BY <1>8 DEF ReuseDetected
<1>9. ASSUME NEW c \in RefreshCalls, SignTokens(c) PROVE NoFalseAlarm'
  BY <1>9 DEF SignTokens
<1>10. ASSUME NEW c \in RefreshCalls, RefreshUnlock(c) PROVE NoFalseAlarm'
  BY <1>10 DEF RefreshUnlock
<1>11. ASSUME NEW c \in RefreshCalls, RefreshReply(c) PROVE NoFalseAlarm'
  BY <1>11 DEF RefreshReply
<1>12. ASSUME NEW t \in Tokens, RefreshLockExpires(t) PROVE NoFalseAlarm'
  BY <1>12 DEF RefreshLockExpires
<1>13. CASE UNCHANGED refreshVars
  BY <1>13 DEF refreshVars
<1> QED
  BY <1>1, <1>2, <1>3, <1>4, <1>5, <1>6, <1>7, <1>8, <1>9, <1>10, <1>11, <1>12, <1>13
  DEF RefreshNext

(* A token gets a second successor only if its lock expired or its session *)
(* ended meanwhile.                                                        *)
LEMMA StepSuccessor ==
    OneSuccessor /\ RotatesLive /\ [RefreshNext]_refreshVars
      => OneSuccessor'
<1> SUFFICES ASSUME OneSuccessor, RotatesLive, [RefreshNext]_refreshVars PROVE OneSuccessor'
  OBVIOUS
<1> USE DEF OneSuccessor, RotatesLive, Ends, Free, Proceeds, Answered, NextToken,
            RevokeLive, Live, SetCookies, ResolveDevice, Carries, NoRefresh, Busy,
            tokenRows, cookies, endings, mishaps, outcomes, sessionGhosts
<1>1. ASSUME NEW b \in Browsers, SignIn(b) PROVE OneSuccessor'
  BY <1>1 DEF SignIn
<1>2. ASSUME NEW b \in Browsers, CookieDropped(b) PROVE OneSuccessor'
  BY <1>2 DEF CookieDropped
<1>3. ASSUME NEW b \in Browsers, Logout(b) PROVE OneSuccessor'
  BY <1>3 DEF Logout
<1>4. ASSUME NEW b \in Browsers, RevokeAllSessions(b) PROVE OneSuccessor'
  BY <1>4 DEF RevokeAllSessions
<1>5. ASSUME NEW c \in RefreshCalls, NEW b \in Browsers, SendRefresh(c, b)
      PROVE  OneSuccessor'
  BY <1>5 DEF SendRefresh
<1>6. ASSUME NEW c \in RefreshCalls, RefreshLock(c) PROVE OneSuccessor'
  BY <1>6 DEF RefreshLock
<1>7. ASSUME NEW c \in RefreshCalls, RefreshMatch(c) PROVE OneSuccessor'
  BY <1>7 DEF RefreshMatch
<1>8. ASSUME NEW c \in RefreshCalls, ReuseDetected(c) PROVE OneSuccessor'
  BY <1>8 DEF ReuseDetected
<1>9. ASSUME NEW c \in RefreshCalls, SignTokens(c) PROVE OneSuccessor'
  BY <1>9 DEF SignTokens
<1>10. ASSUME NEW c \in RefreshCalls, RefreshUnlock(c) PROVE OneSuccessor'
  BY <1>10 DEF RefreshUnlock
<1>11. ASSUME NEW c \in RefreshCalls, RefreshReply(c) PROVE OneSuccessor'
  BY <1>11 DEF RefreshReply
<1>12. ASSUME NEW t \in Tokens, RefreshLockExpires(t) PROVE OneSuccessor'
  BY <1>12 DEF RefreshLockExpires
<1>13. CASE UNCHANGED refreshVars
  BY <1>13 DEF refreshVars
<1> QED
  BY <1>1, <1>2, <1>3, <1>4, <1>5, <1>6, <1>7, <1>8, <1>9, <1>10, <1>11, <1>12, <1>13
  DEF RefreshNext

RefreshInv ==
    /\ RequestHolds /\ TokenIsHeldOnce /\ SharedIsNoted /\ LockExcludes /\ CookiesAgree
    /\ MismatchIsForeign /\ ReplacedIsGone /\ RotatesLive /\ EndedStaysEnded /\ DeviceStays
    /\ NoFalseAlarm /\ OneSuccessor

(* At first nobody is signed in. *)
LEMMA InitRefresh == RefreshInit => RefreshTypeOK /\ RefreshInv
<1> SUFFICES ASSUME RefreshInit PROVE RefreshTypeOK /\ RefreshInv
  OBVIOUS
<1> USE DEF RefreshInit, NoRefresh, NoToken, NoDevice, Busy
<1>1. RefreshTypeOK
  BY DEF RefreshTypeOK, RefreshStep
<1>2. RequestHolds /\ TokenIsHeldOnce /\ SharedIsNoted
  BY DEF RequestHolds, TokenIsHeldOnce, SharedIsNoted
<1>3. LockExcludes /\ RotatesLive
  BY DEF LockExcludes, Locked, RotatesLive
<1>4. CookiesAgree /\ MismatchIsForeign /\ ReplacedIsGone
  BY DEF CookiesAgree, MismatchIsForeign, ReplacedIsGone
<1>5. EndedStaysEnded /\ DeviceStays /\ NoFalseAlarm /\ OneSuccessor
  BY DEF EndedStaysEnded, DeviceStays, NoFalseAlarm, OneSuccessor
<1> QED
  BY <1>1, <1>2, <1>3, <1>4, <1>5 DEF RefreshInv

(* While nobody drops a cookie, each device id is that of a browser, so    *)
(* there are no more devices than browsers.                                *)
LEMMA DevicesCounted == RefreshTypeOK /\ DeviceStays => DevicesAreBrowsers
<1> SUFFICES ASSUME RefreshTypeOK, DeviceStays PROVE DevicesAreBrowsers
  OBVIOUS
<1> DEFINE held == {did[b] : b \in Browsers}
           devices == {deviceId[t] : t \in Tokens} \ {NoDevice}
<1>1. did \in Surjection(Browsers, held)
  BY DEF RefreshTypeOK, Surjection
<1>2. IsFiniteSet(Browsers)
  BY RefreshAssumption
<1>3. IsFiniteSet(held) /\ Cardinality(held) <= Cardinality(Browsers)
  BY <1>1, <1>2, FS_Surjection
<1>4. dropped = {} => devices \subseteq held
  BY DEF DeviceStays
<1>5. ASSUME dropped = {} PROVE Cardinality(devices) <= Cardinality(Browsers)
  <2>1. Cardinality(devices) <= Cardinality(held) /\ IsFiniteSet(devices)
    BY <1>3, <1>4, <1>5, FS_Subset
  <2> HIDE DEF held, devices
  <2> QED
    BY <1>2, <1>3, <2>1, FS_CardinalityType
<1> QED
  BY <1>5 DEF DevicesAreBrowsers, DeviceStays

(* The rows, the cookies and the requests keep to their values. *)
THEOREM SessionsAreTyped == RefreshSpec => []RefreshTypeOK
<1>1. RefreshTypeOK /\ RequestHolds /\ [RefreshNext]_refreshVars => RefreshTypeOK' /\ RequestHolds'
  BY StepRefreshType, StepRequest
<1>2. RefreshInit => RefreshTypeOK /\ RequestHolds
  BY InitRefresh DEF RefreshInv
<1> QED
  BY <1>1, <1>2, PTL DEF RefreshSpec

(* For any number of browsers, tokens and overlapping refreshes: no false  *)
(* alarm, one successor for a token, ended sessions stay ended, a device   *)
(* mismatch is foreign and devices are browsers.                           *)
THEOREM SessionsAreSafe == RefreshSpec => []SessionsSafe
<1>1. RefreshTypeOK /\ RefreshInv /\ [RefreshNext]_refreshVars => RefreshInv'
  BY StepRequest, StepHeld, StepShared, StepReplaced, StepLocked, StepRotates, StepCookies,
     StepDevice, StepAlarm, StepSuccessor DEF RefreshInv
<1>2. RefreshTypeOK /\ RefreshInv => SessionsSafe
  BY DevicesCounted DEF RefreshInv, SessionsSafe
<1>3. RefreshTypeOK /\ RefreshInv /\ [RefreshNext]_refreshVars => RefreshTypeOK'
  BY StepRefreshType DEF RefreshInv
<1> QED
  BY InitRefresh, <1>1, <1>2, <1>3, PTL DEF RefreshSpec
=============================================================================
