---------------------------- MODULE AccountProofs ---------------------------
(***************************************************************************)
(* Who may come in: the two factors of an admin and the standing of vendors *)
(* and riders, for any number of overlapping calls, and the four parts of  *)
(* MCAccounts together.                                                    *)
(***************************************************************************)
EXTENDS MCAccounts, SignInProofs

-----------------------------------------------------------------------------
(* Admins *)

(* What a request holds at each step. *)
CallsHold ==
    \A c \in AdminCalls :
      /\ acall[c].at \in {"check", "useCode", "consume"} => acall[c].ch \in Challenges
      /\ acall[c].at = "check" => acall[c].s = 0
      /\ acall[c].at = "useCode" => acall[c].s \in Confirms
      /\ acall[c].at = "consume" => acall[c].s \in Confirms \cup {0}
      /\ acall[c].at \in {"shown", "confirm"} => acall[c].s \in 0..MaxSecrets

Redeems(c, s) == acall[c].at = "consume" /\ acall[c].s = s

(* One request at most holds a stamped recovery code, and its session is   *)
(* still to come; confirmations follow each other.                         *)
CodeIsSpentOnce ==
    /\ \A m, s \in Confirms : (m < s /\ recovery[m] = "none") => recovery[s] = "none"
    /\ \A s \in Confirms :
         /\ spent[s] # 0 => (spent[s] = 1 /\ recovery[s] \in {"consumed", "deleted"})
         /\ \A c \in AdminCalls : Redeems(c, s) =>
              /\ spent[s] = 0 /\ recovery[s] \in {"consumed", "deleted"}
              /\ \A d \in AdminCalls : Redeems(d, s) => c = d

Redeeming(h) ==
    {c \in AdminCalls : acall[c].at \in {"check", "useCode", "consume"} /\ acall[c].ch = h}

(* The sessions a challenge opened and those that may still come of it.    *)
ChallengeRoom ==
    \A h \in Challenges :
      /\ opened[h] # 0 => challenge[h] = "gone"
      /\ opened[h] + Cardinality(Redeeming(h)) <= MaxAdminCalls

(* Until two enrollment requests overlap, one of them at a time finds the  *)
(* row as it read it.                                                      *)
OneEnrollment ==
    crossed = 0 =>
      /\ \A c, d \in Enrolling : c = d
      /\ \A c \in AdminCalls :
           /\ acall[c].at = "mint" => confirmed = 0
           /\ acall[c].at = "confirm" => acall[c].s = secret

(* The bounds are numbers. *)
LEMMA AdminBounds ==
    /\ MaxAdminCalls \in Nat /\ MaxSecrets \in Nat
    /\ MaxConfirms \in Nat /\ MaxChallenges \in Nat
    /\ LockoutThreshold \in Nat \ {0}
  BY AdminAssumption

(* Any set of requests is as small as the requests are few. *)
LEMMA FewAdminCalls ==
    \A S \in SUBSET AdminCalls :
      IsFiniteSet(S) /\ Cardinality(S) \in Nat /\ Cardinality(S) <= MaxAdminCalls
<1>1. IsFiniteSet(AdminCalls) /\ Cardinality(AdminCalls) = MaxAdminCalls
  BY AdminBounds, FS_Interval DEF AdminCalls
<1> QED
  BY <1>1, FS_Subset, FS_CardinalityType

(* So are the requests with one challenge, before a step and after it. *)
LEMMA RedeemingIsBounded ==
    \A h : /\ IsFiniteSet(Redeeming(h)) /\ Cardinality(Redeeming(h)) \in Nat
           /\ Cardinality(Redeeming(h)) <= MaxAdminCalls
           /\ IsFiniteSet(Redeeming(h)') /\ Cardinality(Redeeming(h)') \in Nat
           /\ Cardinality(Redeeming(h)') <= MaxAdminCalls
<1> TAKE h
<1>1. Redeeming(h) \in SUBSET AdminCalls /\ Redeeming(h)' \in SUBSET AdminCalls
  BY DEF Redeeming
<1> QED
  BY <1>1, FewAdminCalls

(* A step that opens no session and takes up no challenge leaves the room  *)
(* there is.                                                               *)
LEMMA RoomKept ==
    ASSUME AdminTypeOK, ChallengeRoom, opened' = opened,
           \A h \in Challenges : challenge[h] = "gone" => challenge'[h] = "gone",
           \A h \in Challenges : Redeeming(h)' \subseteq Redeeming(h)
    PROVE  ChallengeRoom'
<1> SUFFICES ASSUME NEW h \in Challenges
             PROVE  /\ opened'[h] # 0 => challenge'[h] = "gone"
                    /\ opened'[h] + Cardinality(Redeeming(h)') <= MaxAdminCalls
  BY DEF ChallengeRoom
<1>1. IsFiniteSet(Redeeming(h)) /\ Cardinality(Redeeming(h)) \in Nat
  BY RedeemingIsBounded
<1>2. Cardinality(Redeeming(h)') <= Cardinality(Redeeming(h)) /\ Cardinality(Redeeming(h)') \in Nat
  BY <1>1, FS_Subset, FS_CardinalityType
<1> QED
  BY <1>1, <1>2, AdminBounds DEF ChallengeRoom, AdminTypeOK

(* Every step of login, enrollment and redemption keeps the rows and keys  *)
(* to their values.                                                        *)
LEMMA StepAdminType == AdminTypeOK /\ CallsHold /\ [AdminNext]_adminVars => AdminTypeOK'
<1> SUFFICES ASSUME AdminTypeOK, CallsHold, [AdminNext]_adminVars PROVE AdminTypeOK'
  OBVIOUS
<1> USE DEF AdminTypeOK, AdminStep, CallsHold, AdminAt, Becomes, Takes, Leaves, Arrives,
            Unoccupied, lockout, enrollment, redemption, Crosses
<1>1. ASSUME NEW c \in AdminCalls, LoginStart(c) PROVE AdminTypeOK'
  BY <1>1, AdminBounds DEF LoginStart
<1>2. ASSUME NEW c \in AdminCalls, WrongPassword(c) PROVE AdminTypeOK'
  BY <1>2, AdminBounds DEF WrongPassword
<1>3. ASSUME NEW c \in AdminCalls, LockAccount(c) PROVE AdminTypeOK'
  BY <1>3, AdminBounds DEF LockAccount
<1>4. ASSUME NEW c \in AdminCalls, RightPassword(c) PROVE AdminTypeOK'
  BY <1>4, AdminBounds DEF RightPassword
<1>5. ASSUME NEW c \in AdminCalls, AfterPassword(c) PROVE AdminTypeOK'
  BY <1>5, AdminBounds DEF AfterPassword
<1>6. ASSUME NEW c \in AdminCalls, RedeemStart(c) PROVE AdminTypeOK'
  <2>1. PICK h \in Challenges : Takes(c, "check", h, 0)
    BY <1>6 DEF RedeemStart
  <2> QED
    BY <1>6, <2>1, AdminBounds DEF RedeemStart, Challenges
<1>7. ASSUME NEW c \in AdminCalls, CheckTotp(c) PROVE AdminTypeOK'
  <2>1. Becomes(c, "consume") \/ Leaves(c)
    BY <1>7 DEF CheckTotp
  <2>2. acall' \in [AdminCalls -> [at : AdminStep, ch : 0..MaxChallenges, s : 0..(MaxSecrets + MaxConfirms)]]
    BY <2>1, AdminBounds
  <2> QED
    BY <1>7, <2>2 DEF CheckTotp
<1>8. ASSUME NEW c \in AdminCalls, CheckRecovery(c) PROVE AdminTypeOK'
  <2>1. PICK s \in Confirms : Takes(c, "useCode", acall[c].ch, s)
    BY <1>8 DEF CheckRecovery
  <2>2. s \in 0..(MaxSecrets + MaxConfirms)
    BY AdminBounds DEF Confirms
  <2>3. acall' \in [AdminCalls -> [at : AdminStep, ch : 0..MaxChallenges, s : 0..(MaxSecrets + MaxConfirms)]]
    BY <2>1, <2>2
  <2> QED
    BY <1>8, <2>3 DEF CheckRecovery
<1>9. ASSUME NEW c \in AdminCalls, ConsumeRecoveryCode(c) PROVE AdminTypeOK'
  BY <1>9, AdminBounds DEF ConsumeRecoveryCode
<1>10. ASSUME NEW c \in AdminCalls, ConsumeChallenge(c) PROVE AdminTypeOK'
  BY <1>10, AdminBounds DEF ConsumeChallenge
<1>11. ASSUME NEW c \in AdminCalls, EnrollStart(c) PROVE AdminTypeOK'
  BY <1>11, AdminBounds DEF EnrollStart
<1>12. ASSUME NEW c \in AdminCalls, EnrollMint(c) PROVE AdminTypeOK'
  BY <1>12, AdminBounds DEF EnrollMint
<1>13. ASSUME NEW c \in AdminCalls, EnrollScan(c) PROVE AdminTypeOK'
  BY <1>13, AdminBounds DEF EnrollScan
<1>14. ASSUME NEW c \in AdminCalls, ConfirmStart(c) PROVE AdminTypeOK'
  BY <1>14, AdminBounds DEF ConfirmStart
<1>15. ASSUME NEW c \in AdminCalls, ConfirmWrite(c) PROVE AdminTypeOK'
  BY <1>15, AdminBounds DEF ConfirmWrite
<1>16. CASE AttemptsExpire
  BY <1>16, AdminBounds DEF AttemptsExpire
<1>17. CASE Unlock
  BY <1>17, AdminBounds DEF Unlock
<1>18. CASE ChallengeExpires
  BY <1>18, AdminBounds DEF ChallengeExpires
<1>19. CASE UNCHANGED adminVars
  BY <1>19, AdminBounds DEF adminVars
<1> QED
  BY <1>1, <1>2, <1>3, <1>4, <1>5, <1>6, <1>7, <1>8, <1>9, <1>10, <1>11, <1>12, <1>13,
     <1>14, <1>15, <1>16, <1>17, <1>18, <1>19
  DEF AdminNext

(* A request past the challenge holds it, and one that redeems holds a     *)
(* confirmation.                                                           *)
LEMMA StepCallsHold == AdminTypeOK /\ CallsHold /\ [AdminNext]_adminVars => CallsHold'
<1> SUFFICES ASSUME AdminTypeOK, CallsHold, [AdminNext]_adminVars PROVE CallsHold'
  OBVIOUS
<1> USE DEF AdminTypeOK, CallsHold, AdminAt, Becomes, Takes, Leaves, Arrives, Unoccupied,
            lockout, enrollment, redemption, Crosses
<1>1. ASSUME NEW c \in AdminCalls, LoginStart(c) PROVE CallsHold'
  BY <1>1, AdminBounds DEF LoginStart
<1>2. ASSUME NEW c \in AdminCalls, WrongPassword(c) PROVE CallsHold'
  BY <1>2, AdminBounds DEF WrongPassword
<1>3. ASSUME NEW c \in AdminCalls, LockAccount(c) PROVE CallsHold'
  BY <1>3, AdminBounds DEF LockAccount
<1>4. ASSUME NEW c \in AdminCalls, RightPassword(c) PROVE CallsHold'
  BY <1>4, AdminBounds DEF RightPassword
<1>5. ASSUME NEW c \in AdminCalls, AfterPassword(c) PROVE CallsHold'
  BY <1>5, AdminBounds DEF AfterPassword
<1>6. ASSUME NEW c \in AdminCalls, RedeemStart(c) PROVE CallsHold'
  BY <1>6, AdminBounds DEF RedeemStart
<1>7. ASSUME NEW c \in AdminCalls, CheckTotp(c) PROVE CallsHold'
  BY <1>7, AdminBounds DEF CheckTotp
<1>8. ASSUME NEW c \in AdminCalls, CheckRecovery(c) PROVE CallsHold'
  BY <1>8, AdminBounds DEF CheckRecovery
<1>9. ASSUME NEW c \in AdminCalls, ConsumeRecoveryCode(c) PROVE CallsHold'
  BY <1>9, AdminBounds DEF ConsumeRecoveryCode
<1>10. ASSUME NEW c \in AdminCalls, ConsumeChallenge(c) PROVE CallsHold'
  BY <1>10, AdminBounds DEF ConsumeChallenge
<1>11. ASSUME NEW c \in AdminCalls, EnrollStart(c) PROVE CallsHold'
  BY <1>11, AdminBounds DEF EnrollStart
<1>12. ASSUME NEW c \in AdminCalls, EnrollMint(c) PROVE CallsHold'
  BY <1>12, AdminBounds DEF EnrollMint
<1>13. ASSUME NEW c \in AdminCalls, EnrollScan(c) PROVE CallsHold'
  BY <1>13, AdminBounds DEF EnrollScan
<1>14. ASSUME NEW c \in AdminCalls, ConfirmStart(c) PROVE CallsHold'
  BY <1>14, AdminBounds DEF ConfirmStart
<1>15. ASSUME NEW c \in AdminCalls, ConfirmWrite(c) PROVE CallsHold'
  BY <1>15, AdminBounds DEF ConfirmWrite
<1>16. CASE AttemptsExpire
  BY <1>16, AdminBounds DEF AttemptsExpire
<1>17. CASE Unlock
  BY <1>17, AdminBounds DEF Unlock
<1>18. CASE ChallengeExpires
  BY <1>18, AdminBounds DEF ChallengeExpires
<1>19. CASE UNCHANGED adminVars
  BY <1>19, AdminBounds DEF adminVars
<1> QED
  BY <1>1, <1>2, <1>3, <1>4, <1>5, <1>6, <1>7, <1>8, <1>9, <1>10, <1>11, <1>12, <1>13,
     <1>14, <1>15, <1>16, <1>17, <1>18, <1>19
  DEF AdminNext

(* The failure that reaches LOCKOUT_THRESHOLD is the one that goes on to   *)
(* lock; unlocking and the expiry of the window reset the counter.         *)
LEMMA StepThreshold ==
    AdminTypeOK /\ ThresholdLocks /\ [AdminNext]_adminVars
      => ThresholdLocks'
<1> SUFFICES ASSUME AdminTypeOK, ThresholdLocks, [AdminNext]_adminVars PROVE ThresholdLocks'
  OBVIOUS
<1> USE DEF AdminTypeOK, ThresholdLocks, AdminAt, Becomes, Takes, Leaves, Arrives,
            Unoccupied, lockout, enrollment, redemption, Crosses
<1>1. ASSUME NEW c \in AdminCalls, LoginStart(c) PROVE ThresholdLocks'
  BY <1>1, AdminBounds DEF LoginStart
<1>2. ASSUME NEW c \in AdminCalls, WrongPassword(c) PROVE ThresholdLocks'
  BY <1>2, AdminBounds DEF WrongPassword
<1>3. ASSUME NEW c \in AdminCalls, LockAccount(c) PROVE ThresholdLocks'
  BY <1>3, AdminBounds DEF LockAccount
<1>4. ASSUME NEW c \in AdminCalls, RightPassword(c) PROVE ThresholdLocks'
  BY <1>4, AdminBounds DEF RightPassword
<1>5. ASSUME NEW c \in AdminCalls, AfterPassword(c) PROVE ThresholdLocks'
  BY <1>5, AdminBounds DEF AfterPassword
<1>6. ASSUME NEW c \in AdminCalls, RedeemStart(c) PROVE ThresholdLocks'
  BY <1>6, AdminBounds DEF RedeemStart
<1>7. ASSUME NEW c \in AdminCalls, CheckTotp(c) PROVE ThresholdLocks'
  BY <1>7, AdminBounds DEF CheckTotp
<1>8. ASSUME NEW c \in AdminCalls, CheckRecovery(c) PROVE ThresholdLocks'
  BY <1>8, AdminBounds DEF CheckRecovery
<1>9. ASSUME NEW c \in AdminCalls, ConsumeRecoveryCode(c) PROVE ThresholdLocks'
  BY <1>9, AdminBounds DEF ConsumeRecoveryCode
<1>10. ASSUME NEW c \in AdminCalls, ConsumeChallenge(c) PROVE ThresholdLocks'
  BY <1>10, AdminBounds DEF ConsumeChallenge
<1>11. ASSUME NEW c \in AdminCalls, EnrollStart(c) PROVE ThresholdLocks'
  BY <1>11, AdminBounds DEF EnrollStart
<1>12. ASSUME NEW c \in AdminCalls, EnrollMint(c) PROVE ThresholdLocks'
  BY <1>12, AdminBounds DEF EnrollMint
<1>13. ASSUME NEW c \in AdminCalls, EnrollScan(c) PROVE ThresholdLocks'
  BY <1>13, AdminBounds DEF EnrollScan
<1>14. ASSUME NEW c \in AdminCalls, ConfirmStart(c) PROVE ThresholdLocks'
  BY <1>14, AdminBounds DEF ConfirmStart
<1>15. ASSUME NEW c \in AdminCalls, ConfirmWrite(c) PROVE ThresholdLocks'
  BY <1>15, AdminBounds DEF ConfirmWrite
<1>16. CASE AttemptsExpire
  BY <1>16, AdminBounds DEF AttemptsExpire
<1>17. CASE Unlock
  BY <1>17, AdminBounds DEF Unlock
<1>18. CASE ChallengeExpires
  BY <1>18, AdminBounds DEF ChallengeExpires
<1>19. CASE UNCHANGED adminVars
  BY <1>19, AdminBounds DEF adminVars
<1> QED
  BY <1>1, <1>2, <1>3, <1>4, <1>5, <1>6, <1>7, <1>8, <1>9, <1>10, <1>11, <1>12, <1>13,
     <1>14, <1>15, <1>16, <1>17, <1>18, <1>19
  DEF AdminNext

(* A recovery code is stamped by an update that only one request can win,  *)
(* before its session is opened.                                           *)
LEMMA StepCode ==
    AdminTypeOK /\ CallsHold /\ CodeIsSpentOnce /\ [AdminNext]_adminVars
      => CodeIsSpentOnce'
<1> SUFFICES ASSUME AdminTypeOK, CallsHold, CodeIsSpentOnce, [AdminNext]_adminVars
             PROVE  CodeIsSpentOnce'
  OBVIOUS
<1> USE DEF AdminTypeOK, CallsHold, CodeIsSpentOnce, Redeems, AdminAt, Becomes, Takes,
            Leaves, Arrives, Unoccupied, lockout, enrollment, redemption, Crosses
<1>1. ASSUME NEW c \in AdminCalls, LoginStart(c) PROVE CodeIsSpentOnce'
  BY <1>1 DEF LoginStart
<1>2. ASSUME NEW c \in AdminCalls, WrongPassword(c) PROVE CodeIsSpentOnce'
  BY <1>2 DEF WrongPassword
<1>3. ASSUME NEW c \in AdminCalls, LockAccount(c) PROVE CodeIsSpentOnce'
  BY <1>3 DEF LockAccount
<1>4. ASSUME NEW c \in AdminCalls, RightPassword(c) PROVE CodeIsSpentOnce'
  BY <1>4 DEF RightPassword
<1>5. ASSUME NEW c \in AdminCalls, AfterPassword(c) PROVE CodeIsSpentOnce'
  BY <1>5 DEF AfterPassword
<1>6. ASSUME NEW c \in AdminCalls, RedeemStart(c) PROVE CodeIsSpentOnce'
  BY <1>6 DEF RedeemStart
<1>7. ASSUME NEW c \in AdminCalls, CheckTotp(c) PROVE CodeIsSpentOnce'
  <2>1. \A d \in AdminCalls, s \in Confirms : Redeems(d, s)' => Redeems(d, s)
    <3>1. 0 \notin Confirms
      BY DEF Confirms
    <3>2. CASE Becomes(c, "consume")
      BY <1>7, <3>1, <3>2 DEF CheckTotp
    <3>3. CASE Leaves(c)
      BY <3>1, <3>3
    <3> QED
      BY <1>7, <3>2, <3>3 DEF CheckTotp
  <2> QED
    BY <1>7, <2>1 DEF CheckTotp
<1>8. ASSUME NEW c \in AdminCalls, CheckRecovery(c) PROVE CodeIsSpentOnce'
  BY <1>8 DEF CheckRecovery
<1>9. ASSUME NEW c \in AdminCalls, ConsumeRecoveryCode(c) PROVE CodeIsSpentOnce'
  <2>1. CASE recovery[acall[c].s] = "active"
    <3> DEFINE n == acall[c].s
    <3>1. /\ n \in Confirms /\ recovery' = [recovery EXCEPT ![n] = "consumed"]
          /\ acall' = [acall EXCEPT ![c].at = "consume"] /\ spent' = spent
      BY <1>9, <2>1 DEF ConsumeRecoveryCode
    <3>2. spent[n] = 0 /\ \A d \in AdminCalls : ~Redeems(d, n)
      BY <2>1, <3>1
    <3>3. \A d \in AdminCalls \ {c}, s \in Confirms : Redeems(d, s)' <=> Redeems(d, s)
      BY <3>1
    <3>4. Redeems(c, n)' /\ \A s \in Confirms \ {n} : ~Redeems(c, s)'
      BY <3>1
    <3>5. \A s \in Confirms : recovery'[s] = "none" => recovery[s] = "none"
      BY <3>1
    <3>6. \A m \in Confirms : recovery'[m] = "none" <=> recovery[m] = "none"
      BY <3>1, <2>1
    <3> HIDE DEF n
    <3>7. recovery'[n] = "consumed" /\ \A s \in Confirms \ {n} : recovery'[s] = recovery[s]
      BY <3>1
    <3> QED
      BY <3>1, <3>2, <3>3, <3>4, <3>6, <3>7 DEF CodeIsSpentOnce
  <2>2. CASE recovery[acall[c].s] # "active"
    BY <1>9, <2>2 DEF ConsumeRecoveryCode
  <2> QED
    BY <2>1, <2>2
<1>10. ASSUME NEW c \in AdminCalls, ConsumeChallenge(c) PROVE CodeIsSpentOnce'
  BY <1>10 DEF ConsumeChallenge
<1>11. ASSUME NEW c \in AdminCalls, EnrollStart(c) PROVE CodeIsSpentOnce'
  BY <1>11 DEF EnrollStart
<1>12. ASSUME NEW c \in AdminCalls, EnrollMint(c) PROVE CodeIsSpentOnce'
  BY <1>12 DEF EnrollMint
<1>13. ASSUME NEW c \in AdminCalls, EnrollScan(c) PROVE CodeIsSpentOnce'
  BY <1>13 DEF EnrollScan
<1>14. ASSUME NEW c \in AdminCalls, ConfirmStart(c) PROVE CodeIsSpentOnce'
  BY <1>14 DEF ConfirmStart
<1>15. ASSUME NEW c \in AdminCalls, ConfirmWrite(c) PROVE CodeIsSpentOnce'
  <2>1. PICK n \in Confirms :
          /\ recovery[n] = "none"
          /\ recovery' = [s \in Confirms |-> IF s < n THEN "deleted"
                                           ELSE IF s = n THEN "active" ELSE "none"]
    BY <1>15 DEF ConfirmWrite
  <2>2. \A d \in AdminCalls, s \in Confirms : Redeems(d, s)' => Redeems(d, s)
    BY <1>15 DEF ConfirmWrite
  <2>3. \A s \in Confirms : s >= n => recovery[s] = "none"
    BY <2>1 DEF Confirms
  <2>4. \A s \in Confirms : s >= n => spent[s] = 0 /\ \A d \in AdminCalls : ~Redeems(d, s)
    BY <2>3
  <2>5. \A s \in Confirms : ~(s >= n) => recovery'[s] = "deleted"
    BY <2>1 DEF Confirms
  <2>6. \A m, s \in Confirms : (m < s /\ recovery'[m] = "none") => recovery'[s] = "none"
    BY <2>1 DEF Confirms
  <2>7. spent' = spent
    BY <1>15 DEF ConfirmWrite
  <2> QED
    BY <2>2, <2>4, <2>5, <2>6, <2>7 DEF CodeIsSpentOnce
<1>16. CASE AttemptsExpire
  BY <1>16 DEF AttemptsExpire
<1>17. CASE Unlock
  BY <1>17 DEF Unlock
<1>18. CASE ChallengeExpires
  BY <1>18 DEF ChallengeExpires
<1>19. CASE UNCHANGED adminVars
  BY <1>19 DEF adminVars
<1> QED
  BY <1>1, <1>2, <1>3, <1>4, <1>5, <1>6, <1>7, <1>8, <1>9, <1>10, <1>11, <1>12, <1>13,
     <1>14, <1>15, <1>16, <1>17, <1>18, <1>19
  DEF AdminNext

(* Each session a challenge opens takes the place of a request that held   *)
(* it, and the challenge is deleted with the first.                        *)
LEMMA StepRoom ==
    AdminTypeOK /\ CallsHold /\ ChallengeRoom /\ [AdminNext]_adminVars
      => ChallengeRoom'
<1> SUFFICES ASSUME AdminTypeOK, CallsHold, ChallengeRoom, [AdminNext]_adminVars
             PROVE  ChallengeRoom'
  OBVIOUS
<1> USE DEF AdminTypeOK, CallsHold, AdminAt, Becomes, Takes, Leaves, Arrives, Unoccupied,
            lockout, enrollment, redemption, Crosses
<1>1. ASSUME NEW c \in AdminCalls, LoginStart(c) PROVE ChallengeRoom'
  BY <1>1, RoomKept DEF Redeeming, LoginStart
<1>2. ASSUME NEW c \in AdminCalls, WrongPassword(c) PROVE ChallengeRoom'
  BY <1>2, RoomKept DEF Redeeming, WrongPassword
<1>3. ASSUME NEW c \in AdminCalls, LockAccount(c) PROVE ChallengeRoom'
  BY <1>3, RoomKept DEF Redeeming, LockAccount
<1>4. ASSUME NEW c \in AdminCalls, RightPassword(c) PROVE ChallengeRoom'
  BY <1>4, RoomKept DEF Redeeming, RightPassword
<1>5. ASSUME NEW c \in AdminCalls, AfterPassword(c) PROVE ChallengeRoom'
  BY <1>5, RoomKept DEF Redeeming, AfterPassword
<1>6. ASSUME NEW c \in AdminCalls, RedeemStart(c) PROVE ChallengeRoom'
  <2>1. PICK g \in Challenges : challenge[g] = "open" /\ Takes(c, "check", g, 0)
    BY <1>6 DEF RedeemStart
  <2>2. opened' = opened /\ challenge' = challenge
    BY <1>6 DEF RedeemStart
  <2>3. \A h \in Challenges \ {g} : Redeeming(h)' \subseteq Redeeming(h)
    BY <2>1 DEF Redeeming
  <2>4. SUFFICES ASSUME NEW h \in Challenges
                 PROVE  opened[h] + Cardinality(Redeeming(h)') <= MaxAdminCalls
    BY <2>2 DEF ChallengeRoom
  <2>5. /\ IsFiniteSet(Redeeming(h)) /\ Cardinality(Redeeming(h)) \in Nat
        /\ Cardinality(Redeeming(h)') \in Nat /\ Cardinality(Redeeming(h)') <= MaxAdminCalls
    BY RedeemingIsBounded
  <2>6. CASE h = g
    BY <2>1, <2>5, <2>6, AdminBounds DEF ChallengeRoom
  <2>7. CASE h # g
    <3>1. Cardinality(Redeeming(h)') <= Cardinality(Redeeming(h))
      BY <2>3, <2>5, <2>7, FS_Subset
    <3> QED
      BY <2>5, <3>1, AdminBounds DEF ChallengeRoom
  <2> QED
    BY <2>6, <2>7
<1>7. ASSUME NEW c \in AdminCalls, CheckTotp(c) PROVE ChallengeRoom'
  BY <1>7, RoomKept DEF Redeeming, CheckTotp
<1>8. ASSUME NEW c \in AdminCalls, CheckRecovery(c) PROVE ChallengeRoom'
  BY <1>8, RoomKept DEF Redeeming, CheckRecovery
<1>9. ASSUME NEW c \in AdminCalls, ConsumeRecoveryCode(c) PROVE ChallengeRoom'
  BY <1>9, RoomKept DEF Redeeming, ConsumeRecoveryCode
<1>10. ASSUME NEW c \in AdminCalls, ConsumeChallenge(c) PROVE ChallengeRoom'
  <2> DEFINE g == acall[c].ch
  <2>1. /\ g \in Challenges /\ opened' = [opened EXCEPT ![g] = @ + 1]
        /\ challenge' = [challenge EXCEPT ![g] = "gone"] /\ Leaves(c)
    BY <1>10 DEF ConsumeChallenge
  <2>2. \A h \in Challenges : Redeeming(h)' \subseteq Redeeming(h) \ {c}
    BY <2>1 DEF Redeeming
  <2>3. c \in Redeeming(g)
    BY <1>10 DEF Redeeming, ConsumeChallenge
  <2> HIDE DEF g
  <2>4. SUFFICES ASSUME NEW h \in Challenges
                 PROVE  opened'[h] + Cardinality(Redeeming(h)') <= MaxAdminCalls
    BY <2>1 DEF ChallengeRoom
  <2>5. /\ IsFiniteSet(Redeeming(h)) /\ Cardinality(Redeeming(h)) \in Nat
        /\ Cardinality(Redeeming(h)') \in Nat
    BY RedeemingIsBounded
  <2>6. CASE h = g
    <3>1. /\ IsFiniteSet(Redeeming(h) \ {c})
          /\ Cardinality(Redeeming(h) \ {c}) = Cardinality(Redeeming(h)) - 1
      BY <2>3, <2>5, <2>6, FS_RemoveElement
    <3>2. Cardinality(Redeeming(h)') <= Cardinality(Redeeming(h)) - 1
      BY <2>2, <3>1, FS_Subset
    <3> QED
      BY <2>1, <2>5, <2>6, <3>2, AdminBounds DEF ChallengeRoom
  <2>7. CASE h # g
    <3>1. Cardinality(Redeeming(h)') <= Cardinality(Redeeming(h))
      BY <2>2, <2>5, FS_Subset
    <3> QED
      BY <2>1, <2>5, <2>7, <3>1, AdminBounds DEF ChallengeRoom
  <2> QED
    BY <2>6, <2>7
<1>11. ASSUME NEW c \in AdminCalls, EnrollStart(c) PROVE ChallengeRoom'
  BY <1>11, RoomKept DEF Redeeming, EnrollStart
<1>12. ASSUME NEW c \in AdminCalls, EnrollMint(c) PROVE ChallengeRoom'
  BY <1>12, RoomKept DEF Redeeming, EnrollMint
<1>13. ASSUME NEW c \in AdminCalls, EnrollScan(c) PROVE ChallengeRoom'
  BY <1>13, RoomKept DEF Redeeming, EnrollScan
<1>14. ASSUME NEW c \in AdminCalls, ConfirmStart(c) PROVE ChallengeRoom'
  BY <1>14, RoomKept DEF Redeeming, ConfirmStart
<1>15. ASSUME NEW c \in AdminCalls, ConfirmWrite(c) PROVE ChallengeRoom'
  BY <1>15, RoomKept DEF Redeeming, ConfirmWrite
<1>16. CASE AttemptsExpire
  BY <1>16, RoomKept DEF Redeeming, AttemptsExpire
<1>17. CASE Unlock
  BY <1>17, RoomKept DEF Redeeming, Unlock
<1>18. CASE ChallengeExpires
  BY <1>18, RoomKept DEF Redeeming, ChallengeExpires
<1>19. CASE UNCHANGED adminVars
  BY <1>19, RoomKept DEF Redeeming, adminVars
<1> QED
  BY <1>1, <1>2, <1>3, <1>4, <1>5, <1>6, <1>7, <1>8, <1>9, <1>10, <1>11, <1>12, <1>13,
     <1>14, <1>15, <1>16, <1>17, <1>18, <1>19
  DEF AdminNext

(* Between startEnrollment and confirmEnrollment the row changes only      *)
(* under a second request, which is what crossed records.                  *)
LEMMA StepEnrollment ==
    AdminTypeOK /\ OneEnrollment /\ EnrollmentHolds /\ [AdminNext]_adminVars
      => (OneEnrollment /\ EnrollmentHolds)'
<1> SUFFICES ASSUME AdminTypeOK, OneEnrollment, EnrollmentHolds, [AdminNext]_adminVars
             PROVE  (OneEnrollment /\ EnrollmentHolds)'
  OBVIOUS
<1> USE DEF AdminTypeOK, OneEnrollment, EnrollmentHolds, Enrolling, AdminAt, Becomes,
            Takes, Leaves, Arrives, Unoccupied, lockout, enrollment, redemption, Crosses
<1>1. ASSUME NEW c \in AdminCalls, LoginStart(c) PROVE (OneEnrollment /\ EnrollmentHolds)'
  BY <1>1 DEF LoginStart
<1>2. ASSUME NEW c \in AdminCalls, WrongPassword(c)
      PROVE  (OneEnrollment /\ EnrollmentHolds)'
  BY <1>2 DEF WrongPassword
<1>3. ASSUME NEW c \in AdminCalls, LockAccount(c) PROVE (OneEnrollment /\ EnrollmentHolds)'
  BY <1>3 DEF LockAccount
<1>4. ASSUME NEW c \in AdminCalls, RightPassword(c)
      PROVE  (OneEnrollment /\ EnrollmentHolds)'
  BY <1>4 DEF RightPassword
<1>5. ASSUME NEW c \in AdminCalls, AfterPassword(c)
      PROVE  (OneEnrollment /\ EnrollmentHolds)'
  BY <1>5 DEF AfterPassword
<1>6. ASSUME NEW c \in AdminCalls, RedeemStart(c) PROVE (OneEnrollment /\ EnrollmentHolds)'
  BY <1>6 DEF RedeemStart
<1>7. ASSUME NEW c \in AdminCalls, CheckTotp(c) PROVE (OneEnrollment /\ EnrollmentHolds)'
  BY <1>7 DEF CheckTotp
<1>8. ASSUME NEW c \in AdminCalls, CheckRecovery(c)
      PROVE  (OneEnrollment /\ EnrollmentHolds)'
  BY <1>8 DEF CheckRecovery
<1>9. ASSUME NEW c \in AdminCalls, ConsumeRecoveryCode(c)
      PROVE  (OneEnrollment /\ EnrollmentHolds)'
  BY <1>9 DEF ConsumeRecoveryCode
<1>10. ASSUME NEW c \in AdminCalls, ConsumeChallenge(c)
       PROVE  (OneEnrollment /\ EnrollmentHolds)'
  BY <1>10 DEF ConsumeChallenge
<1>11. ASSUME NEW c \in AdminCalls, EnrollStart(c) PROVE (OneEnrollment /\ EnrollmentHolds)'
  BY <1>11 DEF EnrollStart
<1>12. ASSUME NEW c \in AdminCalls, EnrollMint(c) PROVE (OneEnrollment /\ EnrollmentHolds)'
  BY <1>12 DEF EnrollMint
<1>13. ASSUME NEW c \in AdminCalls, EnrollScan(c) PROVE (OneEnrollment /\ EnrollmentHolds)'
  BY <1>13 DEF EnrollScan
<1>14. ASSUME NEW c \in AdminCalls, ConfirmStart(c)
       PROVE  (OneEnrollment /\ EnrollmentHolds)'
  BY <1>14 DEF ConfirmStart
<1>15. ASSUME NEW c \in AdminCalls, ConfirmWrite(c)
       PROVE  (OneEnrollment /\ EnrollmentHolds)'
  BY <1>15 DEF ConfirmWrite
<1>16. CASE AttemptsExpire
  BY <1>16 DEF AttemptsExpire
<1>17. CASE Unlock
  BY <1>17 DEF Unlock
<1>18. CASE ChallengeExpires
  BY <1>18 DEF ChallengeExpires
<1>19. CASE UNCHANGED adminVars
  BY <1>19 DEF adminVars
<1> QED
  BY <1>1, <1>2, <1>3, <1>4, <1>5, <1>6, <1>7, <1>8, <1>9, <1>10, <1>11, <1>12, <1>13,
     <1>14, <1>15, <1>16, <1>17, <1>18, <1>19
  DEF AdminNext

AdminInv ==
    CallsHold /\ ThresholdLocks /\ CodeIsSpentOnce /\ ChallengeRoom /\ OneEnrollment /\ EnrollmentHolds

(* At first nobody asks, and two-factor sign-in is not set up. *)
LEMMA InitAdmin == AdminInit => AdminTypeOK /\ AdminInv
<1> SUFFICES ASSUME AdminInit PROVE AdminTypeOK /\ AdminInv
  OBVIOUS
<1>1. AdminTypeOK
  BY AdminBounds DEF AdminInit, AdminTypeOK, AdminStep, Unoccupied
<1>2. CallsHold /\ ThresholdLocks /\ OneEnrollment /\ EnrollmentHolds
  BY AdminBounds DEF AdminInit, CallsHold, ThresholdLocks, OneEnrollment, EnrollmentHolds,
                     Enrolling, Unoccupied
<1>3. CodeIsSpentOnce
  BY DEF AdminInit, CodeIsSpentOnce, Redeems, Unoccupied
<1>4. ChallengeRoom
  BY RedeemingIsBounded DEF AdminInit, ChallengeRoom
<1> QED
  BY <1>1, <1>2, <1>3, <1>4 DEF AdminInv

(* The two factors hold together once each request holds what it should. *)
LEMMA AdminInvImplies == AdminTypeOK /\ AdminInv => AdminSafe
<1> SUFFICES ASSUME AdminTypeOK, AdminInv PROVE AdminSafe
  OBVIOUS
<1>1. RecoveryCodeOnce
  BY DEF AdminInv, CodeIsSpentOnce, RecoveryCodeOnce, AdminTypeOK
<1>2. ChallengeBounded
  BY RedeemingIsBounded, AdminBounds DEF AdminInv, ChallengeRoom, ChallengeBounded, AdminTypeOK
<1> QED
  BY <1>1, <1>2 DEF AdminInv, AdminSafe

(* What the module AdminAccess promises, of every step. *)
LEMMA StepAdmin ==
    AdminTypeOK /\ AdminInv /\ [AdminNext]_adminVars
      => AdminTypeOK' /\ AdminInv'
  BY StepAdminType, StepCallsHold, StepThreshold, StepCode, StepRoom, StepEnrollment DEF AdminInv

(* The counters, rows, keys and requests keep to their values. *)
THEOREM AdminIsTyped == AdminSpec => []AdminTypeOK
  BY InitAdmin, StepAdmin, PTL DEF AdminSpec

(* For any number of overlapping admin requests: enough wrong passwords    *)
(* lock the account, a recovery code opens one session, a challenge a      *)
(* bounded number, and a confirmed second factor stays on.                 *)
THEOREM AdminIsSafe == AdminSpec => []AdminSafe
  BY InitAdmin, StepAdmin, AdminInvImplies, PTL DEF AdminSpec

-----------------------------------------------------------------------------
(* Partners *)

(* A row once decided on, or that a call read and found, is never deleted. *)
RowsStay ==
    /\ \A w \in Profiles : decidedBy[w] # "none" => row[w] # "none"
    /\ \A c \in PartnerCalls :
         /\ partnerCall[c].at \in {"approve", "unsuspend", "key", "clear", "fraud"}
              => row[partnerCall[c].who] # "none"
         /\ partnerCall[c].at = "fraud" => partnerCall[c].who = "rider"

(* Until the person signs in as a consumer, the role is that of the one    *)
(* row there is, and a file under way read either no user or that role.    *)
FirstProfile ==
    known = 0 =>
      /\ role # "CONSUMER"
      /\ \A w \in Profiles : row[w] # "none" => role = RoleOf(w)
      /\ \A c \in PartnerCalls :
           partnerCall[c].at = "submit" => partnerCall[c].saw \in {"none", role}

(* A rider file under way was let in by a rejection or by no decision yet. *)
FileIsOpen ==
    /\ row["rider"] = "REJECTED" => decidedBy["rider"] \in {"none", "reject"}
    /\ (late = 0 /\ \E c \in PartnerCalls :
                      partnerCall[c].at = "submit" /\ partnerCall[c].who = "rider")
         => decidedBy["rider"] \in {"none", "reject"}

(* Decisions that do not overlap are taken by one call, which finds what   *)
(* it wrote when it comes to the key.                                      *)
OneDecider ==
    disturbed = 0 =>
      /\ \A c, d \in Deciding : c = d
      /\ \A c \in PartnerCalls :
           /\ partnerCall[c].at = "key" => row[partnerCall[c].who] # "ACTIVE"
           /\ partnerCall[c].at = "clear" => row[partnerCall[c].who] # "SUSPENDED"
           /\ partnerCall[c].at = "fraud" => revokedKey = 1

(* SuspendedIsBarred and ActiveIsLetIn, with the decision that is still on *)
(* its way to the key.                                                     *)
KeyFollows ==
    disturbed = 0 => \A w \in Profiles : (\A v \in Profiles \ {w} : row[v] = "none") =>
      /\ row[w] = "SUSPENDED" => (revokedKey = 1 \/ \E c \in PartnerCalls : partnerCall[c].at = "key")
      /\ (row[w] = "ACTIVE" /\ revokedKey = 1)
           => \/ decidedBy[w] = "approve"
              \/ \E c \in PartnerCalls : partnerCall[c].at \in {"clear", "fraud"}

PartnerInv ==
    /\ RowsStay /\ FirstProfile /\ FileIsOpen /\ DecisionStands
    /\ OneDecider /\ KeyFollows /\ SuspendedIsOffline

(* Every step of the submissions, decisions and availability calls keeps   *)
(* the rows, the role and the calls to their values.                       *)
LEMMA StepPartnerType == PartnerTypeOK /\ [PartnerNext]_partnerVars => PartnerTypeOK'
<1> SUFFICES ASSUME PartnerTypeOK, [PartnerNext]_partnerVars PROVE PartnerTypeOK'
  OBVIOUS
<1> USE DEF PartnerTypeOK, RowStatus, PartnerStep, Profiles, RoleOf, PartnerBegins,
            PartnerGoes, PartnerEnds, partnerRows, partnerGhosts, Idle, Decide
<1>1. ASSUME NEW c \in PartnerCalls, NEW w \in Profiles, SubmitStart(c, w)
      PROVE  PartnerTypeOK'
  BY <1>1 DEF SubmitStart
<1>2. ASSUME NEW c \in PartnerCalls, SubmitCommit(c) PROVE PartnerTypeOK'
  BY <1>2 DEF SubmitCommit
<1>3. ASSUME NEW c \in PartnerCalls, SubmitFails(c) PROVE PartnerTypeOK'
  BY <1>3 DEF SubmitFails
<1>4. ASSUME NEW c \in PartnerCalls, NEW w \in Profiles, ApproveRead(c, w)
      PROVE  PartnerTypeOK'
  BY <1>4 DEF ApproveRead
<1>5. ASSUME NEW c \in PartnerCalls, ApproveWrite(c) PROVE PartnerTypeOK'
  BY <1>5 DEF ApproveWrite
<1>6. ASSUME NEW w \in Profiles, RejectRow(w) PROVE PartnerTypeOK'
  BY <1>6 DEF RejectRow
<1>7. ASSUME NEW c \in PartnerCalls, NEW w \in Profiles, SuspendRow(c, w)
      PROVE  PartnerTypeOK'
  BY <1>7 DEF SuspendRow
<1>8. ASSUME NEW c \in PartnerCalls, RevokeUser(c) PROVE PartnerTypeOK'
  BY <1>8 DEF RevokeUser
<1>9. ASSUME NEW c \in PartnerCalls, NEW w \in Profiles, UnsuspendRead(c, w)
      PROVE  PartnerTypeOK'
  BY <1>9 DEF UnsuspendRead
<1>10. ASSUME NEW c \in PartnerCalls, UnsuspendRow(c) PROVE PartnerTypeOK'
  BY <1>10 DEF UnsuspendRow
<1>11. ASSUME NEW c \in PartnerCalls, ReactivateUser(c) PROVE PartnerTypeOK'
  BY <1>11 DEF ReactivateUser
<1>12. ASSUME NEW c \in PartnerCalls, FraudRevoke(c) PROVE PartnerTypeOK'
  BY <1>12 DEF FraudRevoke
<1>13. ASSUME NEW c \in PartnerCalls, FraudCommit(c) PROVE PartnerTypeOK'
  BY <1>13 DEF FraudCommit
<1>14. ASSUME NEW c \in PartnerCalls, FraudRollback(c) PROVE PartnerTypeOK'
  BY <1>14 DEF FraudRollback
<1>15. ASSUME NEW c \in PartnerCalls, NEW w \in Profiles, LiveStart(c, w)
       PROVE  PartnerTypeOK'
  BY <1>15 DEF LiveStart
<1>16. ASSUME NEW c \in PartnerCalls, LiveWrite(c) PROVE PartnerTypeOK'
  BY <1>16 DEF LiveWrite
<1>17. CASE SignUp
  BY <1>17 DEF SignUp
<1>18. CASE KeyExpires
  BY <1>18 DEF KeyExpires
<1>19. CASE PartnerRestart
  BY <1>19 DEF PartnerRestart
<1>20. CASE UNCHANGED partnerVars
  BY <1>20 DEF partnerVars
<1> QED
  BY <1>1, <1>2, <1>3, <1>4, <1>5, <1>6, <1>7, <1>8, <1>9, <1>10, <1>11, <1>12, <1>13,
     <1>14, <1>15, <1>16, <1>17, <1>18, <1>19, <1>20
  DEF PartnerNext, SubmitInformal, SubmitRider, ApproveVendor, ApproveRider, SuspendVendor, SuspendRider,
     UnsuspendVendor, UnsuspendRider, ResolveRiderFraud, VendorAvailability, RiderAvailability,
     RejectVendor, RejectRider, Profiles

(* No step deletes a row that was read or decided on: the one delete of    *)
(* the code is of a file that was never decided.                           *)
LEMMA StepRowsStay == PartnerTypeOK /\ RowsStay /\ [PartnerNext]_partnerVars => RowsStay'
<1> SUFFICES ASSUME PartnerTypeOK, RowsStay, [PartnerNext]_partnerVars PROVE RowsStay'
  OBVIOUS
<1> USE DEF RowsStay, PartnerTypeOK, Profiles, RoleOf, PartnerBegins, PartnerGoes,
            PartnerEnds, partnerRows, partnerGhosts, Idle, Decide
<1>1. ASSUME NEW c \in PartnerCalls, NEW w \in Profiles, SubmitStart(c, w) PROVE RowsStay'
  BY <1>1 DEF SubmitStart
<1>2. ASSUME NEW c \in PartnerCalls, SubmitCommit(c) PROVE RowsStay'
  BY <1>2 DEF SubmitCommit
<1>3. ASSUME NEW c \in PartnerCalls, SubmitFails(c) PROVE RowsStay'
  BY <1>3 DEF SubmitFails
<1>4. ASSUME NEW c \in PartnerCalls, NEW w \in Profiles, ApproveRead(c, w) PROVE RowsStay'
  BY <1>4 DEF ApproveRead
<1>5. ASSUME NEW c \in PartnerCalls, ApproveWrite(c) PROVE RowsStay'
  BY <1>5 DEF ApproveWrite
<1>6. ASSUME NEW w \in Profiles, RejectRow(w) PROVE RowsStay'
  BY <1>6 DEF RejectRow
<1>7. ASSUME NEW c \in PartnerCalls, NEW w \in Profiles, SuspendRow(c, w) PROVE RowsStay'
  BY <1>7 DEF SuspendRow
<1>8. ASSUME NEW c \in PartnerCalls, RevokeUser(c) PROVE RowsStay'
  BY <1>8 DEF RevokeUser
<1>9. ASSUME NEW c \in PartnerCalls, NEW w \in Profiles, UnsuspendRead(c, w) PROVE RowsStay'
  BY <1>9 DEF UnsuspendRead
<1>10. ASSUME NEW c \in PartnerCalls, UnsuspendRow(c) PROVE RowsStay'
  BY <1>10 DEF UnsuspendRow
<1>11. ASSUME NEW c \in PartnerCalls, ReactivateUser(c) PROVE RowsStay'
  BY <1>11 DEF ReactivateUser
<1>12. ASSUME NEW c \in PartnerCalls, FraudRevoke(c) PROVE RowsStay'
  BY <1>12 DEF FraudRevoke
<1>13. ASSUME NEW c \in PartnerCalls, FraudCommit(c) PROVE RowsStay'
  BY <1>13 DEF FraudCommit
<1>14. ASSUME NEW c \in PartnerCalls, FraudRollback(c) PROVE RowsStay'
  BY <1>14 DEF FraudRollback
<1>15. ASSUME NEW c \in PartnerCalls, NEW w \in Profiles, LiveStart(c, w) PROVE RowsStay'
  BY <1>15 DEF LiveStart
<1>16. ASSUME NEW c \in PartnerCalls, LiveWrite(c) PROVE RowsStay'
  BY <1>16 DEF LiveWrite
<1>17. CASE SignUp
  BY <1>17 DEF SignUp
<1>18. CASE KeyExpires
  BY <1>18 DEF KeyExpires
<1>19. CASE PartnerRestart
  BY <1>19 DEF PartnerRestart
<1>20. CASE UNCHANGED partnerVars
  BY <1>20 DEF partnerVars
<1> QED
  BY <1>1, <1>2, <1>3, <1>4, <1>5, <1>6, <1>7, <1>8, <1>9, <1>10, <1>11, <1>12, <1>13,
     <1>14, <1>15, <1>16, <1>17, <1>18, <1>19, <1>20
  DEF PartnerNext, SubmitInformal, SubmitRider, ApproveVendor, ApproveRider, SuspendVendor, SuspendRider,
     UnsuspendVendor, UnsuspendRider, ResolveRiderFraud, VendorAvailability, RiderAvailability,
     RejectVendor, RejectRider, Profiles

(* A phone that is no consumer gets a second profile nowhere: submit       *)
(* refuses a user whose role is another one.                               *)
LEMMA StepFirstProfile ==
    PartnerTypeOK /\ RowsStay /\ FirstProfile /\ [PartnerNext]_partnerVars
      => FirstProfile'
<1> SUFFICES ASSUME PartnerTypeOK, RowsStay, FirstProfile, [PartnerNext]_partnerVars
             PROVE  FirstProfile'
  OBVIOUS
<1> USE DEF RowsStay, FirstProfile, Resubmittable, PartnerTypeOK, Profiles, RoleOf,
            PartnerBegins, PartnerGoes, PartnerEnds, partnerRows, partnerGhosts, Idle,
            Decide
<1>1. ASSUME NEW c \in PartnerCalls, NEW w \in Profiles, SubmitStart(c, w)
      PROVE  FirstProfile'
  BY <1>1 DEF SubmitStart
<1>2. ASSUME NEW c \in PartnerCalls, SubmitCommit(c) PROVE FirstProfile'
  BY <1>2 DEF SubmitCommit
<1>3. ASSUME NEW c \in PartnerCalls, SubmitFails(c) PROVE FirstProfile'
  BY <1>3 DEF SubmitFails
<1>4. ASSUME NEW c \in PartnerCalls, NEW w \in Profiles, ApproveRead(c, w)
      PROVE  FirstProfile'
  BY <1>4 DEF ApproveRead
<1>5. ASSUME NEW c \in PartnerCalls, ApproveWrite(c) PROVE FirstProfile'
  BY <1>5 DEF ApproveWrite
<1>6. ASSUME NEW w \in Profiles, RejectRow(w) PROVE FirstProfile'
  BY <1>6 DEF RejectRow
<1>7. ASSUME NEW c \in PartnerCalls, NEW w \in Profiles, SuspendRow(c, w)
      PROVE  FirstProfile'
  BY <1>7 DEF SuspendRow
<1>8. ASSUME NEW c \in PartnerCalls, RevokeUser(c) PROVE FirstProfile'
  BY <1>8 DEF RevokeUser
<1>9. ASSUME NEW c \in PartnerCalls, NEW w \in Profiles, UnsuspendRead(c, w)
      PROVE  FirstProfile'
  BY <1>9 DEF UnsuspendRead
<1>10. ASSUME NEW c \in PartnerCalls, UnsuspendRow(c) PROVE FirstProfile'
  BY <1>10 DEF UnsuspendRow
<1>11. ASSUME NEW c \in PartnerCalls, ReactivateUser(c) PROVE FirstProfile'
  BY <1>11 DEF ReactivateUser
<1>12. ASSUME NEW c \in PartnerCalls, FraudRevoke(c) PROVE FirstProfile'
  BY <1>12 DEF FraudRevoke
<1>13. ASSUME NEW c \in PartnerCalls, FraudCommit(c) PROVE FirstProfile'
  BY <1>13 DEF FraudCommit
<1>14. ASSUME NEW c \in PartnerCalls, FraudRollback(c) PROVE FirstProfile'
  BY <1>14 DEF FraudRollback
<1>15. ASSUME NEW c \in PartnerCalls, NEW w \in Profiles, LiveStart(c, w)
       PROVE  FirstProfile'
  BY <1>15 DEF LiveStart
<1>16. ASSUME NEW c \in PartnerCalls, LiveWrite(c) PROVE FirstProfile'
  BY <1>16 DEF LiveWrite
<1>17. CASE SignUp
  BY <1>17 DEF SignUp
<1>18. CASE KeyExpires
  BY <1>18 DEF KeyExpires
<1>19. CASE PartnerRestart
  BY <1>19 DEF PartnerRestart
<1>20. CASE UNCHANGED partnerVars
  BY <1>20 DEF partnerVars
<1> QED
  BY <1>1, <1>2, <1>3, <1>4, <1>5, <1>6, <1>7, <1>8, <1>9, <1>10, <1>11, <1>12, <1>13,
     <1>14, <1>15, <1>16, <1>17, <1>18, <1>19, <1>20
  DEF PartnerNext, SubmitInformal, SubmitRider, ApproveVendor, ApproveRider, SuspendVendor, SuspendRider,
     UnsuspendVendor, UnsuspendRider, ResolveRiderFraud, VendorAvailability, RiderAvailability,
     RejectVendor, RejectRider, Profiles

(* A decision of an admin on a rider is undone by no file: submit lets in  *)
(* new and rejected riders only.                                           *)
LEMMA StepFile ==
    PartnerTypeOK /\ RowsStay /\ FileIsOpen /\ DecisionStands /\ [PartnerNext]_partnerVars
      => (FileIsOpen /\ DecisionStands)'
<1> SUFFICES ASSUME PartnerTypeOK, RowsStay, FileIsOpen, DecisionStands,
                    [PartnerNext]_partnerVars
             PROVE  (FileIsOpen /\ DecisionStands)'
  OBVIOUS
<1> USE DEF RowsStay, FileIsOpen, DecisionStands, At, Resubmittable, PartnerTypeOK,
            Profiles, RoleOf, PartnerBegins, PartnerGoes, PartnerEnds, partnerRows,
            partnerGhosts, Idle, Decide
<1>1. ASSUME NEW c \in PartnerCalls, NEW w \in Profiles, SubmitStart(c, w)
      PROVE  (FileIsOpen /\ DecisionStands)'
  BY <1>1 DEF SubmitStart
<1>2. ASSUME NEW c \in PartnerCalls, SubmitCommit(c) PROVE (FileIsOpen /\ DecisionStands)'
  BY <1>2 DEF SubmitCommit
<1>3. ASSUME NEW c \in PartnerCalls, SubmitFails(c) PROVE (FileIsOpen /\ DecisionStands)'
  BY <1>3 DEF SubmitFails
<1>4. ASSUME NEW c \in PartnerCalls, NEW w \in Profiles, ApproveRead(c, w)
      PROVE  (FileIsOpen /\ DecisionStands)'
  BY <1>4 DEF ApproveRead
<1>5. ASSUME NEW c \in PartnerCalls, ApproveWrite(c) PROVE (FileIsOpen /\ DecisionStands)'
  BY <1>5 DEF ApproveWrite
<1>6. ASSUME NEW w \in Profiles, RejectRow(w) PROVE (FileIsOpen /\ DecisionStands)'
  BY <1>6 DEF RejectRow
<1>7. ASSUME NEW c \in PartnerCalls, NEW w \in Profiles, SuspendRow(c, w)
      PROVE  (FileIsOpen /\ DecisionStands)'
  BY <1>7 DEF SuspendRow
<1>8. ASSUME NEW c \in PartnerCalls, RevokeUser(c) PROVE (FileIsOpen /\ DecisionStands)'
  BY <1>8 DEF RevokeUser
<1>9. ASSUME NEW c \in PartnerCalls, NEW w \in Profiles, UnsuspendRead(c, w)
      PROVE  (FileIsOpen /\ DecisionStands)'
  BY <1>9 DEF UnsuspendRead
<1>10. ASSUME NEW c \in PartnerCalls, UnsuspendRow(c) PROVE (FileIsOpen /\ DecisionStands)'
  BY <1>10 DEF UnsuspendRow
<1>11. ASSUME NEW c \in PartnerCalls, ReactivateUser(c)
       PROVE  (FileIsOpen /\ DecisionStands)'
  BY <1>11 DEF ReactivateUser
<1>12. ASSUME NEW c \in PartnerCalls, FraudRevoke(c) PROVE (FileIsOpen /\ DecisionStands)'
  BY <1>12 DEF FraudRevoke
<1>13. ASSUME NEW c \in PartnerCalls, FraudCommit(c) PROVE (FileIsOpen /\ DecisionStands)'
  BY <1>13 DEF FraudCommit
<1>14. ASSUME NEW c \in PartnerCalls, FraudRollback(c) PROVE (FileIsOpen /\ DecisionStands)'
  BY <1>14 DEF FraudRollback
<1>15. ASSUME NEW c \in PartnerCalls, NEW w \in Profiles, LiveStart(c, w)
       PROVE  (FileIsOpen /\ DecisionStands)'
  BY <1>15 DEF LiveStart
<1>16. ASSUME NEW c \in PartnerCalls, LiveWrite(c) PROVE (FileIsOpen /\ DecisionStands)'
  BY <1>16 DEF LiveWrite
<1>17. CASE SignUp
  BY <1>17 DEF SignUp
<1>18. CASE KeyExpires
  BY <1>18 DEF KeyExpires
<1>19. CASE PartnerRestart
  BY <1>19 DEF PartnerRestart
<1>20. CASE UNCHANGED partnerVars
  BY <1>20 DEF partnerVars
<1> QED
  BY <1>1, <1>2, <1>3, <1>4, <1>5, <1>6, <1>7, <1>8, <1>9, <1>10, <1>11, <1>12, <1>13,
     <1>14, <1>15, <1>16, <1>17, <1>18, <1>19, <1>20
  DEF PartnerNext, SubmitInformal, SubmitRider, ApproveVendor, ApproveRider, SuspendVendor, SuspendRider,
     UnsuspendVendor, UnsuspendRider, ResolveRiderFraud, VendorAvailability, RiderAvailability,
     RejectVendor, RejectRider, Profiles

(* A decision reads, writes the row and then the key, and another one in   *)
(* between is what disturbed records.                                      *)
LEMMA StepDecider == PartnerTypeOK /\ OneDecider /\ [PartnerNext]_partnerVars => OneDecider'
<1> SUFFICES ASSUME PartnerTypeOK, OneDecider, [PartnerNext]_partnerVars PROVE OneDecider'
  OBVIOUS
<1> USE DEF OneDecider, Deciding, At, PartnerTypeOK, Profiles, RoleOf, PartnerBegins,
            PartnerGoes, PartnerEnds, partnerRows, partnerGhosts, Idle, Decide
<1>1. ASSUME NEW c \in PartnerCalls, NEW w \in Profiles, SubmitStart(c, w) PROVE OneDecider'
  BY <1>1 DEF SubmitStart
<1>2. ASSUME NEW c \in PartnerCalls, SubmitCommit(c) PROVE OneDecider'
  BY <1>2 DEF SubmitCommit
<1>3. ASSUME NEW c \in PartnerCalls, SubmitFails(c) PROVE OneDecider'
  BY <1>3 DEF SubmitFails
<1>4. ASSUME NEW c \in PartnerCalls, NEW w \in Profiles, ApproveRead(c, w) PROVE OneDecider'
  BY <1>4 DEF ApproveRead
<1>5. ASSUME NEW c \in PartnerCalls, ApproveWrite(c) PROVE OneDecider'
  BY <1>5 DEF ApproveWrite
<1>6. ASSUME NEW w \in Profiles, RejectRow(w) PROVE OneDecider'
  BY <1>6 DEF RejectRow
<1>7. ASSUME NEW c \in PartnerCalls, NEW w \in Profiles, SuspendRow(c, w) PROVE OneDecider'
  BY <1>7 DEF SuspendRow
<1>8. ASSUME NEW c \in PartnerCalls, RevokeUser(c) PROVE OneDecider'
  BY <1>8 DEF RevokeUser
<1>9. ASSUME NEW c \in PartnerCalls, NEW w \in Profiles, UnsuspendRead(c, w)
      PROVE  OneDecider'
  BY <1>9 DEF UnsuspendRead
<1>10. ASSUME NEW c \in PartnerCalls, UnsuspendRow(c) PROVE OneDecider'
  BY <1>10 DEF UnsuspendRow
<1>11. ASSUME NEW c \in PartnerCalls, ReactivateUser(c) PROVE OneDecider'
  BY <1>11 DEF ReactivateUser
<1>12. ASSUME NEW c \in PartnerCalls, FraudRevoke(c) PROVE OneDecider'
  BY <1>12 DEF FraudRevoke
<1>13. ASSUME NEW c \in PartnerCalls, FraudCommit(c) PROVE OneDecider'
  BY <1>13 DEF FraudCommit
<1>14. ASSUME NEW c \in PartnerCalls, FraudRollback(c) PROVE OneDecider'
  BY <1>14 DEF FraudRollback
<1>15. ASSUME NEW c \in PartnerCalls, NEW w \in Profiles, LiveStart(c, w) PROVE OneDecider'
  BY <1>15 DEF LiveStart
<1>16. ASSUME NEW c \in PartnerCalls, LiveWrite(c) PROVE OneDecider'
  BY <1>16 DEF LiveWrite
<1>17. CASE SignUp
  BY <1>17 DEF SignUp
<1>18. CASE KeyExpires
  BY <1>18 DEF KeyExpires
<1>19. CASE PartnerRestart
  BY <1>19 DEF PartnerRestart
<1>20. CASE UNCHANGED partnerVars
  BY <1>20 DEF partnerVars
<1> QED
  BY <1>1, <1>2, <1>3, <1>4, <1>5, <1>6, <1>7, <1>8, <1>9, <1>10, <1>11, <1>12, <1>13,
     <1>14, <1>15, <1>16, <1>17, <1>18, <1>19, <1>20
  DEF PartnerNext, SubmitInformal, SubmitRider, ApproveVendor, ApproveRider, SuspendVendor, SuspendRider,
     UnsuspendVendor, UnsuspendRider, ResolveRiderFraud, VendorAvailability, RiderAvailability,
     RejectVendor, RejectRider, Profiles

(* Suspending writes the row and then revokes; approving and unsuspending  *)
(* write the row and then clear, so the key agrees with the row once the   *)
(* call is over.                                                           *)
LEMMA StepKey ==
    PartnerTypeOK /\ RowsStay /\ OneDecider /\ KeyFollows /\ [PartnerNext]_partnerVars
      => KeyFollows'
<1> SUFFICES ASSUME PartnerTypeOK, RowsStay, OneDecider, KeyFollows,
                    [PartnerNext]_partnerVars
             PROVE  KeyFollows'
  OBVIOUS
<1> USE DEF RowsStay, OneDecider, KeyFollows, Deciding, At, PartnerTypeOK, Profiles,
            RoleOf, PartnerBegins, PartnerGoes, PartnerEnds, partnerRows, partnerGhosts,
            Idle, Decide
<1>1. ASSUME NEW c \in PartnerCalls, NEW w \in Profiles, SubmitStart(c, w) PROVE KeyFollows'
  BY <1>1 DEF SubmitStart
<1>2. ASSUME NEW c \in PartnerCalls, SubmitCommit(c) PROVE KeyFollows'
  BY <1>2 DEF SubmitCommit
<1>3. ASSUME NEW c \in PartnerCalls, SubmitFails(c) PROVE KeyFollows'
  BY <1>3 DEF SubmitFails
<1>4. ASSUME NEW c \in PartnerCalls, NEW w \in Profiles, ApproveRead(c, w) PROVE KeyFollows'
  BY <1>4 DEF ApproveRead
<1>5. ASSUME NEW c \in PartnerCalls, ApproveWrite(c) PROVE KeyFollows'
  BY <1>5 DEF ApproveWrite
<1>6. ASSUME NEW w \in Profiles, RejectRow(w) PROVE KeyFollows'
  BY <1>6 DEF RejectRow
<1>7. ASSUME NEW c \in PartnerCalls, NEW w \in Profiles, SuspendRow(c, w) PROVE KeyFollows'
  BY <1>7 DEF SuspendRow
<1>8. ASSUME NEW c \in PartnerCalls, RevokeUser(c) PROVE KeyFollows'
  BY <1>8 DEF RevokeUser
<1>9. ASSUME NEW c \in PartnerCalls, NEW w \in Profiles, UnsuspendRead(c, w)
      PROVE  KeyFollows'
  BY <1>9 DEF UnsuspendRead
<1>10. ASSUME NEW c \in PartnerCalls, UnsuspendRow(c) PROVE KeyFollows'
  BY <1>10 DEF UnsuspendRow
<1>11. ASSUME NEW c \in PartnerCalls, ReactivateUser(c) PROVE KeyFollows'
  BY <1>11 DEF ReactivateUser
<1>12. ASSUME NEW c \in PartnerCalls, FraudRevoke(c) PROVE KeyFollows'
  BY <1>12 DEF FraudRevoke
<1>13. ASSUME NEW c \in PartnerCalls, FraudCommit(c) PROVE KeyFollows'
  BY <1>13 DEF FraudCommit
<1>14. ASSUME NEW c \in PartnerCalls, FraudRollback(c) PROVE KeyFollows'
  BY <1>14 DEF FraudRollback
<1>15. ASSUME NEW c \in PartnerCalls, NEW w \in Profiles, LiveStart(c, w) PROVE KeyFollows'
  BY <1>15 DEF LiveStart
<1>16. ASSUME NEW c \in PartnerCalls, LiveWrite(c) PROVE KeyFollows'
  BY <1>16 DEF LiveWrite
<1>17. CASE SignUp
  BY <1>17 DEF SignUp
<1>18. CASE KeyExpires
  BY <1>18 DEF KeyExpires
<1>19. CASE PartnerRestart
  BY <1>19 DEF PartnerRestart
<1>20. CASE UNCHANGED partnerVars
  BY <1>20 DEF partnerVars
<1> QED
  BY <1>1, <1>2, <1>3, <1>4, <1>5, <1>6, <1>7, <1>8, <1>9, <1>10, <1>11, <1>12, <1>13,
     <1>14, <1>15, <1>16, <1>17, <1>18, <1>19, <1>20
  DEF PartnerNext, SubmitInformal, SubmitRider, ApproveVendor, ApproveRider, SuspendVendor, SuspendRider,
     UnsuspendVendor, UnsuspendRider, ResolveRiderFraud, VendorAvailability, RiderAvailability,
     RejectVendor, RejectRider, Profiles

(* Going live is refused to a suspended partner, and suspension takes the  *)
(* partner offline in the same write.                                      *)
LEMMA StepOffline ==
    PartnerTypeOK /\ SuspendedIsOffline /\ [PartnerNext]_partnerVars
      => SuspendedIsOffline'
<1> SUFFICES ASSUME PartnerTypeOK, SuspendedIsOffline, [PartnerNext]_partnerVars
             PROVE  SuspendedIsOffline'
  OBVIOUS
<1> USE DEF SuspendedIsOffline, PartnerTypeOK, Profiles, RoleOf, PartnerBegins,
            PartnerGoes, PartnerEnds, partnerRows, partnerGhosts, Idle, Decide
<1>1. ASSUME NEW c \in PartnerCalls, NEW w \in Profiles, SubmitStart(c, w)
      PROVE  SuspendedIsOffline'
  BY <1>1 DEF SubmitStart
<1>2. ASSUME NEW c \in PartnerCalls, SubmitCommit(c) PROVE SuspendedIsOffline'
  BY <1>2 DEF SubmitCommit
<1>3. ASSUME NEW c \in PartnerCalls, SubmitFails(c) PROVE SuspendedIsOffline'
  BY <1>3 DEF SubmitFails
<1>4. ASSUME NEW c \in PartnerCalls, NEW w \in Profiles, ApproveRead(c, w)
      PROVE  SuspendedIsOffline'
  BY <1>4 DEF ApproveRead
<1>5. ASSUME NEW c \in PartnerCalls, ApproveWrite(c) PROVE SuspendedIsOffline'
  BY <1>5 DEF ApproveWrite
<1>6. ASSUME NEW w \in Profiles, RejectRow(w) PROVE SuspendedIsOffline'
  BY <1>6 DEF RejectRow
<1>7. ASSUME NEW c \in PartnerCalls, NEW w \in Profiles, SuspendRow(c, w)
      PROVE  SuspendedIsOffline'
  BY <1>7 DEF SuspendRow
<1>8. ASSUME NEW c \in PartnerCalls, RevokeUser(c) PROVE SuspendedIsOffline'
  BY <1>8 DEF RevokeUser
<1>9. ASSUME NEW c \in PartnerCalls, NEW w \in Profiles, UnsuspendRead(c, w)
      PROVE  SuspendedIsOffline'
  BY <1>9 DEF UnsuspendRead
<1>10. ASSUME NEW c \in PartnerCalls, UnsuspendRow(c) PROVE SuspendedIsOffline'
  BY <1>10 DEF UnsuspendRow
<1>11. ASSUME NEW c \in PartnerCalls, ReactivateUser(c) PROVE SuspendedIsOffline'
  BY <1>11 DEF ReactivateUser
<1>12. ASSUME NEW c \in PartnerCalls, FraudRevoke(c) PROVE SuspendedIsOffline'
  BY <1>12 DEF FraudRevoke
<1>13. ASSUME NEW c \in PartnerCalls, FraudCommit(c) PROVE SuspendedIsOffline'
  BY <1>13 DEF FraudCommit
<1>14. ASSUME NEW c \in PartnerCalls, FraudRollback(c) PROVE SuspendedIsOffline'
  BY <1>14 DEF FraudRollback
<1>15. ASSUME NEW c \in PartnerCalls, NEW w \in Profiles, LiveStart(c, w)
       PROVE  SuspendedIsOffline'
  BY <1>15 DEF LiveStart
<1>16. ASSUME NEW c \in PartnerCalls, LiveWrite(c) PROVE SuspendedIsOffline'
  BY <1>16 DEF LiveWrite
<1>17. CASE SignUp
  BY <1>17 DEF SignUp
<1>18. CASE KeyExpires
  BY <1>18 DEF KeyExpires
<1>19. CASE PartnerRestart
  BY <1>19 DEF PartnerRestart
<1>20. CASE UNCHANGED partnerVars
  BY <1>20 DEF partnerVars
<1> QED
  BY <1>1, <1>2, <1>3, <1>4, <1>5, <1>6, <1>7, <1>8, <1>9, <1>10, <1>11, <1>12, <1>13,
     <1>14, <1>15, <1>16, <1>17, <1>18, <1>19, <1>20
  DEF PartnerNext, SubmitInformal, SubmitRider, ApproveVendor, ApproveRider, SuspendVendor, SuspendRider,
     UnsuspendVendor, UnsuspendRider, ResolveRiderFraud, VendorAvailability, RiderAvailability,
     RejectVendor, RejectRider, Profiles

(* Of two profiles, the other one. *)
LEMMA OtherProfile == \A w \in Profiles : Profiles \ {w} = {Other(w)}
<1> TAKE w \in Profiles
<1>1. \E v \in Profiles : v # w
  BY DEF Profiles
<1>2. Other(w) \in Profiles /\ Other(w) # w
  BY <1>1 DEF Other
<1> QED
  BY <1>2 DEF Profiles

(* A phone nobody used has no row, no call and no key. *)
LEMMA InitPartner == PartnerInit => PartnerTypeOK /\ PartnerInv
  BY DEF PartnerInit, PartnerTypeOK, PartnerInv, RowsStay, FirstProfile, FileIsOpen,
         DecisionStands, OneDecider, KeyFollows, SuspendedIsOffline, Deciding, At,
         Profiles, RowStatus, PartnerStep, Idle

(* What the standing of a partner promises follows from the inductive      *)
(* invariant.                                                              *)
LEMMA PartnerInvImplies == PartnerTypeOK /\ PartnerInv => StandingSafe
<1> SUFFICES ASSUME PartnerTypeOK, PartnerInv PROVE StandingSafe
  OBVIOUS
<1> USE DEF PartnerInv
<1>1. OneProfile
  BY DEF OneProfile, FirstProfile, Profiles, RoleOf, PartnerTypeOK
<1>2. SuspendedIsBarred /\ ActiveIsLetIn
  BY OtherProfile DEF SuspendedIsBarred, ActiveIsLetIn, KeyFollows, AlonePerson, Settled, Deciding, At
<1>3. DecisionStands /\ SuspendedIsOffline
  OBVIOUS
<1> QED
  BY <1>1, <1>2, <1>3 DEF StandingSafe

(* The rows, the role, the key and the calls keep to their values. *)
THEOREM PartnersAreTyped == PartnerSpec => []PartnerTypeOK
  BY InitPartner, StepPartnerType, PTL DEF PartnerSpec

(* For any number of overlapping decisions and submissions: a suspended    *)
(* partner is barred and offline, an active one is let in, and a decision  *)
(* stands.                                                                 *)
THEOREM StandingIsSafe == PartnerSpec => []StandingSafe
<1>1. PartnerTypeOK /\ PartnerInv /\ [PartnerNext]_partnerVars => PartnerInv'
  BY StepRowsStay, StepFirstProfile, StepFile, StepDecider, StepKey, StepOffline DEF PartnerInv
<1> QED
  BY InitPartner, StepPartnerType, <1>1, PartnerInvImplies, PTL DEF PartnerSpec

-----------------------------------------------------------------------------
(* The four together *)

(* The parts share no state: each of them runs, or stands still while      *)
(* another one runs.                                                       *)
LEMMA PartsRun ==
    /\ AccountsSpec => OtpSpec
    /\ AccountsSpec => RefreshSpec
    /\ AccountsSpec => AdminSpec
    /\ AccountsSpec => PartnerSpec
<1>1. AccountsInit => OtpInit /\ RefreshInit /\ AdminInit /\ PartnerInit
  BY DEF AccountsInit
<1>2. [AccountsNext]_accountVars => /\ [OtpNext]_otpVars
                                   /\ [RefreshNext]_refreshVars
                                   /\ [AdminNext]_adminVars
                                   /\ [PartnerNext]_partnerVars
  BY DEF AccountsNext, accountVars
<1> QED
  BY <1>1, <1>2, PTL DEF AccountsSpec, OtpSpec, RefreshSpec, AdminSpec, PartnerSpec

(* The moving part keeps to its values. *)
THEOREM AccountsAreTyped == AccountsSpec => []AccountsTypeOK
<1>1. OtpTypeOK /\ RefreshTypeOK /\ AdminTypeOK /\ PartnerTypeOK => AccountsTypeOK
  BY DEF AccountsTypeOK
<1> QED
  BY <1>1, PartsRun, SignInIsTyped, SessionsAreTyped, AdminIsTyped, PartnersAreTyped, PTL

(* Whichever part moves, what each of the four promises holds. *)
THEOREM AccountsAreSafe ==
    AccountsSpec => [](SignInSafe /\ SessionsSafe /\ AdminSafe /\ StandingSafe)
  BY PartsRun, SignInIsSafe, SessionsAreSafe, AdminIsSafe, StandingIsSafe, PTL
=============================================================================
