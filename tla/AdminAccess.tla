---------------------------- MODULE AdminAccess ----------------------------
(***************************************************************************)
(* The sign-in of one admin: the password with its lockout counter, the    *)
(* enrollment of an authenticator app, and the challenge that a code of    *)
(* the app or a recovery code redeems.  A recovery code stands for the ten *)
(* that one enrollment mints.                                              *)
(***************************************************************************)
EXTENDS Integers, FiniteSets

CONSTANTS
    MaxAdminCalls,     \* requests in progress at once (a model bound)
    MaxSecrets,        \* enrollments started (a model bound)
    MaxConfirms,       \* enrollments confirmed (a model bound)
    MaxChallenges,     \* challenges issued (a model bound)
    LockoutThreshold   \* LOCKOUT_THRESHOLD

ASSUME AdminAssumption ==
    /\ {MaxAdminCalls, MaxSecrets, MaxConfirms, MaxChallenges} \subseteq Nat
    /\ LockoutThreshold \in Nat \ {0}

VARIABLES
    attempts,   \* the Redis counter admin:login-attempts
    adminLock,  \* 1 while admin:locked is set; it has no TTL
    secret,     \* AdminTotpSecret.secret, the number of its minting; 0 if no row
    confirmed,  \* 1 once confirmedAt is set
    app,        \* the secret the authenticator app holds
    recovery,   \* the AdminRecoveryCode rows, one for each confirmation
    challenge,  \* the Redis keys admin:2fa-challenge
    acall,      \* the requests
    opened,     \* the sessions that each challenge opened
    spent,      \* the sessions that each recovery code opened
    enrolledAs, \* the secret whose code the last confirmation checked
    crossed     \* 1 once two enrollment requests overlapped

lockout == <<attempts, adminLock>>
enrollment == <<secret, confirmed, app, enrolledAs, crossed>>
redemption == <<recovery, challenge, opened, spent>>
adminVars == <<lockout, enrollment, redemption, acall>>

AdminCalls == 1..MaxAdminCalls
Confirms == 1..MaxConfirms
Challenges == 1..MaxChallenges

AdminStep == {"idle", "password", "lock", "enrolled", "check", "useCode", "consume",
              "mint", "shown", "confirm"}

AdminTypeOK ==
    /\ attempts \in Nat /\ adminLock \in {0, 1}
    /\ secret \in 0..MaxSecrets /\ app \in 0..MaxSecrets /\ enrolledAs \in 0..MaxSecrets
    /\ confirmed \in {0, 1} /\ crossed \in {0, 1}
    /\ recovery \in [Confirms -> {"none", "active", "consumed", "deleted"}]
    /\ challenge \in [Challenges -> {"none", "open", "gone"}]
    /\ acall \in [AdminCalls -> [at : AdminStep, ch : 0..MaxChallenges, s : 0..(MaxSecrets + MaxConfirms)]]
    /\ opened \in [Challenges -> Nat] /\ spent \in [Confirms -> Nat]

Unoccupied == [at |-> "idle", ch |-> 0, s |-> 0]

AdminInit ==
    /\ attempts = 0 /\ adminLock = 0
    /\ secret = 0 /\ confirmed = 0 /\ app = 0 /\ enrolledAs = 0 /\ crossed = 0
    /\ recovery = [s \in Confirms |-> "none"]
    /\ challenge = [h \in Challenges |-> "none"]
    /\ acall = [c \in AdminCalls |-> Unoccupied]
    /\ opened = [h \in Challenges |-> 0] /\ spent = [s \in Confirms |-> 0]

-----------------------------------------------------------------------------
Arrives(c) == acall[c] = Unoccupied /\ \A d \in 1..(c - 1) : acall[d] # Unoccupied
Leaves(c) == acall' = [acall EXCEPT ![c] = Unoccupied]
AdminAt(c, step) == acall[c].at = step
Becomes(c, step) == acall' = [acall EXCEPT ![c].at = step]
Takes(c, step, h, s) == acall' = [acall EXCEPT ![c] = [at |-> step, ch |-> h, s |-> s]]

LoginStart(c) ==
    /\ Arrives(c)
    /\ adminLock = 0
    /\ Becomes(c, "password")
    /\ UNCHANGED <<lockout, enrollment, redemption>>

(* Mutant: the account is locked one failure too late. *)
WrongPassword_TooLate(c) ==
    /\ AdminAt(c, "password")
    /\ attempts' = attempts + 1
    /\ IF attempts' > LockoutThreshold THEN Becomes(c, "lock") ELSE Leaves(c)
    /\ UNCHANGED <<adminLock, enrollment, redemption>>

(* incrWithTTL counts and answers in one step. *)
WrongPassword(c) ==
    /\ AdminAt(c, "password")
    /\ attempts' = attempts + 1
    /\ IF attempts' >= LockoutThreshold THEN Becomes(c, "lock") ELSE Leaves(c)
    /\ UNCHANGED <<adminLock, enrollment, redemption>>

(* Mutant: the counter is stored instead of the flag. *)
LockAccount_Counter(c) ==
    /\ AdminAt(c, "lock")
    /\ adminLock' = attempts
    /\ Leaves(c)
    /\ UNCHANGED <<attempts, enrollment, redemption>>

LockAccount(c) ==
    /\ AdminAt(c, "lock")
    /\ adminLock' = 1
    /\ Leaves(c)
    /\ UNCHANGED <<attempts, enrollment, redemption>>

RightPassword(c) ==
    /\ AdminAt(c, "password")
    /\ attempts' = 0
    /\ Becomes(c, "enrolled")
    /\ UNCHANGED <<adminLock, enrollment, redemption>>

(* isEnrolled: a challenge, or at once the session of an admin without 2FA. *)
AfterPassword(c) ==
    /\ AdminAt(c, "enrolled")
    /\ IF confirmed = 1
       THEN \E h \in Challenges :
              /\ challenge[h] = "none" /\ \A g \in 1..(h - 1) : challenge[g] # "none"
              /\ challenge' = [challenge EXCEPT ![h] = "open"]
       ELSE UNCHANGED challenge
    /\ Leaves(c)
    /\ UNCHANGED <<lockout, enrollment, recovery, opened, spent>>

(* LOCKOUT_WINDOW_SECONDS; the lock itself stays. *)
AttemptsExpire ==
    /\ attempts > 0
    /\ attempts' = 0
    /\ UNCHANGED <<adminLock, enrollment, redemption, acall>>

Unlock ==
    /\ adminLock = 1
    /\ adminLock' = 0 /\ attempts' = 0
    /\ UNCHANGED <<enrollment, redemption, acall>>

-----------------------------------------------------------------------------
(* verifyTotpChallenge reads the key and deletes it only after the code. *)
RedeemStart(c) ==
    /\ Arrives(c)
    /\ \E h \in Challenges : challenge[h] = "open" /\ Takes(c, "check", h, 0)
    /\ UNCHANGED <<lockout, enrollment, redemption>>

(* verifyCode, with the code the app shows; a wrong one leaves the         *)
(* challenge open.                                                         *)
CheckTotp(c) ==
    /\ AdminAt(c, "check")
    /\ IF confirmed = 1 /\ app = secret THEN Becomes(c, "consume") ELSE Leaves(c)
    /\ UNCHANGED <<lockout, enrollment, redemption>>

(* consumeRecoveryCode: finds the row... *)
CheckRecovery(c) ==
    /\ AdminAt(c, "check")
    /\ \E s \in Confirms :
         /\ recovery[s] = "active"
         /\ Takes(c, "useCode", acall[c].ch, s)
    /\ UNCHANGED <<lockout, enrollment, redemption>>

(* Mutant: the row that was found is stamped whatever became of it. *)
ConsumeRecoveryCode_ById(c) ==
    /\ AdminAt(c, "useCode")
    /\ recovery' = [recovery EXCEPT ![acall[c].s] = "consumed"]
    /\ Becomes(c, "consume")
    /\ UNCHANGED <<lockout, enrollment, challenge, opened, spent>>

(* ...and stamps it, if nobody did meanwhile. *)
ConsumeRecoveryCode(c) ==
    /\ AdminAt(c, "useCode")
    /\ IF recovery[acall[c].s] = "active"
       THEN /\ recovery' = [recovery EXCEPT ![acall[c].s] = "consumed"]
            /\ Becomes(c, "consume")
       ELSE Leaves(c) /\ UNCHANGED recovery
    /\ UNCHANGED <<lockout, enrollment, challenge, opened, spent>>

(* Mutant: the challenge is left to its TTL. *)
ConsumeChallenge_Kept(c) ==
    LET h == acall[c].ch  s == acall[c].s IN
    /\ AdminAt(c, "consume")
    /\ opened' = [opened EXCEPT ![h] = @ + 1]
    /\ spent' = IF s = 0 THEN spent ELSE [spent EXCEPT ![s] = @ + 1]
    /\ Leaves(c)
    /\ UNCHANGED <<lockout, enrollment, recovery, challenge>>

(* Deletes the key, whoever did before, and issues the session. *)
ConsumeChallenge(c) ==
    LET h == acall[c].ch  s == acall[c].s IN
    /\ AdminAt(c, "consume")
    /\ challenge' = [challenge EXCEPT ![h] = "gone"]
    /\ opened' = [opened EXCEPT ![h] = @ + 1]
    /\ spent' = IF s = 0 THEN spent ELSE [spent EXCEPT ![s] = @ + 1]
    /\ Leaves(c)
    /\ UNCHANGED <<lockout, enrollment, recovery>>

ChallengeExpires ==
    /\ \E h \in Challenges :
         challenge[h] = "open" /\ challenge' = [challenge EXCEPT ![h] = "gone"]
    /\ UNCHANGED <<lockout, enrollment, recovery, opened, spent, acall>>

-----------------------------------------------------------------------------
Enrolling == {d \in AdminCalls : acall[d].at \in {"mint", "shown", "confirm"}}
Crosses(c) == crossed' = IF Enrolling \ {c} # {} THEN 1 ELSE crossed

(* Mutant: an enrollment that is confirmed is started over. *)
EnrollStart_Again(c) ==
    /\ Arrives(c)
    /\ Becomes(c, "mint")
    /\ Crosses(c)
    /\ UNCHANGED <<lockout, secret, confirmed, app, enrolledAs, redemption>>

(* startEnrollment *)
EnrollStart(c) ==
    /\ Arrives(c)
    /\ confirmed = 0
    /\ Becomes(c, "mint")
    /\ Crosses(c)
    /\ UNCHANGED <<lockout, secret, confirmed, app, enrolledAs, redemption>>

(* The upsert also clears confirmedAt. *)
EnrollMint(c) ==
    /\ AdminAt(c, "mint")
    /\ secret < MaxSecrets
    /\ secret' = secret + 1
    /\ confirmed' = 0
    /\ Takes(c, "shown", 0, secret + 1)
    /\ UNCHANGED <<lockout, app, enrolledAs, crossed, redemption>>

(* The QR code is scanned. *)
EnrollScan(c) ==
    /\ AdminAt(c, "shown")
    /\ app' = acall[c].s
    /\ Leaves(c)
    /\ UNCHANGED <<lockout, secret, confirmed, enrolledAs, crossed, redemption>>

(* confirmEnrollment: the code is checked against the secret read. *)
ConfirmStart(c) ==
    /\ Arrives(c)
    /\ secret # 0 /\ confirmed = 0 /\ app = secret
    /\ Takes(c, "confirm", 0, secret)
    /\ Crosses(c)
    /\ UNCHANGED <<lockout, secret, confirmed, app, enrolledAs, redemption>>

(* Confirms whatever secret the row holds by now; the new recovery codes   *)
(* replace those of an earlier confirmation.                               *)
ConfirmWrite(c) ==
    /\ AdminAt(c, "confirm")
    /\ confirmed' = 1
    /\ enrolledAs' = acall[c].s
    /\ \E n \in Confirms :
         /\ recovery[n] = "none" /\ \A m \in 1..(n - 1) : recovery[m] # "none"
         /\ recovery' = [s \in Confirms |-> IF s < n THEN "deleted"
                                            ELSE IF s = n THEN "active" ELSE "none"]
    /\ Leaves(c)
    /\ UNCHANGED <<lockout, secret, app, crossed, challenge, opened, spent>>

AdminNext ==
    \/ \E c \in AdminCalls :
         \/ LoginStart(c) \/ WrongPassword(c) \/ LockAccount(c) \/ RightPassword(c)
         \/ AfterPassword(c)
         \/ RedeemStart(c) \/ CheckTotp(c) \/ CheckRecovery(c) \/ ConsumeRecoveryCode(c)
         \/ ConsumeChallenge(c)
         \/ EnrollStart(c) \/ EnrollMint(c) \/ EnrollScan(c) \/ ConfirmStart(c) \/ ConfirmWrite(c)
    \/ AttemptsExpire \/ Unlock \/ ChallengeExpires

AdminSpec == AdminInit /\ [][AdminNext]_adminVars

-----------------------------------------------------------------------------
(* LOCKOUT_THRESHOLD wrong passwords within the window lock the account,   *)
(* or are about to: no order of overlapping attempts, right ones among     *)
(* them, leaves the counter at the threshold and the door open.            *)
ThresholdLocks ==
    attempts >= LockoutThreshold
       => (adminLock = 1 \/ \E c \in AdminCalls : AdminAt(c, "lock"))

(* A recovery code opens one session, however many requests redeem it.     *)
RecoveryCodeOnce == \A s \in Confirms : spent[s] <= 1

(* A challenge opens at most one session per request that can be in        *)
(* progress with it: it outlives the check of the code, not the session.   *)
ChallengeBounded == \A h \in Challenges : opened[h] <= MaxAdminCalls

(* Two-factor sign-in, once confirmed, stays on, and with the secret whose *)
(* code was checked, unless a second enrollment request overlapped: then   *)
(* startEnrollment turns it off again, or a secret nobody tried is on.     *)
EnrollmentHolds == enrolledAs # 0 => ((confirmed = 1 /\ secret = enrolledAs) \/ crossed = 1)

(* The two factors of an admin, together. *)
AdminSafe == ThresholdLocks /\ RecoveryCodeOnce /\ ChallengeBounded /\ EnrollmentHolds
=============================================================================
