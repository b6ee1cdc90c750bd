----------------------------- MODULE OtpSignIn -----------------------------
(***************************************************************************)
(* Sign-in of one phone number by a one-time code: AuthService.requestOtp  *)
(* and verifyOtp, the delivery through Twilio and its status callback.     *)
(* Each call is a few awaited steps; several overlap.  Codes are numbered  *)
(* in the order of their OtpLog rows.                                      *)
(***************************************************************************)
EXTENDS Integers, FiniteSets

CONSTANTS
    MaxCodes,       \* OtpLog rows (a model bound)
    MaxOtpCalls,    \* requests and verifications in progress at once (a model bound)
    OtpMaxAttempts  \* OTP_MAX_ATTEMPTS

ASSUME OtpAssumption ==
    /\ MaxCodes \in Nat /\ MaxOtpCalls \in Nat
    /\ OtpMaxAttempts \in Nat \ {0}

VARIABLES
    otpLog,     \* the OtpLog rows
    phoneLock,  \* the Redis key otp:inflight:<phone>, 1 while it is set
    otpCall,    \* what each call is about to do, and for which code
    otpHook,    \* the callback that has read its row and not written it yet
    delivered,  \* 1 once the code went out: its holder can type it
    signIns,    \* whether the code opened no session, one or several
    raced,      \* 1 once a code was verified with another call about it open
    undone      \* 1 once a restart or a callback spoiled what the lock was taken for

otpRows == <<otpLog, phoneLock>>
otpWorld == <<delivered, signIns, raced, undone>>
otpVars == <<otpRows, otpCall, otpHook, otpWorld>>

Codes == 1..MaxCodes
OtpCalls == 1..MaxOtpCalls
NoCode == 0

OtpStep == {"idle", "create", "send", "sent", "failed", "unlock", "wrong", "right", "signIn"}
OtpStatus == {"none", "PENDING", "SENT", "DELIVERED", "FAILED", "VERIFIED"}

OtpTypeOK ==
    /\ otpLog \in [Codes -> [status : OtpStatus, attempts : Nat, fresh : {0, 1}]]
    /\ phoneLock \in {0, 1}
    /\ otpCall \in [OtpCalls -> [at : OtpStep, code : Codes \cup {NoCode}]]
    /\ otpHook \in [code : Codes \cup {NoCode}, to : {"none", "DELIVERED", "FAILED"}]
    /\ delivered \in [Codes -> {0, 1}] /\ signIns \in [Codes -> 0..2]
    /\ raced \in [Codes -> {0, 1}] /\ undone \in {0, 1}

Resting == [at |-> "idle", code |-> NoCode]
NoHook == [code |-> NoCode, to |-> "none"]

OtpInit ==
    /\ otpLog = [k \in Codes |-> [status |-> "none", attempts |-> 0, fresh |-> 0]]
    /\ phoneLock = 0
    /\ otpCall = [c \in OtpCalls |-> Resting]
    /\ otpHook = NoHook
    /\ delivered = [k \in Codes |-> 0] /\ signIns = [k \in Codes |-> 0]
    /\ raced = [k \in Codes |-> 0] /\ undone = 0

-----------------------------------------------------------------------------
(* A new call takes the first place at rest: which one is no matter. *)
OtpBegins(c) == otpCall[c].at = "idle" /\ \A d \in 1..(c - 1) : otpCall[d].at # "idle"
OtpGoes(c, step, k) == otpCall' = [otpCall EXCEPT ![c] = [at |-> step, code |-> k]]
OtpEnds(c) == otpCall' = [otpCall EXCEPT ![c] = Resting]
SetStatus(k, s) == otpLog' = [otpLog EXCEPT ![k].status = s]

(* setNX; a request that finds the lock held answers at once, doing nothing. *)
RequestOtp(c) ==
    /\ OtpBegins(c)
    /\ phoneLock = 0
    /\ phoneLock' = 1
    /\ undone' = 0
    /\ OtpGoes(c, "create", NoCode)
    /\ UNCHANGED <<otpLog, otpHook, delivered, signIns, raced>>

CreateLog(c) ==
    /\ otpCall[c].at = "create"
    /\ \E k \in Codes :
         /\ otpLog[k].status = "none" /\ \A j \in 1..(k - 1) : otpLog[j].status # "none"
         /\ otpLog' = [otpLog EXCEPT ![k] =
                         [status |-> "PENDING", attempts |-> 0, fresh |-> 1]]
         /\ OtpGoes(c, "send", k)
    /\ UNCHANGED <<phoneLock, otpHook, otpWorld>>

(* OtpDeliveryService.sendOtp: WhatsApp, else SMS.  The message may be out *)
(* although the call to Twilio failed.                                     *)
SendOtp(c) ==
    LET k == otpCall[c].code IN
    /\ otpCall[c].at = "send"
    /\ \E out \in {0, 1}, answer \in {"sent", "failed"} :
         /\ answer = "sent" => out = 1
         /\ delivered' = [delivered EXCEPT ![k] = out]
         /\ OtpGoes(c, answer, k)
    /\ UNCHANGED <<otpRows, otpHook, signIns, raced, undone>>

(* The row is updated by its id, whatever became of it meanwhile. *)
MarkSent(c) ==
    /\ otpCall[c].at = "sent"
    /\ SetStatus(otpCall[c].code, "SENT")
    /\ OtpEnds(c)
    /\ UNCHANGED <<phoneLock, otpHook, otpWorld>>

MarkSendFailed(c) ==
    /\ otpCall[c].at = "failed"
    /\ SetStatus(otpCall[c].code, "FAILED")
    /\ OtpGoes(c, "unlock", otpCall[c].code)
    /\ UNCHANGED <<phoneLock, otpHook, otpWorld>>

(* Mutant: a failed delivery leaves the lock to its TTL. *)
ReleasePhone_Kept(c) ==
    /\ otpCall[c].at = "unlock"
    /\ OtpEnds(c)
    /\ UNCHANGED <<otpRows, otpHook, otpWorld>>

ReleasePhone(c) ==
    /\ otpCall[c].at = "unlock"
    /\ phoneLock' = 0
    /\ OtpEnds(c)
    /\ UNCHANGED <<otpLog, otpHook, otpWorld>>

-----------------------------------------------------------------------------
Eligible(k) == otpLog[k].status \in {"PENDING", "SENT", "DELIVERED"} /\ otpLog[k].fresh = 1
(* findFirst ... orderBy createdAt desc *)
Newest(k) == Eligible(k) /\ \A j \in Codes : Eligible(j) => j <= k

(* Mutant: the limit is checked off by one. *)
MayTry_OffByOne(k) == otpLog[k].attempts <= OtpMaxAttempts

MayTry(k) == otpLog[k].attempts < OtpMaxAttempts

(* Mutant: a code that was used once is still accepted. *)
VerifyStart_Verified(c) ==
    /\ OtpBegins(c)
    /\ \E k \in Codes :
         /\ otpLog[k].status \in {"PENDING", "SENT", "DELIVERED", "VERIFIED"}
         /\ otpLog[k].fresh = 1
         /\ MayTry(k)
         /\ \E found \in {"right", "wrong"} :
              /\ found = "right" => delivered[k] = 1
              /\ OtpGoes(c, found, k)
    /\ UNCHANGED <<otpRows, otpHook, otpWorld>>

(* Reads the newest eligible row and compares: the right code is typed     *)
(* only if it went out.                                                    *)
VerifyStart(c) ==
    /\ OtpBegins(c)
    /\ \E k \in Codes :
         /\ Newest(k)
         /\ MayTry(k)
         /\ \E found \in {"right", "wrong"} :
              /\ found = "right" => delivered[k] = 1
              /\ OtpGoes(c, found, k)
    /\ UNCHANGED <<otpRows, otpHook, otpWorld>>

VerifyWrong(c) ==
    /\ otpCall[c].at = "wrong"
    /\ otpLog' = [otpLog EXCEPT ![otpCall[c].code].attempts = @ + 1]
    /\ OtpEnds(c)
    /\ UNCHANGED <<phoneLock, otpHook, otpWorld>>

AboutCode(k) == {c \in OtpCalls : otpCall[c].code = k}

VerifyRight(c) ==
    LET k == otpCall[c].code IN
    /\ otpCall[c].at = "right"
    /\ SetStatus(k, "VERIFIED")
    /\ raced' = [raced EXCEPT ![k] =
                   IF AboutCode(k) # {c} \/ otpHook.code = k THEN 1 ELSE @]
    /\ OtpGoes(c, "signIn", k)
    /\ UNCHANGED <<phoneLock, otpHook, delivered, signIns, undone>>

(* No session, one, several; of a raced code the count is not kept. *)
OnceMore(k) == IF raced[k] = 1 THEN 0 ELSE IF signIns[k] = 0 THEN 1 ELSE 2

(* Releases the lock, upserts the user, resolves the device, signs tokens. *)
FinishVerify(c) ==
    /\ otpCall[c].at = "signIn"
    /\ phoneLock' = 0
    /\ signIns' = [signIns EXCEPT ![otpCall[c].code] = OnceMore(otpCall[c].code)]
    /\ OtpEnds(c)
    /\ UNCHANGED <<otpLog, otpHook, delivered, raced, undone>>

-----------------------------------------------------------------------------
(* Mutant: an intermediate status is written as it comes. *)
StatusHookRead_Raw ==
    /\ otpHook = NoHook
    /\ \E k \in Codes, to \in {"queued", "DELIVERED", "FAILED"} :
         /\ otpLog[k].status \in {"SENT", "DELIVERED"}
         /\ otpHook' = [code |-> k, to |-> to]
    /\ UNCHANGED <<otpRows, otpCall, otpWorld>>

(* handleTwilioStatus; a callback comes late, twice or out of order.  It   *)
(* is dropped before MarkSent stored its sid, so on a PENDING row, and on  *)
(* a VERIFIED or FAILED one.                                               *)
StatusHookRead ==
    /\ otpHook = NoHook
    /\ \E k \in Codes, to \in {"DELIVERED", "FAILED"} :
         /\ otpLog[k].status \in {"SENT", "DELIVERED"}
         /\ otpHook' = [code |-> k, to |-> to]
    /\ UNCHANGED <<otpRows, otpCall, otpWorld>>

StatusHookWrite ==
    /\ otpHook # NoHook
    /\ SetStatus(otpHook.code, otpHook.to)
    /\ undone' = IF otpHook.to = "FAILED" /\ phoneLock = 1 THEN 1 ELSE undone
    /\ otpHook' = NoHook
    /\ UNCHANGED <<phoneLock, otpCall, delivered, signIns, raced>>

(* After OTP_INFLIGHT_LOCK_SECONDS, whatever its holder is doing. *)
PhoneLockExpires ==
    /\ phoneLock = 1
    /\ phoneLock' = 0
    /\ UNCHANGED <<otpLog, otpCall, otpHook, otpWorld>>

(* After OTP_TTL_MINUTES, ten times the lock: the lock is not the code's. *)
CodeExpires ==
    /\ phoneLock = 0
    /\ \E k \in Codes : otpLog[k].fresh = 1 /\ otpLog' = [otpLog EXCEPT ![k].fresh = 0]
    /\ UNCHANGED <<phoneLock, otpCall, otpHook, otpWorld>>

(* A deploy or a crash: rows and the lock stay, calls are gone. *)
OtpRestart ==
    /\ \E c \in OtpCalls : otpCall[c] # Resting
    /\ otpCall' = [c \in OtpCalls |-> Resting]
    /\ otpHook' = NoHook
    /\ undone' = 1
    /\ UNCHANGED <<otpRows, delivered, signIns, raced>>

OtpNext ==
    \/ \E c \in OtpCalls :
         \/ RequestOtp(c) \/ CreateLog(c) \/ SendOtp(c) \/ MarkSent(c)
         \/ MarkSendFailed(c) \/ ReleasePhone(c)
         \/ VerifyStart(c) \/ VerifyWrong(c) \/ VerifyRight(c) \/ FinishVerify(c)
    \/ StatusHookRead \/ StatusHookWrite
    \/ PhoneLockExpires \/ CodeExpires \/ OtpRestart

OtpSpec == OtpInit /\ [][OtpNext]_otpVars

-----------------------------------------------------------------------------
(* A code opens one session, unless it was verified while another call or  *)
(* callback about it was open: MarkSent and the callback write the row by  *)
(* id and make a VERIFIED code eligible again.                             *)
OneSignInPerCode == \A k \in Codes : signIns[k] > 1 => raced[k] = 1

(* Verifications that overlap all read the counter before one increments   *)
(* it, so a code takes one guess more per extra call than the limit says.  *)
AttemptsBounded ==
    \A k \in Codes : otpLog[k].attempts <= OtpMaxAttempts + MaxOtpCalls - 1

(* Once its call is over the lock of a request bars the next one only if a *)
(* code is there to be typed: a delivery that failed and a code that was   *)
(* used give the lock back.  A callback that reports a failure does not,   *)
(* and a restart may come in between.                                      *)
NotLockedOut ==
    (phoneLock = 1 /\ \A c \in OtpCalls : otpCall[c] = Resting)
       => (undone = 1 \/ \E k \in Codes : Eligible(k))

(* What a person who signs in, and the platform, count on together. *)
SignInSafe == OneSignInPerCode /\ AttemptsBounded /\ NotLockedOut
=============================================================================
