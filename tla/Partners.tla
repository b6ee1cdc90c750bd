------------------------------ MODULE Partners ------------------------------
(***************************************************************************)
(* Onboarding and standing of the person behind one phone number: sign-up, *)
(* submission of a vendor or rider file, the decisions of the admins, and  *)
(* the Redis key that bars a suspended account.  Each call reads, then     *)
(* writes by id; several overlap.                                          *)
(***************************************************************************)
EXTENDS Integers, FiniteSets

CONSTANT MaxPartnerCalls  \* calls in progress at once (a model bound)

ASSUME PartnerAssumption == MaxPartnerCalls \in Nat

VARIABLES
    role,        \* of the users row; "none" while there is none
    row,         \* status of the vendors and of the riders row
    live,        \* Vendor.isOpen and Rider.isOnline
    revokedKey,  \* the Redis key user:revoked:<id>, 1 while it is set
    partnerCall, \* what each call is about to write, and what it read
    known,       \* 1 once the person signed in as a consumer
    decidedBy,   \* the last decision on each row, from its first acceptance on
    late,        \* 1 once an admin decided while a rider file was being sent
    strayed,     \* whether a row was written by its owner while suspended
    disturbed    \* 1 once two decisions overlapped, one of them was cut, or
                 \* the key outlived its TTL

partnerRows == <<role, row, live, revokedKey>>
partnerGhosts == <<known, decidedBy, late, strayed, disturbed>>
partnerVars == <<partnerRows, partnerCall, partnerGhosts>>

Profiles == {"vendor", "rider"}
PartnerCalls == 1..MaxPartnerCalls
RoleOf(w) == IF w = "vendor" THEN "VENDOR" ELSE "RIDER"
Other(w) == CHOOSE v \in Profiles : v # w

RowStatus == {"none", "PENDING_REVIEW", "ACTIVE", "SUSPENDED", "REJECTED"}
PartnerStep == {"idle", "submit", "approve", "unsuspend", "key", "clear", "fraud", "live"}
Idle == [at |-> "idle", who |-> "vendor", saw |-> "none"]

PartnerTypeOK ==
    /\ role \in {"none", "CONSUMER", "VENDOR", "RIDER"}
    /\ row \in [Profiles -> RowStatus]
    /\ live \in [Profiles -> {0, 1}]
    /\ revokedKey \in {0, 1}
    /\ partnerCall \in [PartnerCalls ->
         [at : PartnerStep, who : Profiles, saw : {"none", "CONSUMER", "VENDOR", "RIDER"}]]
    /\ known \in {0, 1} /\ late \in {0, 1} /\ disturbed \in {0, 1}
    /\ decidedBy \in [Profiles -> {"none", "approve", "reject", "suspend", "unsuspend", "fraud"}]
    /\ strayed \in [Profiles -> {0, 1}]

PartnerInit ==
    /\ role = "none" /\ row = [w \in Profiles |-> "none"]
    /\ live = [w \in Profiles |-> 0] /\ revokedKey = 0
    /\ partnerCall = [c \in PartnerCalls |-> Idle]
    /\ known = 0 /\ late = 0 /\ disturbed = 0
    /\ decidedBy = [w \in Profiles |-> "none"] /\ strayed = [w \in Profiles |-> 0]

-----------------------------------------------------------------------------
PartnerBegins(c) ==
    partnerCall[c] = Idle /\ \A d \in 1..(c - 1) : partnerCall[d] # Idle
PartnerGoes(c, step, w) ==
    partnerCall' = [partnerCall EXCEPT ![c] = [at |-> step, who |-> w, saw |-> "none"]]
PartnerEnds(c) == partnerCall' = [partnerCall EXCEPT ![c] = Idle]

At(step) == {c \in PartnerCalls : partnerCall[c].at = step}
Deciding == UNION {At(s) : s \in {"unsuspend", "key", "clear", "fraud"}}
(* A decision of an admin on w, by a call that is not alone. *)
Decide(c, w, status, by) ==
    /\ row' = [row EXCEPT ![w] = status]
    /\ decidedBy' = [decidedBy EXCEPT ![w] = by]
    /\ strayed' = [strayed EXCEPT ![w] = 0]
    /\ late' = IF w = "rider" /\ At("submit") # {} THEN 1 ELSE late
    /\ disturbed' = IF Deciding \ {c} # {} THEN 1 ELSE disturbed

(* AuthService.verifyOtp upserts the user: a new phone is a CONSUMER. *)
SignUp ==
    /\ role = "none"
    /\ role' = "CONSUMER" /\ known' = 1
    /\ UNCHANGED <<row, live, revokedKey, partnerCall, decidedBy, late, strayed, disturbed>>

(* Mutant: a suspended rider may send the file again. *)
Resubmittable_Suspended(w) ==
    IF w = "vendor" THEN row[w] = "none"
    ELSE row[w] \in {"none", "PENDING_REVIEW", "REJECTED", "SUSPENDED"}

(* A vendor row is final; RESUBMITTABLE rider rows are not. *)
Resubmittable(w) ==
    IF w = "vendor" THEN row[w] = "none"
    ELSE row[w] \in {"none", "PENDING_REVIEW", "REJECTED"}

(* VendorService.submitInformal, RidersService.submit: the public form.    *)
(* The user is read before the photos go up to R2.                         *)
SubmitStart(c, w) ==
    /\ PartnerBegins(c)
    /\ Resubmittable(w)
    /\ w = "rider" => role \in {"none", "CONSUMER", "RIDER"}
    /\ partnerCall' = [partnerCall EXCEPT ![c] = [at |-> "submit", who |-> w, saw |-> role]]
    /\ UNCHANGED <<partnerRows, partnerGhosts>>

(* Mutant: the user row is upserted by phone instead of created. *)
SubmitCommit_Upsert(c) ==
    LET w == partnerCall[c].who saw == partnerCall[c].saw IN
    /\ partnerCall[c].at = "submit"
    /\ saw \in {"none", "CONSUMER", RoleOf(w)}
    /\ w = "vendor" => row[w] = "none"
    /\ role' = RoleOf(w)
    /\ row' = [row EXCEPT ![w] = "PENDING_REVIEW"]
    /\ PartnerEnds(c)
    /\ UNCHANGED <<live, revokedKey, partnerGhosts>>

(* The transaction, which goes by what was read: it creates the user       *)
(* (phone is unique), upgrades a CONSUMER, inserts the vendor (userId is   *)
(* unique) or upserts the rider, back to PENDING_REVIEW.                   *)
SubmitCommit(c) ==
    LET w == partnerCall[c].who saw == partnerCall[c].saw IN
    /\ partnerCall[c].at = "submit"
    /\ saw = "none" => role = "none"
    /\ saw \in {"none", "CONSUMER", RoleOf(w)}
    /\ w = "vendor" => row[w] = "none"
    /\ role' = IF saw = RoleOf(w) THEN role ELSE RoleOf(w)
    /\ row' = [row EXCEPT ![w] = "PENDING_REVIEW"]
    /\ PartnerEnds(c)
    /\ UNCHANGED <<live, revokedKey, partnerGhosts>>

(* An upload fails, or the transaction is refused and rolls back. *)
SubmitFails(c) ==
    /\ partnerCall[c].at = "submit"
    /\ PartnerEnds(c)
    /\ UNCHANGED <<partnerRows, partnerGhosts>>

-----------------------------------------------------------------------------
(* approveVendor, approveRider: anything but ACTIVE is approved. *)
ApproveRead(c, w) ==
    /\ PartnerBegins(c)
    /\ row[w] \notin {"none", "ACTIVE"}
    /\ PartnerGoes(c, "approve", w)
    /\ UNCHANGED <<partnerRows, partnerGhosts>>

ApproveWrite(c) ==
    /\ partnerCall[c].at = "approve"
    /\ Decide(c, partnerCall[c].who, "ACTIVE", "approve")
    /\ PartnerEnds(c)
    /\ UNCHANGED <<role, live, revokedKey, known>>

(* rejectVendor, rejectRider: whatever the status; isOpen and isOnline stay. *)
RejectRow(w) ==
    /\ row[w] # "none"
    /\ row' = [row EXCEPT ![w] = "REJECTED"]
    /\ decidedBy' = [decidedBy EXCEPT ![w] = IF @ = "none" THEN @ ELSE "reject"]
    /\ UNCHANGED <<role, live, revokedKey, partnerCall, known, late, strayed, disturbed>>

(* Mutant: the account is left open. *)
SuspendRow_Open(c, w) ==
    /\ PartnerBegins(c)
    /\ row[w] # "none"
    /\ Decide(c, w, "SUSPENDED", "suspend")
    /\ PartnerGoes(c, "key", w)
    /\ UNCHANGED <<role, live, revokedKey, known>>

(* suspendVendor, suspendRider: the row, then the key. *)
SuspendRow(c, w) ==
    /\ PartnerBegins(c)
    /\ row[w] # "none"
    /\ Decide(c, w, "SUSPENDED", "suspend")
    /\ live' = [live EXCEPT ![w] = 0]
    /\ PartnerGoes(c, "key", w)
    /\ UNCHANGED <<role, revokedKey, known>>

(* Mutant: the suspension forgets the tokens. *)
RevokeUser_Never(c) ==
    /\ partnerCall[c].at = "key"
    /\ PartnerEnds(c)
    /\ UNCHANGED <<partnerRows, partnerGhosts>>

(* Mutant: suspensions are counted in the key. *)
RevokeUser_Count(c) ==
    /\ partnerCall[c].at = "key"
    /\ revokedKey' = revokedKey + 1
    /\ PartnerEnds(c)
    /\ UNCHANGED <<role, row, live, partnerGhosts>>

RevokeUser(c) ==
    /\ partnerCall[c].at = "key"
    /\ revokedKey' = 1
    /\ PartnerEnds(c)
    /\ UNCHANGED <<role, row, live, partnerGhosts>>

(* unsuspendVendor, unsuspendRider: read, the row, then the key. *)
UnsuspendRead(c, w) ==
    /\ PartnerBegins(c)
    /\ row[w] = "SUSPENDED"
    /\ disturbed' = IF Deciding # {} THEN 1 ELSE disturbed
    /\ PartnerGoes(c, "unsuspend", w)
    /\ UNCHANGED <<partnerRows, known, decidedBy, late, strayed>>

UnsuspendRow(c) ==
    /\ partnerCall[c].at = "unsuspend"
    /\ Decide(c, partnerCall[c].who, "ACTIVE", "unsuspend")
    /\ PartnerGoes(c, "clear", partnerCall[c].who)
    /\ UNCHANGED <<role, live, revokedKey, known>>

(* Mutant: the key is left to its TTL. *)
ReactivateUser_Kept(c) ==
    /\ partnerCall[c].at = "clear"
    /\ PartnerEnds(c)
    /\ UNCHANGED <<partnerRows, partnerGhosts>>

ReactivateUser(c) ==
    /\ partnerCall[c].at = "clear"
    /\ revokedKey' = 0
    /\ PartnerEnds(c)
    /\ UNCHANGED <<role, row, live, partnerGhosts>>

-----------------------------------------------------------------------------
(* resolveRiderFraud with SUSPEND: the key is set inside the transaction   *)
(* that suspends the row (and does not take the rider offline).            *)
FraudRevoke(c) ==
    /\ PartnerBegins(c)
    /\ decidedBy["rider"] # "none"
    /\ revokedKey' = 1
    /\ disturbed' = IF Deciding # {} THEN 1 ELSE disturbed
    /\ PartnerGoes(c, "fraud", "rider")
    /\ UNCHANGED <<role, row, live, known, decidedBy, late, strayed>>

FraudCommit(c) ==
    /\ partnerCall[c].at = "fraud"
    /\ Decide(c, "rider", "SUSPENDED", "fraud")
    /\ PartnerEnds(c)
    /\ UNCHANGED <<role, live, revokedKey, known>>

(* The commit fails: Redis does not roll back. *)
FraudRollback(c) ==
    /\ partnerCall[c].at = "fraud"
    /\ disturbed' = 1
    /\ PartnerEnds(c)
    /\ UNCHANGED <<partnerRows, known, decidedBy, late, strayed>>

-----------------------------------------------------------------------------
(* The strategies refuse every token of a revoked user; a call they let    *)
(* through is not asked again.  Only the rider's calls look at the status. *)
LiveStart(c, w) ==
    /\ PartnerBegins(c)
    /\ row[w] # "none" /\ role = RoleOf(w) /\ revokedKey = 0
    /\ w = "rider" => row[w] = "ACTIVE"
    /\ PartnerGoes(c, "live", w)
    /\ UNCHANGED <<partnerRows, partnerGhosts>>

(* AvailabilityService.setAvailability, RidersService.setAvailability, and *)
(* pushHeartbeat, which only ever puts the rider online.                   *)
LiveWrite(c) ==
    LET w == partnerCall[c].who IN
    /\ partnerCall[c].at = "live"
    /\ \E on \in {0, 1} : live' = [live EXCEPT ![w] = on]
    /\ strayed' = [strayed EXCEPT ![w] = IF row[w] = "SUSPENDED" THEN 1 ELSE @]
    /\ PartnerEnds(c)
    /\ UNCHANGED <<role, row, revokedKey, known, decidedBy, late, disturbed>>

(* The TTL of the key is that of a refresh token. *)
KeyExpires ==
    /\ revokedKey = 1
    /\ revokedKey' = 0 /\ disturbed' = 1
    /\ UNCHANGED <<role, row, live, partnerCall, known, decidedBy, late, strayed>>

(* A deploy or a crash: calls are gone; an open transaction rolls back. *)
PartnerRestart ==
    /\ \E c \in PartnerCalls : partnerCall[c] # Idle
    /\ partnerCall' = [c \in PartnerCalls |-> Idle]
    /\ disturbed' = IF Deciding # {} THEN 1 ELSE disturbed
    /\ UNCHANGED <<partnerRows, known, decidedBy, late, strayed>>

-----------------------------------------------------------------------------
Goes(c, w) == partnerCall[c].who = w

(* The handlers, each with its later steps. *)
SubmitInformal(c) ==
    SubmitStart(c, "vendor") \/ (Goes(c, "vendor") /\ (SubmitCommit(c) \/ SubmitFails(c)))
SubmitRider(c) ==
    SubmitStart(c, "rider") \/ (Goes(c, "rider") /\ (SubmitCommit(c) \/ SubmitFails(c)))
ApproveVendor(c) == ApproveRead(c, "vendor") \/ (Goes(c, "vendor") /\ ApproveWrite(c))
ApproveRider(c) == ApproveRead(c, "rider") \/ (Goes(c, "rider") /\ ApproveWrite(c))
RejectVendor == RejectRow("vendor")
RejectRider == RejectRow("rider")
SuspendVendor(c) == SuspendRow(c, "vendor") \/ (Goes(c, "vendor") /\ RevokeUser(c))
SuspendRider(c) == SuspendRow(c, "rider") \/ (Goes(c, "rider") /\ RevokeUser(c))
UnsuspendVendor(c) ==
    UnsuspendRead(c, "vendor") \/ (Goes(c, "vendor") /\ (UnsuspendRow(c) \/ ReactivateUser(c)))
UnsuspendRider(c) ==
    UnsuspendRead(c, "rider") \/ (Goes(c, "rider") /\ (UnsuspendRow(c) \/ ReactivateUser(c)))
ResolveRiderFraud(c) == FraudRevoke(c) \/ FraudCommit(c) \/ FraudRollback(c)
VendorAvailability(c) == LiveStart(c, "vendor") \/ (Goes(c, "vendor") /\ LiveWrite(c))
RiderAvailability(c) == LiveStart(c, "rider") \/ (Goes(c, "rider") /\ LiveWrite(c))

PartnerNext ==
    \/ \E c \in PartnerCalls :
         \/ SubmitInformal(c) \/ SubmitRider(c)
         \/ ApproveVendor(c) \/ ApproveRider(c)
         \/ SuspendVendor(c) \/ SuspendRider(c)
         \/ UnsuspendVendor(c) \/ UnsuspendRider(c)
         \/ ResolveRiderFraud(c) \/ VendorAvailability(c) \/ RiderAvailability(c)
    \/ RejectVendor \/ RejectRider \/ SignUp \/ KeyExpires \/ PartnerRestart

PartnerSpec == PartnerInit /\ [][PartnerNext]_partnerVars

-----------------------------------------------------------------------------
(* A phone is a vendor's and a rider's at once only if two files of a      *)
(* person who was already a consumer were sent at the same time: for a new *)
(* phone the second transaction cannot create the user again.              *)
OneProfile == (\A w \in Profiles : row[w] # "none") => known = 1

(* A rider an admin accepted or suspended is not back in the review queue, *)
(* unless the decision fell between the read and the upsert of a file.     *)
DecisionStands ==
    (row["rider"] = "PENDING_REVIEW" /\ decidedBy["rider"] \notin {"none", "reject"})
        => late = 1

AlonePerson(w) == row[Other(w)] = "none"
Settled == Deciding = {} /\ disturbed = 0

(* A suspended account has no way in, whatever mix of decisions, files and *)
(* heartbeats led there, as long as decisions came one after the other,    *)
(* were not cut in two and the person has one profile: the key is shared.  *)
SuspendedIsBarred ==
    \A w \in Profiles :
        (row[w] = "SUSPENDED" /\ AlonePerson(w) /\ Settled) => revokedKey = 1

(* An active account is barred only if approve, which does not clear the   *)
(* key, made it active: after a suspension, or a rejection of a suspended  *)
(* row and a new file.                                                     *)
ActiveIsLetIn ==
    \A w \in Profiles :
        (row[w] = "ACTIVE" /\ AlonePerson(w) /\ Settled /\ revokedKey = 1)
           => decidedBy[w] = "approve"

(* A suspended vendor is closed and a suspended rider offline, except by   *)
(* the fraud decision or a write the account itself still had under way.   *)
SuspendedIsOffline ==
    \A w \in Profiles :
        (row[w] = "SUSPENDED" /\ live[w] = 1) => (decidedBy[w] = "fraud" \/ strayed[w] = 1)

(* A partner's standing, in the row, in the revocation key and in what     *)
(* consumers and dispatch see of it, agrees.                               *)
StandingSafe ==
    /\ OneProfile /\ DecisionStands
    /\ SuspendedIsBarred /\ ActiveIsLetIn /\ SuspendedIsOffline
=============================================================================
