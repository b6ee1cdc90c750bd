---------------------------- MODULE Notifications ----------------------------
(***************************************************************************)
(* Order notifications: an event puts a job on a BullMQ queue, and its     *)
(* processor tells the vendor by Web Push or else by WhatsApp, and the     *)
(* consumer by WhatsApp.  The vendor's one device renews or gives up its   *)
(* push subscription meanwhile.                                            *)
(***************************************************************************)
EXTENDS Naturals

CONSTANTS
    MaxAttempts,   \* DEFAULT_JOB_OPTS.attempts
    MaxEndpoints,  \* endpoints the device gets in turn (a model bound)
    MaxStalls      \* restarts of the worker (a model bound)

ASSUME NotificationAssumption ==
    MaxAttempts \in Nat \ {0} /\ MaxEndpoints \in Nat /\ MaxStalls \in Nat

VARIABLES
    endpoint,   \* of the push_subscriptions row; 0 if there is none
    newest,     \* the newest endpoint the device got
    deadEnds,   \* endpoints the push service has retired (404, 410)
    notice,     \* each job: where it is, its failed tries, the endpoint it listed
    pings,      \* what reached the addressee of each job
    mishap,     \* 1 once an answer was lost or the worker restarted under a job
    stalls,
    renewed,    \* 1 once the device subscribed anew while a push was out
    goneFresh   \* 1 once a row with a working endpoint was deleted as gone

pushRows == <<endpoint, newest, deadEnds>>
noticeGhosts == <<renewed, goneFresh>>
notificationVars == <<pushRows, notice, pings, mishap, stalls, noticeGhosts>>

Notices == {"vendorNewOrder", "consumerOrderRefused"}
NoticeStep == {"none", "queued", "push", "remove", "text", "sent", "done", "failed"}

NotificationTypeOK ==
    /\ endpoint \in 0..MaxEndpoints /\ newest \in 0..MaxEndpoints
    /\ deadEnds \subseteq 1..MaxEndpoints
    /\ notice \in [Notices -> [at : NoticeStep, tries : 0..MaxAttempts, listed : 0..MaxEndpoints]]
    /\ pings \in [Notices -> Nat] /\ mishap \in [Notices -> {0, 1}]
    /\ stalls \in 0..MaxStalls /\ renewed \in {0, 1} /\ goneFresh \in {0, 1}

NotificationInit ==
    /\ endpoint = 0 /\ newest = 0 /\ deadEnds = {}
    /\ notice = [n \in Notices |-> [at |-> "none", tries |-> 0, listed |-> 0]]
    /\ pings = [n \in Notices |-> 0] /\ mishap = [n \in Notices |-> 0]
    /\ stalls = 0 /\ renewed = 0 /\ goneFresh = 0

NoticeGoes(n, step) == notice' = [notice EXCEPT ![n].at = step]
Pinged(n) == pings' = [pings EXCEPT ![n] = @ + 1]
OutForPush == notice["vendorNewOrder"].at \in {"push", "remove"}

(* onOrderCreated, onOrderRefused: the job is added, or Redis is away and   *)
(* that is only logged.                                                    *)
Enqueue(n) ==
    /\ notice[n].at = "none"
    /\ NoticeGoes(n, "queued") \/ NoticeGoes(n, "failed")
    /\ UNCHANGED <<pushRows, pings, mishap, stalls, noticeGhosts>>

(* process: the vendor's subscriptions are listed first. *)
ProcessVendor(n) ==
    /\ n = "vendorNewOrder" /\ notice[n].at = "queued"
    /\ notice' = [notice EXCEPT ![n].listed = endpoint,
                                ![n].at = IF endpoint = 0 THEN "text" ELSE "push"]
    /\ UNCHANGED <<pushRows, pings, mishap, stalls, noticeGhosts>>

ProcessConsumer(n) ==
    /\ n = "consumerOrderRefused" /\ notice[n].at = "queued"
    /\ NoticeGoes(n, "text")
    /\ UNCHANGED <<pushRows, pings, mishap, stalls, noticeGhosts>>

(* Mutant: any failure of the push takes the row away. *)
SendToUser_AnyError(n) ==
    /\ notice[n].at = "push"
    /\ \/ notice[n].listed \notin deadEnds /\ Pinged(n) /\ NoticeGoes(n, "sent")
       \/ NoticeGoes(n, "remove") /\ UNCHANGED pings
    /\ UNCHANGED <<pushRows, mishap, stalls, noticeGhosts>>

(* sendToUser: delivered; 404 or 410; or a failure that is only logged. *)
SendToUser(n) ==
    /\ notice[n].at = "push"
    /\ \/ notice[n].listed \notin deadEnds /\ Pinged(n) /\ NoticeGoes(n, "sent")
       \/ notice[n].listed \in deadEnds /\ NoticeGoes(n, "remove") /\ UNCHANGED pings
       \/ notice[n].listed \notin deadEnds /\ NoticeGoes(n, "text") /\ UNCHANGED pings
    /\ UNCHANGED <<pushRows, mishap, stalls, noticeGhosts>>

(* deactivateById: the row, whatever endpoint it holds by now. *)
DeactivateById(n) ==
    /\ notice[n].at = "remove"
    /\ endpoint' = 0
    /\ goneFresh' = IF endpoint # 0 /\ endpoint \notin deadEnds THEN 1 ELSE goneFresh
    /\ NoticeGoes(n, "text")
    /\ UNCHANGED <<newest, deadEnds, pings, mishap, stalls, renewed>>

(* A job that throws is tried again, MaxAttempts times in all. *)
Throws(n) ==
    notice' = [notice EXCEPT ![n].tries = @ + 1,
                             ![n].at = IF notice[n].tries + 1 < MaxAttempts THEN "queued" ELSE "failed"]

(* sendWhatsApp: out, refused, or out with the answer lost. *)
SendWhatsApp(n) ==
    /\ notice[n].at = "text"
    /\ \/ Pinged(n) /\ NoticeGoes(n, "sent") /\ UNCHANGED mishap
       \/ Throws(n) /\ UNCHANGED <<pings, mishap>>
       \/ Pinged(n) /\ Throws(n) /\ mishap' = [mishap EXCEPT ![n] = 1]
    /\ UNCHANGED <<pushRows, stalls, noticeGhosts>>

(* No phone number: nothing is sent. *)
NoPhone(n) ==
    /\ notice[n].at = "text"
    /\ NoticeGoes(n, "done")
    /\ UNCHANGED <<pushRows, pings, mishap, stalls, noticeGhosts>>

(* Mutant: WhatsApp after a push that was delivered. *)
Completes_Both(n) ==
    /\ notice[n].at = "sent"
    /\ NoticeGoes(n, IF n = "vendorNewOrder" /\ pings[n] = 1 THEN "text" ELSE "done")
    /\ UNCHANGED <<pushRows, pings, mishap, stalls, noticeGhosts>>

(* One channel is enough: the handler returns and the job is done. *)
Completes(n) ==
    /\ notice[n].at = "sent"
    /\ NoticeGoes(n, "done")
    /\ UNCHANGED <<pushRows, pings, mishap, stalls, noticeGhosts>>

(* The worker restarts: BullMQ hands the stalled job out again. *)
NoticeStalls(n) ==
    /\ notice[n].at \in {"push", "remove", "text", "sent"} /\ stalls < MaxStalls
    /\ NoticeGoes(n, "queued")
    /\ mishap' = [mishap EXCEPT ![n] = 1]
    /\ stalls' = stalls + 1
    /\ UNCHANGED <<pushRows, pings, noticeGhosts>>

-----------------------------------------------------------------------------
(* upsert by user and device: the row is kept, the endpoint replaced. *)
Subscribe ==
    /\ newest < MaxEndpoints
    /\ newest' = newest + 1 /\ endpoint' = newest + 1
    /\ renewed' = IF OutForPush THEN 1 ELSE renewed
    /\ UNCHANGED <<deadEnds, notice, pings, mishap, stalls, goneFresh>>

(* deactivateByEndpoint *)
Unsubscribe ==
    /\ endpoint # 0 /\ endpoint' = 0
    /\ UNCHANGED <<newest, deadEnds, notice, pings, mishap, stalls, noticeGhosts>>

EndpointRetires ==
    /\ newest \notin deadEnds /\ newest # 0
    /\ deadEnds' = deadEnds \cup {newest}
    /\ UNCHANGED <<endpoint, newest, notice, pings, mishap, stalls, noticeGhosts>>

NotificationNext ==
    \/ \E n \in Notices :
         \/ Enqueue(n) \/ ProcessVendor(n) \/ ProcessConsumer(n)
         \/ SendToUser(n) \/ DeactivateById(n) \/ SendWhatsApp(n) \/ NoPhone(n)
         \/ Completes(n) \/ NoticeStalls(n)
    \/ Subscribe \/ Unsubscribe \/ EndpointRetires

NotificationSpec == NotificationInit /\ [][NotificationNext]_notificationVars

-----------------------------------------------------------------------------
(* "Mutually exclusive so we never double-ping": two messages about one    *)
(* order take a lost answer or a restart in the middle of the job.         *)
NeverDoublePinged == \A n \in Notices : pings[n] > 1 => mishap[n] = 1

(* A subscription is given up only for an endpoint that is gone, unless    *)
(* the device renewed it while the push to the old endpoint was out: the   *)
(* row is deleted by its id, with the new endpoint in it.                  *)
FreshIsKept == goneFresh = 1 => renewed = 1

(* A job that gave up was tried MaxAttempts times, or never reached Redis. *)
GivesUpLast == \A n \in Notices :
    notice[n].at = "failed" => notice[n].tries \in {0, MaxAttempts}

NotificationsSafe == NeverDoublePinged /\ FreshIsKept /\ GivesUpLast
=============================================================================
