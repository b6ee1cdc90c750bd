---------------------------- MODULE MomoPayments ----------------------------
(***************************************************************************)
(* One order's mobile-money payment: PaymentsService, the pay:order lock,  *)
(* the Campay webhook dedup table and the PAYMENT_SUCCEEDED listener,      *)
(* against a payment provider that answers late, calls back early, twice   *)
(* or with a status that is not final, and a process that may restart.     *)
(*                                                                         *)
(* OrderLifecycle takes a MoMo attempt as one unit; here every attempt has *)
(* its own Campay reference, and every await is a step.  An attempt a is   *)
(* both the initiateMomo call and the reference Campay issues for it.      *)
(* Locks, dedup rows and webhooks are keyed by order or by reference, so   *)
(* the orders do not interact and one is enough.                           *)
(***************************************************************************)
EXTENDS Naturals, FiniteSets

CONSTANTS
    Attempts,      \* initiateMomo calls (bounds how often the consumer tries)
    NoAttempt,     \* no lock holder, no paymentReference
    MaxPayCrashes  \* process restarts (model bound)

ASSUME AttemptsAssumption == IsFiniteSet(Attempts)
ASSUME NoAttemptAssumption == NoAttempt \notin Attempts
ASSUME PayCrashesAssumption == MaxPayCrashes \in Nat

VARIABLES
    orderStatus,  \* Order.status, as far as payment goes
    payStatus,    \* Order.paymentStatus
    reference,    \* Order.paymentReference
    lock,         \* who set pay:order:<id>, None when the key is gone
    payCall,      \* where each initiateMomo call is
    collect,      \* what Campay knows of each collect
    payDedup,     \* the references with a campay_webhook_events row
    payHook,      \* the webhook that inserted that row: its status and step
    bookings,     \* PAYMENT_RECEIVED ledger transactions
    mishaps,      \* what went wrong so far outside this process
    payCrashes    \* restarts so far

payRow   == <<orderStatus, payStatus, reference>>
trouble  == <<mishaps, payCrashes>>
momoVars == <<payRow, lock, payCall, collect, payDedup, payHook, bookings, trouble>>

CallStep == {"idle", "checked", "calling", "stored", "over"}
Collect  == {"none", "prompted", "paid", "refused"}
PayHookStep == {"none", "first", "emitted", "booking", "failing", "over"}
(* A Campay call outlasted PAY_LOCK_TTL_SECONDS; Campay accepted a collect *)
(* whose HTTP answer was lost; a webhook came before the reference was     *)
(* stored; a webhook came with a status that is not final.                 *)
Mishap == {"slowCall", "lostAnswer", "earlyHook", "pendingHook"}
Happens(S) == mishaps' = mishaps \cup S

HookStatus == {"PENDING", "SUCCESSFUL", "FAILED"}

MomoTypeOK ==
    /\ orderStatus \in {"PENDING", "CONFIRMED", "CANCELLED"}
    /\ payStatus \in {"PENDING", "PROCESSING", "PAID", "FAILED"}
    /\ reference \in Attempts \cup {NoAttempt}
    /\ lock \in Attempts \cup {NoAttempt}
    /\ payCall \in [Attempts -> CallStep]
    /\ collect \in [Attempts -> Collect]
    /\ payDedup \subseteq Attempts
    /\ payHook \in [Attempts -> [at : PayHookStep, st : HookStatus]]
    /\ bookings \in 0..Cardinality(Attempts)
    /\ mishaps \subseteq Mishap
    /\ payCrashes \in 0..MaxPayCrashes

MomoInit ==
    /\ orderStatus = "PENDING" /\ payStatus = "PENDING" /\ reference = NoAttempt
    /\ lock = NoAttempt
    /\ payCall = [a \in Attempts |-> "idle"]
    /\ collect = [a \in Attempts |-> "none"]
    /\ payDedup = {}
    /\ payHook = [a \in Attempts |-> [at |-> "none", st |-> "PENDING"]]
    /\ bookings = 0
    /\ mishaps = {} /\ payCrashes = 0

-----------------------------------------------------------------------------
(* initiateMomo *)

(* The row is read and found payable. *)
CheckOrder(a) ==
    /\ payCall[a] = "idle"
    /\ orderStatus = "PENDING"
    /\ payStatus # "PROCESSING"
    /\ payCall' = [payCall EXCEPT ![a] = "checked"]
    /\ UNCHANGED <<payRow, lock, collect, payDedup, payHook, bookings, trouble>>

(* Mutant: setNX's answer is not looked at. *)
AcquirePayLock_Ignored(a) ==
    /\ payCall[a] = "checked"
    /\ lock' = a
    /\ payCall' = [payCall EXCEPT ![a] = "calling"]
    /\ UNCHANGED <<payRow, collect, payDedup, payHook, bookings, trouble>>

(* setNX; the loser answers payment_already_processing. *)
AcquirePayLock(a) ==
    /\ payCall[a] = "checked"
    /\ \/ /\ lock = NoAttempt
          /\ lock' = a
          /\ payCall' = [payCall EXCEPT ![a] = "calling"]
       \/ /\ lock # NoAttempt
          /\ payCall' = [payCall EXCEPT ![a] = "over"]
          /\ UNCHANGED lock
    /\ UNCHANGED <<payRow, collect, payDedup, payHook, bookings, trouble>>

(* The key's TTL runs out.  Nothing else removes it after a success, and a *)
(* paid or pending row keeps the next call out by then, unless someone who *)
(* checked the row earlier is still on his way.                            *)
PayLockExpires ==
    /\ lock # NoAttempt
    /\ lock' = NoAttempt
    /\ Happens(IF \E a \in Attempts : payCall[a] \in {"checked", "calling"}
               THEN {"slowCall"} ELSE {})
    /\ UNCHANGED <<payRow, payCall, collect, payDedup, payHook, bookings, payCrashes>>

(* initiateCollect reached Campay, which prompts the payer. *)
CampayPrompts(a) ==
    /\ payCall[a] = "calling"
    /\ collect[a] = "none"
    /\ collect' = [collect EXCEPT ![a] = "prompted"]
    /\ UNCHANGED <<payRow, lock, payCall, payDedup, payHook, bookings, trouble>>

(* Mutant: paymentReference is left out of the update. *)
StoreCollect_NotStored(a) ==
    /\ payCall[a] = "calling"
    /\ collect[a] # "none"
    /\ payStatus' = "PROCESSING"
    /\ payCall' = [payCall EXCEPT ![a] = "stored"]
    /\ UNCHANGED <<orderStatus, reference, lock, collect, payDedup, payHook, bookings, trouble>>

(* Its answer is back: order.update by id, without a guard.  The lock is   *)
(* left to its TTL.                                                        *)
StoreCollect(a) ==
    /\ payCall[a] = "calling"
    /\ collect[a] # "none"
    /\ payStatus' = "PROCESSING"
    /\ reference' = a
    /\ payCall' = [payCall EXCEPT ![a] = "stored"]
    /\ UNCHANGED <<orderStatus, lock, collect, payDedup, payHook, bookings, trouble>>

(* initiateCollect threw: the key is deleted, whoever set it. *)
CollectFails(a) ==
    /\ payCall[a] = "calling"
    /\ lock' = NoAttempt
    /\ payCall' = [payCall EXCEPT ![a] = "over"]
    /\ Happens(IF collect[a] = "none" THEN {} ELSE {"lostAnswer"})
    /\ UNCHANGED <<payRow, collect, payDedup, payHook, bookings, payCrashes>>

(* cancelOrder by the consumer: a guarded update of status alone. *)
CancelOrder ==
    /\ orderStatus \in {"PENDING", "CONFIRMED"}
    /\ orderStatus' = "CANCELLED"
    /\ UNCHANGED <<payStatus, reference, lock, payCall, collect, payDedup, payHook, bookings, trouble>>

-----------------------------------------------------------------------------
(* The payer answers the prompt, at Campay. *)
PayerAnswers(a) ==
    /\ collect[a] = "prompted"
    /\ \E answer \in {"paid", "refused"} : collect' = [collect EXCEPT ![a] = answer]
    /\ UNCHANGED <<payRow, lock, payCall, payDedup, payHook, bookings, trouble>>

(* The status Campay reports for a collect; CANCELLED is treated as FAILED *)
(* throughout.                                                             *)
Reported(a) == CASE collect[a] = "paid"    -> "SUCCESSFUL"
                 [] collect[a] = "refused" -> "FAILED"
                 [] OTHER                 -> "PENDING"

(* handleWebhook, step 0: the dedup insert.  A second webhook of the same  *)
(* reference, whatever its status, ends here without effect.  The redis    *)
(* lock of step 1 is keyed by the reference too, so it is always free.     *)
PayWebhookFirst(a) ==
    /\ collect[a] # "none"
    /\ a \notin payDedup
    /\ payDedup' = payDedup \cup {a}
    /\ payHook' = [payHook EXCEPT ![a] = [at |-> "first", st |-> Reported(a)]]
    /\ Happens((IF payCall[a] = "calling" THEN {"earlyHook"} ELSE {})
                \cup (IF Reported(a) = "PENDING" THEN {"pendingHook"} ELSE {}))
    /\ UNCHANGED <<payRow, lock, payCall, collect, bookings, payCrashes>>

(* Mutant: whatever is not a failure counts as paid. *)
FindCollect_NotFailed(a) ==
    /\ payHook[a].at = "first"
    /\ payHook' = [payHook EXCEPT ![a].at =
                 CASE reference = a /\ payHook[a].st # "FAILED" -> "emitted"
                   [] reference = a /\ payHook[a].st = "FAILED" /\ payStatus # "PAID" -> "failing"
                   [] OTHER -> "over"]
    /\ UNCHANGED <<payRow, lock, payCall, collect, payDedup, bookings, trouble>>

(* Mutant: the order is looked up by its code alone. *)
FindCollect_ByCode(a) ==
    /\ payHook[a].at = "first"
    /\ payHook' = [payHook EXCEPT ![a].at =
                 CASE payHook[a].st = "SUCCESSFUL" -> "emitted"
                   [] payHook[a].st = "FAILED" /\ payStatus # "PAID" -> "failing"
                   [] OTHER -> "over"]
    /\ UNCHANGED <<payRow, lock, payCall, collect, payDedup, bookings, trouble>>

(* Mutant: a FAILED webhook is ignored like a PENDING one. *)
FindCollect_FailedIgnored(a) ==
    /\ payHook[a].at = "first"
    /\ payHook' = [payHook EXCEPT ![a].at =
                 IF reference = a /\ payHook[a].st = "SUCCESSFUL" THEN "emitted"
                                                               ELSE "over"]
    /\ UNCHANGED <<payRow, lock, payCall, collect, payDedup, bookings, trouble>>

(* Steps 2 and 3: the order whose paymentReference this is, then by the    *)
(* reported status.  An unknown reference (no_match) and a PENDING status  *)
(* end here, with the dedup row in place.                                  *)
FindCollect(a) ==
    /\ payHook[a].at = "first"
    /\ payHook' = [payHook EXCEPT ![a].at =
                 CASE reference = a /\ payHook[a].st = "SUCCESSFUL" -> "emitted"
                   [] reference = a /\ payHook[a].st = "FAILED" /\ payStatus # "PAID" -> "failing"
                   [] OTHER -> "over"]
    /\ UNCHANGED <<payRow, lock, payCall, collect, payDedup, bookings, trouble>>

(* Mutant: the payload's own status is written. *)
MarkFailed_PayloadStatus(a) ==
    /\ payHook[a].at = "failing"
    /\ payStatus' = "CANCELLED"
    /\ payHook' = [payHook EXCEPT ![a].at = "over"]
    /\ UNCHANGED <<orderStatus, reference, lock, payCall, collect, payDedup, bookings, trouble>>

(* The FAILED branch's order.update by id. *)
MarkFailed(a) ==
    /\ payHook[a].at = "failing"
    /\ payStatus' = "FAILED"
    /\ payHook' = [payHook EXCEPT ![a].at = "over"]
    /\ UNCHANGED <<orderStatus, reference, lock, payCall, collect, payDedup, bookings, trouble>>

(* onPaymentSucceeded reads the row ...                                    *)
ReadPaidOrder(a) ==
    /\ payHook[a].at = "emitted"
    /\ payHook' = [payHook EXCEPT ![a].at = IF payStatus = "PAID" THEN "over" ELSE "booking"]
    /\ UNCHANGED <<payRow, lock, payCall, collect, payDedup, bookings, trouble>>

(* ... and books it under the paymentStatus guard.                         *)
BookPayment(a) ==
    /\ payHook[a].at = "booking"
    /\ payHook' = [payHook EXCEPT ![a].at = "over"]
    /\ IF payStatus \in {"PENDING", "PROCESSING"}
       THEN /\ orderStatus' = "CONFIRMED"
            /\ payStatus' = "PAID"
            /\ reference' = a
            /\ bookings' = bookings + 1
       ELSE UNCHANGED <<payRow, bookings>>
    /\ UNCHANGED <<lock, payCall, collect, payDedup, trouble>>

(* A restart: the calls and webhooks in flight are gone, the row, the      *)
(* dedup rows and the lock are not.                                        *)
PaymentRestart ==
    /\ payCrashes < MaxPayCrashes
    /\ payCrashes' = payCrashes + 1
    /\ payCall' = [a \in Attempts |-> IF payCall[a] \in {"checked", "calling"} THEN "over"
                                                                       ELSE payCall[a]]
    /\ payHook' = [a \in Attempts |-> IF payHook[a].at = "none" THEN payHook[a]
                                   ELSE [payHook[a] EXCEPT !.at = "over"]]
    /\ UNCHANGED <<payRow, lock, collect, payDedup, bookings, mishaps>>

Handler(a) ==
    \/ AcquirePayLock(a) \/ CampayPrompts(a) \/ StoreCollect(a) \/ CollectFails(a)
    \/ FindCollect(a) \/ MarkFailed(a) \/ ReadPaidOrder(a) \/ BookPayment(a)

MomoNext ==
    \/ \E a \in Attempts : CheckOrder(a) \/ Handler(a) \/ PayerAnswers(a)
                           \/ PayWebhookFirst(a)
    \/ PayLockExpires
    \/ CancelOrder
    \/ PaymentRestart

MomoSpec == MomoInit /\ [][MomoNext]_momoVars

(* Node finishes the handlers it started; Campay delivers at least one     *)
(* webhook once the collect is settled.  Nobody has to pay or to retry.    *)
MomoFairness ==
    \A a \in Attempts :
        /\ WF_momoVars(Handler(a))
        /\ WF_momoVars(PayWebhookFirst(a) /\ collect[a] \in {"paid", "refused"})

MomoFairSpec == MomoSpec /\ MomoFairness

-----------------------------------------------------------------------------
(* "Don't fire a second USSD prompt": while one collect of the order is    *)
(* open or paid, no other one is, unless a call outlasted the lock, lost   *)
(* its answer, or died with the process.                                   *)
OnePromptAtATime ==
    \/ mishaps \cap {"slowCall", "lostAnswer"} # {}
    \/ payCrashes > 0
    \/ \A a, b \in Attempts :
          collect[a] \in {"prompted", "paid"} /\ collect[b] \in {"prompted", "paid"}
              => a = b

(* The order is booked for exactly the collect the consumer paid: at most  *)
(* one booking, only for a paid collect, and PAID stands for it.  Only a   *)
(* call slower than the lock can upset this.                               *)
BookedAsPaid ==
    \/ "slowCall" \in mishaps
    \/ /\ bookings <= Cardinality({a \in Attempts : collect[a] = "paid"})
       /\ bookings <= 1
       /\ payStatus = "PAID" => /\ bookings = 1
                          /\ reference # NoAttempt
                          /\ collect[reference] = "paid"

(* No late answer and no failed attempt takes PAID away again, unless a    *)
(* call was slower than the lock.                                          *)
PaidStays == [][payStatus = "PAID" => payStatus' = "PAID" \/ "slowCall" \in mishaps]_momoVars

(* "The order flips to CONFIRMED + PAID once Campay's webhook lands": a    *)
(* paid collect is recorded, unless something went wrong on the way.       *)
PaidIsRecorded ==
    \A a \in Attempts :
        collect[a] = "paid" ~> (payStatus = "PAID" \/ mishaps # {} \/ payCrashes > 0)

(* A refused prompt does not block the order, the consumer can try again,  *)
(* unless something went wrong on the way.                                 *)
RefusedIsReleased ==
    \A a \in Attempts :
        (collect[a] = "refused" /\ reference = a)
            ~> (payStatus # "PROCESSING" \/ reference # a \/ mishaps # {} \/ payCrashes > 0)

(* "Other statuses (PENDING) are no-ops - we wait for the terminal one":   *)
(* a PENDING webhook does not keep a paid collect from being recorded.     *)
PendingIsNoOp ==
    \A a \in Attempts :
        collect[a] = "paid" ~> (payStatus = "PAID" \/ mishaps \ {"pendingHook"} # {}
                                           \/ payCrashes > 0)

-----------------------------------------------------------------------------
(* Why the safety properties hold: what is true until a call outlasts the  *)
(* lock, in parts.                                                         *)

(* A call at Campay holds the lock, and the row is free for it; a free     *)
(* lock means that the row is still what a waiting call has seen.          *)
PayLockInv ==
    \A a \in Attempts :
        /\ payCall[a] = "calling" => lock = a
        /\ payCall[a] = "calling" \/ (payCall[a] = "checked" /\ lock = NoAttempt)
              => payStatus \in {"PENDING", "FAILED"}

(* The row names the collect it stands for, and stands for its outcome.    *)
PayRowInv ==
    /\ payStatus = "PENDING" <=> reference = NoAttempt
    /\ reference # NoAttempt => payCall[reference] = "stored"
    /\ payStatus \in {"PAID", "FAILED"} => payHook[reference].at = "over"
    /\ payStatus = "PAID" => collect[reference] = "paid" /\ orderStatus # "PENDING"
    /\ payStatus = "FAILED" => collect[reference] = "refused"
    /\ bookings = IF payStatus = "PAID" THEN 1 ELSE 0

(* A webhook has its dedup row and reports what Campay knows, and one that *)
(* is about to write belongs to the row.                                   *)
PayHookInv ==
    \A a \in Attempts :
        /\ payHook[a].at # "none" => a \in payDedup
        /\ payHook[a].at # "none" /\ payHook[a].st = "SUCCESSFUL" => collect[a] = "paid"
        /\ payHook[a].at # "none" /\ payHook[a].st = "FAILED" => collect[a] = "refused"
        /\ payHook[a].at \in {"emitted", "booking", "failing"}
              => reference = a /\ payStatus = "PROCESSING"
        /\ payHook[a].at \in {"emitted", "booking"} => collect[a] = "paid"
        /\ payHook[a].at = "failing" => collect[a] = "refused"

MomoInv == "slowCall" \in mishaps \/ (PayLockInv /\ PayRowInv /\ PayHookInv)

(* An open or paid collect is the one the row, or the call at Campay,      *)
(* stands for.                                                             *)
PromptInv ==
    \/ mishaps \cap {"slowCall", "lostAnswer"} # {}
    \/ payCrashes > 0
    \/ \A a \in Attempts :
          collect[a] \in {"prompted", "paid"} => payCall[a] = "calling" \/ reference = a
=============================================================================
