--------------------------- MODULE OrderLifecycle ---------------------------
(***************************************************************************)
(* The life of an Order row, from placement to delivery.                   *)
(*                                                                         *)
(* Every handler of the API that writes Order.status, paymentStatus,       *)
(* riderId, acceptanceDeadlineAt or an OrderItem runs as an asynchronous   *)
(* function of one Node process: it reads the row, awaits, and writes the  *)
(* row later.  A handler is therefore two actions here: XxxRead takes the  *)
(* snapshot and applies the early returns, XxxWrite applies the SQL write  *)
(* with the WHERE clause the code gives it (updateMany with a status       *)
(* filter) or without one (update by id).  Workers is the set of handler   *)
(* invocations that can be in flight at the same time.                     *)
(*                                                                         *)
(* Money is not counted here: ledger[o] counts the ledger transactions of  *)
(* each kind written for o, and emitted[o] the domain events, both         *)
(* saturating at Many.  A finance snapshot (commissionXAF, riderShareXAF,  *)
(* platformFeeXAF) is written by the same UPDATE as the PAYMENT_RECEIVED   *)
(* ledger pair, so "the snapshot is not null" is ledger[o].payment > 0.    *)
(***************************************************************************)
EXTENDS Naturals, FiniteSets

CONSTANTS
    Orders,       \* order ids
    PreOrders,    \* the orders with scheduledFor set
    Discounted,   \* the orders with discountXAF > 0
    Items,        \* the OrderItems of each order
    Riders,       \* riders the dispatch query may return
    NoRider,      \* riderId IS NULL
    Workers,      \* handler invocations that may be in flight together
    MaxRetries,   \* MAX_RETRIES of dispatch.service.ts
    EarlyAccept,  \* may the vendor decide on a row that is not paid yet?
    Redelivered,  \* the orders whose dispatch jobs BullMQ may run once more
    MaxCrashes    \* how often the Node process may restart (model bound)

ASSUME OrdersAssumption ==
    /\ PreOrders \subseteq Orders
    /\ Discounted \subseteq Orders
ASSUME RidersAssumption == NoRider \notin Riders
ASSUME ItemsAssumption == Items # {}
ASSUME RetriesAssumption == MaxRetries \in Nat \ {0}
ASSUME SwitchesAssumption ==
    /\ EarlyAccept \in BOOLEAN
    /\ Redelivered \subseteq Orders
    /\ MaxCrashes \in Nat

VARIABLES
    status,     \* Order.status
    pay,        \* Order.paymentStatus
    rider,      \* Order.riderId
    deadline,   \* Order.acceptanceDeadlineAt IS NOT NULL
    prepared,   \* the OrderItems with preparedAt set
    suspended,  \* the riders whose account is SUSPENDED and JWTs revoked
    collect,    \* the consumer's current MoMo attempt, as Campay sees it
    jobs,       \* delayed jobs on the order-lifecycle queue
    attempts,   \* dispatch attempts waiting to run: 0 in memory, 1.. in BullMQ
    ledger,     \* how many ledger transactions of each kind o has
    emitted,    \* how many domain events of each kind were emitted for o
    req,        \* what each in-flight handler read
    crashes     \* restarts so far

row     == <<status, pay, rider, deadline, prepared, suspended>>
queues  == <<jobs, attempts>>
history == <<ledger, emitted>>
vars    == <<row, collect, queues, history, req, crashes>>

-----------------------------------------------------------------------------
Status == {"PENDING", "CONFIRMED", "ACCEPTED", "IN_PREP", "READY_PICKUP",
           "PICKED_UP", "DELIVERED", "CANCELLED", "REFUSED", "EXPIRED"}

PaymentStatus == {"PENDING", "PROCESSING", "PAID", "FAILED",
                  "REFUND_PENDING", "REFUNDED"}

(* VENDOR_CAN_DECIDE and CONSUMER_CAN_CANCEL are the same set. *)
Decidable == {"PENDING", "CONFIRMED"}

InKitchen == {"ACCEPTED", "IN_PREP"}

(* TERMINABLE of expireForNoRider, PICKUPABLE of markPickedUp. *)
Pickupable == {"ACCEPTED", "IN_PREP", "READY_PICKUP"}

(* What a saturating counter tells apart: none, one, more than one. *)
Many == 2
Count == 0..Many
Bump(n) == IF n < Many THEN n + 1 ELSE n

LedgerKind == {"payment", "delivery", "penalty", "adjustment"}
EventKind  == {"created", "accepted", "refused", "cancelled"}

(* The states of a MoMo attempt: no prompt; Campay called and the          *)
(* pay:order lock held; the USSD prompt is out and the reference stored;   *)
(* Campay reported success or failure.                                     *)
CollectState == {"idle", "calling", "prompted", "succeeded", "failed"}

LifecycleJob == {"aexp", "pop"}

Idle == [op |-> "idle"]

HandlerOp == {"accept", "refuse", "cancel", "expire", "setItem", "ready",
              "preCancel", "promoteJob", "promoteCron", "momo", "paySucceeded",
              "payFailed", "pickup", "deliver", "fraud", "fraudCompensate",
              "query", "claim", "giveUp", "expireNoRider"}

(* An in-flight handler: its name, its order, the status, paymentStatus    *)
(* and riderId it read, and for dispatch the attempt number and, once the  *)
(* query has returned, the candidate in place of the riderId.              *)
Call == [op : HandlerOp, o : Orders, st : Status, pay : PaymentStatus,
         n : 0..(MaxRetries - 1), r : Riders \cup {NoRider}]

(* The handlers that go on only with a rider in hand. *)
NeedsRider == {"claim", "pickup", "deliver", "fraud", "fraudCompensate"}

TypeOK ==
    /\ status   \in [Orders -> Status]
    /\ pay      \in [Orders -> PaymentStatus]
    /\ rider    \in [Orders -> Riders \cup {NoRider}]
    /\ deadline \in [Orders -> BOOLEAN]
    /\ prepared \in [Orders -> SUBSET Items]
    /\ suspended \subseteq Riders
    /\ collect  \in [Orders -> CollectState]
    /\ jobs     \in [Orders -> SUBSET LifecycleJob]
    /\ attempts \in [Orders -> SUBSET (0..(MaxRetries - 1))]
    /\ ledger   \in [Orders -> [LedgerKind -> Count]]
    /\ emitted  \in [Orders -> [EventKind -> Count]]
    /\ req      \in [Workers -> Call \cup {Idle}]
    /\ \A w \in Workers :
         req[w] # Idle /\ req[w].op \in NeedsRider => req[w].r \in Riders
    /\ crashes  \in 0..MaxCrashes

(* createOrder leaves every row PENDING / PENDING, unassigned and with a   *)
(* null deadline; the vendor's countdown only starts at payment.           *)
Init ==
    /\ status   = [o \in Orders |-> "PENDING"]
    /\ pay      = [o \in Orders |-> "PENDING"]
    /\ rider    = [o \in Orders |-> NoRider]
    /\ deadline = [o \in Orders |-> FALSE]
    /\ prepared = [o \in Orders |-> {}]
    /\ suspended = {}
    /\ collect  = [o \in Orders |-> "idle"]
    /\ jobs     = [o \in Orders |-> {}]
    /\ attempts = [o \in Orders |-> {}]
    /\ ledger   = [o \in Orders |-> [k \in LedgerKind |-> 0]]
    /\ emitted  = [o \in Orders |-> [k \in EventKind |-> 0]]
    /\ req      = [w \in Workers |-> Idle]
    /\ crashes  = 0

-----------------------------------------------------------------------------
(* Starting a handler: w reads the row of o and keeps what it saw. *)
Reads(w, op, o, n) ==
    /\ req[w] = Idle
    /\ req' = [req EXCEPT ![w] = [op |-> op, o |-> o, st |-> status[o],
                                  pay |-> pay[o], n |-> n, r |-> rider[o]]]

(* Finishing one: the handler returns or throws. *)
Returns(w) == req' = [req EXCEPT ![w] = Idle]

Running(w, op) == req[w] # Idle /\ req[w].op = op

Emits(o, k)  == emitted' = [emitted EXCEPT ![o][k] = Bump(@)]
Records(o, k) == ledger' = [ledger EXCEPT ![o][k] = Bump(@)]

HasFinanceSnapshot(o) == ledger[o]["payment"] > 0

(* Mutant: the payment-gated visibility filter is dropped. *)
VendorSees_Any(o) == TRUE

(* listVendorOrders shows the vendor PAID rows only; VENDOR_CAN_DECIDE     *)
(* still lets acceptOrder and refuseOrder through on a PENDING row         *)
(* ("a vendor seeing a stale PENDING row"), which EarlyAccept turns on.    *)
VendorSees(o) == EarlyAccept \/ pay[o] = "PAID"

(* queue.add with a fixed jobId; a failed enqueue is logged and swallowed. *)
Enqueues(o, j) == jobs' = [jobs EXCEPT ![o] = @ \cup {j}] \/ UNCHANGED jobs

-----------------------------------------------------------------------------
(* MoMo payment: PaymentsService and OrderPaymentLifecycleService.         *)

(* initiateMomo up to the Campay call.  The Redis lock is held from here   *)
(* to the end of the call: collect[o] = "calling".  That the call ends     *)
(* within the lock's TTL, and that the row is still payable when the lock  *)
(* is taken, is assumed here; MomoPayments takes the two apart.            *)
InitiateMomoRead(w, o) ==
    /\ status[o] = "PENDING"
    /\ pay[o] # "PROCESSING"
    /\ collect[o] # "calling"
    /\ Reads(w, "momo", o, 0)
    /\ collect' = [collect EXCEPT ![o] = "calling"]
    /\ UNCHANGED <<row, queues, history>>

(* The rest of it: order.update by id, whatever the row holds by now. *)
InitiateMomoWrite(w) ==
    /\ Running(w, "momo")
    /\ LET o == req[w].o IN
         /\ pay' = [pay EXCEPT ![o] = "PROCESSING"]
         /\ collect' = [collect EXCEPT ![o] = "prompted"]
    /\ Returns(w)
    /\ UNCHANGED <<status, rider, deadline, prepared, suspended, queues, history>>

(* Campay refused the collect: the lock is deleted, the row untouched. *)
InitiateMomoFail(w) ==
    /\ Running(w, "momo")
    /\ collect' = [collect EXCEPT ![req[w].o] = "idle"]
    /\ Returns(w)
    /\ UNCHANGED <<row, queues, history>>

(* A SUCCESSFUL webhook emits PAYMENT_SUCCEEDED; its listener reads the    *)
(* row.  Campay delivers at least once, hence also from "succeeded".       *)
OnPaymentSucceededRead(w, o) ==
    /\ collect[o] \in {"prompted", "succeeded"}
    /\ pay[o] # "PAID"
    /\ Reads(w, "paySucceeded", o, 0)
    /\ collect' = [collect EXCEPT ![o] = "succeeded"]
    /\ UNCHANGED <<row, queues, history>>

(* Mutant: order.update by id instead of the paymentStatus-guarded one. *)
OnPaymentSucceededWrite_Unguarded(w) ==
    /\ Running(w, "paySucceeded")
    /\ LET o == req[w].o IN
         /\ status' = [status EXCEPT ![o] = "CONFIRMED"]
         /\ pay' = [pay EXCEPT ![o] = "PAID"]
         /\ Records(o, "payment")
         /\ deadline' = [deadline EXCEPT ![o] = (o \notin PreOrders)]
         /\ UNCHANGED <<rider, prepared, suspended, queues, emitted>>
    /\ Returns(w)
    /\ UNCHANGED collect

(* The guarded update, the ledger pair, and the events and jobs of the     *)
(* immediate or of the pre-order flow.  The guard looks at paymentStatus,  *)
(* never at status.                                                        *)
OnPaymentSucceededWrite(w) ==
    /\ Running(w, "paySucceeded")
    /\ LET o == req[w].o IN
         IF pay[o] \notin {"PENDING", "PROCESSING"}
         THEN UNCHANGED <<row, queues, history>>
         ELSE /\ status' = [status EXCEPT ![o] = "CONFIRMED"]
              /\ pay' = [pay EXCEPT ![o] = "PAID"]
              /\ Records(o, "payment")
              /\ IF o \in PreOrders
                 THEN /\ Enqueues(o, "pop")
                      /\ UNCHANGED <<deadline, emitted>>
                 ELSE /\ deadline' = [deadline EXCEPT ![o] = TRUE]
                      /\ Emits(o, "created")
                      /\ Enqueues(o, "aexp")
              /\ UNCHANGED <<rider, prepared, suspended, attempts>>
    /\ Returns(w)
    /\ UNCHANGED collect

(* A FAILED or CANCELLED webhook: handleWebhook reads the row ...          *)
WebhookFailedRead(w, o) ==
    /\ collect[o] = "prompted"
    /\ pay[o] # "PAID"
    /\ Reads(w, "payFailed", o, 0)
    /\ collect' = [collect EXCEPT ![o] = "failed"]
    /\ UNCHANGED <<row, queues, history>>

(* ... and writes it by id, without a guard. *)
WebhookFailedWrite(w) ==
    /\ Running(w, "payFailed")
    /\ LET o == req[w].o IN
         /\ pay' = [pay EXCEPT ![o] = "FAILED"]
         /\ collect' = [collect EXCEPT ![o] = "idle"]
    /\ Returns(w)
    /\ UNCHANGED <<status, rider, deadline, prepared, suspended, queues, history>>

-----------------------------------------------------------------------------
(* The decision window: vendor, consumer, expiry job, expiry cron.         *)

AcceptOrderRead(w, o) ==
    /\ VendorSees(o)
    /\ status[o] \in Decidable
    /\ Reads(w, "accept", o, 0)
    /\ UNCHANGED <<row, collect, queues, history>>

(* Mutant: order.update by id, trusting the status read before. *)
AcceptOrderWrite_Unguarded(w) ==
    /\ Running(w, "accept")
    /\ LET o == req[w].o IN
         /\ status' = [status EXCEPT ![o] = "ACCEPTED"]
         /\ Emits(o, "accepted")
         /\ attempts' = [attempts EXCEPT ![o] = @ \cup {0}]
    /\ Returns(w)
    /\ UNCHANGED <<pay, rider, deadline, prepared, suspended, collect, jobs,
                   ledger>>

(* ORDER_ACCEPTED starts DispatchService.onOrderAccepted in memory, as     *)
(* attempt 0.                                                              *)
AcceptOrderWrite(w) ==
    /\ Running(w, "accept")
    /\ LET o == req[w].o IN
         IF status[o] \in Decidable
         THEN /\ status' = [status EXCEPT ![o] = "ACCEPTED"]
              /\ Emits(o, "accepted")
              /\ attempts' = [attempts EXCEPT ![o] = @ \cup {0}]
         ELSE UNCHANGED <<status, emitted, attempts>>
    /\ Returns(w)
    /\ UNCHANGED <<pay, rider, deadline, prepared, suspended, collect, jobs, ledger>>

RefuseOrderRead(w, o) ==
    /\ VendorSees(o)
    /\ status[o] \in Decidable
    /\ Reads(w, "refuse", o, 0)
    /\ UNCHANGED <<row, collect, queues, history>>

(* refuseOrder, expireVendorDecision and sweepExpired end in the same      *)
(* guarded update and the same event.                                      *)
RefuseWrite(w, op) ==
    /\ Running(w, op)
    /\ LET o == req[w].o IN
         IF status[o] \in Decidable
         THEN /\ status' = [status EXCEPT ![o] = "REFUSED"]
              /\ Emits(o, "refused")
         ELSE UNCHANGED <<status, emitted>>
    /\ Returns(w)
    /\ UNCHANGED <<pay, rider, deadline, prepared, suspended, collect, queues, ledger>>

RefuseOrderWrite(w) == RefuseWrite(w, "refuse")

CancelOrderRead(w, o) ==
    /\ o \notin PreOrders
    /\ status[o] \in Decidable
    /\ Reads(w, "cancel", o, 0)
    /\ UNCHANGED <<row, collect, queues, history>>

CancelOrderWrite(w) ==
    /\ Running(w, "cancel")
    /\ LET o == req[w].o IN
         IF status[o] \in Decidable
         THEN /\ status' = [status EXCEPT ![o] = "CANCELLED"]
              /\ Emits(o, "cancelled")
         ELSE UNCHANGED <<status, emitted>>
    /\ Returns(w)
    /\ UNCHANGED <<pay, rider, deadline, prepared, suspended, collect, queues, ledger>>

(* The delayed aexp job fires.  A job whose order has left the window is   *)
(* consumed without effect.                                                *)
ExpireVendorDecisionRead(w, o) ==
    /\ "aexp" \in jobs[o]
    /\ IF status[o] \in Decidable
       THEN Reads(w, "expire", o, 0)
       ELSE req[w] = Idle /\ UNCHANGED req
    /\ jobs' = [jobs EXCEPT ![o] = @ \ {"aexp"}]
    /\ UNCHANGED <<row, collect, attempts, history>>

(* Mutant: the cron only looks at PENDING rows. *)
SweepExpiredRead_PendingOnly(w, o) ==
    /\ deadline[o]
    /\ status[o] = "PENDING"
    /\ Reads(w, "expire", o, 0)
    /\ UNCHANGED <<row, collect, queues, history>>

(* The ten-second cron: acceptanceDeadlineAt < now, which never holds for  *)
(* a null deadline and may hold at any time once it is set.                *)
SweepExpiredRead(w, o) ==
    /\ deadline[o]
    /\ status[o] \in Decidable
    /\ Reads(w, "expire", o, 0)
    /\ UNCHANGED <<row, collect, queues, history>>

ExpireVendorDecisionWrite(w) == RefuseWrite(w, "expire")

(* Eligibility of a pre-order for promotion, as both paths read it. *)
Promotable(o) ==
    /\ o \in PreOrders
    /\ status[o] = "CONFIRMED"
    /\ pay[o] = "PAID"
    /\ ~deadline[o]

(* The delayed pop job ... *)
PromotePreOrderRead(w, o) ==
    /\ "pop" \in jobs[o]
    /\ IF Promotable(o)
       THEN Reads(w, "promoteJob", o, 0)
       ELSE req[w] = Idle /\ UNCHANGED req
    /\ jobs' = [jobs EXCEPT ![o] = @ \ {"pop"}]
    /\ UNCHANGED <<row, collect, attempts, history>>

(* ... and the every-minute cron behind it. *)
PromotionSweepRead(w, o) ==
    /\ Promotable(o)
    /\ Reads(w, "promoteCron", o, 0)
    /\ UNCHANGED <<row, collect, queues, history>>

(* Mutant: update by id; the second of job and cron is not stopped. *)
PromoteWrite_Unguarded(w, op) ==
    /\ Running(w, op)
    /\ deadline' = [deadline EXCEPT ![req[w].o] = TRUE]
    /\ Emits(req[w].o, "created")
    /\ Returns(w)
    /\ UNCHANGED <<status, pay, rider, prepared, suspended, collect, queues,
                   ledger>>

(* Guarded by acceptanceDeadlineAt IS NULL only.  The job chains the       *)
(* expiry job, the cron does not.                                          *)
PromoteWrite(w, op) ==
    /\ Running(w, op)
    /\ LET o == req[w].o IN
         IF deadline[o]
         THEN UNCHANGED <<deadline, emitted, jobs>>
         ELSE /\ deadline' = [deadline EXCEPT ![o] = TRUE]
              /\ Emits(o, "created")
              /\ IF op = "promoteJob" THEN Enqueues(o, "aexp") ELSE UNCHANGED jobs
    /\ Returns(w)
    /\ UNCHANGED <<status, pay, rider, prepared, suspended, collect, attempts, ledger>>

PromotePreOrderWrite(w) == PromoteWrite(w, "promoteJob")
PromotionSweepWrite(w)  == PromoteWrite(w, "promoteCron")

-----------------------------------------------------------------------------
(* The kitchen: OrderVendorActionsService after acceptance.                *)

SetItemPreparedRead(w, o) ==
    /\ status[o] \in InKitchen
    /\ Reads(w, "setItem", o, 0)
    /\ UNCHANGED <<row, collect, queues, history>>

(* The item is toggled and the aggregate recomputed inside the             *)
(* transaction, but the status flip is decided on the status read before   *)
(* it and written by id.                                                   *)
SetItemPreparedWrite(w) ==
    /\ Running(w, "setItem")
    /\ LET o == req[w].o
           seen == req[w].st
       IN \E i \in Items, ready \in BOOLEAN :
            LET now  == IF ready THEN prepared[o] \cup {i} ELSE prepared[o] \ {i}
                next == CASE now # {} /\ seen = "ACCEPTED" -> "IN_PREP"
                          [] now = {} /\ seen = "IN_PREP"  -> "ACCEPTED"
                          [] OTHER -> seen
            IN /\ prepared' = [prepared EXCEPT ![o] = now]
               /\ status' = IF next # seen THEN [status EXCEPT ![o] = next]
                                           ELSE status
    /\ Returns(w)
    /\ UNCHANGED <<pay, rider, deadline, suspended, collect, queues, history>>

MarkOrderReadyRead(w, o) ==
    /\ status[o] \in InKitchen
    /\ prepared[o] = Items
    /\ Reads(w, "ready", o, 0)
    /\ UNCHANGED <<row, collect, queues, history>>

MarkOrderReadyWrite(w) ==
    /\ Running(w, "ready")
    /\ LET o == req[w].o IN
         status' = IF status[o] \in InKitchen
                   THEN [status EXCEPT ![o] = "READY_PICKUP"] ELSE status
    /\ Returns(w)
    /\ UNCHANGED <<pay, rider, deadline, prepared, suspended, collect, queues, history>>

VendorCancelPreOrderRead(w, o) ==
    /\ o \in PreOrders
    /\ status[o] \in InKitchen
    /\ Reads(w, "preCancel", o, 0)
    /\ UNCHANGED <<row, collect, queues, history>>

(* Mutant: VendorPenalty.orderId without its unique constraint. *)
VendorCancelPreOrderWrite_NotUnique(w) ==
    /\ Running(w, "preCancel")
    /\ LET o == req[w].o IN
         IF status[o] \in InKitchen
         THEN /\ status' = [status EXCEPT ![o] = "CANCELLED"]
              /\ pay' = [pay EXCEPT ![o] = "REFUND_PENDING"]
              /\ Records(o, "penalty")
              /\ Emits(o, "cancelled")
         ELSE UNCHANGED <<status, pay, history>>
    /\ Returns(w)
    /\ UNCHANGED <<rider, deadline, prepared, suspended, collect, queues>>

(* One transaction: order flip, REFUND_PENDING, VendorPenalty row, ledger  *)
(* pair.  VendorPenalty.orderId is unique, so a second penalty rolls the   *)
(* whole transaction back.  (So would a penalty of zero, which the ledger  *)
(* refuses: totals are taken to be large enough for it not to round down.) *)
VendorCancelPreOrderWrite(w) ==
    /\ Running(w, "preCancel")
    /\ LET o == req[w].o IN
         IF status[o] \in InKitchen /\ ledger[o]["penalty"] = 0
         THEN /\ status' = [status EXCEPT ![o] = "CANCELLED"]
              /\ pay' = [pay EXCEPT ![o] = "REFUND_PENDING"]
              /\ Records(o, "penalty")
              /\ Emits(o, "cancelled")
         ELSE UNCHANGED <<status, pay, history>>
    /\ Returns(w)
    /\ UNCHANGED <<rider, deadline, prepared, suspended, collect, queues>>

-----------------------------------------------------------------------------
(* Dispatch: DispatchService.tryDispatch and its BullMQ retries.           *)

(* Attempt n starts.  It stops at once when a rider is set or the order    *)
(* is CANCELLED or EXPIRED.  A redelivered BullMQ job stays in the queue   *)
(* and runs again.                                                         *)
TryDispatchRead(w, o, n) ==
    /\ n \in attempts[o]
    /\ IF rider[o] = NoRider /\ status[o] \notin {"CANCELLED", "EXPIRED"}
       THEN Reads(w, "query", o, n)
       ELSE req[w] = Idle /\ UNCHANGED req
    /\ \/ attempts' = [attempts EXCEPT ![o] = @ \ {n}]
       \/ o \in Redelivered /\ n > 0 /\ UNCHANGED attempts
    /\ UNCHANGED <<row, collect, jobs, history>>

(* dispatchOrder's SQL query: an ACTIVE rider, online and in range.  Who   *)
(* is online and near is not modelled, so any of them may be returned.     *)
DispatchQuery(w) ==
    /\ Running(w, "query")
    /\ rider[req[w].o] = NoRider
    /\ \E r \in Riders \ suspended :
         req' = [req EXCEPT ![w].op = "claim", ![w].r = r]
    /\ UNCHANGED <<row, collect, queues, history>>

(* Mutant: the claim without WHERE riderId IS NULL. *)
DispatchClaim_Unguarded(w) ==
    /\ Running(w, "claim")
    /\ rider' = [rider EXCEPT ![req[w].o] = req[w].r]
    /\ Returns(w)
    /\ UNCHANGED <<status, pay, deadline, prepared, suspended, collect,
                   queues, history>>

(* Mutant: tryDispatch misses the return after a successful assignment. *)
DispatchClaim_FallsThrough(w) ==
    /\ Running(w, "claim")
    /\ rider[req[w].o] = NoRider
    /\ rider' = [rider EXCEPT ![req[w].o] = req[w].r]
    /\ req' = [req EXCEPT ![w].op = "giveUp"]
    /\ UNCHANGED <<status, pay, deadline, prepared, suspended, collect,
                   queues, history>>

(* The claim: UPDATE ... WHERE riderId IS NULL. *)
DispatchClaim(w) ==
    /\ Running(w, "claim")
    /\ rider[req[w].o] = NoRider
    /\ rider' = [rider EXCEPT ![req[w].o] = req[w].r]
    /\ Returns(w)
    /\ UNCHANGED <<status, pay, deadline, prepared, suspended, collect,
                   queues, history>>

(* Mutant: attempt <= MAX_RETRIES - 1 schedules one attempt too many. *)
DispatchMiss_OffByOne(w) ==
    /\ Running(w, "query")
    /\ attempts' = [attempts EXCEPT ![req[w].o] = @ \cup {req[w].n + 1}]
    /\ Returns(w)
    /\ UNCHANGED <<row, collect, jobs, history>>

(* Mutant: the retry is enqueued with the number of the attempt that ran. *)
DispatchMiss_SameAttempt(w) ==
    /\ Running(w, "query")
    /\ attempts' = [attempts EXCEPT ![req[w].o] = @ \cup {req[w].n}]
    /\ Returns(w)
    /\ UNCHANGED <<row, collect, jobs, history>>

(* dispatchOrder returned null: no candidate, or riderId is already set    *)
(* (the early return, or RACE_LOST at the claim).  Schedule the next       *)
(* attempt, or give up after the last one.                                 *)
DispatchMiss(w) ==
    /\ \/ Running(w, "query")
       \/ Running(w, "claim") /\ rider[req[w].o] # NoRider
    /\ LET o == req[w].o
           n == req[w].n
       IN IF n < MaxRetries - 1
          THEN /\ attempts' = [attempts EXCEPT ![o] = @ \cup {n + 1}]
               /\ Returns(w)
          ELSE /\ req' = [req EXCEPT ![w].op = "giveUp", ![w].r = NoRider]
               /\ UNCHANGED attempts
    /\ UNCHANGED <<row, collect, jobs, history>>

(* expireForNoRider reads status and paymentStatus (not riderId) ...       *)
ExpireForNoRiderRead(w) ==
    /\ Running(w, "giveUp")
    /\ LET o == req[w].o IN
         req' = [req EXCEPT ![w] =
                   IF status[o] \in Pickupable
                   THEN [op |-> "expireNoRider", o |-> o, st |-> status[o],
                         pay |-> pay[o], n |-> @.n, r |-> NoRider]
                   ELSE Idle]
    /\ UNCHANGED <<row, collect, queues, history>>

(* ... and writes by id: EXPIRED, and REFUNDED if it had read PAID. *)
ExpireForNoRiderWrite(w) ==
    /\ Running(w, "expireNoRider")
    /\ LET o == req[w].o IN
         /\ status' = [status EXCEPT ![o] = "EXPIRED"]
         /\ pay' = IF req[w].pay = "PAID" THEN [pay EXCEPT ![o] = "REFUNDED"]
                                          ELSE pay
         /\ Emits(o, "cancelled")
    /\ Returns(w)
    /\ UNCHANGED <<rider, deadline, prepared, suspended, collect, queues, ledger>>

-----------------------------------------------------------------------------
(* The rider: RidersService, and the admin's fraud resolution.             *)

(* The caller is the assigned rider, and the JWT guard lets him in. *)
RiderCalls(o) == rider[o] # NoRider /\ rider[o] \notin suspended

(* Mutant: PICKUPABLE lets a rider rescan a delivered order. *)
MarkPickedUpRead_Delivered(w, o) ==
    /\ RiderCalls(o)
    /\ status[o] \in Pickupable \cup {"DELIVERED"}
    /\ Reads(w, "pickup", o, 0)
    /\ UNCHANGED <<row, collect, queues, history>>

MarkPickedUpRead(w, o) ==
    /\ RiderCalls(o)
    /\ status[o] \in Pickupable
    /\ Reads(w, "pickup", o, 0)
    /\ UNCHANGED <<row, collect, queues, history>>

(* order.update by id, without a status guard. *)
MarkPickedUpWrite(w) ==
    /\ Running(w, "pickup")
    /\ status' = [status EXCEPT ![req[w].o] = "PICKED_UP"]
    /\ Returns(w)
    /\ UNCHANGED <<pay, rider, deadline, prepared, suspended, collect, queues, history>>

MarkDeliveredRead(w, o) ==
    /\ RiderCalls(o)
    /\ status[o] = "PICKED_UP"
    /\ HasFinanceSnapshot(o)
    /\ Reads(w, "deliver", o, 0)
    /\ UNCHANGED <<row, collect, queues, history>>

(* Guarded on PICKED_UP; the ledger transaction does not balance for a     *)
(* discounted order, so recordTransaction throws and the update rolls      *)
(* back.                                                                   *)
MarkDeliveredWrite(w) ==
    /\ Running(w, "deliver")
    /\ LET o == req[w].o IN
         IF status[o] = "PICKED_UP" /\ o \notin Discounted
         THEN /\ status' = [status EXCEPT ![o] = "DELIVERED"]
              /\ Records(o, "delivery")
         ELSE UNCHANGED <<status, ledger>>
    /\ Returns(w)
    /\ UNCHANGED <<pay, rider, deadline, prepared, suspended, collect, queues, emitted>>

(* resolveRiderFraud, without or with the vendor's compensation, which     *)
(* needs the finance snapshot.  The rider is suspended or only warned; the *)
(* warning lowers reliabilityScore, which no decision of the code reads.   *)
ResolveRiderFraudRead(w, o) ==
    /\ status[o] = "PICKED_UP"
    /\ rider[o] # NoRider
    /\ \/ Reads(w, "fraud", o, 0)
       \/ HasFinanceSnapshot(o) /\ Reads(w, "fraudCompensate", o, 0)
    /\ UNCHANGED <<row, collect, queues, history>>

ResolveRiderFraudWrite(w) ==
    /\ Running(w, "fraud") \/ Running(w, "fraudCompensate")
    /\ LET o == req[w].o IN
         IF status[o] = "PICKED_UP"
         THEN /\ status' = [status EXCEPT ![o] = "CANCELLED"]
              /\ \/ UNCHANGED pay
                 \/ /\ req[w].pay = "PAID"
                    /\ pay' = [pay EXCEPT ![o] = "REFUND_PENDING"]
              /\ IF req[w].op = "fraudCompensate" THEN Records(o, "adjustment")
                                                  ELSE UNCHANGED ledger
              /\ suspended' = suspended \cup {req[w].r} \/ UNCHANGED suspended
         ELSE UNCHANGED <<status, pay, ledger, suspended>>
    /\ Returns(w)
    /\ UNCHANGED <<rider, deadline, prepared, collect, queues, emitted>>

(* Admin suspension and its lifting, and the JWT revocation with it. *)
SuspendRider(r) ==
    /\ suspended' = suspended \cup {r}
    /\ UNCHANGED <<status, pay, rider, deadline, prepared, collect, queues,
                   history, req>>

UnsuspendRider(r) ==
    /\ r \in suspended
    /\ suspended' = suspended \ {r}
    /\ UNCHANGED <<status, pay, rider, deadline, prepared, collect, queues,
                   history, req>>

-----------------------------------------------------------------------------
(* The process restarts: every in-flight handler is gone, and so is an     *)
(* ORDER_ACCEPTED listener that had not started.  Redis keeps the queues;  *)
(* the payment lock runs out.                                              *)
Crash ==
    /\ crashes < MaxCrashes
    /\ crashes' = crashes + 1
    /\ req' = [w \in Workers |-> Idle]
    /\ attempts' = [o \in Orders |-> attempts[o] \ {0}]
    /\ collect' = [o \in Orders |-> IF collect[o] = "calling" THEN "idle"
                                                              ELSE collect[o]]
    /\ UNCHANGED <<row, jobs, history>>

(* Handlers started by people and by Campay. *)
ClientRead(w, o) ==
    \/ InitiateMomoRead(w, o)
    \/ OnPaymentSucceededRead(w, o)
    \/ WebhookFailedRead(w, o)
    \/ AcceptOrderRead(w, o)
    \/ RefuseOrderRead(w, o)
    \/ CancelOrderRead(w, o)
    \/ SetItemPreparedRead(w, o)
    \/ MarkOrderReadyRead(w, o)
    \/ VendorCancelPreOrderRead(w, o)
    \/ MarkPickedUpRead(w, o)
    \/ MarkDeliveredRead(w, o)
    \/ ResolveRiderFraudRead(w, o)

(* Handlers started by crons, queues and listeners. *)
SystemRead(w, o) ==
    \/ ExpireVendorDecisionRead(w, o)
    \/ SweepExpiredRead(w, o)
    \/ PromotePreOrderRead(w, o)
    \/ PromotionSweepRead(w, o)
    \/ \E n \in 0..(MaxRetries - 1) : TryDispatchRead(w, o, n)

(* The continuation of a handler that has read its row. *)
Continue(w) ==
    \/ InitiateMomoWrite(w)
    \/ InitiateMomoFail(w)
    \/ OnPaymentSucceededWrite(w)
    \/ WebhookFailedWrite(w)
    \/ AcceptOrderWrite(w)
    \/ RefuseOrderWrite(w)
    \/ CancelOrderWrite(w)
    \/ ExpireVendorDecisionWrite(w)
    \/ PromotePreOrderWrite(w)
    \/ PromotionSweepWrite(w)
    \/ SetItemPreparedWrite(w)
    \/ MarkOrderReadyWrite(w)
    \/ VendorCancelPreOrderWrite(w)
    \/ DispatchQuery(w)
    \/ DispatchClaim(w)
    \/ DispatchMiss(w)
    \/ ExpireForNoRiderRead(w)
    \/ ExpireForNoRiderWrite(w)
    \/ MarkPickedUpWrite(w)
    \/ MarkDeliveredWrite(w)
    \/ ResolveRiderFraudWrite(w)

Next ==
    \/ \E w \in Workers :
         /\ Continue(w) \/ \E o \in Orders : ClientRead(w, o) \/ SystemRead(w, o)
         /\ UNCHANGED crashes
    \/ \E r \in Riders :
         /\ SuspendRider(r) \/ UnsuspendRider(r)
         /\ UNCHANGED crashes
    \/ Crash

Spec == Init /\ [][Next]_vars

(* Node runs every continuation whose await has completed, every timer of  *)
(* a cron and every job of a queue: a continuation is never delayed for    *)
(* ever, and the crons, the retry jobs and the ORDER_ACCEPTED listener     *)
(* are never passed over for ever because other requests keep the bounded  *)
(* pool of Workers busy (the pool is an artefact of the model).  Nothing   *)
(* is assumed of the consumer, the vendor, the rider, Campay or the        *)
(* delayed aexp and pop jobs, whose enqueue may have failed.               *)
Fairness ==
    /\ \A w \in Workers : WF_vars(Continue(w) /\ UNCHANGED crashes)
    /\ \A o \in Orders :
         /\ SF_vars(\E w \in Workers : SweepExpiredRead(w, o) /\ UNCHANGED crashes)
         /\ SF_vars(\E w \in Workers : PromotionSweepRead(w, o) /\ UNCHANGED crashes)
         /\ SF_vars(\E w \in Workers, n \in 0..(MaxRetries - 1) :
                      TryDispatchRead(w, o, n) /\ UNCHANGED crashes)

FairSpec == Spec /\ Fairness

-----------------------------------------------------------------------------
(* What holds under every interleaving of the handlers, as long as the     *)
(* vendor only acts on orders listVendorOrders shows (~EarlyAccept).       *)

(* The vendor's decision is taken once: accept, refuse, the expiry job and *)
(* the expiry cron race for the row, the loser emits nothing, and no later *)
(* write reopens the window.                                               *)
OneVendorDecision ==
    \A o \in Orders : emitted[o]["accepted"] + emitted[o]["refused"] <= 1

(* However often Campay delivers the SUCCESSFUL webhook, and however many  *)
(* attempts the consumer makes, the payment is booked into escrow once,    *)
(* and a row that says PAID was booked.                                    *)
PaymentBookedOnce ==
    \A o \in Orders :
        /\ ledger[o]["payment"] <= 1
        /\ pay[o] = "PAID" => ledger[o]["payment"] = 1

(* No kitchen, no dispatch and no delivery for an order whose money was    *)
(* never booked into escrow.                                               *)
WorkOnlyIfPaid ==
    \A o \in Orders :
        status[o] \notin {"PENDING", "CANCELLED"} => ledger[o]["payment"] = 1

(* The vendor is alerted (ORDER_CREATED) once per order: at payment for an *)
(* immediate order, at promotion for a pre-order, whichever of the delayed *)
(* job and the cron gets there first.                                      *)
VendorAlertedOnce == \A o \in Orders : emitted[o]["created"] <= 1

(* A vendor is charged the pre-order penalty at most once, and never       *)
(* without the consumer's refund having been queued; a refund is only      *)
(* queued, or recorded as done, for an order that was paid.                *)
PenaltyAndRefundAgree ==
    \A o \in Orders :
        /\ ledger[o]["penalty"] <= 1
        /\ ledger[o]["penalty"] = 1 => pay[o] \in {"REFUND_PENDING", "REFUNDED"}
        /\ pay[o] \in {"REFUND_PENDING", "REFUNDED"} => ledger[o]["payment"] = 1

(* An order given up for lack of a rider has none: expireForNoRider does   *)
(* not look at riderId, the single chain of attempts is what protects it,  *)
(* and a job that BullMQ runs twice forks the chain.                       *)
ExpiredWithoutRider ==
    \A o \in Orders \ Redelivered : status[o] = "EXPIRED" => rider[o] = NoRider

(* A rider, once assigned, is never replaced or dropped by a concurrent    *)
(* dispatch attempt.                                                       *)
RiderKept ==
    [][\A o \in Orders : rider[o] # NoRider => rider'[o] = rider[o]]_vars

(* A paid order does not wait for the vendor for ever: the cron refuses it *)
(* when the vendor and the delayed job do nothing.                         *)
PaidOrderIsDecided ==
    \A o \in Orders : status[o] = "CONFIRMED" ~> status[o] # "CONFIRMED"

(* An accepted order gets a rider, or is given up, or leaves the kitchen   *)
(* some other way: the chain of dispatch attempts never breaks silently.   *)
(* Only a restart can break it, because the first attempt is in memory.    *)
AcceptedIsDispatched ==
    \A o \in Orders :
        (status[o] \in Pickupable /\ rider[o] = NoRider)
            ~> (rider[o] # NoRider \/ status[o] \notin Pickupable \/ crashes > 0)

-----------------------------------------------------------------------------
(* What comments of the repository say and the code does not do.           *)

(* schema.prisma calls DELIVERED a terminal status. *)
DeliveredIsFinal ==
    [][\A o \in Orders : status[o] = "DELIVERED" => status'[o] = "DELIVERED"]_vars

(* schema.prisma calls CANCELLED a terminal status. *)
CancelledIsFinal ==
    [][\A o \in Orders : status[o] = "CANCELLED" => status'[o] = "CANCELLED"]_vars

(* docs/DISPATCH.md promises an "automatic refund if paid" when no rider   *)
(* is found.  Only RefundProcessor sends refunds, those REFUND_PENDING: an *)
(* order that becomes REFUNDED was queued for it.                          *)
RefundIsSent ==
    [][\A o \in Orders : pay'[o] = "REFUNDED" => pay[o] \in {"REFUND_PENDING", "REFUNDED"}]_vars

-----------------------------------------------------------------------------
(* Why the safety properties hold: an inductive invariant, in parts.       *)

Booked(o) == ledger[o]["payment"] = 1
Funded == {"PAID", "REFUND_PENDING", "REFUNDED"}
ChainOp == {"query", "claim", "giveUp", "expireNoRider"}

(* A worker that has started op for o and has not written yet. *)
Busy(w, op, o) == req[w] # Idle /\ req[w].op = op /\ req[w].o = o

(* paymentStatus and the escrow booking move together, the booking comes   *)
(* first of all that follows it, and a MoMo attempt that is still open     *)
(* holds the row in PROCESSING, which keeps a second one out.              *)
MoneyInv ==
    \A o \in Orders :
        /\ ledger[o]["payment"] <= 1
        /\ pay[o] \in Funded <=> Booked(o)
        /\ Booked(o) => collect[o] = "succeeded" /\ status[o] # "PENDING"
        /\ status[o] \notin {"PENDING", "CANCELLED"} => Booked(o)
        /\ deadline[o] \/ "aexp" \in jobs[o] \/ attempts[o] # {} => Booked(o)
        /\ collect[o] \in {"prompted", "failed"} => pay[o] = "PROCESSING"
        /\ collect[o] = "succeeded" /\ ~Booked(o) => pay[o] = "PROCESSING"

(* What an in-flight handler may rely on although it wrote nothing yet.    *)
(* The two unguarded payment writes are alone on their order.              *)
CallInv ==
    \A w \in Workers :
        req[w] # Idle =>
        LET o  == req[w].o
            op == req[w].op
        IN /\ op \notin {"momo", "paySucceeded", "payFailed", "cancel"} => Booked(o)
           /\ op = "momo" => collect[o] = "calling"
           /\ op = "paySucceeded" => collect[o] = "succeeded"
           /\ op = "payFailed" => collect[o] = "failed"
           /\ op \in {"promoteJob", "promoteCron"} => o \in PreOrders
           /\ op \in {"momo", "payFailed"} =>
                \A v \in Workers \ {w} : ~Busy(v, op, o)

(* An open decision window has seen no decision, and an unpaid order none. *)
DecisionInv ==
    \A o \in Orders :
        /\ emitted[o]["accepted"] + emitted[o]["refused"] <= 1
        /\ status[o] \in Decidable =>
             emitted[o]["accepted"] = 0 /\ emitted[o]["refused"] = 0
        /\ ~Booked(o) => emitted[o]["accepted"] = 0 /\ emitted[o]["refused"] = 0

(* The alert of a pre-order sets the deadline that stops the next one, the *)
(* alert of an immediate order comes with its booking.                     *)
AlertInv ==
    \A o \in Orders :
        /\ emitted[o]["created"] <= 1
        /\ emitted[o]["created"] > 0 => IF o \in PreOrders THEN deadline[o]
                                                          ELSE Booked(o)

PenaltyInv ==
    \A o \in Orders :
        /\ ledger[o]["penalty"] <= 1
        /\ ledger[o]["penalty"] = 1 => pay[o] \in {"REFUND_PENDING", "REFUNDED"}

(* w is at a dispatch attempt for o. *)
InChain(w, o) == req[w] # Idle /\ req[w].o = o /\ req[w].op \in ChainOp

(* No dispatch attempt is waiting or running for o. *)
ChainOver(o) == attempts[o] = {} /\ \A w \in Workers : ~InChain(w, o)

(* Without redelivery the attempts of an order form one chain: one number  *)
(* waiting or one worker at it, started by the acceptance, ended for good  *)
(* by an assignment or by expireForNoRider.                                *)
ChainInv ==
    \A o \in Orders \ Redelivered :
        /\ \A m, n \in attempts[o] : m = n
        /\ \A w \in Workers : InChain(w, o) =>
             attempts[o] = {} /\ \A v \in Workers \ {w} : ~InChain(v, o)
        /\ emitted[o]["accepted"] = 0 => ChainOver(o)
        /\ rider[o] # NoRider => ChainOver(o) /\ emitted[o]["accepted"] > 0
        /\ status[o] = "EXPIRED" =>
             ChainOver(o) /\ emitted[o]["accepted"] > 0 /\ rider[o] = NoRider

(* Every part of it is needed by another part's induction step: the        *)
(* decision is unique because the booking is, the booking because a MoMo   *)
(* attempt holds the row, the chain because the decision is unique.        *)
IndInv == MoneyInv /\ CallInv /\ DecisionInv /\ AlertInv /\ PenaltyInv
=============================================================================
